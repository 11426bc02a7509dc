----------------------------- MODULE Dashboard -----------------------------
(***************************************************************************)
(* `columbus view` (internal/tui with cli/ui.go): the messages the event   *)
(* loop handles one at a time, and the commands it has started, which run  *)
(* in goroutines and answer in any order.                                  *)
(*                                                                         *)
(* A store is a version, which every commit raises.  A snapshot is three   *)
(* reads (the index metadata, the memories, the vector count), between     *)
(* which others may commit.  All goroutines share one pooled connection    *)
(* (store.go:39): the transaction of a reindex keeps it, and the event     *)
(* loop itself waits for it when a key opens the detail of a memory.       *)
(*                                                                         *)
(* An operator named for a slip is a faulty variant of the definition      *)
(* after it; the properties are checked to fail when it takes its place.   *)
(***************************************************************************)
EXTENDS Integers, Sequences, FiniteSets

CONSTANTS
    Memories,   \* how many memories each version of the store has
    MaxVersion, \* bound: commits
    MaxTasks,   \* bound: commands in flight
    MaxFails    \* bound: commands that fail

Version == 1..MaxVersion
Task == 1..MaxTasks

ASSUME DashboardAssumption ==
    /\ MaxVersion \in Nat \ {0}
    /\ MaxTasks \in Nat \ {0}
    /\ MaxFails \in Nat
    /\ Memories \in [Version -> Nat]

VARIABLES
    version,    \* of the store
    tasks,      \* the commands in flight
    ticking,    \* whether a refresh tick is pending
    spinning,   \* whether a spinner tick is pending
    ui,         \* tui.Model
    waiting,    \* what the event loop opens once it has the connection
    fails       \* commands that have failed (bound)

vars == <<version, tasks, ticking, spinning, ui, waiting, fails>>

\* A command: what it does, how far it is, and for a load the version each read saw.
Command == [kind : {"load", "search", "reindex"},
            stage : {"run", "tx", "ok", "failed"},
            seen : Seq(Version)]
NoTask == [kind |-> "none", stage |-> "none", seen |-> <<>>]
Started(kind) == [kind |-> kind, stage |-> "run", seen |-> <<>>]

InFlight(kind) == \E t \in Task : tasks[t].kind = kind
ConnectionFree == \A t \in Task : tasks[t].stage # "tx"

\* The slot of the next command.
Slot(t) == tasks[t] = NoTask /\ \A s \in Task : s < t => tasks[s] # NoTask
Launch(kind) == \E t \in Task : Slot(t) /\ tasks' = [tasks EXCEPT ![t] = Started(kind)]

----------------------------------------------------------------------------
(* The model of the event loop: pure functions of it. *)

\* tui.Model: snap is empty or what the three reads saw, rows and cursor are the table's.
Model ==
    [sized : BOOLEAN, loading : BOOLEAN, reindexing : BOOLEAN, searching : BOOLEAN,
     searchActive : BOOLEAN, showResults : BOOLEAN, showDetail : BOOLEAN,
     fromResults : BOOLEAN, confirmQuit : BOOLEAN,
     snap : {seen \in Seq(Version) : Len(seen) \in {0, 3}},
     rows : Nat, cursor : Int, quit : BOOLEAN]
NewModel ==
    [sized |-> FALSE, loading |-> TRUE, reindexing |-> FALSE, searching |-> FALSE,
     searchActive |-> FALSE, showResults |-> FALSE, showDetail |-> FALSE,
     fromResults |-> FALSE, confirmQuit |-> FALSE,
     snap |-> <<>>, rows |-> 0, cursor |-> 0, quit |-> FALSE]

ModalOpen(u) == u.searchActive \/ u.showResults \/ u.showDetail \/ u.confirmQuit
Busy(u) == u.loading \/ u.reindexing \/ u.searching

\* The memories of the snapshot.
Mems(u) == IF u.snap = <<>> THEN 0 ELSE Memories[u.snap[2]]

\* Where the table's SetCursor leaves the cursor that clampCursor asks for.
ClampCursor(cursor, n) ==
    IF n = 0 THEN -1 ELSE IF cursor < 0 THEN 0 ELSE IF cursor >= n THEN n - 1 ELSE cursor

RebuildKeepingCursor(u) == IF u.sized THEN [u EXCEPT !.rows = Mems(u)] ELSE u
Rebuild(u) ==
    IF u.sized
    THEN [u EXCEPT !.rows = Mems(u), !.cursor = ClampCursor(u.cursor, Mems(u))]
    ELSE u

\* Who owns a key, and which box is drawn: the order of handleKey and that of View.
KeyOwner(u) ==
    IF u.searchActive THEN "search"
    ELSE IF u.confirmQuit THEN "quit"
    ELSE IF u.showResults THEN "results"
    ELSE IF u.showDetail THEN "detail" ELSE "table"
Shown(u) ==
    IF u.confirmQuit THEN "quit"
    ELSE IF u.searchActive THEN "search"
    ELSE IF u.showResults THEN "results"
    ELSE IF u.showDetail THEN "detail" ELSE "table"

\* Escape.
EscKeepsOrigin(u) ==
    CASE KeyOwner(u) = "search" -> [u EXCEPT !.searchActive = FALSE]
      [] KeyOwner(u) = "quit" -> [u EXCEPT !.confirmQuit = FALSE]
      [] KeyOwner(u) = "results" -> [u EXCEPT !.showResults = FALSE]
      [] KeyOwner(u) = "detail" ->
            [u EXCEPT !.showDetail = u.fromResults, !.showResults = u.fromResults]
      [] OTHER -> u
Esc(u) ==
    CASE KeyOwner(u) = "search" -> [u EXCEPT !.searchActive = FALSE]
      [] KeyOwner(u) = "quit" -> [u EXCEPT !.confirmQuit = FALSE]
      [] KeyOwner(u) = "results" -> [u EXCEPT !.showResults = FALSE]
      [] KeyOwner(u) = "detail" ->
            [u EXCEPT !.showDetail = FALSE, !.fromResults = FALSE,
                      !.showResults = u.fromResults]
      [] OTHER -> u

\* Enter on a row, and on a search result.
OpenDetail(u) == [u EXCEPT !.showDetail = TRUE, !.fromResults = FALSE]
OpenHitDetail(u) ==
    [u EXCEPT !.showResults = FALSE, !.showDetail = TRUE, !.fromResults = TRUE]

\* What a command's answer does to the model.
Snapshot(u, seen) == Rebuild([u EXCEPT !.loading = FALSE, !.snap = seen])
SearchResultTakesOver(u) ==
    [u EXCEPT !.searching = FALSE, !.showResults = TRUE, !.showDetail = FALSE]
SearchResult(u) == [u EXCEPT !.searching = FALSE, !.showResults = TRUE]
Failed(u, kind) ==
    [u EXCEPT !.loading = IF kind = "search" THEN u.loading ELSE FALSE,
              !.searching = IF kind = "search" THEN FALSE ELSE u.searching,
              !.reindexing = IF kind = "reindex" THEN FALSE ELSE u.reindexing]

----------------------------------------------------------------------------
(* The event loop. *)

\* It handles a message, unless it has stopped or waits for the connection.
Handling == ~ui.quit /\ waiting = "none"

Init ==
    /\ version = 1
    /\ tasks = [t \in Task |-> IF t = 1 THEN Started("load") ELSE NoTask]
    /\ ticking = TRUE
    /\ spinning = TRUE
    /\ ui = NewModel
    /\ waiting = "none"
    /\ fails = 0

Resize ==
    /\ Handling
    /\ ui' = Rebuild([ui EXCEPT !.sized = TRUE])
    /\ UNCHANGED <<version, tasks, ticking, spinning, waiting, fails>>

Key == Handling /\ UNCHANGED <<version, ticking, fails>>

\* A key whose handler only changes the model.
Press(u) ==
    /\ Key
    /\ ui' = u
    /\ UNCHANGED <<tasks, spinning, waiting>>

\* Outside the search box and the confirmation the shortcuts come first.
Shortcut == KeyOwner(ui) \in {"results", "detail", "table"}

\* The program exits, and the commands in flight with it.
Quit ==
    /\ Handling
    /\ ui' = [NewModel EXCEPT !.loading = FALSE, !.quit = TRUE]
    /\ tasks' = [t \in Task |-> NoTask]
    /\ ticking' = FALSE
    /\ spinning' = FALSE
    /\ UNCHANGED <<version, waiting, fails>>
CtrlC == Quit
ConfirmQuit == KeyOwner(ui) = "quit" /\ Quit

Escape == Press(Esc(ui))
SubmitEmptyQuery == KeyOwner(ui) = "search" /\ Press([ui EXCEPT !.searchActive = FALSE])
SubmitQuery ==
    /\ KeyOwner(ui) = "search"
    /\ Key
    /\ ui' = [ui EXCEPT !.searchActive = FALSE, !.searching = TRUE]
    /\ Launch("search")
    /\ spinning' = TRUE
    /\ UNCHANGED waiting
AskQuit == Shortcut /\ Press([ui EXCEPT !.confirmQuit = TRUE])
ToggleHelp == Shortcut /\ Press(Rebuild(ui))
OpenSearch == Shortcut /\ Press([ui EXCEPT !.searchActive = TRUE])

RefreshKey ==
    /\ Shortcut /\ ~ui.reindexing
    /\ Key
    /\ ui' = [ui EXCEPT !.loading = TRUE]
    /\ Launch("load")
    /\ spinning' = TRUE
    /\ UNCHANGED waiting

ReindexKeyWithoutSpinner ==
    /\ Shortcut /\ ~ui.reindexing /\ ~ui.loading
    /\ Key
    /\ ui' = [ui EXCEPT !.reindexing = TRUE]
    /\ Launch("reindex")
    /\ UNCHANGED <<spinning, waiting>>
ReindexKey ==
    /\ Shortcut /\ ~ui.reindexing /\ ~ui.loading
    /\ Key
    /\ ui' = [ui EXCEPT !.reindexing = TRUE]
    /\ Launch("reindex")
    /\ spinning' = TRUE
    /\ UNCHANGED waiting

\* Enter on what is selected reads the store (Source.Detail) inside the handler: the
\* loop is held until the connection is free.  A hit of code needs no read, and no hit at all opens nothing.
EnterRow ==
    /\ KeyOwner(ui) = "table"
    /\ ui.cursor \in 0..(Mems(ui) - 1)
    /\ Key
    /\ waiting' = "row"
    /\ UNCHANGED <<tasks, spinning, ui>>
EnterHit ==
    /\ KeyOwner(ui) = "results"
    /\ \/ Press(OpenHitDetail(ui))
       \/ /\ Key
          /\ waiting' = "hit"
          /\ UNCHANGED <<tasks, spinning, ui>>
Opened ==
    /\ waiting # "none"
    /\ ConnectionFree
    /\ ui' = IF waiting = "row" THEN OpenDetail(ui) ELSE OpenHitDetail(ui)
    /\ waiting' = "none"
    /\ UNCHANGED <<version, tasks, ticking, spinning, fails>>

\* The arrows; the table's own update leaves -1 in an empty table.
MoveCursor ==
    /\ KeyOwner(ui) = "table"
    /\ \E c \in IF ui.rows = 0 THEN {-1} ELSE 0..(ui.rows - 1) :
          Press([ui EXCEPT !.cursor = c])

RefreshTickOnce ==
    /\ Handling /\ ticking
    /\ IF Busy(ui) \/ ModalOpen(ui) THEN UNCHANGED <<tasks, ticking>>
       ELSE Launch("load") /\ ticking' = FALSE
    /\ UNCHANGED <<version, spinning, ui, waiting, fails>>
RefreshTick ==
    /\ Handling /\ ticking
    /\ IF Busy(ui) \/ ModalOpen(ui) THEN UNCHANGED tasks ELSE Launch("load")
    /\ ticking' = TRUE
    /\ UNCHANGED <<version, spinning, ui, waiting, fails>>

SpinnerTick ==
    /\ Handling /\ spinning
    /\ spinning' = Busy(ui)
    /\ UNCHANGED <<version, tasks, ticking, ui, waiting, fails>>

\* The answer of a command.
Deliver(t) ==
    LET cmd == tasks[t] IN
    /\ Handling
    /\ cmd.stage \in {"ok", "failed"}
    /\ \/ cmd.stage = "failed" /\ ui' = Failed(ui, cmd.kind)
       \/ cmd.stage = "ok" /\ cmd.kind = "load" /\ ui' = Snapshot(ui, cmd.seen)
       \/ cmd.stage = "ok" /\ cmd.kind = "search" /\ ui' = SearchResult(ui)
       \/ cmd.stage = "ok" /\ cmd.kind = "reindex" /\ ui' = [ui EXCEPT !.reindexing = FALSE]
    /\ tasks' = [tasks EXCEPT
          ![t] = IF cmd.kind = "reindex" /\ cmd.stage = "ok" THEN Started("load") ELSE NoTask]
    /\ UNCHANGED <<version, ticking, spinning, waiting, fails>>

----------------------------------------------------------------------------
(* The commands in flight, and the other processes of the project. *)

Working(t) == ~ui.quit /\ tasks[t].stage = "run"
Advance(t, cmd) ==
    /\ tasks' = [tasks EXCEPT ![t] = cmd]
    /\ UNCHANGED <<ticking, spinning, ui, waiting>>

\* StoreSource.Load: the next of its three reads.
ReadOneMore(t) ==
    LET seen == Append(tasks[t].seen, version) IN
    /\ Working(t) /\ tasks[t].kind = "load" /\ ConnectionFree
    /\ Advance(t, [tasks[t] EXCEPT !.seen = seen,
                                   !.stage = IF Len(seen) > 3 THEN "ok" ELSE "run"])
    /\ UNCHANGED <<version, fails>>
Read(t) ==
    LET seen == Append(tasks[t].seen, version) IN
    /\ Working(t) /\ tasks[t].kind = "load" /\ ConnectionFree
    /\ Advance(t, [tasks[t] EXCEPT !.seen = seen,
                                   !.stage = IF Len(seen) = 3 THEN "ok" ELSE "run"])
    /\ UNCHANGED <<version, fails>>

Search(t) ==
    /\ Working(t) /\ tasks[t].kind = "search" /\ ConnectionFree
    /\ Advance(t, [tasks[t] EXCEPT !.stage = "ok"])
    /\ UNCHANGED <<version, fails>>

\* Indexer.Run: the transaction takes the connection and the write lock.
BeginReindex(t) ==
    /\ Working(t) /\ tasks[t].kind = "reindex" /\ ConnectionFree
    /\ Advance(t, [tasks[t] EXCEPT !.stage = "tx"])
    /\ UNCHANGED <<version, fails>>
CommitReindex(t) ==
    /\ ~ui.quit /\ tasks[t].stage = "tx"
    /\ version' = IF version < MaxVersion THEN version + 1 ELSE version
    /\ Advance(t, [tasks[t] EXCEPT !.stage = "ok"])
    /\ UNCHANGED fails

\* Any command may fail: another process holds the lock, or the disk fails.
Fail(t) ==
    /\ ~ui.quit /\ tasks[t].stage \in {"run", "tx"}
    /\ fails < MaxFails
    /\ fails' = fails + 1
    /\ Advance(t, [tasks[t] EXCEPT !.stage = "failed", !.seen = <<>>])
    /\ UNCHANGED version

\* Another process commits; it needs the write lock.
Commit ==
    /\ ConnectionFree
    /\ version < MaxVersion
    /\ version' = version + 1
    /\ UNCHANGED <<tasks, ticking, spinning, ui, waiting, fails>>

Keys ==
    \/ CtrlC \/ Escape \/ SubmitEmptyQuery \/ SubmitQuery \/ ConfirmQuit
    \/ AskQuit \/ ToggleHelp \/ OpenSearch \/ RefreshKey \/ ReindexKey
    \/ EnterRow \/ EnterHit \/ MoveCursor

Progress(t) == Deliver(t) \/ Read(t) \/ Search(t) \/ BeginReindex(t) \/ CommitReindex(t)

Next ==
    \/ Resize \/ Keys \/ Opened \/ RefreshTick \/ SpinnerTick \/ Commit
    \/ \E t \in Task : Progress(t) \/ Fail(t)

\* The pool hands the connection out in order, and the runtime schedules every
\* goroutine: a command that can go on again and again goes on.  The event loop takes
\* every message; a tick waits here for a slot, hence the strong form.
Fairness ==
    /\ SF_vars(RefreshTick)
    /\ WF_vars(Opened)
    /\ \A t \in Task : SF_vars(Progress(t))

Spec == Init /\ [][Next]_vars /\ Fairness

----------------------------------------------------------------------------
(* Properties. *)

\* The variables have the types their comments name: a snapshot is of three reads.
TypeOK ==
    /\ version \in Version
    /\ tasks \in [Task -> Command \cup {NoTask}]
    /\ ticking \in BOOLEAN
    /\ spinning \in BOOLEAN
    /\ ui \in Model
    /\ waiting \in {"none", "row", "hit"}
    /\ fails \in 0..MaxFails

\* The dashboard is never busy for nothing: what each status in the header announces
\* is in flight and will clear it (model.go Update), the two keys that exclude each
\* other never overlap, and the spinner turns as long as there is something to wait for.
BusyIsPending ==
    /\ ui.loading => InFlight("load")
    /\ ui.searching => InFlight("search")
    /\ ui.reindexing <=> InFlight("reindex")
    /\ ~(ui.loading /\ ui.reindexing)
    /\ \A s, t \in Task : tasks[s].kind = "reindex" /\ tasks[t].kind = "reindex" => s = t
    /\ Busy(ui) => spinning

\* In whatever order sizes, snapshots and keys come, the table shows the memories of
\* the snapshot that Enter looks the selection up in, and the cursor is on one of them
\* if there is one (model.go rebuild, selectedMem).
TableShowsSnapshot ==
    ui.sized =>
        /\ ui.rows = Mems(ui)
        /\ ui.rows > 0 => ui.cursor \in 0..(ui.rows - 1)

\* The box on the screen is the one that gets the keys, and from any pile of boxes,
\* whatever answers arrived under it, Escape leads back to the table (handleKey, View).
EscLeadsHome ==
    /\ KeyOwner(ui) = Shown(ui)
    /\ ~ModalOpen(Esc(Esc(Esc(Esc(ui)))))

\* What happens in the background leaves the boxes alone, but for a search whose
\* results open theirs: no answer closes or opens another under the user's hands.
Boxes(u) == <<u.searchActive, u.confirmQuit, u.showDetail, u.fromResults>>
BackgroundKeepsBoxes ==
    [][ \A t \in Task : Progress(t) =>
          /\ Boxes(ui') = Boxes(ui)
          /\ ui'.showResults # ui.showResults =>
                tasks[t].kind = "search" /\ tasks[t].stage = "ok" /\ ui'.showResults ]_vars

\* Once nobody commits any more, a dashboard that is left on its table ends up showing
\* the store as it is, whatever order late snapshots came in.
SettlesOnStore ==
    <>[](~ModalOpen(ui) /\ ~ui.quit) => <>[](ui.snap = <<version, version, version>>)
=============================================================================
