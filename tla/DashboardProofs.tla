-------------------------- MODULE DashboardProofs --------------------------
(***************************************************************************)
(* The safety of the dashboard for any number of commits, commands in      *)
(* flight, failures and memories.                                          *)
(***************************************************************************)
EXTENDS Dashboard, TLAPS

\* What BusyIsPending and EscLeadsHome rest on together: the two boxes that are open
\* only alone are not open at once.
OneBox == ~(ui.searchActive /\ ui.confirmQuit)

\* A load that has ended well has done its three reads, and only a reindex is in a
\* transaction.
SeenOK ==
    \A t \in Task :
        /\ tasks[t].kind = "load" /\ tasks[t].stage = "ok" =>
              Len(tasks[t].seen) = 3
        /\ tasks[t].stage = "tx" => tasks[t].kind = "reindex"

IInv == TypeOK /\ BusyIsPending /\ TableShowsSnapshot /\ OneBox /\ SeenOK

\* The fields of the model that the commands in flight are about.
Pending(u) == <<u.loading, u.reindexing, u.searching>>

----------------------------------------------------------------------------
(* The pure functions. *)

LEMMA MemsIsNat ==
    ASSUME NEW u \in Model
    PROVE  Mems(u) \in Nat
<1> USE DashboardAssumption
<1>1. CASE u.snap = <<>>
  BY <1>1 DEF Mems
<1>2. CASE u.snap # <<>>
  <2>1. u.snap \in Seq(Version) /\ Len(u.snap) \in {0, 3}
    BY DEF Model
  <2>2. u.snap[2] \in Version
    BY <1>2, <2>1
  <2> QED BY <1>2, <2>2 DEF Mems
<1> QED BY <1>1, <1>2

LEMMA ClampCursorInRows ==
    ASSUME NEW c \in Int, NEW n \in Nat
    PROVE  /\ ClampCursor(c, n) \in Int
           /\ n > 0 => ClampCursor(c, n) \in 0..(n - 1)
BY DEF ClampCursor

LEMMA RebuildShowsSnapshot ==
    ASSUME NEW u \in Model
    PROVE  /\ Rebuild(u) \in Model
           /\ Pending(Rebuild(u)) = Pending(u)
           /\ Boxes(Rebuild(u)) = Boxes(u)
           /\ Rebuild(u).showResults = u.showResults
           /\ Rebuild(u).sized =>
                /\ Rebuild(u).rows = Mems(Rebuild(u))
                /\ Rebuild(u).rows > 0 => Rebuild(u).cursor \in 0..(Rebuild(u).rows - 1)
<1> DEFINE n == Mems(u)
           c == ClampCursor(u.cursor, n)
<1>1. n \in Nat /\ u.cursor \in Int
  BY MemsIsNat DEF Model
<1>2. c \in Int /\ (n > 0 => c \in 0..(n - 1))
  BY <1>1, ClampCursorInRows
<1>3. Mems([u EXCEPT !.rows = n, !.cursor = c]) = n
  BY DEF Mems, Model
<1>4. Rebuild(u) = IF u.sized THEN [u EXCEPT !.rows = n, !.cursor = c] ELSE u
  BY DEF Rebuild
<1> HIDE DEF n, c
<1>5. [u EXCEPT !.rows = n, !.cursor = c] \in Model
  BY <1>1, <1>2 DEF Model
<1>6. CASE u.sized
  BY <1>2, <1>3, <1>4, <1>5, <1>6 DEF Pending, Boxes, Model
<1>7. CASE ~u.sized
  BY <1>4, <1>7 DEF Pending, Boxes, Model
<1> QED BY <1>6, <1>7 DEF Model

\* A model that agrees in the snapshot and the table shows what the other one shows.
LEMMA SameTable ==
    ASSUME NEW u, NEW v, v.snap = u.snap
    PROVE  Mems(v) = Mems(u)
BY DEF Mems

LEMMA EscKeepsTheRest ==
    ASSUME NEW u \in Model, ~(u.searchActive /\ u.confirmQuit)
    PROVE  /\ Esc(u) \in Model
           /\ Pending(Esc(u)) = Pending(u)
           /\ Esc(u).snap = u.snap /\ Esc(u).sized = u.sized
           /\ Esc(u).rows = u.rows /\ Esc(u).cursor = u.cursor
           /\ ~(Esc(u).searchActive /\ Esc(u).confirmQuit)
<1>1. CASE KeyOwner(u) = "search"
  BY <1>1 DEF Esc, Model, Pending
<1>2. CASE KeyOwner(u) = "quit"
  BY <1>2 DEF Esc, Model, Pending
<1>3. CASE KeyOwner(u) = "results"
  BY <1>3 DEF Esc, Model, Pending
<1>4. CASE KeyOwner(u) = "detail"
  BY <1>4 DEF Esc, Model, Pending
<1>5. CASE KeyOwner(u) = "table"
  BY <1>5 DEF Esc, Model, Pending
<1> QED BY <1>1, <1>2, <1>3, <1>4, <1>5 DEF KeyOwner

\* Escape takes the four piles of boxes down one box at a time.
LEMMA EscFromDetail ==
    ASSUME NEW u \in Model, ~u.searchActive, ~u.confirmQuit, ~u.showResults, u.showDetail
    PROVE  ~ModalOpen(Esc(Esc(u)))
<1> DEFINE v == Esc(u)
<1>0. KeyOwner(u) = "detail"
  BY DEF KeyOwner
<1>1. v = [u EXCEPT !.showDetail = FALSE, !.fromResults = FALSE, !.showResults = u.fromResults]
  BY <1>0 DEF Esc
<1>2. /\ v \in Model /\ ~v.searchActive /\ ~v.confirmQuit /\ ~v.showDetail
  BY <1>1 DEF Model
<1> HIDE DEF v
<1>3. CASE v.showResults
  <2>0. KeyOwner(v) = "results"
    BY <1>2, <1>3 DEF KeyOwner
  <2>1. Esc(v) = [v EXCEPT !.showResults = FALSE]
    BY <2>0 DEF Esc
  <2> QED BY <2>1, <1>2 DEF ModalOpen, Model, v
<1>4. CASE ~v.showResults
  <2>0. KeyOwner(v) = "table"
    BY <1>2, <1>4 DEF KeyOwner
  <2>1. Esc(v) = v
    BY <2>0 DEF Esc
  <2> QED BY <2>1, <1>2, <1>4 DEF ModalOpen, v
<1> QED BY <1>3, <1>4

LEMMA EscAtHome ==
    ASSUME NEW u, ~ModalOpen(u)
    PROVE  Esc(u) = u
<1>1. KeyOwner(u) = "table"
  BY DEF KeyOwner, ModalOpen
<1> QED BY <1>1 DEF Esc

LEMMA EscFromResults ==
    ASSUME NEW u \in Model, ~u.searchActive, ~u.confirmQuit
    PROVE  ~ModalOpen(Esc(Esc(Esc(u))))
<1> DEFINE v == Esc(u)
<1>1. CASE u.showResults
  <2>0. KeyOwner(u) = "results"
    BY <1>1 DEF KeyOwner
  <2>1. v = [u EXCEPT !.showResults = FALSE]
    BY <2>0 DEF Esc
  <2>2. v \in Model /\ ~v.searchActive /\ ~v.confirmQuit /\ ~v.showResults
    BY <2>1 DEF Model
  <2> HIDE DEF v
  <2>3. CASE v.showDetail
    BY <2>2, <2>3, EscFromDetail DEF v
  <2>4. CASE ~v.showDetail
    BY <2>2, <2>4, EscAtHome DEF v, ModalOpen
  <2> QED BY <2>3, <2>4
<1>2. CASE ~u.showResults /\ u.showDetail
  BY <1>2, EscFromDetail, EscAtHome
<1>3. CASE ~u.showResults /\ ~u.showDetail
  BY <1>3, EscAtHome DEF ModalOpen
<1> QED BY <1>1, <1>2, <1>3

LEMMA OneBoxLeadsHome ==
    ASSUME ui \in Model, OneBox
    PROVE  EscLeadsHome
<1>1. KeyOwner(ui) = Shown(ui)
  BY DEF OneBox, KeyOwner, Shown, Model
<1>2. ~ModalOpen(Esc(Esc(Esc(Esc(ui)))))
  <2>1. CASE ~ui.searchActive /\ ~ui.confirmQuit
    BY <2>1, EscFromResults, EscAtHome
  <2>2. CASE ui.searchActive \/ ui.confirmQuit
    <3> DEFINE v == Esc(ui)
    <3>1. v \in Model /\ ~v.searchActive /\ ~v.confirmQuit
      <4>1. CASE ui.searchActive
        <5>1. KeyOwner(ui) = "search" /\ ~ui.confirmQuit
          BY <4>1 DEF KeyOwner, OneBox
        <5>2. v = [ui EXCEPT !.searchActive = FALSE]
          BY <5>1 DEF Esc
        <5> QED BY <5>1, <5>2 DEF Model
      <4>2. CASE ~ui.searchActive
        <5>1. KeyOwner(ui) = "quit"
          BY <2>2, <4>2 DEF KeyOwner
        <5>2. v = [ui EXCEPT !.confirmQuit = FALSE]
          BY <5>1 DEF Esc
        <5> QED BY <4>2, <5>2 DEF Model
      <4> QED BY <4>1, <4>2
    <3> HIDE DEF v
    <3> QED BY <3>1, EscFromResults DEF v
  <2> QED BY <2>1, <2>2
<1> QED BY <1>1, <1>2 DEF EscLeadsHome

----------------------------------------------------------------------------
(* The commands in flight. *)

CommandsOK == tasks \in [Task -> Command \cup {NoTask}]

LEMMA StartedIsCommand ==
    ASSUME NEW kind \in {"load", "search", "reindex"}
    PROVE  /\ Started(kind) \in Command
           /\ Started(kind).kind = kind
           /\ Started(kind) # NoTask
BY DEF Started, Command, NoTask

LEMMA LaunchAdds ==
    ASSUME CommandsOK, NEW kind \in {"load", "search", "reindex"}, Launch(kind)
    PROVE  /\ CommandsOK'
           /\ InFlight(kind)'
           /\ \A k \in {"load", "search", "reindex"} :
                /\ InFlight(k) => InFlight(k)'
                /\ InFlight(k)' => InFlight(k) \/ k = kind
           /\ \A t \in Task : tasks'[t].kind = "reindex" /\ tasks[t].kind # "reindex" =>
                /\ kind = "reindex"
                /\ \A s \in Task : tasks'[s].kind = "reindex" /\ s # t => tasks[s].kind = "reindex"
           /\ kind # "reindex" => \A t \in Task : tasks'[t].kind = "reindex" => tasks[t].kind = "reindex"
<1>1. PICK t \in Task : Slot(t) /\ tasks' = [tasks EXCEPT ![t] = Started(kind)]
  BY DEF Launch
<1>2. tasks[t].kind = "none"
  BY <1>1 DEF Slot, NoTask
<1>3. \A s \in Task : tasks'[s] = IF s = t THEN Started(kind) ELSE tasks[s]
  BY <1>1 DEF CommandsOK
<1>4. Started(kind).kind = kind /\ Started(kind) \in Command
  BY StartedIsCommand
<1>5. CommandsOK'
  BY <1>1, <1>4 DEF CommandsOK
<1>6. \A s \in Task : tasks'[s].kind = IF s = t THEN kind ELSE tasks[s].kind
  BY <1>3, <1>4
<1> QED BY <1>2, <1>5, <1>6 DEF InFlight

LEMMA LaunchKeepsSeen ==
    ASSUME CommandsOK, SeenOK, NEW kind \in {"load", "search", "reindex"}, Launch(kind)
    PROVE  SeenOK'
<1>1. PICK t \in Task : Slot(t) /\ tasks' = [tasks EXCEPT ![t] = Started(kind)]
  BY DEF Launch
<1>2. \A s \in Task : tasks'[s] = IF s = t THEN Started(kind) ELSE tasks[s]
  BY <1>1 DEF CommandsOK
<1>3. Started(kind).stage = "run"
  BY DEF Started
<1> QED BY <1>2, <1>3 DEF SeenOK

\* Replacing a command by one of the same kind.
LEMMA AdvanceKeeps ==
    ASSUME CommandsOK, NEW t \in Task, NEW cmd \in Command, cmd.kind = tasks[t].kind,
           tasks' = [tasks EXCEPT ![t] = cmd]
    PROVE  /\ CommandsOK'
           /\ \A s \in Task : tasks'[s].kind = tasks[s].kind
<1>1. \A s \in Task : tasks'[s] = IF s = t THEN cmd ELSE tasks[s]
  BY DEF CommandsOK
<1>2. CommandsOK'
  BY DEF CommandsOK
<1> QED BY <1>1, <1>2

\* A step that leaves the model and the kinds of the commands alone.
LEMMA SameKindsStayPending ==
    ASSUME BusyIsPending, \A s \in Task : tasks'[s].kind = tasks[s].kind,
           ui' = ui, spinning' = spinning
    PROVE  BusyIsPending'
BY DEF BusyIsPending, InFlight, Busy

\* A step that leaves the commands alone, and of the model what they are about.
LEMMA SamePendingStaysPending ==
    ASSUME BusyIsPending, tasks' = tasks, Pending(ui') = Pending(ui), spinning' = spinning
    PROVE  BusyIsPending'
BY DEF BusyIsPending, InFlight, Busy, Pending

LEMMA SameTableShows ==
    ASSUME TableShowsSnapshot, ui'.snap = ui.snap, ui'.sized = ui.sized,
           ui'.rows = ui.rows, ui'.cursor = ui.cursor
    PROVE  TableShowsSnapshot'
BY DEF TableShowsSnapshot, Mems

LEMMA SameCommandsSeen ==
    ASSUME SeenOK, tasks' = tasks
    PROVE  SeenOK'
BY DEF SeenOK

----------------------------------------------------------------------------
(* The inductive invariant. *)

LEMMA NewModelIsIdle ==
    /\ NewModel \in Model /\ ~NewModel.sized /\ NewModel.loading /\ ~NewModel.reindexing
    /\ ~NewModel.searching /\ ~NewModel.searchActive
BY DEF NewModel, Model

LEMMA InitIInv == Init => IInv
<1> SUFFICES ASSUME Init PROVE IInv
  OBVIOUS
<1> USE DashboardAssumption
<1>2. Started("load") \in Command /\ Started("load").kind = "load" /\ NoTask.kind = "none"
  BY DEF Started, Command, NoTask
<1>3. 1 \in Task /\ 1 \in Version
  BY DEF Task, Version
<1>4. TypeOK
  BY NewModelIsIdle, <1>2, <1>3 DEF Init, TypeOK
<1>5. \A t \in Task : tasks[t].kind = IF t = 1 THEN "load" ELSE "none"
  BY <1>2 DEF Init
<1>6. BusyIsPending
  BY NewModelIsIdle, <1>3, <1>5 DEF Init, BusyIsPending, InFlight, Busy
<1>7. SeenOK
  <2>1. Started("load").stage = "run" /\ NoTask.stage = "none"
    BY DEF Started, NoTask
  <2> QED BY <2>1 DEF Init, SeenOK
<1> QED BY NewModelIsIdle, <1>4, <1>6, <1>7 DEF Init, IInv, TableShowsSnapshot, OneBox

\* The keys that only change the model, and leave the table and the busy flags.
LEMMA PressKeeps ==
    ASSUME IInv, NEW u \in Model, Press(u), Pending(u) = Pending(ui),
           u.snap = ui.snap, u.sized = ui.sized, u.rows = ui.rows, u.cursor = ui.cursor,
           ~(u.searchActive /\ u.confirmQuit)
    PROVE  IInv'
<1>1. ui' = u /\ tasks' = tasks /\ spinning' = spinning
  BY DEF Press
<1>2. TypeOK'
  BY <1>1 DEF IInv, TypeOK, Press, Key
<1>3. BusyIsPending'
  BY <1>1, SamePendingStaysPending DEF IInv
<1>4. TableShowsSnapshot'
  BY <1>1, SameTableShows DEF IInv
<1> QED BY <1>1, <1>2, <1>3, <1>4, SameCommandsSeen DEF IInv, OneBox

\* The keys that start a command.
LEMMA LaunchKeepsTable ==
    ASSUME IInv, ui'.snap = ui.snap, ui'.sized = ui.sized, ui'.rows = ui.rows,
           ui'.cursor = ui.cursor, ui'.confirmQuit = ui.confirmQuit,
           ui'.searchActive => ui.searchActive
    PROVE  TableShowsSnapshot' /\ OneBox'
BY SameTableShows DEF IInv, OneBox

LEMMA KeysKeep ==
    ASSUME IInv, Keys
    PROVE  IInv'
<1>1. TypeOK /\ CommandsOK /\ ui \in Model /\ OneBox /\ BusyIsPending /\ SeenOK
  BY DEF IInv, TypeOK, CommandsOK
<1>2. ASSUME Quit PROVE IInv'
  <2>1. /\ ui' = [NewModel EXCEPT !.loading = FALSE, !.quit = TRUE]
        /\ tasks' = [t \in Task |-> NoTask]
    BY <1>2 DEF Quit
  <2>2. /\ ui' \in Model /\ ~ui'.sized /\ ~ui'.loading /\ ~ui'.reindexing
        /\ ~ui'.searching /\ ~ui'.searchActive
    BY <2>1, NewModelIsIdle DEF Model
  <2>3. \A t \in Task : tasks'[t].kind = "none"
    BY <2>1 DEF NoTask
  <2>4. TypeOK'
    BY <1>1, <1>2, <2>1, <2>2 DEF Quit, TypeOK
  <2>5. BusyIsPending'
    BY <2>2, <2>3 DEF BusyIsPending, InFlight, Busy
  <2>6. SeenOK'
    BY <2>1 DEF SeenOK, NoTask
  <2> QED BY <2>2, <2>4, <2>5, <2>6 DEF IInv, TableShowsSnapshot, OneBox
<1>3. CASE CtrlC
  BY <1>2, <1>3 DEF CtrlC
<1>4. CASE ConfirmQuit
  BY <1>2, <1>4 DEF ConfirmQuit
<1>5. CASE Escape
  BY <1>1, <1>5, EscKeepsTheRest, PressKeeps DEF Escape, OneBox
<1>6. CASE SubmitEmptyQuery
  <2> DEFINE u == [ui EXCEPT !.searchActive = FALSE]
  <2>1. u \in Model /\ Pending(u) = Pending(ui) /\ ~u.searchActive
        /\ u.snap = ui.snap /\ u.sized = ui.sized /\ u.rows = ui.rows /\ u.cursor = ui.cursor
    BY <1>1 DEF Model, Pending
  <2>2. Press(u)
    BY <1>6 DEF SubmitEmptyQuery
  <2> HIDE DEF u
  <2> QED BY <2>1, <2>2, PressKeeps
<1>7. CASE SubmitQuery
  <2>1. ui' = [ui EXCEPT !.searchActive = FALSE, !.searching = TRUE]
    BY <1>7 DEF SubmitQuery
  <2>2. Launch("search") /\ spinning' = TRUE
    BY <1>7 DEF SubmitQuery
  <2>3. /\ ui' \in Model /\ ui'.searching /\ ui'.loading = ui.loading
        /\ ui'.reindexing = ui.reindexing /\ ~ui'.searchActive /\ ui'.confirmQuit = ui.confirmQuit
        /\ ui'.snap = ui.snap /\ ui'.sized = ui.sized /\ ui'.rows = ui.rows /\ ui'.cursor = ui.cursor
    BY <1>1, <2>1 DEF Model
  <2>4. CommandsOK' /\ InFlight("search")' /\ (InFlight("load") => InFlight("load")')
        /\ (InFlight("reindex") <=> InFlight("reindex")')
        /\ \A t \in Task : tasks'[t].kind = "reindex" => tasks[t].kind = "reindex"
    BY <1>1, <2>2, LaunchAdds
  <2>5. TypeOK'
    BY <1>1, <1>7, <2>2, <2>3, <2>4 DEF TypeOK, CommandsOK, SubmitQuery, Key
  <2>6. BusyIsPending'
    BY <2>2, <2>3, <2>4 DEF IInv, BusyIsPending
  <2> QED BY <1>1, <2>2, <2>3, <2>5, <2>6, LaunchKeepsTable, LaunchKeepsSeen DEF IInv
<1>8. CASE AskQuit
  <2> DEFINE u == [ui EXCEPT !.confirmQuit = TRUE]
  <2>1. ~ui.searchActive
    BY <1>8 DEF AskQuit, Shortcut, KeyOwner
  <2>2. u \in Model /\ Pending(u) = Pending(ui) /\ ~u.searchActive
        /\ u.snap = ui.snap /\ u.sized = ui.sized /\ u.rows = ui.rows /\ u.cursor = ui.cursor
    BY <1>1, <2>1 DEF Model, Pending
  <2>3. Press(u)
    BY <1>8 DEF AskQuit
  <2> HIDE DEF u
  <2> QED BY <2>2, <2>3, PressKeeps
<1>9. CASE ToggleHelp
  <2>1. Press(Rebuild(ui))
    BY <1>9 DEF ToggleHelp
  <2>2. ui' = Rebuild(ui) /\ tasks' = tasks /\ spinning' = spinning
    BY <2>1 DEF Press
  <2>3. ui' \in Model /\ Pending(ui') = Pending(ui) /\ Boxes(ui') = Boxes(ui) /\ TableShowsSnapshot'
    BY <1>1, <2>2, RebuildShowsSnapshot DEF TableShowsSnapshot, Mems
  <2>4. TypeOK'
    BY <1>1, <2>1, <2>3 DEF TypeOK, Press, Key
  <2>5. BusyIsPending'
    BY <2>2, <2>3, SamePendingStaysPending DEF IInv
  <2> QED BY <1>1, <2>2, <2>3, <2>4, <2>5, SameCommandsSeen DEF IInv, OneBox, Boxes
<1>10. CASE OpenSearch
  <2> DEFINE u == [ui EXCEPT !.searchActive = TRUE]
  <2>1. ~ui.confirmQuit
    BY <1>10 DEF OpenSearch, Shortcut, KeyOwner
  <2>2. u \in Model /\ Pending(u) = Pending(ui) /\ ~u.confirmQuit
        /\ u.snap = ui.snap /\ u.sized = ui.sized /\ u.rows = ui.rows /\ u.cursor = ui.cursor
    BY <1>1, <2>1 DEF Model, Pending
  <2>3. Press(u)
    BY <1>10 DEF OpenSearch
  <2> HIDE DEF u
  <2> QED BY <2>2, <2>3, PressKeeps
<1>11. CASE RefreshKey
  <2>1. ui' = [ui EXCEPT !.loading = TRUE] /\ ~ui.reindexing
    BY <1>11 DEF RefreshKey
  <2>2. Launch("load") /\ spinning' = TRUE
    BY <1>11 DEF RefreshKey
  <2>3. /\ ui' \in Model /\ ui'.searching = ui.searching /\ ui'.loading
        /\ ~ui'.reindexing /\ ui'.searchActive = ui.searchActive /\ ui'.confirmQuit = ui.confirmQuit
        /\ ui'.snap = ui.snap /\ ui'.sized = ui.sized /\ ui'.rows = ui.rows /\ ui'.cursor = ui.cursor
    BY <1>1, <2>1 DEF Model
  <2>4. CommandsOK' /\ InFlight("load")' /\ (InFlight("search") => InFlight("search")')
        /\ (InFlight("reindex") <=> InFlight("reindex")')
        /\ \A t \in Task : tasks'[t].kind = "reindex" => tasks[t].kind = "reindex"
    BY <1>1, <2>2, LaunchAdds
  <2>5. TypeOK'
    BY <1>1, <1>11, <2>2, <2>3, <2>4 DEF TypeOK, CommandsOK, RefreshKey, Key
  <2>6. BusyIsPending'
    BY <2>1, <2>2, <2>3, <2>4 DEF IInv, BusyIsPending
  <2> QED BY <1>1, <2>2, <2>3, <2>5, <2>6, LaunchKeepsTable, LaunchKeepsSeen DEF IInv
<1>12. CASE ReindexKey
  <2>1. ui' = [ui EXCEPT !.reindexing = TRUE] /\ ~ui.reindexing /\ ~ui.loading
    BY <1>12 DEF ReindexKey
  <2>2. Launch("reindex") /\ spinning' = TRUE
    BY <1>12 DEF ReindexKey
  <2>3. /\ ui' \in Model /\ ui'.searching = ui.searching /\ ~ui'.loading
        /\ ui'.reindexing /\ ui'.searchActive = ui.searchActive /\ ui'.confirmQuit = ui.confirmQuit
        /\ ui'.snap = ui.snap /\ ui'.sized = ui.sized /\ ui'.rows = ui.rows /\ ui'.cursor = ui.cursor
    BY <1>1, <2>1 DEF Model
  <2>4. CommandsOK' /\ InFlight("reindex")' /\ (InFlight("search") => InFlight("search")')
    BY <1>1, <2>2, LaunchAdds
  <2>5. \A t \in Task : tasks[t].kind # "reindex"
    BY <2>1 DEF IInv, BusyIsPending, InFlight
  <2>6. \A s, t \in Task : tasks'[s].kind = "reindex" /\ tasks'[t].kind = "reindex" => s = t
    BY <1>1, <2>2, <2>5, LaunchAdds
  <2>7. TypeOK'
    BY <1>1, <1>12, <2>2, <2>3, <2>4 DEF TypeOK, CommandsOK, ReindexKey, Key
  <2>8. BusyIsPending'
    BY <2>2, <2>3, <2>4, <2>6 DEF IInv, BusyIsPending
  <2> QED BY <1>1, <2>2, <2>3, <2>7, <2>8, LaunchKeepsTable, LaunchKeepsSeen DEF IInv
<1>13. CASE EnterRow
  <2>1. ui' = ui /\ tasks' = tasks /\ spinning' = spinning
    BY <1>13 DEF EnterRow
  <2>2. TypeOK'
    BY <1>1, <1>13 DEF EnterRow, TypeOK, Key
  <2> QED BY <2>1, <2>2, SamePendingStaysPending, SameTableShows, SameCommandsSeen DEF IInv, OneBox
<1>14. CASE EnterHit
  <2>1. CASE Press(OpenHitDetail(ui))
    <3> DEFINE u == OpenHitDetail(ui)
    <3>1. u \in Model /\ Pending(u) = Pending(ui) /\ ~(u.searchActive /\ u.confirmQuit)
          /\ u.snap = ui.snap /\ u.sized = ui.sized /\ u.rows = ui.rows /\ u.cursor = ui.cursor
      BY <1>1 DEF OpenHitDetail, Model, Pending, OneBox
    <3> HIDE DEF u
    <3> QED BY <2>1, <3>1, PressKeeps DEF u
  <2>2. CASE Key /\ waiting' = "hit" /\ UNCHANGED <<tasks, spinning, ui>>
    <3>1. TypeOK'
      BY <1>1, <2>2 DEF TypeOK, Key
    <3> QED BY <2>2, <3>1, SamePendingStaysPending, SameTableShows, SameCommandsSeen DEF IInv, OneBox
  <2> QED BY <1>14, <2>1, <2>2 DEF EnterHit
<1>15. CASE MoveCursor
  <2>1. PICK c \in IF ui.rows = 0 THEN {-1} ELSE 0..(ui.rows - 1) : Press([ui EXCEPT !.cursor = c])
    BY <1>15 DEF MoveCursor
  <2>2. ui' = [ui EXCEPT !.cursor = c] /\ tasks' = tasks /\ spinning' = spinning
    BY <2>1 DEF Press
  <2>3. ui.rows \in Nat /\ c \in Int /\ (ui.rows > 0 => c \in 0..(ui.rows - 1))
    BY <1>1 DEF Model
  <2>4. /\ ui' \in Model /\ Pending(ui') = Pending(ui) /\ ui'.searchActive = ui.searchActive
        /\ ui'.confirmQuit = ui.confirmQuit /\ ui'.snap = ui.snap /\ ui'.sized = ui.sized
        /\ ui'.rows = ui.rows /\ ui'.cursor = c
    BY <1>1, <2>2, <2>3 DEF Model, Pending
  <2>5. TypeOK'
    BY <1>1, <2>1, <2>4 DEF TypeOK, Press, Key
  <2>6. TableShowsSnapshot'
    BY <2>3, <2>4 DEF IInv, TableShowsSnapshot, Mems
  <2> QED BY <1>1, <2>2, <2>4, <2>5, <2>6, SamePendingStaysPending, SameCommandsSeen DEF IInv, OneBox
<1> QED BY <1>3, <1>4, <1>5, <1>6, <1>7, <1>8, <1>9, <1>10, <1>11, <1>12, <1>13, <1>14, <1>15 DEF Keys

\* The answers.
LEMMA DeliverKeeps ==
    ASSUME IInv, NEW t \in Task, Deliver(t)
    PROVE  IInv'
<1> DEFINE cmd == tasks[t]
           next == IF cmd.kind = "reindex" /\ cmd.stage = "ok" THEN Started("load") ELSE NoTask
<1>1. TypeOK /\ CommandsOK /\ ui \in Model /\ OneBox /\ BusyIsPending /\ SeenOK
  BY DEF IInv, TypeOK, CommandsOK
<1>2. /\ cmd.stage \in {"ok", "failed"}
      /\ tasks' = [tasks EXCEPT ![t] = next]
      /\ version' = version /\ ticking' = ticking /\ spinning' = spinning
      /\ waiting' = waiting /\ fails' = fails
  BY DEF Deliver
<1>3. cmd \in Command
  BY <1>1, <1>2 DEF CommandsOK, NoTask
<1>4. cmd.kind \in {"load", "search", "reindex"} /\ cmd.seen \in Seq(Version)
  BY <1>3 DEF Command
<1>5. next \in Command \cup {NoTask}
  BY StartedIsCommand
<1>6. next.kind = IF cmd.kind = "reindex" /\ cmd.stage = "ok" THEN "load" ELSE "none"
  BY StartedIsCommand DEF NoTask
<1>7. CommandsOK'
  BY <1>1, <1>2, <1>5 DEF CommandsOK
<1>8. \A s \in Task : tasks'[s].kind = IF s = t THEN next.kind ELSE tasks[s].kind
  BY <1>1, <1>2 DEF CommandsOK
<1> HIDE DEF next
<1>9. InFlight("reindex") /\ cmd.kind = "reindex" => ~InFlight("reindex")'
  BY <1>1, <1>6, <1>8 DEF BusyIsPending, InFlight
<1>10. /\ cmd.kind # "load" /\ InFlight("load") => InFlight("load")'
       /\ cmd.kind # "search" /\ InFlight("search") => InFlight("search")'
       /\ cmd.kind # "reindex" => (InFlight("reindex") <=> InFlight("reindex")')
       /\ \A s \in Task : tasks'[s].kind = "reindex" => tasks[s].kind = "reindex"
  <2>1. cmd.kind # "load" /\ InFlight("load") => InFlight("load")'
    BY <1>8 DEF InFlight
  <2>2. cmd.kind # "search" /\ InFlight("search") => InFlight("search")'
    BY <1>8 DEF InFlight
  <2>3. \A s \in Task : tasks'[s].kind = "reindex" => tasks[s].kind = "reindex"
    BY <1>6, <1>8
  <2>4. cmd.kind # "reindex" /\ InFlight("reindex") => InFlight("reindex")'
    BY <1>8 DEF InFlight
  <2> QED BY <2>1, <2>2, <2>3, <2>4 DEF InFlight
<1>11. InFlight(cmd.kind)
  BY DEF InFlight
<1>12. SeenOK'
  <2>1. next.stage = IF cmd.kind = "reindex" /\ cmd.stage = "ok" THEN "run" ELSE "none"
    BY DEF next, Started, NoTask
  <2>2. \A s \in Task : tasks'[s] = IF s = t THEN next ELSE tasks[s]
    BY <1>1, <1>2 DEF CommandsOK
  <2> QED BY <1>1, <2>1, <2>2 DEF SeenOK
<1>13. CASE cmd.stage = "failed" /\ ui' = Failed(ui, cmd.kind)
  <2>1. /\ ui' \in Model /\ ui'.snap = ui.snap /\ ui'.sized = ui.sized /\ ui'.rows = ui.rows
        /\ ui'.cursor = ui.cursor /\ ui'.searchActive = ui.searchActive
        /\ ui'.confirmQuit = ui.confirmQuit
        /\ ui'.loading = (IF cmd.kind = "search" THEN ui.loading ELSE FALSE)
        /\ ui'.searching = (IF cmd.kind = "search" THEN FALSE ELSE ui.searching)
        /\ ui'.reindexing = (IF cmd.kind = "reindex" THEN FALSE ELSE ui.reindexing)
    <3> DEFINE l == IF cmd.kind = "search" THEN ui.loading ELSE FALSE
               s == IF cmd.kind = "search" THEN FALSE ELSE ui.searching
               r == IF cmd.kind = "reindex" THEN FALSE ELSE ui.reindexing
    <3>1. l \in BOOLEAN /\ s \in BOOLEAN /\ r \in BOOLEAN
      BY <1>1 DEF Model
    <3>2. ui' = [ui EXCEPT !.loading = l, !.searching = s, !.reindexing = r]
      BY <1>13 DEF Failed
    <3> HIDE DEF l, s, r
    <3>3. /\ ui' \in Model /\ ui'.snap = ui.snap /\ ui'.sized = ui.sized /\ ui'.rows = ui.rows
          /\ ui'.cursor = ui.cursor /\ ui'.searchActive = ui.searchActive
          /\ ui'.confirmQuit = ui.confirmQuit
          /\ ui'.loading = l /\ ui'.searching = s /\ ui'.reindexing = r
      BY <1>1, <3>1, <3>2 DEF Model
    <3> QED BY <3>3 DEF l, s, r
  <2>2. TypeOK'
    BY <1>1, <1>2, <1>7, <2>1 DEF TypeOK, CommandsOK
  <2>3. BusyIsPending'
    BY <1>1, <1>2, <1>4, <1>9, <1>10, <1>11, <2>1 DEF BusyIsPending, Busy
  <2> QED BY <2>1, <2>2, <2>3, <1>1, <1>12, LaunchKeepsTable DEF IInv
<1>14. CASE cmd.stage = "ok" /\ cmd.kind = "load" /\ ui' = Snapshot(ui, cmd.seen)
  <2> DEFINE u == [ui EXCEPT !.loading = FALSE, !.snap = cmd.seen]
  <2>1. Len(cmd.seen) = 3
    BY <1>14 DEF IInv, SeenOK
  <2>2. u \in Model /\ u.loading = FALSE /\ u.searching = ui.searching
        /\ u.reindexing = ui.reindexing /\ u.searchActive = ui.searchActive
        /\ u.confirmQuit = ui.confirmQuit
    BY <1>1, <1>4, <2>1 DEF Model
  <2>3. ui' = Rebuild(u)
    BY <1>14 DEF Snapshot
  <2> HIDE DEF u
  <2>4. ui' \in Model /\ Pending(ui') = Pending(u) /\ Boxes(ui') = Boxes(u) /\ TableShowsSnapshot'
    BY <2>2, <2>3, RebuildShowsSnapshot DEF TableShowsSnapshot, Mems
  <2>5. TypeOK'
    BY <1>1, <1>2, <1>7, <2>4 DEF TypeOK, CommandsOK
  <2>6. ~ui'.loading /\ ui'.searching = ui.searching /\ ui'.reindexing = ui.reindexing
    BY <2>2, <2>4 DEF Pending
  <2>7. BusyIsPending'
    BY <1>1, <1>2, <1>10, <1>14, <2>6 DEF BusyIsPending, Busy
  <2> QED BY <1>1, <1>12, <2>2, <2>4, <2>5, <2>7 DEF IInv, OneBox, Boxes
<1>15. CASE cmd.stage = "ok" /\ cmd.kind = "search" /\ ui' = SearchResult(ui)
  <2>1. /\ ui' \in Model /\ ui'.snap = ui.snap /\ ui'.sized = ui.sized /\ ui'.rows = ui.rows
        /\ ui'.cursor = ui.cursor /\ ui'.searchActive = ui.searchActive
        /\ ui'.confirmQuit = ui.confirmQuit /\ ui'.loading = ui.loading /\ ~ui'.searching
        /\ ui'.reindexing = ui.reindexing
    BY <1>1, <1>15 DEF SearchResult, Model
  <2>2. TypeOK'
    BY <1>1, <1>2, <1>7, <2>1 DEF TypeOK, CommandsOK
  <2>3. BusyIsPending'
    BY <1>1, <1>2, <1>10, <1>15, <2>1 DEF BusyIsPending, Busy
  <2> QED BY <2>1, <2>2, <2>3, <1>1, <1>12, LaunchKeepsTable DEF IInv
<1>16. CASE cmd.stage = "ok" /\ cmd.kind = "reindex" /\ ui' = [ui EXCEPT !.reindexing = FALSE]
  <2>1. /\ ui' \in Model /\ ui'.snap = ui.snap /\ ui'.sized = ui.sized /\ ui'.rows = ui.rows
        /\ ui'.cursor = ui.cursor /\ ui'.searchActive = ui.searchActive
        /\ ui'.confirmQuit = ui.confirmQuit /\ ui'.loading = ui.loading
        /\ ui'.searching = ui.searching /\ ~ui'.reindexing
    BY <1>1, <1>16 DEF Model
  <2>2. TypeOK'
    BY <1>1, <1>2, <1>7, <2>1 DEF TypeOK, CommandsOK
  <2>3. BusyIsPending'
    BY <1>1, <1>2, <1>9, <1>10, <1>11, <1>16, <2>1 DEF BusyIsPending, Busy
  <2> QED BY <2>1, <2>2, <2>3, <1>1, <1>12, LaunchKeepsTable DEF IInv
<1> QED BY <1>2, <1>13, <1>14, <1>15, <1>16 DEF Deliver

\* The commands.
LEMMA ProgressKeeps ==
    ASSUME IInv, NEW t \in Task, Progress(t) \/ Fail(t)
    PROVE  IInv'
<1>1. TypeOK /\ CommandsOK /\ ui \in Model /\ OneBox /\ BusyIsPending /\ SeenOK
  BY DEF IInv, TypeOK, CommandsOK
<1>2. ASSUME NEW cmd \in Command, cmd.kind = tasks[t].kind, Advance(t, cmd),
             version' \in Version, fails' \in 0..MaxFails,
             cmd.kind = "load" /\ cmd.stage = "ok" => Len(cmd.seen) = 3,
             cmd.stage = "tx" => cmd.kind = "reindex"
      PROVE  IInv'
  <2>1. /\ tasks' = [tasks EXCEPT ![t] = cmd] /\ ticking' = ticking /\ spinning' = spinning
        /\ ui' = ui /\ waiting' = waiting
    BY <1>2 DEF Advance
  <2>2. CommandsOK' /\ \A s \in Task : tasks'[s].kind = tasks[s].kind
    BY <1>1, <1>2, <2>1, AdvanceKeeps
  <2>3. TypeOK'
    BY <1>1, <1>2, <2>1, <2>2 DEF TypeOK, CommandsOK
  <2>4. BusyIsPending'
    BY <1>1, <2>1, <2>2, SameKindsStayPending
  <2>5. SeenOK'
    <3>1. \A s \in Task : tasks'[s] = IF s = t THEN cmd ELSE tasks[s]
      BY <1>1, <2>1 DEF CommandsOK
    <3> QED BY <1>1, <1>2, <3>1 DEF SeenOK
  <2> QED BY <1>1, <2>1, <2>3, <2>4, <2>5, SameTableShows DEF IInv, OneBox
<1> USE DashboardAssumption
<1>3. CASE Deliver(t)
  BY <1>3, DeliverKeeps
<1>4. CASE Read(t)
  <2> DEFINE seen == Append(tasks[t].seen, version)
             cmd == [tasks[t] EXCEPT !.seen = seen, !.stage = IF Len(seen) = 3 THEN "ok" ELSE "run"]
  <2>1. tasks[t].kind = "load" /\ Advance(t, cmd) /\ version' = version /\ fails' = fails
    BY <1>4 DEF Read
  <2>2. tasks[t] \in Command
    BY <1>1, <2>1 DEF CommandsOK, NoTask
  <2>3. seen \in Seq(Version)
    BY <1>1, <2>2 DEF Command, TypeOK
  <2> HIDE DEF seen
  <2>4. /\ cmd \in Command /\ cmd.kind = "load" /\ cmd.seen = seen
        /\ cmd.stage = IF Len(seen) = 3 THEN "ok" ELSE "run"
    BY <2>1, <2>2, <2>3 DEF Command
  <2> HIDE DEF cmd
  <2> QED BY <1>1, <1>2, <2>1, <2>4 DEF TypeOK
<1>5. CASE Search(t)
  <2> DEFINE cmd == [tasks[t] EXCEPT !.stage = "ok"]
  <2>1. tasks[t].kind = "search" /\ Advance(t, cmd) /\ version' = version /\ fails' = fails
    BY <1>5 DEF Search
  <2>2. tasks[t] \in Command
    BY <1>1, <2>1 DEF CommandsOK, NoTask
  <2>3. cmd \in Command /\ cmd.kind = "search" /\ cmd.stage = "ok"
    BY <2>1, <2>2 DEF Command
  <2> HIDE DEF cmd
  <2> QED BY <1>1, <1>2, <2>1, <2>3 DEF TypeOK
<1>6. CASE BeginReindex(t)
  <2> DEFINE cmd == [tasks[t] EXCEPT !.stage = "tx"]
  <2>1. tasks[t].kind = "reindex" /\ Advance(t, cmd) /\ version' = version /\ fails' = fails
    BY <1>6 DEF BeginReindex
  <2>2. tasks[t] \in Command
    BY <1>1, <2>1 DEF CommandsOK, NoTask
  <2>3. cmd \in Command /\ cmd.kind = "reindex" /\ cmd.stage = "tx"
    BY <2>1, <2>2 DEF Command
  <2> HIDE DEF cmd
  <2> QED BY <1>1, <1>2, <2>1, <2>3 DEF TypeOK
<1>7. CASE CommitReindex(t)
  <2> DEFINE cmd == [tasks[t] EXCEPT !.stage = "ok"]
  <2>1. Advance(t, cmd) /\ tasks[t].stage = "tx" /\ fails' = fails
        /\ version' = IF version < MaxVersion THEN version + 1 ELSE version
    BY <1>7 DEF CommitReindex
  <2>2. tasks[t] \in Command
    BY <1>1, <2>1 DEF CommandsOK, NoTask
  <2>3. tasks[t].kind # "load"
    BY <1>1, <2>1 DEF SeenOK
  <2>4. cmd \in Command /\ cmd.kind = tasks[t].kind /\ cmd.stage = "ok"
    BY <2>2 DEF Command
  <2>5. version' \in Version
    BY <1>1, <2>1 DEF TypeOK, Version
  <2> HIDE DEF cmd
  <2> QED BY <1>1, <1>2, <2>1, <2>3, <2>4, <2>5 DEF TypeOK
<1>8. CASE Fail(t)
  <2> DEFINE cmd == [tasks[t] EXCEPT !.stage = "failed", !.seen = <<>>]
  <2>1. Advance(t, cmd) /\ tasks[t].stage \in {"run", "tx"} /\ fails < MaxFails
        /\ fails' = fails + 1 /\ version' = version
    BY <1>8 DEF Fail
  <2>2. tasks[t] \in Command
    BY <1>1, <2>1 DEF CommandsOK, NoTask
  <2>3. cmd \in Command /\ cmd.kind = tasks[t].kind /\ cmd.stage = "failed"
    <3>1. <<>> \in Seq(Version)
      OBVIOUS
    <3> QED BY <2>2, <3>1 DEF Command
  <2>4. version' \in Version /\ fails' \in 0..MaxFails
    BY <1>1, <2>1 DEF TypeOK
  <2> HIDE DEF cmd
  <2> QED BY <1>2, <2>1, <2>3, <2>4
<1> QED BY <1>3, <1>4, <1>5, <1>6, <1>7, <1>8 DEF Progress

LEMMA StepKeepsIInv == IInv /\ [Next]_vars => IInv'
<1> SUFFICES ASSUME IInv, [Next]_vars PROVE IInv'
  OBVIOUS
<1> USE DashboardAssumption
<1>1. TypeOK /\ CommandsOK /\ ui \in Model /\ OneBox /\ BusyIsPending /\ SeenOK
  BY DEF IInv, TypeOK, CommandsOK
<1>2. CASE Resize
  <2> DEFINE u == [ui EXCEPT !.sized = TRUE]
  <2>1. u \in Model /\ Pending(u) = Pending(ui) /\ Boxes(u) = Boxes(ui)
    BY <1>1 DEF Model, Pending, Boxes
  <2>2. ui' = Rebuild(u) /\ tasks' = tasks /\ spinning' = spinning
    BY <1>2 DEF Resize
  <2> HIDE DEF u
  <2>3. ui' \in Model /\ Pending(ui') = Pending(ui) /\ Boxes(ui') = Boxes(ui) /\ TableShowsSnapshot'
    BY <2>1, <2>2, RebuildShowsSnapshot DEF TableShowsSnapshot, Mems
  <2>4. TypeOK'
    BY <1>1, <1>2, <2>3 DEF TypeOK, Resize
  <2> QED BY <1>1, <2>2, <2>3, <2>4, SamePendingStaysPending DEF IInv, OneBox, Boxes, SeenOK
<1>3. CASE Keys
  BY <1>3, KeysKeep
<1>4. CASE Opened
  <2>1. /\ tasks' = tasks /\ spinning' = spinning
        /\ ui' = OpenDetail(ui) \/ ui' = OpenHitDetail(ui)
    BY <1>4 DEF Opened
  <2>2. /\ ui' \in Model /\ Pending(ui') = Pending(ui) /\ ui'.searchActive = ui.searchActive
        /\ ui'.confirmQuit = ui.confirmQuit /\ ui'.snap = ui.snap /\ ui'.sized = ui.sized
        /\ ui'.rows = ui.rows /\ ui'.cursor = ui.cursor
    <3>1. CASE ui' = OpenDetail(ui)
      BY <1>1, <3>1 DEF OpenDetail, Model, Pending
    <3>2. CASE ui' = OpenHitDetail(ui)
      BY <1>1, <3>2 DEF OpenHitDetail, Model, Pending
    <3> QED BY <2>1, <3>1, <3>2
  <2>3. TypeOK'
    BY <1>1, <1>4, <2>2 DEF TypeOK, Opened
  <2> QED BY <1>1, <2>1, <2>2, <2>3, SamePendingStaysPending, SameTableShows, SameCommandsSeen DEF IInv, OneBox
<1>5. CASE RefreshTick
  <2>1. /\ ui' = ui
        /\ spinning' = spinning
        /\ tasks' = tasks \/ Launch("load")
    BY <1>5 DEF RefreshTick
  <2>2. CASE tasks' = tasks
    <3>1. TypeOK'
      BY <1>1, <1>5, <2>2 DEF TypeOK, RefreshTick
    <3> QED BY <1>1, <2>1, <2>2, <3>1, SamePendingStaysPending, SameTableShows, SameCommandsSeen DEF IInv, OneBox
  <2>3. CASE Launch("load")
    <3>1. /\ CommandsOK' /\ InFlight("load")' /\ (InFlight("search") => InFlight("search")')
          /\ (InFlight("reindex") <=> InFlight("reindex")')
          /\ \A t \in Task : tasks'[t].kind = "reindex" => tasks[t].kind = "reindex"
      BY <1>1, <2>3, LaunchAdds
    <3>2. TypeOK'
      BY <1>1, <1>5, <2>1, <3>1 DEF TypeOK, CommandsOK, RefreshTick
    <3>3. BusyIsPending'
      BY <1>1, <2>1, <3>1 DEF BusyIsPending, Busy
    <3>4. SeenOK'
      BY <1>1, <2>3, LaunchKeepsSeen
    <3> QED BY <1>1, <2>1, <3>2, <3>3, <3>4, SameTableShows DEF IInv, OneBox
  <2> QED BY <2>1, <2>2, <2>3
<1>6. CASE SpinnerTick
  <2>1. ui' = ui /\ tasks' = tasks /\ spinning' = Busy(ui)
    BY <1>6 DEF SpinnerTick
  <2>2. TypeOK'
    BY <1>1, <1>6 DEF TypeOK, SpinnerTick, Busy, Model
  <2>3. BusyIsPending'
    BY <1>1, <2>1 DEF BusyIsPending, InFlight, Busy
  <2> QED BY <1>1, <2>1, <2>2, <2>3, SameTableShows DEF IInv, OneBox, SeenOK
<1>7. CASE Commit
  <2>1. ui' = ui /\ tasks' = tasks /\ spinning' = spinning
    BY <1>7 DEF Commit
  <2>2. TypeOK'
    BY <1>1, <1>7 DEF TypeOK, Commit, Version
  <2> QED BY <1>1, <2>1, <2>2, SamePendingStaysPending, SameTableShows, SameCommandsSeen DEF IInv, OneBox
<1>8. CASE \E t \in Task : Progress(t) \/ Fail(t)
  BY <1>8, ProgressKeeps
<1>9. CASE UNCHANGED vars
  <2>1. ui' = ui /\ tasks' = tasks /\ spinning' = spinning
    BY <1>9 DEF vars
  <2>2. TypeOK'
    BY <1>1, <1>9 DEF TypeOK, vars
  <2> QED BY <1>1, <2>1, <2>2, SamePendingStaysPending, SameTableShows, SameCommandsSeen DEF IInv, OneBox
<1> QED BY <1>2, <1>3, <1>4, <1>5, <1>6, <1>7, <1>8, <1>9 DEF Next

----------------------------------------------------------------------------
(* The theorems. *)

THEOREM Invariance == Spec => []IInv
<1>1. Init => IInv
  BY InitIInv
<1>2. IInv /\ [Next]_vars => IInv'
  BY StepKeepsIInv
<1> QED BY <1>1, <1>2, PTL DEF Spec

\* The variables always have their types (tui.Model and the commands in flight).
THEOREM TypeCorrect == Spec => []TypeOK
<1>1. IInv => TypeOK
  BY DEF IInv
<1> QED BY <1>1, Invariance, PTL

\* Whatever is pressed and in whatever order answers arrive, a busy status has a
\* command behind it that will clear it, and the spinner turns (model.go Update).
THEOREM NeverBusyForNothing == Spec => []BusyIsPending
<1>1. IInv => BusyIsPending
  BY DEF IInv
<1> QED BY <1>1, Invariance, PTL

\* The table always shows the memories in which Enter looks the selection up, with
\* the cursor on one of them (model.go rebuild and selectedMem).
THEOREM SelectionIsShown == Spec => []TableShowsSnapshot
<1>1. IInv => TableShowsSnapshot
  BY DEF IInv
<1> QED BY <1>1, Invariance, PTL

\* The box on the screen always gets the keys, and Escape always leads home
\* (model.go handleKey against view.go View).
THEOREM EscapeWorks == Spec => []EscLeadsHome
<1>1. IInv => EscLeadsHome
  BY OneBoxLeadsHome DEF IInv, TypeOK
<1> QED BY <1>1, Invariance, PTL

\* No answer of a command in flight closes a box, or opens one but the results of a
\* search (model.go Update).
THEOREM AnswersKeepBoxes == Spec => BackgroundKeepsBoxes
<1>1. IInv /\ [Next]_vars =>
        [\A t \in Task : Progress(t) =>
          /\ Boxes(ui') = Boxes(ui)
          /\ ui'.showResults # ui.showResults =>
                tasks[t].kind = "search" /\ tasks[t].stage = "ok" /\ ui'.showResults]_vars
  <2> SUFFICES ASSUME IInv, NEW t \in Task, Progress(t)
               PROVE  /\ Boxes(ui') = Boxes(ui)
                      /\ ui'.showResults # ui.showResults =>
                            tasks[t].kind = "search" /\ tasks[t].stage = "ok" /\ ui'.showResults
    OBVIOUS
  <2>1. ui \in Model
    BY DEF IInv, TypeOK
  <2>2. CASE Deliver(t)
    <3>1. CASE tasks[t].stage = "failed" /\ ui' = Failed(ui, tasks[t].kind)
      BY <2>1, <3>1 DEF Failed, Boxes, Model
    <3>2. CASE tasks[t].stage = "ok" /\ tasks[t].kind = "load" /\ ui' = Snapshot(ui, tasks[t].seen)
      <4> DEFINE u == [ui EXCEPT !.loading = FALSE, !.snap = tasks[t].seen]
      <4>1. tasks[t] \in Command
        BY <3>2 DEF IInv, TypeOK, NoTask
      <4>2. tasks[t].seen \in Seq(Version) /\ Len(tasks[t].seen) = 3
        BY <3>2, <4>1 DEF IInv, SeenOK, Command
      <4>3. u \in Model /\ Boxes(u) = Boxes(ui) /\ u.showResults = ui.showResults
        BY <2>1, <4>2 DEF Model, Boxes
      <4>4. ui' = Rebuild(u)
        BY <3>2 DEF Snapshot
      <4> HIDE DEF u
      <4> QED BY <4>3, <4>4, RebuildShowsSnapshot
    <3>3. CASE tasks[t].stage = "ok" /\ tasks[t].kind = "search" /\ ui' = SearchResult(ui)
      BY <2>1, <3>3 DEF SearchResult, Boxes, Model
    <3>4. CASE tasks[t].stage = "ok" /\ tasks[t].kind = "reindex" /\ ui' = [ui EXCEPT !.reindexing = FALSE]
      BY <2>1, <3>4 DEF Boxes, Model
    <3> QED BY <2>2, <3>1, <3>2, <3>3, <3>4 DEF Deliver
  <2>3. CASE Read(t) \/ Search(t) \/ BeginReindex(t) \/ CommitReindex(t)
    <3>1. ui' = ui
      BY <2>3 DEF Read, Search, BeginReindex, CommitReindex, Advance
    <3> QED BY <3>1
  <2> QED BY <2>2, <2>3 DEF Progress
<1> QED BY <1>1, Invariance, PTL DEF Spec, BackgroundKeepsBoxes
=============================================================================
