------------------------------- MODULE Reindex -------------------------------
(***************************************************************************)
(* Index runs (internal/index) over one store.  A run is one process that  *)
(* executes `columbus reindex` or `columbus install`: it selects files,    *)
(* scans them, snapshots the vectors of the files about to be rewritten,   *)
(* writes rows in one transaction, resolves the graph in a second one and  *)
(* embeds in many small ones.  Between any two steps the user may edit the *)
(* working tree, another process may commit, and the run may be killed.    *)
(*                                                                         *)
(* An operator named for a slip (ScanForever, CommitEarly) is a faulty      *)
(* variant of the definition after it, as in Catalog.                      *)
(*                                                                         *)
(* SQLite gives each reader the last committed catalog (db, WAL mode) and  *)
(* takes the write lock when a transaction begins (_txlock=immediate).     *)
(* The transaction of the metadata write is modelled statement by          *)
(* statement on a private copy (work); every other transaction, being one  *)
(* statement group on data read beforehand, is one step taken while the    *)
(* lock is free.                                                           *)
(***************************************************************************)
EXTENDS Catalog

CONSTANTS
    Proc, NoProc,   \* processes that run an index operation; the free lock
    NoFile, NoHash, \* a path without a file; a path without a row
    Skipped,        \* contents scanOne skips: binary or oversized
    InGit,          \* whether the project is a git repository
    Modes,          \* the modes runs are started in
    Embedders,      \* the models runs embed with; NoModel is --no-embed
    MayFail,        \* whether a run may be killed or meet an error
    MaxRuns,        \* bound: runs started
    MaxEdits        \* bound: changes to the working tree and to the git index

AllModes == {"incremental", "full", "changed", "clean", "status"}

ASSUME ReindexAssumption ==
    /\ NoProc \notin Proc
    /\ NoFile \notin Content
    /\ NoHash \notin Hash
    /\ Skipped \subseteq Content
    /\ InGit \in BOOLEAN /\ MayFail \in BOOLEAN
    /\ Modes \subseteq AllModes
    /\ Embedders \subseteq Model \cup {NoModel}
    /\ MaxRuns \in Nat /\ MaxEdits \in Nat

VARIABLES
    tree,    \* the working tree: path -> content
    staged,  \* the git index: path -> content
    db,      \* the committed catalog
    lock,    \* the process whose write transaction is open
    work,    \* the catalog as that transaction sees it
    pc,      \* where each process is in Run
    run,     \* the local variables of each process's Run
    runs,    \* runs started so far
    edits    \* edits made so far

vars == <<tree, staged, db, lock, work, pc, run, runs, edits>>

Tree == [Path -> Content \cup {NoFile}]

(***************************************************************************)
(* The locals of Run.  existing and cands are its maps; scanned holds the  *)
(* outcomes, caps the captured vectors; files and imports what             *)
(* resolveGraphEdges read; todo and gone the paths a loop has left.  Of    *)
(* the embed phase, carry holds the vectors carried over that are yet to   *)
(* be stored, syms and fallbacks are symJobs and fileJobs, and slots is    *)
(* fileVecs, keyed by file id.  quiet is not in the code: it says that     *)
(* since the run started nothing else has changed the tree or the catalog. *)
(***************************************************************************)
NotScanned == [kind |-> "none", hash |-> NoHash]
NoCapture  == [file |-> 0, syms |-> {}, chunks |-> {}]

NoRun ==
    [mode |-> "status", model |-> NoModel, cands |-> {}, tracked |-> {},
     existing |-> [p \in Path |-> NoHash], scanned |-> [p \in Path |-> NotScanned],
     caps |-> [p \in Path |-> NoCapture], files |-> {}, imports |-> {},
     todo |-> {}, gone |-> {},
     carry |-> {}, syms |-> {}, fallbacks |-> {}, slots |-> <<>>,
     quiet |-> FALSE]

Parsed(r) == {p \in Path : r.scanned[p].kind = "parsed"}

\* Rows whose path is no longer a candidate.
Gone(r) == {p \in Path : r.existing[p] # NoHash /\ p \notin r.cands}

\* What a finished run leaves behind for the properties to speak about.
Finished(r) ==
    [NoRun EXCEPT !.mode = r.mode, !.model = r.model, !.cands = r.cands,
                  !.scanned = r.scanned, !.quiet = TRUE]

Running(p) == pc[p] \notin {"idle", "done"}
Settled    == \A p \in Proc : ~Running(p)

\* Somebody else changed the tree or the catalog under q's feet.
Disturbed(q) == IF pc[q] = "done" THEN NoRun ELSE [run[q] EXCEPT !.quiet = FALSE]

-----------------------------------------------------------------------------
(* How a step ends *)

\* p moves on in private: nothing another process can see has changed.
Privately(p, r, label) ==
    /\ run' = [run EXCEPT ![p] = r]
    /\ pc' = [pc EXCEPT ![p] = label]
    /\ UNCHANGED <<tree, staged, db, lock, work, runs, edits>>

\* p moves on, and a transaction of its own has left the catalog d.
Publishing(p, d, r, label) ==
    /\ lock = NoProc
    /\ db' = d
    /\ run' = [q \in Proc |-> IF q = p THEN r
                              ELSE IF d = db THEN run[q] ELSE Disturbed(q)]
    /\ pc' = [pc EXCEPT ![p] = label]
    /\ UNCHANGED <<tree, staged, lock, work, runs, edits>>

\* Run returns without an error.
Result(r) == IF r.quiet THEN Finished(r) ELSE NoRun

-----------------------------------------------------------------------------
(* Selecting and scanning *)

\* indexrun.go builds no embedder for status and clean.
Start(p) ==
    /\ ~Running(p)
    /\ runs < MaxRuns
    /\ \E m \in Modes, e \in Embedders \cup {NoModel} :
        /\ IF m \in {"status", "clean"} THEN e = NoModel ELSE e \in Embedders
        /\ run' = [run EXCEPT ![p] = [NoRun EXCEPT !.mode = m, !.model = e, !.quiet = TRUE]]
        /\ pc' = [pc EXCEPT ![p] = IF m = "clean" THEN "clean" ELSE "select"]
    /\ runs' = runs + 1
    /\ UNCHANGED <<tree, staged, db, lock, work, edits>>

Tracked   == {p \in Path : InGit /\ staged[p] # NoFile}
Untracked == {p \in Path : tree[p] # NoFile} \ Tracked
Modified  == {p \in Tracked : tree[p] # staged[p]}

\* selectGit lists what git tracks, on disk or not; selectWalk what is on disk.
Listed(mode) == Untracked \cup (IF mode = "changed" THEN Modified ELSE Tracked)

SelectFiles(p) ==
    /\ pc[p] = "select"
    /\ Privately(p, [run[p] EXCEPT !.cands = Listed(run[p].mode),
                                   !.tracked = Listed(run[p].mode) \cap Tracked], "hashes")

ReadHashes(p) ==
    /\ pc[p] = "hashes"
    /\ Privately(p, [run[p] EXCEPT
                        !.existing = [q \in Path |->
                            IF FileAt(db, q) = {} THEN NoHash
                            ELSE (CHOOSE f \in FileAt(db, q) : TRUE).hash],
                        !.todo = run[p].cands], "scan")

\* What one worker finds of one candidate.
ScanOneByPresence(r, q) ==
    LET hash == [tracked |-> q \in r.tracked, content |-> tree[q]]
    IN  IF tree[q] \in Skipped \cup {NoFile}
        THEN [kind |-> "skip", hash |-> NoHash]
        ELSE IF r.mode # "full" /\ r.existing[q] # NoHash
        THEN [kind |-> "same", hash |-> hash]
        ELSE [kind |-> "parsed", hash |-> hash]
ScanOne(r, q) ==
    LET hash == [tracked |-> q \in r.tracked, content |-> tree[q]]
    IN  IF tree[q] \in Skipped \cup {NoFile}
        THEN [kind |-> "skip", hash |-> NoHash]
        ELSE IF r.mode # "full" /\ r.existing[q] = hash
        THEN [kind |-> "same", hash |-> hash]
        ELSE [kind |-> "parsed", hash |-> hash]

\* The workers take candidates in any order.
ScanForever(p) ==
    /\ pc[p] = "scan"
    /\ \E q \in run[p].todo :
        Privately(p, [run[p] EXCEPT !.scanned[q] = ScanOne(run[p], q)], "scan")
Scan(p) ==
    /\ pc[p] = "scan"
    /\ \E q \in run[p].todo :
        Privately(p, [run[p] EXCEPT !.scanned[q] = ScanOne(run[p], q), !.todo = @ \ {q}], "scan")

\* The work pool has drained.  Only an embedding run that is not full captures.
EndScan(p) ==
    /\ pc[p] = "scan" /\ run[p].todo = {}
    /\ CASE run[p].mode = "status" ->
              Privately(p, Result(run[p]), "done")
         [] run[p].mode # "status" /\ run[p].model # NoModel /\ run[p].mode # "full" ->
              Privately(p, [run[p] EXCEPT !.todo = Parsed(run[p]) \cup Gone(run[p])], "capture")
         [] OTHER ->
              Privately(p, run[p], "begin")

\* captureChunks for one path: what FileByPath, FileSymbolChunks and
\* SymbolIDsByFile return.
CaptureOf(q, m) ==
    LET fids == Ids(FileAt(db, q))
    IN  IF fids = {} THEN NoCapture
        ELSE [file |-> CHOOSE i \in fids : TRUE,
              syms |-> Ids(SymbolsIn(db, fids)),
              chunks |-> FileSymbolChunks(db, fids, m)]

Capture(p) ==
    /\ pc[p] = "capture"
    /\ IF run[p].todo = {}
       THEN Privately(p, run[p], "begin")
       ELSE LET q == Min(run[p].todo)
            IN  Privately(p, [run[p] EXCEPT !.caps[q] = CaptureOf(q, run[p].model),
                                            !.todo = @ \ {q}], "capture")

-----------------------------------------------------------------------------
(* The metadata transaction *)

OpenWrite(p, d) ==
    /\ pc[p] = "begin"
    /\ lock' = p
    /\ work' = d
    /\ run' = [run EXCEPT ![p].gone = IF run[p].mode = "incremental" THEN Gone(run[p]) ELSE {},
                          ![p].todo = Parsed(run[p])]
    /\ pc' = [pc EXCEPT ![p] = "write"]
    /\ UNCHANGED <<tree, staged, db, runs, edits>>

BeginWriteDeferred(p) == OpenWrite(p, IF run[p].mode = "full" THEN ClearIndex(db) ELSE db)
BeginWriteKeepRows(p) == lock = NoProc /\ OpenWrite(p, db)
BeginWrite(p) ==
    /\ lock = NoProc
    /\ OpenWrite(p, IF run[p].mode = "full" THEN ClearIndex(db) ELSE db)

\* A statement group of the open transaction.
Writing(p, d, r) ==
    /\ work' = d
    /\ run' = [run EXCEPT ![p] = r]
    /\ UNCHANGED <<tree, staged, db, lock, pc, runs, edits>>

\* Rows of vanished files, in map order.
DropGone(p) ==
    /\ pc[p] = "write"
    /\ \E q \in run[p].gone :
        Writing(p, DeleteFileByPath(work, q), [run[p] EXCEPT !.gone = @ \ {q}])

\* Parsed files, in candidate order.
PutNext(p) ==
    /\ pc[p] = "write" /\ run[p].gone = {} /\ run[p].todo # {}
    /\ LET q == Min(run[p].todo)
       IN  Writing(p, PutFile(work, q, run[p].scanned[q].hash), [run[p] EXCEPT !.todo = @ \ {q}])

Commit(p) ==
    /\ pc[p] = "write"
    /\ db' = SetIndexState(work)
    /\ lock' = NoProc
    /\ work' = EmptyCatalog
    /\ run' = [q \in Proc |-> IF q = p THEN run[p] ELSE Disturbed(q)]
    /\ pc' = [pc EXCEPT ![p] = "graph"]
    /\ UNCHANGED <<tree, staged, runs, edits>>

CommitEarly(p) == run[p].gone = {} /\ Commit(p)
CommitWrite(p) == run[p].gone = {} /\ run[p].todo = {} /\ Commit(p)

\* runClean.  The vectors go only with an embedder, which Start never gives it.
Clean(p) ==
    /\ pc[p] = "clean"
    /\ LET d == SetIndexState(ClearIndex(db))
       IN  Publishing(p, IF run[p].model = NoModel THEN d ELSE ClearVectors(d),
                      Result(run[p]), "done")

-----------------------------------------------------------------------------
(* The graph *)

ReadFiles(p) ==
    /\ pc[p] = "graph"
    /\ Privately(p, [run[p] EXCEPT !.files = {[id |-> f.id, path |-> f.path] : f \in db.files}],
                 "imports")

ReadImportsOfParsed(p) ==
    /\ pc[p] = "imports"
    /\ LET parsed == Ids({f \in db.files : f.path \in Parsed(run[p])})
       IN  Privately(p, [run[p] EXCEPT !.imports = {i \in Imports(db) : i[1] \in parsed}], "link")
ReadImports(p) ==
    /\ pc[p] = "imports"
    /\ Privately(p, [run[p] EXCEPT !.imports = Imports(db)], "link")

Edges(r) == Resolve(r.files, r.imports)

\* The captures that name a row: the others have nothing to drop.
Captured(r) ==
    {q \in Parsed(r) \cup (IF r.mode = "incremental" THEN Gone(r) ELSE {}) : r.caps[q].file # 0}

WriteGraph(p) ==
    /\ pc[p] = "link"
    /\ EdgesHaveFiles(db, Edges(run[p]))
    /\ LET r == [run[p] EXCEPT !.files = {}, !.imports = {}]
       IN  IF r.model = NoModel
           THEN Publishing(p, ReplaceGraph(db, Edges(run[p])), Result(r), "done")
           ELSE Publishing(p, ReplaceGraph(db, Edges(run[p])),
                           [r EXCEPT !.todo = Captured(r)], "purge")

-----------------------------------------------------------------------------
(* Embedding *)

\* dropCaptured is two transactions: the old symbols' vectors, if there were any,
\* then the old file's.  The files are independent of one another, so their order
\* is fixed.
PurgeSymbols(p) ==
    /\ pc[p] = "purge" /\ run[p].todo # {}
    /\ LET syms == run[p].caps[Min(run[p].todo)].syms
       IN  IF syms = {}
           THEN Privately(p, run[p], "purgeFile")
           ELSE Publishing(p, DeleteVectors(db, "symbol", syms), run[p], "purgeFile")

PurgeFile(p) ==
    /\ pc[p] = "purgeFile"
    /\ LET q == Min(run[p].todo)
       IN  Publishing(p, DeleteVectors(db, "file", {run[p].caps[q].file}),
                      [run[p] EXCEPT !.todo = @ \ {q}], "purge")

EndPurge(p) ==
    /\ pc[p] = "purge" /\ run[p].todo = {}
    /\ Privately(p, [run[p] EXCEPT !.todo = Parsed(run[p])], "plan")

\* The stored vector a parsed symbol may keep: its identity and its text hash
\* were captured.
CarriedByIdentity(captured, symbol) ==
    {ch.of : ch \in {x \in captured : x.ident = symbol.ident}}
Carried(captured, symbol) ==
    {ch.of : ch \in {x \in captured : x.ident = symbol.ident /\ x.of = SymbolVector(symbol.text)}}

\* A vector to store for row id of the file that was at path when it was planned.
Job(path, file, slot, id, of) ==
    [path |-> path, file |-> file, slot |-> slot, id |-> id, of |-> of]

\* Jobs are stored in the order of the files and, in a file, of its symbols.
First(jobs) ==
    {j \in jobs : \A k \in jobs :
        \/ j.path < k.path
        \/ j.path = k.path /\ j.slot <= k.slot}

(***************************************************************************)
(* The work one parsed file owes.  Stored symbol ids are matched with the  *)
(* parsed symbols by their place.  A slot that is set holds one vector.    *)
(* Another run may have given two of the files the same id in turn: the    *)
(* slots of the second replace those of the first, whose jobs stay.        *)
(***************************************************************************)
PlanFile(r, q, fid, ids) ==
    LET content == r.scanned[q].hash.content
        symbols == SymbolsOf[content]
        rows    == {x \in ids : x.place \in DOMAIN symbols}
        kept(i) == Carried(r.caps[q].chunks, symbols[i])
        carried == {x \in rows : kept(x.place) # {}}
        of(i)   == IF kept(i) # {} THEN CHOOSE v \in kept(i) : TRUE ELSE SymbolVector(symbols[i].text)
        jobs(X) == {Job(q, fid, x.place, x.id, of(x.place)) : x \in X}
        slots   == [i \in {x.place : x \in rows} |-> IF kept(i) # {} THEN {of(i)} ELSE {}]
    IN  IF symbols = <<>>
        THEN [r EXCEPT !.fallbacks = @ \cup {Job(q, fid, 0, fid, FallbackVector(q, content))}]
        ELSE [r EXCEPT !.carry = jobs(carried),
                       !.syms  = @ \cup jobs(rows \ carried),
                       !.slots = [i \in DOMAIN @ \cup {fid} |-> IF i = fid THEN slots ELSE @[i]]]

Plan(p) ==
    /\ pc[p] = "plan" /\ run[p].carry = {} /\ run[p].todo # {}
    /\ LET q == Min(run[p].todo)
           r == [run[p] EXCEPT !.todo = @ \ {q}]
       IN  IF FileAt(db, q) = {}
           THEN Privately(p, r, "plan")
           ELSE LET fid == CHOOSE i \in Ids(FileAt(db, q)) : TRUE
                IN  Privately(p, PlanFile(r, q, fid, SymbolIdsByFile(db, {fid})), "plan")

\* One UpsertVector, a transaction of its own.
Store(p, owner, i, of, r) ==
    Publishing(p, UpsertVector(db, owner, i, run[p].model, of), r, pc[p])

CarryVector(p) ==
    /\ pc[p] = "plan"
    /\ \E j \in First(run[p].carry) :
        Store(p, "symbol", j.id, j.of, [run[p] EXCEPT !.carry = @ \ {j}])

\* The batch comes back.
EmbedBatch(p) ==
    /\ pc[p] = "plan" /\ run[p].carry = {} /\ run[p].todo = {}
    /\ Privately(p, run[p], "store")

StoreSymbol(p) ==
    /\ pc[p] = "store"
    /\ \E j \in First(run[p].syms) :
        /\ j.slot \in DOMAIN run[p].slots[j.file]
        /\ Store(p, "symbol", j.id, j.of, [run[p] EXCEPT !.syms = @ \ {j},
                                                        !.slots[j.file][j.slot] = {j.of}])

\* The slot is beyond those of the file that has the id now: the vector is stored
\* and the process panics.
StoreAndPanic(p) ==
    /\ pc[p] = "store"
    /\ \E j \in First(run[p].syms) :
        /\ j.slot \notin DOMAIN run[p].slots[j.file]
        /\ Publishing(p, UpsertVector(db, "symbol", j.id, run[p].model, j.of), NoRun, "idle")

StoreFallback(p) ==
    /\ pc[p] = "store" /\ run[p].syms = {}
    /\ \E j \in First(run[p].fallbacks) :
        Store(p, "file", j.id, j.of, [run[p] EXCEPT !.fallbacks = @ \ {j}])

\* Files whose mean is yet to be stored.  One with no slot set has none.
Means(r) == {fid \in DOMAIN r.slots : \E i \in DOMAIN r.slots[fid] : r.slots[fid][i] # {}}

\* In map order.
StoreMean(p) ==
    /\ pc[p] = "store" /\ run[p].syms = {} /\ run[p].fallbacks = {}
    /\ \E fid \in Means(run[p]) :
        Store(p, "file", fid, MeanVector(run[p].slots[fid]),
              [run[p] EXCEPT !.slots = [i \in DOMAIN @ \ {fid} |-> @[i]]])

\* embedMemories touches no row modelled here; then the model is recorded.
Seal(p) ==
    /\ pc[p] = "store" /\ run[p].syms = {} /\ run[p].fallbacks = {} /\ Means(run[p]) = {}
    /\ Publishing(p, SetEmbedInfo(db, run[p].model), Result(run[p]), "done")

-----------------------------------------------------------------------------
(* Ways a run ends early.  In each the open transaction is rolled back and
   what was committed before stays. *)

Abandon(p) ==
    /\ run' = [run EXCEPT ![p] = NoRun]
    /\ pc' = [pc EXCEPT ![p] = "idle"]
    /\ lock' = IF lock = p THEN NoProc ELSE lock
    /\ work' = IF lock = p THEN EmptyCatalog ELSE work
    /\ UNCHANGED <<tree, staged, db, runs, edits>>

\* The process is killed, or git, the disk or the embedder returns an error.
Fail(p) == MayFail /\ Running(p) /\ Abandon(p)

\* The edges name a file that is gone: the foreign key fails the transaction.
GraphConflict(p) ==
    /\ pc[p] = "link" /\ lock = NoProc
    /\ ~EdgesHaveFiles(db, Edges(run[p]))
    /\ Abandon(p)

NeedsLock(p) ==
    \/ pc[p] \in {"begin", "clean", "link", "purgeFile", "store"}
    \/ pc[p] = "purge" /\ run[p].todo # {} /\ run[p].caps[Min(run[p].todo)].syms # {}
    \/ pc[p] = "plan" /\ run[p].carry # {}

\* busy_timeout runs out: INDEX_LOCKED.
Busy(p) == NeedsLock(p) /\ lock \notin {NoProc, p} /\ Abandon(p)

-----------------------------------------------------------------------------
(* The user *)

Editing ==
    /\ edits < MaxEdits
    /\ edits' = edits + 1
    /\ run' = [q \in Proc |-> Disturbed(q)]
    /\ UNCHANGED <<db, lock, work, pc, runs>>

Edit ==
    /\ Editing
    /\ \E q \in Path, c \in Content \cup {NoFile} :
        /\ c # tree[q]
        /\ tree' = [tree EXCEPT ![q] = c]
    /\ UNCHANGED staged

\* git add --all
Stage ==
    /\ Editing
    /\ InGit /\ staged # tree
    /\ staged' = tree
    /\ UNCHANGED tree

-----------------------------------------------------------------------------
Init ==
    /\ tree \in Tree
    /\ staged = IF InGit THEN tree ELSE [q \in Path |-> NoFile]
    /\ db = EmptyCatalog
    /\ lock = NoProc
    /\ work = EmptyCatalog
    /\ pc = [p \in Proc |-> "idle"]
    /\ run = [p \in Proc |-> NoRun]
    /\ runs = 0
    /\ edits = 0

\* The steps of a run that is under way.
Step(p) ==
    \/ SelectFiles(p) \/ ReadHashes(p) \/ Scan(p) \/ EndScan(p) \/ Capture(p)
    \/ BeginWrite(p) \/ DropGone(p) \/ PutNext(p) \/ CommitWrite(p) \/ Clean(p)
    \/ ReadFiles(p) \/ ReadImports(p) \/ WriteGraph(p) \/ GraphConflict(p)
    \/ PurgeSymbols(p) \/ PurgeFile(p) \/ EndPurge(p)
    \/ Plan(p) \/ CarryVector(p) \/ EmbedBatch(p)
    \/ StoreSymbol(p) \/ StoreAndPanic(p) \/ StoreFallback(p) \/ StoreMean(p) \/ Seal(p)

\* No run is under way and no bound allows another.
Rest == Settled /\ runs = MaxRuns /\ UNCHANGED vars

Next ==
    \/ \E p \in Proc : Start(p) \/ Step(p) \/ Fail(p) \/ Busy(p)
    \/ Edit \/ Stage
    \/ Rest

Spec == Init /\ [][Next]_vars

\* A process that can take a step is scheduled; a run waits for the lock at
\* most busy_timeout, so Busy is fair as well.  Nobody has to start a run.
Fairness == \A p \in Proc : WF_vars(Step(p)) /\ WF_vars(Busy(p))

FairSpec == Spec /\ Fairness

-----------------------------------------------------------------------------
(* Types *)

Locations ==
    {"idle", "done", "select", "hashes", "scan", "capture", "begin", "write", "clean",
     "graph", "imports", "link", "purge", "purgeFile", "plan", "store"}

RunType(r) ==
    /\ DOMAIN r = DOMAIN NoRun
    /\ r.mode \in AllModes /\ r.model \in Model \cup {NoModel}
    /\ r.cands \subseteq Path /\ r.tracked \subseteq r.cands
    /\ r.existing \in [Path -> Hash \cup {NoHash}]
    /\ r.scanned \in [Path -> [kind : {"none", "skip", "same", "parsed"}, hash : Hash \cup {NoHash}]]
    /\ \A q \in Path : r.scanned[q].kind = "parsed" => r.scanned[q].hash \in Hash
    /\ r.todo \subseteq Path /\ r.gone \subseteq Path
    /\ \A j \in r.carry \cup r.syms \cup r.fallbacks : j.id \in RowId /\ j.file \in RowId
    /\ DOMAIN r.slots \subseteq RowId
    /\ r.quiet \in BOOLEAN

\* The variables have the types their comments give them.
TypeOK ==
    /\ tree \in Tree /\ staged \in Tree
    /\ CatalogType(db) /\ CatalogType(work)
    /\ lock \in Proc \cup {NoProc}
    /\ pc \in [Proc -> Locations]
    /\ DOMAIN run = Proc /\ \A p \in Proc : RunType(run[p])
    /\ runs \in 0 .. MaxRuns /\ edits \in 0 .. MaxEdits

-----------------------------------------------------------------------------
(* Properties that hold whatever fails and whoever else is indexing *)

\* No reader ever meets a catalog in the middle of an index write: paths and ids
\* are unique although ids are reused, every symbol and edge has its files, the
\* full-text rows are those of the files and symbols there, and the counts of
\* index_meta are the counts of the tables (index.go:1-3, store.go:63-64).
CatalogConsistent ==
    /\ Consistent(db)
    /\ db.meta.files = Cardinality(db.files)
    /\ db.meta.symbols = Cardinality(db.symbols)

\* A file in the catalog has all the symbols of one content it was hashed from
\* and of no other, although rows, ids and full text are written separately and
\* the file may change on disk at any time (index.go:304-305, PutFile).
WholeFiles == \A f \in db.files : WholeFile(db, f)

\* A run that is in its write transaction is the only one that is, and any
\* transaction that is open belongs to such a run: the lock is neither shared
\* nor leaked by a rollback (WithTx).
LockHeldByWriter == \A p \in Proc : pc[p] = "write" <=> lock = p

-----------------------------------------------------------------------------
(* Properties of a run that was left alone: no edit and no other commit while
   it ran.  They do not depend on what happened before it started. *)

LeftAlone(p) == pc[p] = "done" /\ run[p].quiet

RowMatchesTree(q) ==
    \E f \in db.files : f.path = q /\ f.hash = [tracked |-> q \in Tracked, content |-> tree[q]]

\* When a run ends, every candidate it could read is indexed with the content it
\* has; a full run has kept nothing else, an incremental run has kept nothing that
\* is no longer a candidate, and a clean run has kept nothing (index.go:20-32).
\* In particular the hash gate never leaves a changed file behind.
MirrorsTree ==
    \A p \in Proc : LeftAlone(p) =>
        LET r == run[p]
            read == {q \in r.cands : r.scanned[q].kind # "skip"}
            rows == {f.path : f \in db.files}
        IN  /\ r.mode \notin {"status", "clean"} => \A q \in read : RowMatchesTree(q)
            /\ r.mode = "full" => rows = read
            /\ r.mode = "incremental" => rows \subseteq r.cands
            /\ r.mode = "clean" => db.files = {}

\* When a run ends, the graph is the resolution of all the rows there are, those
\* it did not touch included (index.go:158-159).
GraphComplete ==
    \A p \in Proc : LeftAlone(p) /\ run[p].mode # "status" => db.edges = Resolve(db.files, Imports(db))

\* What a live symbol or file should be ranked by.
TruthOfSymbol(s) == SymbolVector(s.text)

TruthOfFile(f) ==
    LET symbols == SymbolsOf[f.hash.content]
    IN  IF symbols = <<>> THEN FallbackVector(f.path, f.hash.content)
        ELSE MeanVector([i \in DOMAIN symbols |-> {SymbolVector(symbols[i].text)}])

\* The vectors of an owner say what the owner is, and there is one.
Embedded(d, owner, i, truth, m) == {v.of : v \in VectorsOf(d, owner, i, m)} = {truth}

FileEmbedded(d, f, m) ==
    /\ Embedded(d, "file", f.id, TruthOfFile(f), m)
    /\ \A s \in SymbolsIn(d, {f.id}) : Embedded(d, "symbol", s.id, TruthOfSymbol(s), m)

\* Every file an embedding run has rewritten ends up with the right vectors, its
\* own and its symbols', whatever vectors earlier runs left on the ids it reused
\* and whichever it carried over from its capture (embed.go:91-238).
RewrittenFilesEmbedded ==
    \A p \in Proc : LeftAlone(p) /\ run[p].model # NoModel =>
        \A f \in db.files : f.path \in Parsed(run[p]) => FileEmbedded(db, f, run[p].model)

-----------------------------------------------------------------------------
(* Properties of a store only one process writes, with embeddings *)

\* The graph never joins files that have nothing to do with one another, although ids
\* come back and the graph is replaced in a transaction after that of the files: between
\* the two, and after a run that died there, every edge is still one that an import of
\* the present content of the one file may mean, or the test's name.  Edges may be
\* missing then, and one may lead to a later candidate than the rows resolve to by now
\* (index.go:158-159, ON DELETE CASCADE of dep_edges and test_links).
MayJoin(f, g, e) ==
    \/ /\ e = <<f.id, g.id, "import">>
       /\ \E s \in ImportsOf[f.hash.content] : g.path \in Range(Candidates[<<f.path, s>>])
    \/ /\ e = <<f.id, g.id, "test">>
       /\ f.path \in Range(ImplsOf[g.path])
EdgesSupported ==
    \A e \in db.edges : \E f, g \in db.files : f.id # g.id /\ MayJoin(f, g, e)

\* Between runs, every file and every symbol has one vector and it is the right
\* one: across modes, the carried vectors, the dropped ones and the reused ids
\* never leave a vector behind on a row it was not computed from.
AllEmbedded ==
    Settled => \A m \in Embedders \ {NoModel} : \A f \in db.files : FileEmbedded(db, f, m)

-----------------------------------------------------------------------------
(* What comments of the code say *)

\* vec_repo.go:221-223: a full or clean reindex clears the vectors explicitly, as
\* no foreign key ties them to files.
NoOrphanVectors ==
    \A p \in Proc : LeftAlone(p) /\ run[p].mode \in {"full", "clean"} =>
        \A v \in db.vecs : v.id \in Ids(IF v.owner = "file" THEN db.files ELSE db.symbols)

\* After an embedding run has succeeded, every file and symbol can be found by
\* its vector, also when an earlier run died after its metadata was committed
\* (index.go:1-3: a run is all or nothing), was made by a binary with another
\* model (meta.go:53-55: a run with another model embeds everything again), or
\* had no embeddings (doctor.go:274: the cure is to run columbus reindex).
EmbeddingRunCovers ==
    \A p \in Proc : LeftAlone(p) /\ run[p].model # NoModel =>
        \A f \in db.files : FileEmbedded(db, f, run[p].model)

-----------------------------------------------------------------------------
(* The promise of an atomic run *)

\* What a search for path q finds in catalog d: rows are reached through the
\* full-text table.
ShownAt(d, q) ==
    LET hits(grain) == {r.ref : r \in {x \in d.fts : x.path = q /\ x.grain = grain}}
    IN  [files   |-> {f.hash.content : f \in {x \in d.files : x.id \in hits("file")}},
         symbols |-> {s.ident : s \in {x \in d.symbols : x.id \in hits("symbol")}}]

ShownOf(c) ==
    [files |-> {c}, symbols |-> {SymbolsOf[c][i].ident : i \in DOMAIN SymbolsOf[c]}]

ShowsNothing == [files |-> {}, symbols |-> {}]

\* The paths whose rows the write of run r removes.
Dropped(r) ==
    CASE r.mode = "full"        -> Path \ Parsed(r)
      [] r.mode = "incremental" -> Gone(r)
      [] OTHER                  -> {}

\* What run r will have changed once its write transaction commits.
OfferOf(r) ==
    [q \in Parsed(r) \cup Dropped(r) |->
        IF q \in Parsed(r) THEN ShownOf(r.scanned[q].hash.content) ELSE ShowsNothing]

Promise ==
    INSTANCE IndexPromise WITH
        Extraction <- {ShownOf(c) : c \in Content},
        Nothing    <- ShowsNothing,
        visible    <- [q \in Path |-> ShownAt(db, q)],
        offer      <- [p \in Proc |-> IF pc[p] = "write" THEN {OfferOf(run[p])} ELSE {}]

\* What searches find changes only by whole runs: a run that ends its write
\* transaction publishes every file it parsed and every removal it decided on in
\* one step, on top of what other runs published while it was scanning, and a
\* run that dies publishes nothing (index.go:1-3 and write).
RunsAreAtomic == Promise!Spec

-----------------------------------------------------------------------------
(* Liveness *)

\* Every run comes to an end, with a result or with an error: no pair of runs
\* waits for each other's lock, and none waits for a lock that nobody holds.
RunsEnd == \A p \in Proc : Running(p) ~> ~Running(p)
=============================================================================
