---------------------------- MODULE ReindexProofs ----------------------------
(***************************************************************************)
(* Safety of index runs, for any number of processes that index at once,   *)
(* any files and any failures.  IInv is inductive: one lemma per action    *)
(* shows that the action preserves it, most of them by way of              *)
(* PrivatelyStep, WritingStep or PublishingStep, the three ways a step     *)
(* treats the catalog.  RInv, beside it, says what a run knows of the tree *)
(* and of the catalog at each place it can be at, and is proved in the     *)
(* same way; SInv and AInv add what holds when only one process writes.    *)
(***************************************************************************)
EXTENDS Reindex, CatalogProofs

\* Where a run is in its embed phase.
Embedding == {"purge", "purgeFile", "plan", "store"}

\* What holds of the locals of a run at a label: the loop of the write transaction
\* has parsed files left and nothing else, and whoever embeds has a model.
RunInv(r, label) ==
    /\ RunType(r)
    /\ label = "write" => r.todo \subseteq Parsed(r)
    /\ label \in Embedding => r.model \in Model

\* The inductive invariant.  The transaction in progress keeps its private copy as
\* good as the committed catalog, but for the counts, which are true only again
\* when SetIndexState has run: that is why work is Good and db also Counted.  And
\* whoever is in a transaction holds the lock, so nobody commits under it.
IInv ==
    /\ tree \in Tree /\ staged \in Tree
    /\ lock \in Proc \cup {NoProc}
    /\ pc \in [Proc -> Locations]
    /\ runs \in 0 .. MaxRuns /\ edits \in 0 .. MaxEdits
    /\ Good(db) /\ Counted(db)
    /\ Good(work)
    /\ DOMAIN run = Proc
    /\ \A p \in Proc : RunInv(run[p], pc[p])
    /\ LockHeldByWriter

\* The invariant implies the properties the theorems are about.
LEMMA IInvImplies == IInv => TypeOK /\ CatalogConsistent /\ WholeFiles /\ LockHeldByWriter
<1> SUFFICES ASSUME IInv PROVE TypeOK /\ CatalogConsistent /\ WholeFiles /\ LockHeldByWriter
  OBVIOUS
<1>1. CatalogType(db) /\ CatalogType(work)
  BY GoodIsTyped DEF IInv
<1>2. TypeOK
  BY <1>1 DEF IInv, TypeOK, RunInv
<1>3. CatalogConsistent
  BY DEF IInv, Good, Sound, Counted, CatalogConsistent
<1>4. WholeFiles
  BY DEF IInv, Good, Sound, WholeFiles
<1> QED BY <1>2, <1>3, <1>4 DEF IInv

\* The locals of a run.
Fields == {"mode", "model", "cands", "tracked", "existing", "scanned", "caps", "files", "imports",
           "todo", "gone", "carry", "syms", "fallbacks", "slots", "quiet"}

\* They are the fields of NoRun.
LEMMA RunFields == DOMAIN NoRun = Fields
  BY DEF NoRun, Fields

\* The locals of no run satisfy the invariant wherever they may be found.
LEMMA NoRunTyped == ASSUME NEW label \in Locations \ Embedding PROVE RunInv(NoRun, label)
<1>1. /\ NoRun.mode = "status" /\ NoRun.model = NoModel /\ NoRun.cands = {} /\ NoRun.tracked = {}
      /\ NoRun.existing = [p \in Path |-> NoHash] /\ NoRun.scanned = [p \in Path |-> NotScanned]
      /\ NoRun.todo = {} /\ NoRun.gone = {} /\ NoRun.carry = {} /\ NoRun.syms = {}
      /\ NoRun.fallbacks = {} /\ NoRun.slots = <<>> /\ NoRun.quiet = FALSE
  BY DEF NoRun
<1>2. RunType(NoRun)
  <2>1. /\ NotScanned \in [kind : {"none", "skip", "same", "parsed"}, hash : Hash \cup {NoHash}]
        /\ NotScanned.kind = "none"
    BY DEF NotScanned
  <2>2. /\ NoRun.scanned \in [Path -> [kind : {"none", "skip", "same", "parsed"},
                                        hash : Hash \cup {NoHash}]]
        /\ \A q \in Path : NoRun.scanned[q].kind = "none"
    BY <1>1, <2>1
  <2>3. DOMAIN NoRun.slots \subseteq RowId
    BY <1>1
  <2>4. NoRun.existing \in [Path -> Hash \cup {NoHash}]
    BY <1>1
  <2> QED BY <1>1, <2>2, <2>3, <2>4 DEF RunType, AllModes
<1> QED BY <1>1, <1>2 DEF RunInv

\* A new store with nobody indexing satisfies the invariant.
LEMMA InitIInv == Init => IInv
<1> SUFFICES ASSUME Init PROVE IInv
  OBVIOUS
<1>1. \A p \in Proc : RunInv(run[p], pc[p])
  BY NoRunTyped DEF Init, Locations, Embedding
<1>2. LockHeldByWriter
  BY ReindexAssumption DEF Init, LockHeldByWriter
<1>3. tree \in Tree /\ staged \in Tree
  BY DEF Init, Tree
<1>4. pc \in [Proc -> Locations] /\ DOMAIN run = Proc
  BY DEF Init, Locations
<1>5. runs \in 0 .. MaxRuns /\ edits \in 0 .. MaxEdits
  BY ReindexAssumption DEF Init
<1> QED BY <1>1, <1>2, <1>3, <1>4, <1>5, EmptyCatalogGood DEF Init, IInv

\* Another process's commit, or an edit, leaves a run its locals.
LEMMA DisturbedTyped ==
    ASSUME NEW q \in Proc, RunInv(run[q], pc[q])
    PROVE  RunInv(Disturbed(q), pc[q])
<1>1. CASE pc[q] = "done"
  BY <1>1, NoRunTyped DEF Disturbed, Locations, Embedding
<1>2. CASE pc[q] # "done"
  <2>1. Disturbed(q) = [run[q] EXCEPT !.quiet = FALSE]
    BY <1>2 DEF Disturbed
  <2>2. DOMAIN run[q] = Fields
    BY RunFields DEF RunInv, RunType
  <2>3. RunType([run[q] EXCEPT !.quiet = FALSE])
    BY <2>2 DEF RunInv, RunType, Fields
  <2> QED BY <2>1, <2>2, <2>3 DEF RunInv, Fields, Parsed
<1> QED BY <1>1, <1>2

\* A private step preserves the invariant if the new locals do.
LEMMA PrivatelyStep ==
    ASSUME IInv, NEW p \in Proc, NEW r, NEW label \in Locations \ {"write"},
           Privately(p, r, label), RunInv(r, label), pc[p] # "write"
    PROVE  IInv'
<1> USE DEF IInv
<1>1. UNCHANGED <<tree, staged, db, lock, work, runs, edits>>
  BY DEF Privately
<1>2. pc' = [pc EXCEPT ![p] = label] /\ run' = [run EXCEPT ![p] = r]
  BY DEF Privately
<1>3. \A q \in Proc : RunInv(run[q], pc[q])'
  BY <1>2
<1>4. LockHeldByWriter'
  BY <1>1, <1>2 DEF LockHeldByWriter
<1> QED BY <1>1, <1>2, <1>3, <1>4 DEF Privately

\* A transaction of one step preserves the invariant if its catalog does: nobody is
\* in a write transaction, so nobody's private copy goes stale.
LEMMA PublishingStep ==
    ASSUME IInv, NEW p \in Proc, NEW d, NEW r, NEW label \in Locations \ {"write"},
           Publishing(p, d, r, label), RunInv(r, label), Good(d), Counted(d)
    PROVE  IInv'
<1> USE DEF IInv
<1>1. db' = d /\ lock = NoProc /\ UNCHANGED <<tree, staged, lock, work, runs, edits>>
  BY DEF Publishing
<1>2. /\ pc' = [pc EXCEPT ![p] = label]
      /\ run' = [q \in Proc |-> IF q = p THEN r ELSE IF d = db THEN run[q] ELSE Disturbed(q)]
  BY DEF Publishing
<1>3. \A q \in Proc : RunInv(run[q], pc[q])'
  BY <1>2, DisturbedTyped
<1>4. LockHeldByWriter'
  BY <1>1, <1>2, ReindexAssumption DEF LockHeldByWriter
<1> QED BY <1>1, <1>2, <1>3, <1>4

\* A run that starts a loop over some paths keeps its other locals.
LEMMA TodoTyped ==
    ASSUME NEW r, RunType(r), NEW todo \in SUBSET Path
    PROVE  /\ RunType([r EXCEPT !.todo = todo])
           /\ [r EXCEPT !.todo = todo].model = r.model
           /\ [r EXCEPT !.todo = todo].todo = todo
           /\ Parsed([r EXCEPT !.todo = todo]) = Parsed(r)
<1>1. DOMAIN r = Fields
  BY RunFields DEF RunType
<1> QED BY <1>1, RunFields DEF RunType, Fields, Parsed

\* What a finished run leaves behind has the types of locals.
LEMMA ResultTyped ==
    ASSUME NEW r, RunType(r)
    PROVE  RunInv(Result(r), "done")
<1>1. DOMAIN r = Fields
  BY RunFields DEF RunType
<1>2. RunType(NoRun) /\ RunInv(NoRun, "done")
  BY NoRunTyped DEF Locations, Embedding, RunInv
<1>3. NoRun.tracked = {}
  BY DEF NoRun
<1>4. RunType(Finished(r))
  BY <1>2, <1>3, RunFields DEF RunType, Finished, Fields
<1> QED BY <1>2, <1>4 DEF Result, RunInv, Embedding

\* Starting a run preserves the invariant.
LEMMA StartStep == ASSUME IInv, NEW p \in Proc, Start(p) PROVE IInv'
<1> USE DEF IInv
<1>1. PICK m \in Modes, e \in Embedders \cup {NoModel} :
        /\ run' = [run EXCEPT ![p] = [NoRun EXCEPT !.mode = m, !.model = e, !.quiet = TRUE]]
        /\ pc' = [pc EXCEPT ![p] = IF m = "clean" THEN "clean" ELSE "select"]
  BY DEF Start
<1>2. /\ UNCHANGED <<tree, staged, db, lock, work, edits>>
      /\ runs' = runs + 1 /\ runs < MaxRuns /\ ~Running(p)
  BY DEF Start
<1> DEFINE r == [NoRun EXCEPT !.mode = m, !.model = e, !.quiet = TRUE]
<1>3. RunType(NoRun)
  BY NoRunTyped DEF Locations, Embedding, RunInv
<1>4. RunType(r)
  BY <1>3, RunFields, ReindexAssumption DEF RunType, Fields
<1> HIDE DEF r
<1>5. RunInv(r, "clean") /\ RunInv(r, "select")
  BY <1>4 DEF RunInv, Embedding
<1>6. \A q \in Proc : RunInv(run[q], pc[q])'
  BY <1>1, <1>5 DEF r
<1>7. LockHeldByWriter'
  BY <1>1, <1>2 DEF LockHeldByWriter, Running
<1>8. pc' \in [Proc -> Locations] /\ DOMAIN run' = Proc
  BY <1>1 DEF Locations
<1>9. runs' \in 0 .. MaxRuns
  BY <1>2, ReindexAssumption
<1> QED BY <1>2, <1>6, <1>7, <1>8, <1>9

\* Selecting files preserves the invariant.
LEMMA SelectFilesStep == ASSUME IInv, NEW p \in Proc, SelectFiles(p) PROVE IInv'
<1> DEFINE cands == Listed(run[p].mode)
           r == [run[p] EXCEPT !.cands = cands, !.tracked = cands \cap Tracked]
<1>1. RunInv(run[p], pc[p]) /\ pc[p] = "select" /\ Privately(p, r, "hashes")
  BY DEF SelectFiles, IInv
<1>2. cands \subseteq Path
  BY DEF Listed, Untracked, Tracked, Modified
<1> HIDE DEF cands
<1>3. RunType(r)
  BY <1>1, <1>2, RunFields DEF RunInv, RunType, Fields
<1> HIDE DEF r
<1>4. RunInv(r, "hashes")
  BY <1>3 DEF RunInv, Embedding
<1> QED BY <1>1, <1>4, PrivatelyStep DEF Locations

\* The row of a path has an id and a hash.
LEMMA FileRowTyped ==
    ASSUME NEW d, Good(d), NEW q, FileAt(d, q) # {}
    PROVE  /\ \A f \in FileAt(d, q) : f.id \in RowId /\ f.hash \in Hash
           /\ (CHOOSE f \in FileAt(d, q) : TRUE) \in FileAt(d, q)
           /\ (CHOOSE i \in Ids(FileAt(d, q)) : TRUE) \in Ids(FileAt(d, q))
           /\ Ids(FileAt(d, q)) \subseteq RowId
  BY DEF Good, Sound, FileAt, FileRow, Ids

\* Reading the stored hashes preserves the invariant.
LEMMA ReadHashesStep == ASSUME IInv, NEW p \in Proc, ReadHashes(p) PROVE IInv'
<1> DEFINE ex == [q \in Path |-> IF FileAt(db, q) = {} THEN NoHash
                                 ELSE (CHOOSE f \in FileAt(db, q) : TRUE).hash]
           r == [run[p] EXCEPT !.existing = ex, !.todo = run[p].cands]
<1>1. RunInv(run[p], pc[p]) /\ pc[p] = "hashes" /\ Privately(p, r, "scan")
  BY DEF ReadHashes, IInv
<1>2. ex \in [Path -> Hash \cup {NoHash}]
  BY FileRowTyped DEF IInv
<1> HIDE DEF ex
<1>3. RunType(r)
  BY <1>1, <1>2, RunFields DEF RunInv, RunType, Fields
<1> HIDE DEF r
<1>4. RunInv(r, "scan")
  BY <1>3 DEF RunInv, Embedding
<1> QED BY <1>1, <1>4, PrivatelyStep DEF Locations

\* Scanning a file preserves the invariant: what is parsed has a hash.
LEMMA ScanStep == ASSUME IInv, NEW p \in Proc, Scan(p) PROVE IInv'
<1>1. RunInv(run[p], pc[p]) /\ pc[p] = "scan"
  BY DEF Scan, IInv
<1>2. PICK q \in run[p].todo :
        Privately(p, [run[p] EXCEPT !.scanned[q] = ScanOne(run[p], q), !.todo = @ \ {q}], "scan")
  BY DEF Scan
<1> DEFINE out == ScanOne(run[p], q)
           r == [run[p] EXCEPT !.scanned[q] = out, !.todo = @ \ {q}]
<1>3. q \in Path
  BY <1>1, <1>2 DEF RunInv, RunType
<1>4. tree[q] \in Content \cup {NoFile}
  BY <1>3 DEF IInv, Tree
<1>5. /\ out \in [kind : {"none", "skip", "same", "parsed"}, hash : Hash \cup {NoHash}]
      /\ out.kind = "parsed" => out.hash \in Hash
  <2> DEFINE h == [tracked |-> q \in run[p].tracked, content |-> tree[q]]
  <2>1. CASE tree[q] \in Skipped \cup {NoFile}
    <3>1. out = [kind |-> "skip", hash |-> NoHash]
      BY <2>1 DEF ScanOne
    <3> HIDE DEF out
    <3> QED BY <3>1
  <2>2. CASE tree[q] \notin Skipped \cup {NoFile}
    <3>1. h \in Hash
      BY <1>4, <2>2 DEF Hash
    <3>2. out = [kind |-> "same", hash |-> h] \/ out = [kind |-> "parsed", hash |-> h]
      BY <2>2, Zenon DEF ScanOne
    <3> HIDE DEF out, h
    <3> QED BY <3>1, <3>2
  <2> QED BY <2>1, <2>2
<1> HIDE DEF out
<1>6. RunType(r)
  BY <1>1, <1>3, <1>5, RunFields DEF RunInv, RunType, Fields
<1>7. Privately(p, r, "scan")
  BY <1>2 DEF out
<1> HIDE DEF r
<1>8. RunInv(r, "scan")
  BY <1>6 DEF RunInv, Embedding
<1> QED BY <1>1, <1>7, <1>8, PrivatelyStep DEF Locations

\* The end of the scan preserves the invariant.
LEMMA EndScanStep == ASSUME IInv, NEW p \in Proc, EndScan(p) PROVE IInv'
<1> DEFINE todo == Parsed(run[p]) \cup Gone(run[p])
<1>1. RunInv(run[p], pc[p]) /\ pc[p] = "scan" /\ RunType(run[p])
  BY DEF EndScan, IInv, RunInv
<1>2. CASE Privately(p, Result(run[p]), "done")
  BY <1>1, <1>2, ResultTyped, PrivatelyStep DEF Locations
<1>3. CASE Privately(p, [run[p] EXCEPT !.todo = todo], "capture")
  <2>1. todo \in SUBSET Path
    BY DEF Parsed, Gone
  <2> HIDE DEF todo
  <2>2. RunInv([run[p] EXCEPT !.todo = todo], "capture")
    BY <1>1, <2>1, TodoTyped DEF RunInv, Embedding
  <2> QED BY <1>1, <1>3, <2>2, PrivatelyStep DEF Locations
<1>4. CASE Privately(p, run[p], "begin")
  <2>1. RunInv(run[p], "begin")
    BY <1>1 DEF RunInv, Embedding
  <2> QED BY <1>1, <1>4, <2>1, PrivatelyStep DEF Locations
<1> QED BY <1>2, <1>3, <1>4 DEF EndScan

\* Capturing the vectors of a file preserves the invariant.
LEMMA CaptureStep == ASSUME IInv, NEW p \in Proc, Capture(p) PROVE IInv'
<1>1. RunInv(run[p], pc[p]) /\ pc[p] = "capture" /\ RunType(run[p])
  BY DEF Capture, IInv, RunInv
<1>2. CASE Privately(p, run[p], "begin")
  <2>1. RunInv(run[p], "begin")
    BY <1>1 DEF RunInv, Embedding
  <2> QED BY <1>1, <1>2, <2>1, PrivatelyStep DEF Locations
<1>3. CASE \E q, cap : Privately(p, [run[p] EXCEPT !.caps[q] = cap, !.todo = @ \ {q}], "capture")
  <2>1. PICK q, cap : Privately(p, [run[p] EXCEPT !.caps[q] = cap, !.todo = @ \ {q}], "capture")
    BY <1>3
  <2> DEFINE r == [run[p] EXCEPT !.caps[q] = cap, !.todo = @ \ {q}]
  <2>2. RunType(r)
    BY <1>1, RunFields DEF RunType, Fields
  <2>3. RunInv(r, "capture")
    BY <2>2 DEF RunInv, Embedding
  <2> HIDE DEF r
  <2>4. Privately(p, r, "capture")
    BY <2>1 DEF r
  <2> QED BY <1>1, <2>3, <2>4, PrivatelyStep DEF Locations
<1> QED BY <1>2, <1>3 DEF Capture

\* Opening the write transaction preserves the invariant: the lock was free.
LEMMA BeginWriteStep == ASSUME IInv, NEW p \in Proc, BeginWrite(p) PROVE IInv'
<1> USE DEF IInv
<1> DEFINE d == IF run[p].mode = "full" THEN ClearIndex(db) ELSE db
           gone == IF run[p].mode = "incremental" THEN Gone(run[p]) ELSE {}
           r == [run[p] EXCEPT !.gone = gone, !.todo = Parsed(run[p])]
<1>1. Good(d)
  BY ClearIndexGood
<1>2. /\ lock = NoProc /\ lock' = p /\ work' = d
      /\ pc' = [pc EXCEPT ![p] = "write"]
      /\ UNCHANGED <<tree, staged, db, runs, edits>>
  BY DEF BeginWrite, OpenWrite
<1>3. run' = [run EXCEPT ![p] = r]
  BY DEF BeginWrite, OpenWrite
<1>4. gone \subseteq Path /\ Parsed(run[p]) \subseteq Path
  BY DEF Gone, Parsed
<1> HIDE DEF d, gone
<1>5. RunType(run[p])
  BY DEF RunInv
<1>6. RunType(r) /\ r.todo = Parsed(run[p]) /\ r.scanned = run[p].scanned
  BY <1>4, <1>5, RunFields DEF RunType, Fields
<1> HIDE DEF r
<1>7. RunInv(r, "write")
  BY <1>6 DEF RunInv, Parsed, Embedding
<1>8. \A q \in Proc : RunInv(run[q], pc[q])'
  BY <1>2, <1>3, <1>7
<1>9. LockHeldByWriter'
  BY <1>2, ReindexAssumption DEF LockHeldByWriter
<1>10. pc' \in [Proc -> Locations] /\ DOMAIN run' = Proc
  BY <1>2, <1>3 DEF Locations
<1> QED BY <1>1, <1>2, <1>8, <1>9, <1>10

\* A statement of the write transaction preserves the invariant if its catalog does.
LEMMA WritingStep ==
    ASSUME IInv, NEW p \in Proc, pc[p] = "write", NEW d, Good(d), NEW r, RunInv(r, "write"),
           Writing(p, d, r)
    PROVE  IInv'
<1> USE DEF IInv
<1>1. /\ UNCHANGED <<tree, staged, db, lock, pc, runs, edits>>
      /\ work' = d /\ run' = [run EXCEPT ![p] = r]
  BY DEF Writing
<1>2. \A q \in Proc : RunInv(run[q], pc[q])'
  BY <1>1
<1>3. LockHeldByWriter'
  BY <1>1 DEF LockHeldByWriter
<1> QED BY <1>1, <1>2, <1>3

\* Dropping a vanished file preserves the invariant.
LEMMA DropGoneStep == ASSUME IInv, NEW p \in Proc, DropGone(p) PROVE IInv'
<1>1. RunInv(run[p], pc[p]) /\ pc[p] = "write" /\ Good(work)
  BY DEF DropGone, IInv
<1>2. PICK q \in run[p].gone :
        Writing(p, DeleteFileByPath(work, q), [run[p] EXCEPT !.gone = @ \ {q}])
  BY DEF DropGone
<1> DEFINE r == [run[p] EXCEPT !.gone = @ \ {q}]
<1>3. /\ RunType(r) /\ r.todo = run[p].todo /\ r.scanned = run[p].scanned
  BY <1>1, RunFields DEF RunInv, RunType, Fields
<1>4. Writing(p, DeleteFileByPath(work, q), r)
  BY <1>2
<1> HIDE DEF r
<1>5. RunInv(r, "write")
  BY <1>1, <1>3 DEF RunInv, Parsed, Embedding
<1> QED BY <1>1, <1>4, <1>5, DeleteFileByPathGood, WritingStep

\* Writing a parsed file preserves the invariant.
LEMMA PutNextStep == ASSUME IInv, NEW p \in Proc, PutNext(p) PROVE IInv'
<1> DEFINE q == Min(run[p].todo)
           h == run[p].scanned[q].hash
           r == [run[p] EXCEPT !.todo = @ \ {q}]
<1>1. RunInv(run[p], pc[p]) /\ pc[p] = "write" /\ Good(work) /\ run[p].todo # {}
  BY DEF PutNext, IInv
<1>2. Writing(p, PutFile(work, q, h), r)
  BY DEF PutNext
<1>3. q \in run[p].todo
  BY <1>1, CatalogAssumption, MinIsLeast DEF RunInv, RunType
<1> HIDE DEF q
<1>4. q \in Path /\ h \in Hash
  BY <1>1, <1>3 DEF RunInv, RunType, Parsed
<1>5. RunType(r) /\ r.todo \subseteq run[p].todo /\ r.scanned = run[p].scanned
  BY <1>1, RunFields DEF RunInv, RunType, Fields
<1> HIDE DEF h, r
<1>6. RunInv(r, "write")
  BY <1>1, <1>5 DEF RunInv, Parsed, Embedding
<1> QED BY <1>1, <1>2, <1>4, <1>6, PutFileGood, WritingStep

\* The commit preserves the invariant: it publishes a good catalog, counted.
LEMMA CommitWriteStep == ASSUME IInv, NEW p \in Proc, CommitWrite(p) PROVE IInv'
<1> USE DEF IInv
<1>1. /\ pc[p] = "write" /\ db' = SetIndexState(work) /\ lock' = NoProc /\ work' = EmptyCatalog
      /\ run' = [q \in Proc |-> IF q = p THEN run[p] ELSE Disturbed(q)]
      /\ pc' = [pc EXCEPT ![p] = "graph"]
      /\ UNCHANGED <<tree, staged, runs, edits>>
  BY DEF CommitWrite, Commit
<1>2. Good(db') /\ Counted(db') /\ Good(work')
  BY <1>1, SetIndexStateGood, EmptyCatalogGood
<1>3. RunInv(run[p], "graph")
  BY <1>1 DEF RunInv, Embedding
<1>4. \A q \in Proc : RunInv(run[q], pc[q])'
  BY <1>1, <1>3, DisturbedTyped
<1>5. LockHeldByWriter'
  BY <1>1, ReindexAssumption DEF LockHeldByWriter
<1>6. pc' \in [Proc -> Locations] /\ DOMAIN run' = Proc
  BY <1>1 DEF Locations
<1> QED BY <1>1, <1>2, <1>4, <1>5, <1>6

\* A clean run preserves the invariant.
LEMMA CleanStep == ASSUME IInv, NEW p \in Proc, Clean(p) PROVE IInv'
<1> DEFINE d == SetIndexState(ClearIndex(db))
           e == IF run[p].model = NoModel THEN d ELSE ClearVectors(d)
<1>1. RunInv(run[p], pc[p]) /\ Good(db)
  BY DEF IInv
<1>2. Publishing(p, e, Result(run[p]), "done")
  BY DEF Clean
<1>3. Good(d) /\ Counted(d)
  BY <1>1, ClearIndexGood, SetIndexStateGood
<1> HIDE DEF d
<1>4. Good(e) /\ Counted(e)
  BY <1>3, ClearVectorsGood
<1> HIDE DEF e
<1>5. RunInv(Result(run[p]), "done")
  BY <1>1, ResultTyped DEF RunInv
<1> QED BY <1>2, <1>4, <1>5, PublishingStep DEF Locations

\* Reading the files for the graph preserves the invariant.
LEMMA ReadFilesStep == ASSUME IInv, NEW p \in Proc, ReadFiles(p) PROVE IInv'
<1> DEFINE files == {[id |-> f.id, path |-> f.path] : f \in db.files}
           r == [run[p] EXCEPT !.files = files]
<1>1. RunInv(run[p], pc[p]) /\ pc[p] = "graph" /\ Privately(p, r, "imports")
  BY DEF ReadFiles, IInv
<1> HIDE DEF files
<1>2. RunType(r)
  BY <1>1, RunFields DEF RunInv, RunType, Fields
<1> HIDE DEF r
<1>3. RunInv(r, "imports")
  BY <1>2 DEF RunInv, Embedding
<1> QED BY <1>1, <1>3, PrivatelyStep DEF Locations

\* Reading the imports for the graph preserves the invariant.
LEMMA ReadImportsStep == ASSUME IInv, NEW p \in Proc, ReadImports(p) PROVE IInv'
<1> DEFINE r == [run[p] EXCEPT !.imports = Imports(db)]
<1>1. RunInv(run[p], pc[p]) /\ pc[p] = "imports" /\ Privately(p, r, "link")
  BY DEF ReadImports, IInv
<1>2. RunType(r)
  BY <1>1, RunFields DEF RunInv, RunType, Fields
<1> HIDE DEF r
<1>3. RunInv(r, "link")
  BY <1>2 DEF RunInv, Embedding
<1> QED BY <1>1, <1>3, PrivatelyStep DEF Locations

\* Edges that pass the foreign keys join the ids of files, also when the files and
\* the imports they were resolved from have gone stale.
LEMMA EdgesTyped ==
    ASSUME NEW d, Good(d), NEW files, NEW imports, EdgesHaveFiles(d, Resolve(files, imports))
    PROVE  Resolve(files, imports) \subseteq EdgeRow
<1>1. Ids(d.files) \subseteq RowId
  BY DEF Good, Sound, Ids, FileRow
<1>2. \A e \in Resolve(files, imports) : \E a, b : e = <<a, b, "import">> \/ e = <<a, b, "test">>
  BY DEF Resolve
<1>3. \A e \in Resolve(files, imports) : e[1] \in RowId /\ e[2] \in RowId
  BY <1>1 DEF EdgesHaveFiles
<1> QED BY <1>2, <1>3 DEF EdgeRow

\* Replacing the graph preserves the invariant.
LEMMA WriteGraphStep == ASSUME IInv, NEW p \in Proc, WriteGraph(p) PROVE IInv'
<1> DEFINE edges == Edges(run[p])
           r == [run[p] EXCEPT !.files = {}, !.imports = {}]
           todo == Captured(r)
<1>1. RunInv(run[p], pc[p]) /\ pc[p] = "link" /\ EdgesHaveFiles(db, edges) /\ Good(db) /\ Counted(db)
  BY DEF WriteGraph, IInv
<1>2. Good(ReplaceGraph(db, edges)) /\ Counted(ReplaceGraph(db, edges))
  BY <1>1, EdgesTyped, ReplaceGraphGood DEF Edges
<1>3. RunType(r)
  BY <1>1, RunFields DEF RunInv, RunType, Fields
<1>4. todo \in SUBSET Path
  BY DEF Captured, Parsed, Gone
<1>5. \/ r.model = NoModel /\ Publishing(p, ReplaceGraph(db, edges), Result(r), "done")
      \/ r.model # NoModel /\ Publishing(p, ReplaceGraph(db, edges), [r EXCEPT !.todo = todo], "purge")
  BY DEF WriteGraph
<1> HIDE DEF edges, r, todo
<1>6. CASE Publishing(p, ReplaceGraph(db, edges), Result(r), "done")
  BY <1>2, <1>3, <1>6, ResultTyped, PublishingStep DEF Locations
<1>7. CASE r.model # NoModel /\ Publishing(p, ReplaceGraph(db, edges), [r EXCEPT !.todo = todo], "purge")
  <2>1. r.model \in Model
    BY <1>3, <1>7 DEF RunType
  <2>2. RunInv([r EXCEPT !.todo = todo], "purge")
    BY <1>3, <1>4, <2>1, TodoTyped DEF RunInv
  <2> QED BY <1>2, <1>7, <2>2, PublishingStep DEF Locations
<1> QED BY <1>5, <1>6, <1>7

\* Purging the vectors of old symbols preserves the invariant.
LEMMA PurgeSymbolsStep == ASSUME IInv, NEW p \in Proc, PurgeSymbols(p) PROVE IInv'
<1> DEFINE syms == run[p].caps[Min(run[p].todo)].syms
<1>1. RunInv(run[p], pc[p]) /\ pc[p] = "purge" /\ Good(db) /\ Counted(db)
  BY DEF PurgeSymbols, IInv
<1>2. RunInv(run[p], "purgeFile")
  BY <1>1 DEF RunInv, Embedding
<1>3. \/ Privately(p, run[p], "purgeFile")
      \/ Publishing(p, DeleteVectors(db, "symbol", syms), run[p], "purgeFile")
  BY DEF PurgeSymbols
<1> HIDE DEF syms
<1>4. CASE Privately(p, run[p], "purgeFile")
  BY <1>1, <1>2, <1>4, PrivatelyStep DEF Locations
<1>5. CASE Publishing(p, DeleteVectors(db, "symbol", syms), run[p], "purgeFile")
  <2>1. Good(DeleteVectors(db, "symbol", syms)) /\ Counted(DeleteVectors(db, "symbol", syms))
    BY <1>1, DeleteVectorsGood
  <2> QED BY <1>2, <1>5, <2>1, PublishingStep DEF Locations
<1> QED BY <1>3, <1>4, <1>5

\* Purging the vector of an old file preserves the invariant.
LEMMA PurgeFileStep == ASSUME IInv, NEW p \in Proc, PurgeFile(p) PROVE IInv'
<1> DEFINE q == Min(run[p].todo)
           ids == {run[p].caps[q].file}
           r == [run[p] EXCEPT !.todo = @ \ {q}]
           d == DeleteVectors(db, "file", ids)
<1>1. RunInv(run[p], pc[p]) /\ pc[p] = "purgeFile" /\ Good(db) /\ Counted(db)
  BY DEF PurgeFile, IInv
<1>2. Publishing(p, d, r, "purge")
  BY DEF PurgeFile
<1> HIDE DEF ids, q
<1>3. Good(d) /\ Counted(d)
  BY <1>1, DeleteVectorsGood
<1>4. RunType(r) /\ r.model = run[p].model
  BY <1>1, RunFields DEF RunInv, RunType, Fields
<1> HIDE DEF r, d
<1>5. RunInv(r, "purge")
  BY <1>1, <1>4 DEF RunInv, Embedding
<1> QED BY <1>2, <1>3, <1>5, PublishingStep DEF Locations

\* The end of the purge preserves the invariant.
LEMMA EndPurgeStep == ASSUME IInv, NEW p \in Proc, EndPurge(p) PROVE IInv'
<1> DEFINE todo == Parsed(run[p])
<1>1. /\ RunInv(run[p], pc[p]) /\ pc[p] = "purge"
      /\ Privately(p, [run[p] EXCEPT !.todo = todo], "plan")
  BY DEF EndPurge, IInv
<1>2. todo \in SUBSET Path
  BY DEF Parsed
<1> HIDE DEF todo
<1>3. RunInv([run[p] EXCEPT !.todo = todo], "plan")
  BY <1>1, <1>2, TodoTyped DEF RunInv, Embedding
<1> QED BY <1>1, <1>3, PrivatelyStep DEF Locations

\* What PlanFile adds to a run is jobs and slots for rows that exist.
LEMMA PlanFileTyped ==
    ASSUME NEW r, RunType(r), NEW q \in Path, NEW fid \in RowId,
           NEW ids, \A x \in ids : x.id \in RowId
    PROVE  RunType(PlanFile(r, q, fid, ids)) /\ PlanFile(r, q, fid, ids).model = r.model
<1> DEFINE content == r.scanned[q].hash.content
           symbols == SymbolsOf[content]
           rows    == {x \in ids : x.place \in DOMAIN symbols}
           kept(i) == Carried(r.caps[q].chunks, symbols[i])
           carried == {x \in rows : kept(x.place) # {}}
           of(i)   == IF kept(i) # {} THEN CHOOSE v \in kept(i) : TRUE ELSE SymbolVector(symbols[i].text)
           jobs(X) == {Job(q, fid, x.place, x.id, of(x.place)) : x \in X}
           slots   == [i \in {x.place : x \in rows} |-> IF kept(i) # {} THEN {of(i)} ELSE {}]
           fb      == r.fallbacks \cup {Job(q, fid, 0, fid, FallbackVector(q, content))}
           carry   == jobs(carried)
           syms    == r.syms \cup jobs(rows \ carried)
           all     == [i \in DOMAIN r.slots \cup {fid} |-> IF i = fid THEN slots ELSE r.slots[i]]
<1>1. \/ PlanFile(r, q, fid, ids) = [r EXCEPT !.fallbacks = fb]
      \/ PlanFile(r, q, fid, ids) = [r EXCEPT !.carry = carry, !.syms = syms, !.slots = all]
  BY DEF PlanFile
<1>2. \A j \in fb : j.id \in RowId /\ j.file \in RowId
  BY DEF Job, RunType
<1>3. \A X \in SUBSET ids : \A j \in jobs(X) : j.id \in RowId /\ j.file \in RowId
  <2> HIDE DEF of
  <2> QED BY DEF Job
<1>4. carried \in SUBSET ids /\ (rows \ carried) \in SUBSET ids
  OBVIOUS
<1>5. \A j \in carry : j.id \in RowId /\ j.file \in RowId
  <2> HIDE DEF jobs, carried
  <2> QED BY <1>3, <1>4
<1>6. \A j \in syms : j.id \in RowId /\ j.file \in RowId
  <2> HIDE DEF jobs, carried, rows
  <2> QED BY <1>3, <1>4 DEF RunType
<1>7. DOMAIN all \subseteq RowId
  <2> HIDE DEF slots
  <2> QED BY DEF RunType
<1> HIDE DEF fb, carry, syms, all
<1>8. DOMAIN r = Fields
  BY RunFields DEF RunType
<1>9. RunType([r EXCEPT !.fallbacks = fb]) /\ [r EXCEPT !.fallbacks = fb].model = r.model
  BY <1>2, <1>8, RunFields DEF RunType, Fields
<1>10. /\ RunType([r EXCEPT !.carry = carry, !.syms = syms, !.slots = all])
       /\ [r EXCEPT !.carry = carry, !.syms = syms, !.slots = all].model = r.model
  BY <1>5, <1>6, <1>7, <1>8, RunFields DEF RunType, Fields
<1> QED BY <1>1, <1>9, <1>10

\* Planning a file preserves the invariant.
LEMMA PlanStep == ASSUME IInv, NEW p \in Proc, Plan(p) PROVE IInv'
<1> DEFINE q == Min(run[p].todo)
           r == [run[p] EXCEPT !.todo = @ \ {q}]
           fid == CHOOSE i \in Ids(FileAt(db, q)) : TRUE
           ids == SymbolIdsByFile(db, {fid})
<1>1. /\ RunInv(run[p], pc[p]) /\ pc[p] = "plan" /\ Good(db) /\ run[p].todo # {}
  BY DEF Plan, IInv
<1>2. q \in run[p].todo
  BY <1>1, CatalogAssumption, MinIsLeast DEF RunInv, RunType
<1>3. \/ Privately(p, r, "plan")
      \/ FileAt(db, q) # {} /\ Privately(p, PlanFile(r, q, fid, ids), "plan")
  BY DEF Plan
<1> HIDE DEF q
<1>4. q \in Path
  BY <1>1, <1>2 DEF RunInv, RunType
<1>5. RunType(r) /\ r.model \in Model
  BY <1>1, RunFields DEF RunInv, RunType, Fields, Embedding
<1> HIDE DEF r
<1>6. CASE Privately(p, r, "plan")
  <2>1. RunInv(r, "plan")
    BY <1>5 DEF RunInv
  <2> QED BY <1>1, <1>6, <2>1, PrivatelyStep DEF Locations
<1>7. CASE FileAt(db, q) # {} /\ Privately(p, PlanFile(r, q, fid, ids), "plan")
  <2>1. fid \in RowId
    BY <1>1, <1>7, FileRowTyped
  <2> HIDE DEF fid
  <2>2. \A x \in ids : x.id \in RowId
    <3> DEFINE S == Ids(SymbolsIn(db, {fid}))
               place(i) == Cardinality({j \in S : j <= i})
    <3>1. S \subseteq RowId
      BY <1>1 DEF Ids, SymbolsIn, Good, Sound, SymbolRow
    <3>2. ids = {[id |-> i, place |-> place(i)] : i \in S}
      BY DEF SymbolIdsByFile
    <3> HIDE DEF S, place, ids
    <3> QED BY <3>1, <3>2
  <2> HIDE DEF ids
  <2>3. RunInv(PlanFile(r, q, fid, ids), "plan")
    BY <1>4, <1>5, <2>1, <2>2, PlanFileTyped DEF RunInv
  <2> QED BY <1>1, <1>7, <2>3, PrivatelyStep DEF Locations
<1> QED BY <1>3, <1>6, <1>7

\* Storing a vector preserves the invariant.
LEMMA StoreStep ==
    ASSUME IInv, NEW p \in Proc, pc[p] \in Embedding,
           NEW owner \in {"symbol", "file"}, NEW i \in RowId, NEW of,
           NEW r, RunInv(r, pc[p]), Store(p, owner, i, of, r)
    PROVE  IInv'
<1> DEFINE d == UpsertVector(db, owner, i, run[p].model, of)
<1>1. run[p].model \in Model /\ Good(db) /\ Counted(db)
  BY DEF IInv, RunInv
<1>2. Good(d) /\ Counted(d)
  BY <1>1, UpsertVectorGood
<1>3. Publishing(p, d, r, pc[p])
  BY DEF Store
<1> HIDE DEF d
<1>4. pc[p] \in Locations \ {"write"}
  BY DEF Embedding, Locations
<1> QED BY <1>2, <1>3, <1>4, PublishingStep

\* Jobs that are taken off their list leave a typed run.
LEMMA FewerJobsTyped ==
    ASSUME NEW r, RunType(r), NEW j
    PROVE  /\ RunType([r EXCEPT !.carry = @ \ {j}]) /\ [r EXCEPT !.carry = @ \ {j}].model = r.model
           /\ RunType([r EXCEPT !.fallbacks = @ \ {j}])
           /\ [r EXCEPT !.fallbacks = @ \ {j}].model = r.model
<1>1. DOMAIN r = Fields
  BY RunFields DEF RunType
<1>2. RunType([r EXCEPT !.carry = @ \ {j}]) /\ [r EXCEPT !.carry = @ \ {j}].model = r.model
  BY <1>1, RunFields DEF RunType, Fields
<1>3. RunType([r EXCEPT !.fallbacks = @ \ {j}]) /\ [r EXCEPT !.fallbacks = @ \ {j}].model = r.model
  BY <1>1, RunFields DEF RunType, Fields
<1> QED BY <1>2, <1>3

\* Storing a carried vector preserves the invariant.
LEMMA CarryVectorStep == ASSUME IInv, NEW p \in Proc, CarryVector(p) PROVE IInv'
<1>1. RunInv(run[p], pc[p]) /\ pc[p] = "plan"
  BY DEF CarryVector, IInv
<1>2. PICK j \in First(run[p].carry) :
        Store(p, "symbol", j.id, j.of, [run[p] EXCEPT !.carry = @ \ {j}])
  BY DEF CarryVector
<1>3. j.id \in RowId
  BY <1>1 DEF First, RunInv, RunType
<1>4. RunInv([run[p] EXCEPT !.carry = @ \ {j}], pc[p])
  BY <1>1, FewerJobsTyped DEF RunInv, Embedding
<1> QED BY <1>1, <1>2, <1>3, <1>4, StoreStep DEF Embedding

\* The return of the batch preserves the invariant.
LEMMA EmbedBatchStep == ASSUME IInv, NEW p \in Proc, EmbedBatch(p) PROVE IInv'
<1>1. RunInv(run[p], pc[p]) /\ pc[p] = "plan" /\ Privately(p, run[p], "store")
  BY DEF EmbedBatch, IInv
<1>2. RunInv(run[p], "store")
  BY <1>1 DEF RunInv, Embedding
<1> QED BY <1>1, <1>2, PrivatelyStep DEF Locations

\* Storing a symbol's vector preserves the invariant.
LEMMA StoreSymbolStep == ASSUME IInv, NEW p \in Proc, StoreSymbol(p) PROVE IInv'
<1>1. RunInv(run[p], pc[p]) /\ pc[p] = "store"
  BY DEF StoreSymbol, IInv
<1>2. PICK j \in First(run[p].syms) :
        Store(p, "symbol", j.id, j.of, [run[p] EXCEPT !.syms = @ \ {j}, !.slots[j.file][j.slot] = {j.of}])
  BY DEF StoreSymbol
<1> DEFINE r == [run[p] EXCEPT !.syms = @ \ {j}, !.slots[j.file][j.slot] = {j.of}]
<1>3. j.id \in RowId
  BY <1>1 DEF First, RunInv, RunType
<1>4. RunType(r) /\ r.model = run[p].model
  BY <1>1, RunFields DEF RunInv, RunType, Fields
<1>5. Store(p, "symbol", j.id, j.of, r)
  BY <1>2
<1> HIDE DEF r
<1>6. RunInv(r, pc[p])
  BY <1>1, <1>4 DEF RunInv, Embedding
<1> QED BY <1>1, <1>3, <1>5, <1>6, StoreStep DEF Embedding

\* So does a panic after it: the vector is committed, and the run is over.
LEMMA StoreAndPanicStep == ASSUME IInv, NEW p \in Proc, StoreAndPanic(p) PROVE IInv'
<1>1. RunInv(run[p], pc[p]) /\ pc[p] = "store" /\ Good(db) /\ Counted(db)
  BY DEF StoreAndPanic, IInv
<1>2. PICK j \in First(run[p].syms) :
        Publishing(p, UpsertVector(db, "symbol", j.id, run[p].model, j.of), NoRun, "idle")
  BY DEF StoreAndPanic
<1>3. j.id \in RowId /\ run[p].model \in Model
  BY <1>1 DEF First, RunInv, RunType, Embedding
<1> DEFINE d == UpsertVector(db, "symbol", j.id, run[p].model, j.of)
<1>4. Good(d) /\ Counted(d)
  BY <1>1, <1>3, UpsertVectorGood
<1> HIDE DEF d
<1>5. RunInv(NoRun, "idle")
  BY NoRunTyped DEF Locations, Embedding
<1>6. Publishing(p, d, NoRun, "idle")
  BY <1>2 DEF d
<1> QED BY <1>4, <1>5, <1>6, PublishingStep DEF Locations

\* Storing a fallback vector preserves the invariant.
LEMMA StoreFallbackStep == ASSUME IInv, NEW p \in Proc, StoreFallback(p) PROVE IInv'
<1>1. RunInv(run[p], pc[p]) /\ pc[p] = "store"
  BY DEF StoreFallback, IInv
<1>2. PICK j \in First(run[p].fallbacks) :
        Store(p, "file", j.id, j.of, [run[p] EXCEPT !.fallbacks = @ \ {j}])
  BY DEF StoreFallback
<1>3. j.id \in RowId
  BY <1>1 DEF First, RunInv, RunType
<1>4. RunInv([run[p] EXCEPT !.fallbacks = @ \ {j}], pc[p])
  BY <1>1, FewerJobsTyped DEF RunInv, Embedding
<1> QED BY <1>1, <1>2, <1>3, <1>4, StoreStep DEF Embedding

\* Storing a mean preserves the invariant.
LEMMA StoreMeanStep == ASSUME IInv, NEW p \in Proc, StoreMean(p) PROVE IInv'
<1>1. RunInv(run[p], pc[p]) /\ pc[p] = "store"
  BY DEF StoreMean, IInv
<1>2. PICK fid \in Means(run[p]) :
        Store(p, "file", fid, MeanVector(run[p].slots[fid]),
              [run[p] EXCEPT !.slots = [i \in DOMAIN @ \ {fid} |-> @[i]]])
  BY DEF StoreMean
<1> DEFINE r == [run[p] EXCEPT !.slots = [i \in DOMAIN @ \ {fid} |-> @[i]]]
           of == MeanVector(run[p].slots[fid])
<1>3. fid \in RowId
  BY <1>1 DEF Means, RunInv, RunType
<1>4. RunType(r) /\ r.model = run[p].model
  BY <1>1, RunFields DEF RunInv, RunType, Fields
<1>5. Store(p, "file", fid, of, r)
  BY <1>2
<1> HIDE DEF r, of
<1>6. RunInv(r, pc[p])
  BY <1>1, <1>4 DEF RunInv, Embedding
<1> QED BY <1>1, <1>3, <1>5, <1>6, StoreStep DEF Embedding

\* Recording the model preserves the invariant.
LEMMA SealStep == ASSUME IInv, NEW p \in Proc, Seal(p) PROVE IInv'
<1>1. /\ RunInv(run[p], pc[p]) /\ pc[p] = "store" /\ Good(db) /\ Counted(db)
      /\ Publishing(p, SetEmbedInfo(db, run[p].model), Result(run[p]), "done")
  BY DEF Seal, IInv
<1>2. run[p].model \in Model /\ RunType(run[p])
  BY <1>1 DEF RunInv, Embedding
<1>3. Good(SetEmbedInfo(db, run[p].model)) /\ Counted(SetEmbedInfo(db, run[p].model))
  BY <1>1, <1>2, SetEmbedInfoGood
<1> QED BY <1>1, <1>2, <1>3, ResultTyped, PublishingStep DEF Locations

\* A run that dies preserves the invariant: its transaction is rolled back and the
\* lock is free, and the committed catalog was never touched.
LEMMA AbandonStep == ASSUME IInv, NEW p \in Proc, Abandon(p) PROVE IInv'
<1> USE DEF IInv
<1>1. /\ run' = [run EXCEPT ![p] = NoRun] /\ pc' = [pc EXCEPT ![p] = "idle"]
      /\ lock' = IF lock = p THEN NoProc ELSE lock
      /\ work' = IF lock = p THEN EmptyCatalog ELSE work
      /\ UNCHANGED <<tree, staged, db, runs, edits>>
  BY DEF Abandon
<1>2. \A q \in Proc : RunInv(run[q], pc[q])'
  BY <1>1, NoRunTyped DEF Locations, Embedding
<1>3. Good(work')
  BY <1>1, EmptyCatalogGood
<1>4. LockHeldByWriter'
  BY <1>1, ReindexAssumption DEF LockHeldByWriter
<1>5. pc' \in [Proc -> Locations] /\ DOMAIN run' = Proc
  BY <1>1 DEF Locations
<1> QED BY <1>1, <1>2, <1>3, <1>4, <1>5

\* Whatever the user does preserves the invariant.
LEMMA EditingStep ==
    ASSUME IInv, Editing, tree' \in Tree, staged' \in Tree
    PROVE  IInv'
<1> USE DEF IInv
<1>1. /\ edits < MaxEdits /\ edits' = edits + 1
      /\ run' = [q \in Proc |-> Disturbed(q)]
      /\ UNCHANGED <<db, lock, work, pc, runs>>
  BY DEF Editing
<1>2. \A q \in Proc : RunInv(run[q], pc[q])'
  BY <1>1, DisturbedTyped
<1>3. LockHeldByWriter'
  BY <1>1 DEF LockHeldByWriter
<1>4. edits' \in 0 .. MaxEdits
  BY <1>1, ReindexAssumption
<1> QED BY <1>1, <1>2, <1>3, <1>4

\* Every step preserves the invariant.
LEMMA NextIInv == IInv /\ [Next]_vars => IInv'
<1> SUFFICES ASSUME IInv, [Next]_vars PROVE IInv'
  OBVIOUS
<1>1. ASSUME NEW p \in Proc, Step(p) PROVE IInv'
  <2>1. ASSUME GraphConflict(p) PROVE IInv'
    BY <2>1, AbandonStep DEF GraphConflict
  <2> QED BY <1>1, <2>1, SelectFilesStep, ReadHashesStep, ScanStep, EndScanStep, CaptureStep,
             BeginWriteStep, DropGoneStep, PutNextStep, CommitWriteStep, CleanStep,
             ReadFilesStep, ReadImportsStep, WriteGraphStep, PurgeSymbolsStep, PurgeFileStep,
             EndPurgeStep, PlanStep, CarryVectorStep, EmbedBatchStep, StoreSymbolStep,
             StoreAndPanicStep, StoreFallbackStep, StoreMeanStep, SealStep DEF Step
<1>2. ASSUME NEW p \in Proc, Fail(p) \/ Busy(p) PROVE IInv'
  BY <1>2, AbandonStep DEF Fail, Busy
<1>3. ASSUME Edit PROVE IInv'
  <2>1. tree' \in Tree /\ staged' \in Tree /\ Editing
    BY <1>3 DEF Edit, Tree, IInv
  <2> QED BY <2>1, EditingStep
<1>4. ASSUME Stage PROVE IInv'
  <2>1. tree' \in Tree /\ staged' \in Tree /\ Editing
    BY <1>4 DEF Stage, IInv
  <2> QED BY <2>1, EditingStep
<1>5. ASSUME UNCHANGED vars PROVE IInv'
  BY <1>5 DEF vars, IInv, LockHeldByWriter
<1> QED BY <1>1, <1>2, <1>3, <1>4, <1>5, StartStep DEF Next, Rest

\* The inductive invariant holds in every reachable state, for any number of
\* processes, paths, contents, models, runs and edits.
THEOREM IndexRunsKeepTheirInvariant == Spec => []IInv
  BY InitIInv, NextIInv, PTL DEF Spec

\* The variables always have their types (TypeOK).
THEOREM TypesHold == Spec => []TypeOK
  BY IndexRunsKeepTheirInvariant, IInvImplies, PTL

\* Whoever indexes, in whatever order, and wherever runs die, no reader ever meets a
\* catalog whose tables disagree (CatalogConsistent; index.go:1-3, store.go:63-64).
THEOREM CatalogStaysConsistent == Spec => []CatalogConsistent
  BY IndexRunsKeepTheirInvariant, IInvImplies, PTL

\* And every file it finds there has the whole extraction of the content it was
\* hashed from (WholeFiles; PutFile).
THEOREM FilesStayWhole == Spec => []WholeFiles
  BY IndexRunsKeepTheirInvariant, IInvImplies, PTL

\* The write lock is never shared and never leaked (LockHeldByWriter; WithTx).
THEOREM LockIsHeldByWriter == Spec => []LockHeldByWriter
  BY IndexRunsKeepTheirInvariant, IInvImplies, PTL

-----------------------------------------------------------------------------
(* What a run knows of the tree and of the catalog *)

\* There is one process.
Alone == \A p, q \in Proc : p = q

\* Nobody else has changed the catalog since the run started.
Sole(r) == r.quiet \/ Alone

\* Labels of a run whose metadata transaction has committed, and of one past its scan.
AfterWrite == {"graph", "imports", "link"} \cup Embedding
AfterScan  == {"capture", "begin", "write"} \cup AfterWrite

\* A run scans its candidates and nothing else, and plans nothing before it embeds.
ScanFits(r, label) ==
    /\ r.mode \in {"status", "clean"} => r.model = NoModel
    /\ label = "clean" => r.mode = "clean"
    /\ label \in {"select", "hashes", "scan"} => r.mode # "clean"
    /\ label \in AfterScan => r.mode \notin {"status", "clean"}
    /\ label \in {"select", "hashes", "scan"} \cup AfterScan /\ r.mode # "status" => r.model \in Embedders
    /\ label \in {"select", "clean"} => r.cands = {}
    /\ label \in {"select", "clean", "hashes"} => \A q \in Path : r.scanned[q].kind = "none"
    /\ label = "scan" => r.todo \subseteq r.cands /\ \A q \in r.cands \ r.todo : r.scanned[q].kind # "none"
    /\ label \in AfterScan \cup {"done"} => \A q \in r.cands : r.scanned[q].kind # "none"
    /\ \A q \in Path : r.scanned[q].kind # "none" => q \in r.cands
    /\ \A q \in Path : r.scanned[q].kind = "same" =>
          /\ r.mode # "full" /\ r.scanned[q].hash \in Hash
          /\ label # "done" => r.existing[q] = r.scanned[q].hash
    /\ label \notin {"plan", "store"} =>
          r.carry = {} /\ r.syms = {} /\ r.fallbacks = {} /\ r.slots = <<>>

\* What it found is what is in the tree.
TreeFits(r, label) ==
    /\ label \in {"hashes", "scan"} => \A q \in r.cands : q \in r.tracked <=> q \in Tracked
    /\ \A q \in Path : r.scanned[q].kind \in {"same", "parsed"} =>
          r.scanned[q].hash = [tracked |-> q \in Tracked, content |-> tree[q]]

\* The hashes of the rows at a path.
HashesAt(d, q) == {f.hash : f \in FileAt(d, q)}

\* Nothing was written at a path.
Untouched(d, w, q) ==
    /\ FileAt(w, q) = FileAt(d, q)
    /\ \A f \in FileAt(d, q) : SymbolsIn(w, {f.id}) = SymbolsIn(d, {f.id})

\* The paths the open write transaction has removed the rows of so far.
Cleared(r) ==
    CASE r.mode = "full" -> Path
      [] r.mode = "incremental" -> Gone(r) \ r.gone
      [] OTHER -> {}

\* The private copy of the write transaction: parsed files that are done have their new
\* hash, removed ones are gone, and at every other path the copy is the committed catalog.
WriteFits(d, w, r) ==
    /\ w.vecs = d.vecs
    /\ r.gone \subseteq IF r.mode = "incremental" THEN Gone(r) ELSE {}
    /\ \A q \in Path :
        IF q \in Parsed(r) \ r.todo THEN HashesAt(w, q) = {r.scanned[q].hash}
        ELSE IF q \in Cleared(r) THEN FileAt(w, q) = {}
        ELSE Untouched(d, w, q)

\* The catalog after the write transaction: scanned files have the hash the scan found,
\* and what the mode removes is gone.
Written(d, r) ==
    /\ \A q \in Path : r.scanned[q].kind \in {"same", "parsed"} => HashesAt(d, q) = {r.scanned[q].hash}
    /\ r.mode = "full" => \A f \in d.files : f.path \in Parsed(r)
    /\ r.mode = "incremental" => \A f \in d.files : f.path \in r.cands

\* What the graph phase read is what the catalog has, and what it wrote is the
\* resolution of all rows.
EdgesFit(d, r, label) ==
    /\ label \in {"imports", "link"} => r.files = {[id |-> f.id, path |-> f.path] : f \in d.files}
    /\ label = "link" => r.imports = Imports(d)
    /\ label \in Embedding \/ (label = "done" /\ r.mode # "status") =>
          d.edges = Resolve(d.files, Imports(d))

\* What the run knows of the catalog besides its vectors.
StoreFits(d, w, r, label) ==
    /\ label \in {"scan", "capture", "begin", "write"} =>
          \A q \in Path : HashesAt(d, q) = {r.existing[q]} \ {NoHash}
    /\ label = "write" => WriteFits(d, w, r)
    /\ label \in AfterWrite \/ (label = "done" /\ r.mode \notin {"status", "clean"}) => Written(d, r)
    /\ label = "done" /\ r.mode = "clean" => d.files = {}
    /\ EdgesFit(d, r, label)

\* What is owed
Due(r, label) == Parsed(r) \ (IF label = "plan" THEN r.todo ELSE {})

\* A pending symbol vector belongs to a live symbol of a file whose work is planned, at
\* its place, and has the vector of its text.
SymbolJobFits(d, r, label, j) ==
    \E f \in d.files, s \in d.symbols :
        LET t == SymbolsOf[f.hash.content]
        IN  /\ f.path \in Due(r, label) /\ s.file = f.id
            /\ j.file = f.id /\ j.id = s.id /\ j.of = SymbolVector(s.text)
            /\ j.slot \in DOMAIN t /\ t[j.slot].text = s.text

\* A pending file vector belongs to a live file without symbols and is the right one.
FallbackFits(d, r, label, j) ==
    \E f \in d.files :
        /\ f.path \in Due(r, label) /\ SymbolsOf[f.hash.content] = <<>>
        /\ j.id = f.id /\ j.of = TruthOfFile(f)

\* The slots of a file: one per symbol, each set to the right vector or still owed.
SlotsFit(r, f) ==
    LET t == SymbolsOf[f.hash.content]
        slots == r.slots[f.id]
    IN  /\ slots = [i \in DOMAIN t |-> slots[i]]
        /\ \A i \in DOMAIN t :
              \/ slots[i] = {SymbolVector(t[i].text)}
              \/ slots[i] = {} /\ \E j \in r.syms : j.file = f.id /\ j.slot = i

\* The file and each of its symbols has the right vectors, or they are still owed.
FileFits(d, r, f) ==
    /\ \A s \in SymbolsIn(d, {f.id}) :
          \/ Embedded(d, "symbol", s.id, TruthOfSymbol(s), r.model)
          \/ \E j \in r.carry \cup r.syms : j.id = s.id
    /\ IF f.id \in DOMAIN r.slots THEN SlotsFit(r, f)
       ELSE \/ Embedded(d, "file", f.id, TruthOfFile(f), r.model)
            \/ \E j \in r.fallbacks : j.id = f.id

\* Everything owed is right, and everything missing is owed.
PlanFits(d, r, label) ==
    /\ \A j \in r.carry \cup r.syms : SymbolJobFits(d, r, label, j)
    /\ \A j \in r.syms : j.file \in DOMAIN r.slots
    /\ \A j \in r.fallbacks : FallbackFits(d, r, label, j)
    /\ \A i \in DOMAIN r.slots : \E f \in d.files :
          f.id = i /\ f.path \in Due(r, label) /\ SymbolsOf[f.hash.content] # <<>>
    /\ \A f \in d.files : f.path \in Due(r, label) => FileFits(d, r, f)
    /\ label = "plan" => r.todo \subseteq Parsed(r)
    /\ label = "store" => r.carry = {}

\* What the run knows of the vectors: while it embeds, and when it has ended.
EmbedFits(d, r, label) ==
    /\ label \in {"plan", "store"} => PlanFits(d, r, label)
    /\ label = "done" /\ r.model # NoModel =>
          \A f \in d.files : f.path \in Parsed(r) => FileEmbedded(d, f, r.model)

\* What is known of one run: always that its scan is in order, of the tree as long as the
\* run is quiet, and of the catalog as long as nobody else writes to it.
Knows(d, w, r, label) ==
    /\ ScanFits(r, label)
    /\ r.quiet => TreeFits(r, label)
    /\ Sole(r) => StoreFits(d, w, r, label) /\ EmbedFits(d, r, label)

\* The invariant beside IInv.
RInv == \A p \in Proc : Knows(db, work, run[p], pc[p])

\* The locals of no run, and of a run that was disturbed after its end, know nothing.
LEMMA NothingKnown ==
    ASSUME NEW d, NEW w, NEW label \in {"idle", "done"}
    PROVE  Knows(d, w, NoRun, label)
<1>1. /\ NoRun.mode = "status" /\ NoRun.model = NoModel /\ NoRun.cands = {}
      /\ NoRun.scanned = [q \in Path |-> NotScanned] /\ NotScanned.kind = "none"
      /\ NoRun.carry = {} /\ NoRun.syms = {} /\ NoRun.fallbacks = {} /\ NoRun.slots = <<>>
  BY DEF NoRun, NotScanned
<1>2. \A q \in Path : NoRun.scanned[q].kind = "none"
  BY <1>1
<1>3. ScanFits(NoRun, label)
  BY <1>1, <1>2 DEF ScanFits, AfterScan, AfterWrite, Embedding
<1>4. TreeFits(NoRun, label)
  BY <1>1, <1>2 DEF TreeFits
<1>5. StoreFits(d, w, NoRun, label) /\ EmbedFits(d, NoRun, label)
  BY <1>1 DEF StoreFits, EdgesFit, EmbedFits, AfterWrite, Embedding
<1> QED BY <1>3, <1>4, <1>5 DEF Knows

\* A run that somebody disturbs keeps what its own scan says; of tree and catalog nothing
\* is known any more.
LEMMA DisturbedKnows ==
    ASSUME NEW q \in Proc, RunInv(run[q], pc[q]), Knows(db, work, run[q], pc[q]), ~Alone,
           NEW d, NEW w
    PROVE  Knows(d, w, Disturbed(q), pc[q])
<1> DEFINE r == run[q]
           label == pc[q]
           s == [r EXCEPT !.quiet = FALSE]
<1>1. CASE label = "done"
  BY <1>1, NothingKnown DEF Disturbed
<1>2. CASE label # "done"
  <2>1. Disturbed(q) = s
    BY <1>2 DEF Disturbed
  <2>2. DOMAIN r = Fields /\ ScanFits(r, label)
    BY RunFields DEF RunInv, RunType, Knows
  <2> HIDE DEF r, label
  <2>3. /\ ~s.quiet /\ s.mode = r.mode /\ s.model = r.model /\ s.cands = r.cands
        /\ s.scanned = r.scanned /\ s.existing = r.existing /\ s.todo = r.todo
        /\ s.carry = r.carry /\ s.syms = r.syms /\ s.fallbacks = r.fallbacks /\ s.slots = r.slots
    BY <2>2 DEF Fields
  <2> HIDE DEF s
  <2>4. ScanFits(s, label)
    BY <2>2, <2>3 DEF ScanFits
  <2>5. ~Sole(s)
    BY <2>3 DEF Sole
  <2>6. Knows(d, w, s, label)
    BY <2>3, <2>4, <2>5 DEF Knows
  <2> QED BY <2>1, <2>6 DEF label
<1> QED BY <1>1, <1>2

\* A step of one run preserves the invariant if what it knows fits: of the others it
\* changes nothing but by disturbing them.
LEMMA StepKnows ==
    ASSUME IInv, RInv, NEW p \in Proc, UNCHANGED <<tree, staged>>,
           \A q \in Proc : q # p =>
              /\ pc'[q] = pc[q]
              /\ pc[q] = "write" => work' = work
              /\ (run'[q] = run[q] /\ db' = db) \/ run'[q] = Disturbed(q),
           Knows(db', work', run'[p], pc'[p])
    PROVE  RInv'
<1>1. ASSUME NEW q \in Proc, TreeFits(run'[q], pc'[q]) PROVE TreeFits(run[q], pc[q])'
  BY <1>1 DEF TreeFits, Tracked
<1>2. ASSUME NEW q \in Proc PROVE Knows(db', work', run'[q], pc'[q])
  <2>1. CASE q = p
    BY <2>1
  <2>2. CASE q # p /\ run'[q] = run[q] /\ db' = db
    <3>1. Knows(db, work, run[q], pc[q]) /\ pc'[q] = pc[q] /\ (pc[q] = "write" => work' = work)
      BY <2>2 DEF RInv
    <3>2. CASE pc[q] = "write"
      BY <2>2, <3>1, <3>2
    <3>3. CASE pc[q] # "write"
      <4>1. StoreFits(db, work, run[q], pc[q]) => StoreFits(db, work', run[q], pc[q])
        BY <3>3 DEF StoreFits
      <4> QED BY <2>2, <3>1, <4>1 DEF Knows
    <3> QED BY <3>2, <3>3
  <2>3. CASE q # p /\ run'[q] = Disturbed(q)
    <3>1. ~Alone
      BY <2>3 DEF Alone
    <3>2. RunInv(run[q], pc[q]) /\ Knows(db, work, run[q], pc[q]) /\ pc'[q] = pc[q]
      BY <2>3 DEF IInv, RInv
    <3> QED BY <2>3, <3>1, <3>2, DisturbedKnows
  <2> QED BY <2>1, <2>2, <2>3
<1>3. ASSUME NEW q \in Proc PROVE Knows(db, work, run[q], pc[q])'
  <2>1. Knows(db', work', run'[q], pc'[q])
    BY <1>2
  <2> QED BY <2>1, <1>1 DEF Knows
<1> QED BY <1>3 DEF RInv

\* A step nobody sees.
LEMMA PrivatelyKnows ==
    ASSUME IInv, RInv, NEW p \in Proc, NEW r, NEW label, Privately(p, r, label),
           Knows(db, work, r, label)
    PROVE  RInv'
<1>1. /\ run' = [run EXCEPT ![p] = r] /\ pc' = [pc EXCEPT ![p] = label]
      /\ UNCHANGED <<tree, staged, db, work>>
  BY DEF Privately
<1>2. run'[p] = r /\ pc'[p] = label /\ \A q \in Proc : q # p => run'[q] = run[q] /\ pc'[q] = pc[q]
  BY <1>1 DEF IInv
<1> QED BY <1>1, <1>2, StepKnows

\* A transaction of one step.
LEMMA PublishingKnows ==
    ASSUME IInv, RInv, NEW p \in Proc, NEW d, NEW r, NEW label, Publishing(p, d, r, label),
           Knows(d, work, r, label)
    PROVE  RInv'
<1>1. /\ pc' = [pc EXCEPT ![p] = label] /\ db' = d
      /\ run' = [q \in Proc |-> IF q = p THEN r ELSE IF d = db THEN run[q] ELSE Disturbed(q)]
      /\ UNCHANGED <<tree, staged, work>>
  BY DEF Publishing
<1>2. run'[p] = r /\ pc'[p] = label /\ \A q \in Proc : q # p => pc'[q] = pc[q]
  BY <1>1 DEF IInv
<1>3. \A q \in Proc : q # p => (run'[q] = run[q] /\ db' = db) \/ run'[q] = Disturbed(q)
  BY <1>1
<1> QED BY <1>1, <1>2, <1>3, StepKnows

\* A run that ends leaves what it knows behind, if it is quiet, and nothing otherwise.
LEMMA ResultKnows ==
    ASSUME NEW d, NEW w, NEW r, RunType(r), NEW label, ScanFits(r, label),
           label \in AfterScan \cup {"clean"} \/ (label = "scan" /\ r.todo = {}),
           r.quiet => TreeFits(r, label),
           r.quiet => /\ r.mode \notin {"status", "clean"} => Written(d, r)
                      /\ r.mode = "clean" => d.files = {}
                      /\ r.mode # "status" => d.edges = Resolve(d.files, Imports(d))
                      /\ r.model # NoModel =>
                            \A f \in d.files : f.path \in Parsed(r) => FileEmbedded(d, f, r.model)
    PROVE  Knows(d, w, Result(r), "done")
<1> DEFINE s == Finished(r)
<1>1. CASE ~r.quiet
  BY <1>1, NothingKnown DEF Result
<1>2. CASE r.quiet
  <2>1. Result(r) = s
    BY <1>2 DEF Result
  <2>2. /\ s.mode = r.mode /\ s.model = r.model /\ s.cands = r.cands /\ s.scanned = r.scanned
        /\ s.carry = {} /\ s.syms = {} /\ s.fallbacks = {} /\ s.slots = <<>>
    BY DEF Finished, NoRun
  <2> HIDE DEF s
  <2>3. Parsed(s) = Parsed(r)
    BY <2>2 DEF Parsed
  <2>4. ScanFits(s, "done")
    <3>1. \A q \in Path : r.scanned[q].kind # "none" => q \in r.cands
      BY DEF ScanFits
    <3>2. \A q \in Path : r.scanned[q].kind = "same" => r.mode # "full" /\ r.scanned[q].hash \in Hash
      BY DEF ScanFits
    <3>3. \A q \in r.cands : r.scanned[q].kind # "none"
      BY DEF ScanFits
    <3> QED BY <2>2, <3>1, <3>2, <3>3 DEF ScanFits, AfterScan, AfterWrite, Embedding
  <2>5. TreeFits(s, "done")
    BY <1>2, <2>2 DEF TreeFits
  <2>6. StoreFits(d, w, s, "done")
    <3>1. Written(d, r) => Written(d, s)
      BY <2>2, <2>3 DEF Written
    <3>2. EdgesFit(d, s, "done")
      BY <1>2, <2>2 DEF EdgesFit, Embedding
    <3> QED BY <1>2, <2>2, <3>1, <3>2 DEF StoreFits, AfterWrite, Embedding
  <2>7. EmbedFits(d, s, "done")
    BY <1>2, <2>2, <2>3 DEF EmbedFits
  <2> QED BY <2>1, <2>4, <2>5, <2>6, <2>7 DEF Knows
<1> QED BY <1>1, <1>2

\* A run whose scan has ended: its plans apart, ScanFits does not depend on where it is.
LEMMA ScanKept ==
    ASSUME NEW r, NEW l \in AfterScan, ScanFits(r, l), NEW s, NEW m \in AfterScan,
           s.mode = r.mode, s.model = r.model, s.cands = r.cands, s.scanned = r.scanned,
           s.existing = r.existing,
           m \notin {"plan", "store"} => s.carry = {} /\ s.syms = {} /\ s.fallbacks = {} /\ s.slots = <<>>
    PROVE  ScanFits(s, m)
<1>1. l \notin {"clean", "select", "hashes", "scan", "done"} /\ m \notin {"clean", "select", "hashes", "scan", "done"}
  BY DEF AfterScan, AfterWrite, Embedding
<1>2. r.mode \notin {"status", "clean"} /\ r.model \in Embedders
  BY <1>1 DEF ScanFits
<1>3. /\ \A q \in r.cands : r.scanned[q].kind # "none"
      /\ \A q \in Path : r.scanned[q].kind # "none" => q \in r.cands
      /\ \A q \in Path : r.scanned[q].kind = "same" =>
            r.mode # "full" /\ r.scanned[q].hash \in Hash /\ r.existing[q] = r.scanned[q].hash
  BY <1>1 DEF ScanFits
<1> QED BY <1>1, <1>2, <1>3 DEF ScanFits

\* Where the tree is not read any more, only the outcomes of the scan count.
LEMMA TreeKept ==
    ASSUME NEW r, NEW l, TreeFits(r, l), NEW s, NEW m, m \notin {"hashes", "scan"}, s.scanned = r.scanned
    PROVE  TreeFits(s, m)
  BY DEF TreeFits

\* Starting a run: nothing is known and nothing is assumed.
LEMMA StartKnows == ASSUME IInv, RInv, NEW p \in Proc, Start(p) PROVE RInv'
<1>1. PICK m \in Modes, e \in Embedders \cup {NoModel} :
        /\ IF m \in {"status", "clean"} THEN e = NoModel ELSE e \in Embedders
        /\ run' = [run EXCEPT ![p] = [NoRun EXCEPT !.mode = m, !.model = e, !.quiet = TRUE]]
        /\ pc' = [pc EXCEPT ![p] = IF m = "clean" THEN "clean" ELSE "select"]
  BY DEF Start
<1>2. UNCHANGED <<tree, staged, db, lock, work, edits>>
  BY DEF Start
<1> DEFINE r == [NoRun EXCEPT !.mode = m, !.model = e, !.quiet = TRUE]
           label == IF m = "clean" THEN "clean" ELSE "select"
<1>3. run'[p] = r /\ pc'[p] = label /\ \A q \in Proc : q # p => run'[q] = run[q] /\ pc'[q] = pc[q]
  BY <1>1 DEF IInv
<1>4. /\ r.mode = m /\ r.model = e /\ r.cands = {}
      /\ r.scanned = [q \in Path |-> NotScanned] /\ NotScanned.kind = "none"
      /\ r.carry = {} /\ r.syms = {} /\ r.fallbacks = {} /\ r.slots = <<>>
  BY DEF NoRun, NotScanned
<1>5. \A q \in Path : r.scanned[q].kind = "none"
  BY <1>4
<1>6. label \in {"select", "clean"} /\ (label = "clean" <=> m = "clean")
  OBVIOUS
<1> HIDE DEF r, label
<1>7. ScanFits(r, label)
  BY <1>1, <1>4, <1>5, <1>6 DEF ScanFits, AfterScan, AfterWrite, Embedding
<1>8. TreeFits(r, label)
  BY <1>5, <1>6 DEF TreeFits
<1>9. StoreFits(db', work', r, label) /\ EmbedFits(db', r, label)
  BY <1>6 DEF StoreFits, EdgesFit, EmbedFits, AfterWrite, Embedding
<1>10. Knows(db', work', run'[p], pc'[p])
  BY <1>3, <1>7, <1>8, <1>9 DEF Knows
<1> QED BY <1>2, <1>3, <1>10, StepKnows

\* Selecting files: what git tracks is noted.
LEMMA SelectFilesKnows == ASSUME IInv, RInv, NEW p \in Proc, SelectFiles(p) PROVE RInv'
<1> DEFINE r == run[p]
           cands == Listed(r.mode)
           s == [r EXCEPT !.cands = cands, !.tracked = cands \cap Tracked]
<1>1. pc[p] = "select" /\ Privately(p, s, "hashes") /\ RunInv(r, "select") /\ Knows(db, work, r, "select")
  BY DEF SelectFiles, IInv, RInv
<1> HIDE DEF cands, r
<1>2. /\ s.mode = r.mode /\ s.model = r.model /\ s.cands = cands /\ s.tracked = cands \cap Tracked
      /\ s.scanned = r.scanned
      /\ s.carry = r.carry /\ s.syms = r.syms /\ s.fallbacks = r.fallbacks /\ s.slots = r.slots
  BY <1>1, RunFields DEF RunInv, RunType, Fields
<1> HIDE DEF s
<1>3. /\ ScanFits(r, "select") /\ \A q \in Path : r.scanned[q].kind = "none"
      /\ r.mode # "clean" /\ (r.mode # "status" => r.model \in Embedders)
  BY <1>1 DEF Knows, ScanFits
<1>4. r.carry = {} /\ r.syms = {} /\ r.fallbacks = {} /\ r.slots = <<>>
  BY <1>3 DEF ScanFits
<1>5. ScanFits(s, "hashes")
  BY <1>2, <1>3, <1>4 DEF ScanFits, AfterScan, AfterWrite, Embedding
<1>6. TreeFits(s, "hashes")
  BY <1>2, <1>3 DEF TreeFits
<1>7. StoreFits(db, work, s, "hashes") /\ EmbedFits(db, s, "hashes")
  BY DEF StoreFits, EdgesFit, EmbedFits, AfterWrite, Embedding
<1>8. Knows(db, work, s, "hashes")
  BY <1>5, <1>6, <1>7 DEF Knows
<1> QED BY <1>1, <1>8, PrivatelyKnows

\* Reading the hashes: they are those of the catalog, where a path has one row at most.
LEMMA ReadHashesKnows == ASSUME IInv, RInv, NEW p \in Proc, ReadHashes(p) PROVE RInv'
<1> DEFINE r == run[p]
           ex == [q \in Path |-> IF FileAt(db, q) = {} THEN NoHash
                                 ELSE (CHOOSE f \in FileAt(db, q) : TRUE).hash]
           s == [r EXCEPT !.existing = ex, !.todo = r.cands]
<1>1. pc[p] = "hashes" /\ Privately(p, s, "scan") /\ RunInv(r, "hashes") /\ Knows(db, work, r, "hashes")
  BY DEF ReadHashes, IInv, RInv
<1>2. ASSUME NEW q \in Path PROVE HashesAt(db, q) = {ex[q]} \ {NoHash}
  <2>1. CASE FileAt(db, q) = {}
    BY <2>1 DEF HashesAt
  <2>2. CASE FileAt(db, q) # {}
    <3> DEFINE f == CHOOSE f \in FileAt(db, q) : TRUE
    <3>1. f \in FileAt(db, q) /\ f.hash \in Hash /\ ex[q] = f.hash
      BY <2>2, FileRowTyped DEF IInv
    <3>2. \A g \in FileAt(db, q) : g = f
      BY <3>1 DEF IInv, Good, Sound, Consistent, UniquePaths, FileAt
    <3> HIDE DEF f, ex
    <3> QED BY <3>1, <3>2, ReindexAssumption DEF HashesAt
  <2> QED BY <2>1, <2>2
<1> HIDE DEF ex, r
<1>3. /\ s.mode = r.mode /\ s.model = r.model /\ s.cands = r.cands /\ s.tracked = r.tracked
      /\ s.scanned = r.scanned /\ s.existing = ex /\ s.todo = r.cands /\ s.quiet = r.quiet
      /\ s.carry = r.carry /\ s.syms = r.syms /\ s.fallbacks = r.fallbacks /\ s.slots = r.slots
  BY <1>1, RunFields DEF RunInv, RunType, Fields
<1> HIDE DEF s
<1>4. /\ ScanFits(r, "hashes") /\ \A q \in Path : r.scanned[q].kind = "none"
      /\ r.mode # "clean" /\ (r.mode # "status" => r.model \in Embedders)
  BY <1>1 DEF Knows, ScanFits
<1>5. r.carry = {} /\ r.syms = {} /\ r.fallbacks = {} /\ r.slots = <<>>
  BY <1>4 DEF ScanFits
<1>6. ScanFits(s, "scan")
  BY <1>3, <1>4, <1>5 DEF ScanFits, AfterScan, AfterWrite, Embedding
<1>7. s.quiet => TreeFits(s, "scan")
  BY <1>1, <1>3 DEF TreeFits, Knows
<1>8. StoreFits(db, work, s, "scan") /\ EmbedFits(db, s, "scan")
  BY <1>2, <1>3 DEF StoreFits, EdgesFit, EmbedFits, AfterWrite, Embedding
<1>9. Knows(db, work, s, "scan")
  BY <1>6, <1>7, <1>8 DEF Knows
<1> QED BY <1>1, <1>9, PrivatelyKnows

\* Scanning a file: what a worker finds is what is in the tree, and a file it calls the same
\* has that hash in the catalog.
LEMMA ScanKnows == ASSUME IInv, RInv, NEW p \in Proc, Scan(p) PROVE RInv'
<1> DEFINE r == run[p]
<1>1. pc[p] = "scan" /\ RunInv(r, "scan") /\ Knows(db, work, r, "scan")
  BY DEF Scan, IInv, RInv
<1>2. PICK x \in r.todo :
        Privately(p, [r EXCEPT !.scanned[x] = ScanOne(r, x), !.todo = @ \ {x}], "scan")
  BY DEF Scan
<1> DEFINE out == ScanOne(r, x)
           h == [tracked |-> x \in r.tracked, content |-> tree[x]]
           s == [r EXCEPT !.scanned[x] = out, !.todo = @ \ {x}]
<1>3. /\ out.kind \in {"skip", "same", "parsed"}
      /\ out.kind \in {"same", "parsed"} => out.hash = h
      /\ out.kind = "same" => r.mode # "full" /\ h \in Hash /\ r.existing[x] = h
  <2>1. CASE tree[x] \in Skipped \cup {NoFile}
    <3>1. out = [kind |-> "skip", hash |-> NoHash]
      BY <2>1 DEF ScanOne
    <3> HIDE DEF out
    <3> QED BY <3>1
  <2>2. CASE tree[x] \notin Skipped \cup {NoFile} /\ r.mode # "full" /\ r.existing[x] = h
    <3>1. out = [kind |-> "same", hash |-> h]
      BY <2>2, Zenon DEF ScanOne
    <3>2. tree[x] \in Content
      BY <1>1, <1>2, <2>2 DEF IInv, Tree, RunInv, RunType
    <3>3. h \in Hash
      BY <3>2 DEF Hash
    <3> HIDE DEF out, h
    <3> QED BY <2>2, <3>1, <3>3
  <2>3. CASE tree[x] \notin Skipped \cup {NoFile} /\ ~(r.mode # "full" /\ r.existing[x] = h)
    <3>1. out = [kind |-> "parsed", hash |-> h]
      BY <2>3, Zenon DEF ScanOne
    <3> HIDE DEF out, h
    <3> QED BY <3>1
  <2> QED BY <2>1, <2>2, <2>3
<1> HIDE DEF out, r
<1>4. ScanFits(r, "scan") /\ RunType(r) /\ x \in Path /\ x \in r.cands
  BY <1>1, <1>2 DEF Knows, ScanFits, RunInv, RunType
<1>5. /\ s.mode = r.mode /\ s.model = r.model /\ s.cands = r.cands /\ s.tracked = r.tracked
      /\ s.existing = r.existing /\ s.todo = r.todo \ {x} /\ s.quiet = r.quiet
      /\ s.carry = r.carry /\ s.syms = r.syms /\ s.fallbacks = r.fallbacks /\ s.slots = r.slots
      /\ s.scanned = [r.scanned EXCEPT ![x] = out]
  BY <1>4, RunFields DEF RunType, Fields
<1>6. s.scanned[x] = out /\ \A q \in Path : q # x => s.scanned[q] = r.scanned[q]
  BY <1>4, <1>5 DEF RunType
<1>7. Privately(p, s, "scan")
  BY <1>2 DEF out
<1> HIDE DEF s
<1>8. /\ r.mode \in {"status", "clean"} => r.model = NoModel
      /\ r.todo \subseteq r.cands /\ r.mode # "clean" /\ (r.mode # "status" => r.model \in Embedders)
      /\ \A q \in r.cands \ r.todo : r.scanned[q].kind # "none"
      /\ \A q \in Path : r.scanned[q].kind # "none" => q \in r.cands
      /\ \A q \in Path : r.scanned[q].kind = "same" =>
            r.mode # "full" /\ r.scanned[q].hash \in Hash /\ r.existing[q] = r.scanned[q].hash
      /\ r.carry = {} /\ r.syms = {} /\ r.fallbacks = {} /\ r.slots = <<>>
  BY <1>4 DEF ScanFits
<1>9. ScanFits(s, "scan")
  <2>1. \A q \in s.cands \ s.todo : s.scanned[q].kind # "none"
    BY <1>3, <1>4, <1>5, <1>6, <1>8 DEF RunType
  <2>2. \A q \in Path : s.scanned[q].kind # "none" => q \in s.cands
    BY <1>4, <1>5, <1>6, <1>8
  <2>3. \A q \in Path : s.scanned[q].kind = "same" =>
            s.mode # "full" /\ s.scanned[q].hash \in Hash /\ s.existing[q] = s.scanned[q].hash
    BY <1>3, <1>5, <1>6, <1>8
  <2> QED BY <1>5, <1>8, <2>1, <2>2, <2>3 DEF ScanFits, AfterScan, AfterWrite, Embedding
<1>10. s.quiet => TreeFits(s, "scan")
  <2>1. SUFFICES ASSUME s.quiet PROVE TreeFits(s, "scan")
    OBVIOUS
  <2>2. /\ \A q \in r.cands : q \in r.tracked <=> q \in Tracked
        /\ \A q \in Path : r.scanned[q].kind \in {"same", "parsed"} =>
              r.scanned[q].hash = [tracked |-> q \in Tracked, content |-> tree[q]]
    BY <1>1, <1>5, <2>1 DEF TreeFits, Knows
  <2>3. h = [tracked |-> x \in Tracked, content |-> tree[x]]
    <3>1. x \in r.tracked <=> x \in Tracked
      BY <1>4, <2>2
    <3>2. (x \in r.tracked) = (x \in Tracked)
      BY <3>1
    <3> QED BY <3>2
  <2> HIDE DEF h
  <2>4. ASSUME NEW q \in Path, s.scanned[q].kind \in {"same", "parsed"}
        PROVE  s.scanned[q].hash = [tracked |-> q \in Tracked, content |-> tree[q]]
    <3>1. CASE q = x
      BY <1>3, <1>6, <2>3, <2>4, <3>1
    <3>2. CASE q # x
      BY <1>6, <2>2, <2>4, <3>2
    <3> QED BY <3>1, <3>2
  <2> QED BY <1>5, <2>2, <2>4 DEF TreeFits
<1>11. Sole(s) => StoreFits(db, work, s, "scan") /\ EmbedFits(db, s, "scan")
  <2>1. Sole(s) => StoreFits(db, work, r, "scan")
    BY <1>1, <1>5 DEF Knows, Sole
  <2> QED BY <1>5, <2>1 DEF StoreFits, EdgesFit, EmbedFits, AfterWrite, Embedding
<1>12. Knows(db, work, s, "scan")
  BY <1>9, <1>10, <1>11 DEF Knows
<1> QED BY <1>7, <1>12, PrivatelyKnows

\* Between the scan and the write what is known is what the catalog holds.
LEMMA WaitingKnows ==
    ASSUME NEW r, NEW l \in {"capture", "scan"}, Knows(db, work, r, l), l = "scan" => r.todo = {},
           r.mode # "status", RunType(r),
           NEW s, NEW m \in {"capture", "begin"},
           s.mode = r.mode, s.model = r.model, s.cands = r.cands, s.scanned = r.scanned,
           s.existing = r.existing, s.quiet = r.quiet,
           s.carry = r.carry, s.syms = r.syms, s.fallbacks = r.fallbacks, s.slots = r.slots
    PROVE  Knows(db, work, s, m)
<1>1. ScanFits(r, l) /\ r.cands \subseteq Path
  BY DEF Knows, RunType
<1>2. /\ r.mode \notin {"status", "clean"} /\ r.model \in Embedders
      /\ \A q \in r.cands : r.scanned[q].kind # "none"
      /\ \A q \in Path : r.scanned[q].kind # "none" => q \in r.cands
      /\ \A q \in Path : r.scanned[q].kind = "same" =>
            r.mode # "full" /\ r.scanned[q].hash \in Hash /\ r.existing[q] = r.scanned[q].hash
      /\ r.carry = {} /\ r.syms = {} /\ r.fallbacks = {} /\ r.slots = <<>>
  BY <1>1 DEF ScanFits, AfterScan, AfterWrite, Embedding
<1>3. ScanFits(s, m)
  BY <1>2 DEF ScanFits, AfterScan, AfterWrite, Embedding
<1>4. s.quiet => TreeFits(s, m)
  BY TreeKept DEF Knows
<1>5. Sole(s) => StoreFits(db, work, s, m)
  BY DEF Knows, Sole, StoreFits, EdgesFit, AfterWrite, Embedding
<1>6. EmbedFits(db, s, m)
  BY DEF EmbedFits
<1> QED BY <1>3, <1>4, <1>5, <1>6 DEF Knows

\* The end of the scan.
LEMMA EndScanKnows == ASSUME IInv, RInv, NEW p \in Proc, EndScan(p) PROVE RInv'
<1> DEFINE r == run[p]
           todo == Parsed(r) \cup Gone(r)
           s == [r EXCEPT !.todo = todo]
<1>1. /\ pc[p] = "scan" /\ r.todo = {} /\ RunInv(r, "scan") /\ RunType(r)
      /\ Knows(db, work, r, "scan")
  BY DEF EndScan, IInv, RInv, RunInv
<1>2. CASE r.mode = "status" /\ Privately(p, Result(r), "done")
  <2>1. r.quiet => TreeFits(r, "scan")
    BY <1>1 DEF Knows
  <2>2. ScanFits(r, "scan")
    BY <1>1 DEF Knows
  <2>3. r.model = NoModel
    BY <1>2, <2>2 DEF ScanFits
  <2> HIDE DEF r
  <2>4. Knows(db, work, Result(r), "done")
    BY <1>1, <1>2, <2>1, <2>2, <2>3, ResultKnows
  <2> QED BY <1>2, <2>4, PrivatelyKnows DEF r
<1>3. CASE r.mode # "status" /\ Privately(p, s, "capture")
  <2> HIDE DEF r, todo
  <2>1. /\ s.mode = r.mode /\ s.model = r.model /\ s.cands = r.cands /\ s.scanned = r.scanned
        /\ s.existing = r.existing /\ s.quiet = r.quiet
        /\ s.carry = r.carry /\ s.syms = r.syms /\ s.fallbacks = r.fallbacks /\ s.slots = r.slots
    BY <1>1, RunFields DEF RunType, Fields
  <2> HIDE DEF s
  <2>2. Knows(db, work, s, "capture")
    BY <1>1, <1>3, <2>1, WaitingKnows
  <2> QED BY <1>3, <2>2, PrivatelyKnows
<1>4. CASE r.mode # "status" /\ Privately(p, r, "begin")
  <2>1. Knows(db, work, r, "begin")
    BY <1>1, <1>4, WaitingKnows
  <2> QED BY <1>4, <2>1, PrivatelyKnows
<1> QED BY <1>2, <1>3, <1>4 DEF EndScan

\* Capturing the vectors of a file.
LEMMA CaptureKnows == ASSUME IInv, RInv, NEW p \in Proc, Capture(p) PROVE RInv'
<1> DEFINE r == run[p]
<1>1. pc[p] = "capture" /\ RunType(r) /\ Knows(db, work, r, "capture") /\ r.mode # "status"
  BY DEF Capture, IInv, RInv, RunInv, Knows, ScanFits, AfterScan
<1>2. CASE Privately(p, r, "begin")
  <2>1. Knows(db, work, r, "begin")
    BY <1>1, WaitingKnows
  <2> QED BY <1>2, <2>1, PrivatelyKnows
<1>3. CASE \E q, cap : Privately(p, [r EXCEPT !.caps[q] = cap, !.todo = @ \ {q}], "capture")
  <2>1. PICK q, cap : Privately(p, [r EXCEPT !.caps[q] = cap, !.todo = @ \ {q}], "capture")
    BY <1>3
  <2> DEFINE s == [r EXCEPT !.caps[q] = cap, !.todo = @ \ {q}]
  <2> HIDE DEF r
  <2>2. /\ s.mode = r.mode /\ s.model = r.model /\ s.cands = r.cands /\ s.scanned = r.scanned
        /\ s.existing = r.existing /\ s.quiet = r.quiet
        /\ s.carry = r.carry /\ s.syms = r.syms /\ s.fallbacks = r.fallbacks /\ s.slots = r.slots
    BY <1>1, RunFields DEF RunType, Fields
  <2>3. Privately(p, s, "capture")
    BY <2>1
  <2> HIDE DEF s
  <2>4. Knows(db, work, s, "capture")
    BY <1>1, <2>2, WaitingKnows
  <2> QED BY <2>3, <2>4, PrivatelyKnows
<1> QED BY <1>2, <1>3 DEF Capture

\* Deleting the row of a path touches no other path.
LEMMA DeleteOnlyThere ==
    ASSUME NEW d, Sound(d), NEW p
    PROVE  LET e == DeleteFileByPath(d, p)
           IN  /\ FileAt(e, p) = {} /\ e.vecs = d.vecs
               /\ \A q : q # p => Untouched(d, e, q)
<1> DEFINE e == DeleteFileByPath(d, p)
           fids == Ids(FileAt(d, p))
<1>1. /\ e.files = {f \in d.files : f.id \notin fids} /\ e.vecs = d.vecs
      /\ e.symbols = {s \in d.symbols : s.file \notin fids}
  BY DeleteFileByPathTables DEF Sound
<1>2. FileAt(e, p) = {}
  BY DeleteFileByPathSound
<1> HIDE DEF e
<1>3. ASSUME NEW q, q # p PROVE Untouched(d, e, q)
  <2>1. \A f \in FileAt(d, q) : f.id \notin fids
    BY <1>3 DEF FileAt, Ids, Sound, Consistent, UniqueIds
  <2>2. FileAt(e, q) = FileAt(d, q)
    BY <1>1, <2>1 DEF FileAt
  <2>3. ASSUME NEW f \in FileAt(d, q) PROVE SymbolsIn(e, {f.id}) = SymbolsIn(d, {f.id})
    BY <1>1, <2>1 DEF SymbolsIn
  <2> QED BY <2>2, <2>3 DEF Untouched
<1> QED BY <1>1, <1>2, <1>3 DEF e

\* Nor does writing a file, and it leaves one row at its path, with the new hash.
LEMMA PutOnlyThere ==
    ASSUME NEW d, Sound(d), NEW p \in Path, NEW h \in Hash
    PROVE  LET e == PutFile(d, p, h)
           IN  /\ HashesAt(e, p) = {h} /\ e.vecs = d.vecs
               /\ \A q : q # p => Untouched(d, e, q)
<1> DEFINE m    == DeleteFileByPath(d, p)
           e    == InsertFile(m, p, h)
           fid  == NextId(Ids(m.files))
           base == NextId(Ids(m.symbols))
           rows == SymbolRows(fid, base, SymbolsOf[h.content])
           new  == [id |-> fid, path |-> p, hash |-> h]
<1>1. Sound(m) /\ FileAt(m, p) = {} /\ m.vecs = d.vecs /\ \A q : q # p => Untouched(d, m, q)
  BY DeleteOnlyThere, DeleteFileByPathSound
<1>2. PutFile(d, p, h) = e
  BY DEF PutFile
<1> HIDE DEF m
<1>3. /\ e.files = m.files \cup {new} /\ e.symbols = m.symbols \cup rows /\ e.vecs = m.vecs
  BY <1>1, InsertFileTables DEF Sound
<1>4. fid \in RowId /\ \A f \in m.files : f.id < fid
  <2>1. Ids(m.files) \in SUBSET RowId /\ Bounded(Ids(m.files))
    BY <1>1 DEF Sound, Ids, FileRow
  <2> QED BY <2>1, NextIdFresh DEF Ids
<1>5. \A s \in rows : s.file = fid
  BY DEF SymbolRows
<1>6. \A f \in m.files : f.id # fid
  BY <1>1, <1>4 DEF Sound, FileRow, RowId
<1>7. new.path = p /\ new.hash = h
  OBVIOUS
<1> HIDE DEF e, fid, base, rows, new
<1>8. HashesAt(e, p) = {h}
  <2>1. FileAt(e, p) = {new}
    BY <1>1, <1>3, <1>7 DEF FileAt
  <2> QED BY <2>1, <1>7 DEF HashesAt
<1>9. ASSUME NEW q, q # p PROVE Untouched(d, e, q)
  <2>1. FileAt(m, q) = FileAt(d, q) /\ \A f \in FileAt(d, q) : SymbolsIn(m, {f.id}) = SymbolsIn(d, {f.id})
    BY <1>1, <1>9 DEF Untouched
  <2>2. FileAt(e, q) = FileAt(m, q)
    BY <1>3, <1>7, <1>9 DEF FileAt
  <2>3. ASSUME NEW f \in FileAt(m, q) PROVE SymbolsIn(e, {f.id}) = SymbolsIn(m, {f.id})
    <3>1. f.id # fid
      BY <1>6 DEF FileAt
    <3> QED BY <1>3, <1>5, <3>1 DEF SymbolsIn
  <2> QED BY <2>1, <2>2, <2>3 DEF Untouched
<1> QED BY <1>1, <1>2, <1>3, <1>8, <1>9

\* Two statements that leave a path alone leave it alone together.
LEMMA UntouchedTwice ==
    ASSUME NEW d, NEW e, NEW w, NEW q, Untouched(d, e, q), Untouched(e, w, q)
    PROVE  Untouched(d, w, q)
  BY DEF Untouched

\* SetIndexState writes counts only.
LEMMA SetIndexStateTables ==
    ASSUME NEW d, Sound(d)
    PROVE  LET e == SetIndexState(d)
           IN  e.files = d.files /\ e.symbols = d.symbols /\ e.edges = d.edges /\ e.vecs = d.vecs
  BY DEF Sound, SetIndexState, Tables, Columns

\* ClearIndex leaves nothing but vectors.
LEMMA ClearIndexTables ==
    ASSUME NEW d, Sound(d)
    PROVE  LET e == ClearIndex(d)
           IN  e.files = {} /\ e.symbols = {} /\ e.edges = {} /\ e.vecs = d.vecs
<1> DEFINE m == DeleteFiles(d, Ids(d.files))
           e == ClearIndex(d)
<1>1. DOMAIN d = Tables /\ DOMAIN d.meta = Columns /\ References(d)
  BY DEF Sound, Consistent
<1>2. /\ DOMAIN m = Tables
      /\ m.files = {f \in d.files : f.id \notin Ids(d.files)}
      /\ m.symbols = {s \in d.symbols : s.file \notin Ids(d.files)}
      /\ m.edges = {x \in d.edges : x[1] \notin Ids(d.files) /\ x[2] \notin Ids(d.files)}
      /\ m.vecs = d.vecs /\ m.meta = d.meta
  BY <1>1, DeleteFilesTables
<1>3. m.files = {} /\ m.symbols = {} /\ m.edges = {}
  BY <1>1, <1>2 DEF References, Ids
<1>4. e.files = m.files /\ e.symbols = m.symbols /\ e.edges = m.edges /\ e.vecs = m.vecs
  BY <1>1, <1>2 DEF ClearIndex, Tables, Columns
<1> QED BY <1>2, <1>3, <1>4

\* Only one run is in its write transaction.
LEMMA OneWriter ==
    ASSUME IInv, NEW p \in Proc, pc[p] = "write"
    PROVE  \A q \in Proc : q # p => pc[q] # "write"
  BY DEF IInv, LockHeldByWriter

\* Opening the write transaction: nothing is written yet, and a full run has cleared all.
LEMMA BeginWriteKnows == ASSUME IInv, RInv, NEW p \in Proc, BeginWrite(p) PROVE RInv'
<1> DEFINE r == run[p]
           d == IF r.mode = "full" THEN ClearIndex(db) ELSE db
           gone == IF r.mode = "incremental" THEN Gone(r) ELSE {}
           s == [r EXCEPT !.gone = gone, !.todo = Parsed(r)]
<1>1. /\ lock = NoProc /\ lock' = p /\ work' = d /\ pc[p] = "begin"
      /\ pc' = [pc EXCEPT ![p] = "write"] /\ run' = [run EXCEPT ![p] = s]
      /\ UNCHANGED <<tree, staged, db, runs, edits>>
  BY DEF BeginWrite, OpenWrite
<1>2. /\ pc'[p] = "write" /\ run'[p] = s /\ Knows(db, work, r, "begin") /\ RunType(r) /\ Sound(db)
      /\ \A q \in Proc : q # p => pc'[q] = pc[q] /\ run'[q] = run[q] /\ pc[q] # "write"
  BY <1>1, ReindexAssumption DEF IInv, RInv, RunInv, LockHeldByWriter, Good
<1>3. /\ r.mode = "full" => d.files = {} /\ d.vecs = db.vecs
      /\ r.mode # "full" => d = db
  BY <1>2, ClearIndexTables
<1>4. gone = IF r.mode = "incremental" THEN Gone(r) ELSE {}
  OBVIOUS
<1> HIDE DEF r, d, gone
<1>5. /\ s.mode = r.mode /\ s.model = r.model /\ s.cands = r.cands /\ s.scanned = r.scanned
      /\ s.existing = r.existing /\ s.quiet = r.quiet /\ s.gone = gone /\ s.todo = Parsed(r)
      /\ s.carry = r.carry /\ s.syms = r.syms /\ s.fallbacks = r.fallbacks /\ s.slots = r.slots
  BY <1>2, RunFields DEF RunType, Fields
<1> HIDE DEF s
<1>6. Parsed(s) = Parsed(r) /\ Gone(s) = Gone(r)
  BY <1>5 DEF Parsed, Gone
<1>7. ScanFits(s, "write")
  <2>1. ScanFits(r, "begin") /\ r.carry = {} /\ r.syms = {} /\ r.fallbacks = {} /\ r.slots = <<>>
    BY <1>2 DEF Knows, ScanFits
  <2> QED BY <1>5, <2>1, ScanKept DEF AfterScan
<1>8. s.quiet => TreeFits(s, "write")
  BY <1>2, <1>5, TreeKept DEF Knows
<1>9. Sole(s) => StoreFits(db, d, s, "write")
  <2>1. WriteFits(db, d, s)
    <3>1. d.vecs = db.vecs
      BY <1>3
    <3>2. ASSUME NEW q \in Path
          PROVE  IF q \in Parsed(s) \ s.todo THEN HashesAt(d, q) = {s.scanned[q].hash}
                 ELSE IF q \in Cleared(s) THEN FileAt(d, q) = {} ELSE Untouched(db, d, q)
      <4>1. q \notin Parsed(s) \ s.todo
        BY <1>5, <1>6
      <4>2. CASE r.mode = "full"
        BY <1>3, <1>5, <4>1, <4>2 DEF Cleared, FileAt
      <4>3. CASE r.mode # "full"
        <5>1. Untouched(db, d, q)
          BY <1>3, <4>3 DEF Untouched
        <5>2. q \notin Cleared(s)
          BY <1>4, <1>5, <1>6, <4>3 DEF Cleared
        <5> QED BY <4>1, <5>1, <5>2
      <4> QED BY <4>2, <4>3
    <3> QED BY <1>4, <1>5, <1>6, <3>1, <3>2 DEF WriteFits
  <2>2. Sole(s) => StoreFits(db, work, r, "begin")
    BY <1>2, <1>5 DEF Knows, Sole
  <2> QED BY <1>5, <2>1, <2>2 DEF StoreFits, EdgesFit, AfterWrite, Embedding
<1>10. EmbedFits(db, s, "write")
  BY DEF EmbedFits
<1>11. Knows(db', work', run'[p], pc'[p])
  BY <1>1, <1>2, <1>7, <1>8, <1>9, <1>10 DEF Knows
<1> QED BY <1>1, <1>2, <1>11, StepKnows

\* A statement of the write transaction.
LEMMA WritingKnows ==
    ASSUME IInv, RInv, NEW p \in Proc, pc[p] = "write", NEW d, NEW s, Writing(p, d, s),
           s.mode = run[p].mode, s.model = run[p].model, s.cands = run[p].cands,
           s.scanned = run[p].scanned, s.existing = run[p].existing, s.quiet = run[p].quiet,
           s.carry = run[p].carry, s.syms = run[p].syms, s.fallbacks = run[p].fallbacks,
           s.slots = run[p].slots,
           WriteFits(db, work, run[p]) => WriteFits(db, d, s)
    PROVE  RInv'
<1> DEFINE r == run[p]
<1>1. /\ UNCHANGED <<tree, staged, db, lock, pc, runs, edits>>
      /\ work' = d /\ run' = [run EXCEPT ![p] = s]
  BY DEF Writing
<1>2. /\ pc'[p] = "write" /\ run'[p] = s /\ Knows(db, work, r, "write")
      /\ \A q \in Proc : q # p => pc'[q] = pc[q] /\ run'[q] = run[q] /\ pc[q] # "write"
  BY <1>1, OneWriter DEF IInv, RInv
<1>3. ScanFits(s, "write")
  <2>1. ScanFits(r, "write") /\ r.carry = {} /\ r.syms = {} /\ r.fallbacks = {} /\ r.slots = <<>>
    BY <1>2 DEF Knows, ScanFits
  <2> QED BY <2>1, ScanKept DEF AfterScan
<1>4. s.quiet => TreeFits(s, "write")
  BY <1>2, TreeKept DEF Knows
<1>5. Sole(s) => StoreFits(db, d, s, "write")
  BY <1>2 DEF Knows, Sole, StoreFits, EdgesFit, AfterWrite, Embedding
<1>6. EmbedFits(db, s, "write")
  BY DEF EmbedFits
<1>7. Knows(db', work', run'[p], pc'[p])
  BY <1>1, <1>2, <1>3, <1>4, <1>5, <1>6 DEF Knows
<1> QED BY <1>1, <1>2, <1>7, StepKnows

\* Dropping a vanished file.
LEMMA DropGoneKnows == ASSUME IInv, RInv, NEW p \in Proc, DropGone(p) PROVE RInv'
<1> DEFINE r == run[p]
<1>1. PICK x \in r.gone : Writing(p, DeleteFileByPath(work, x), [r EXCEPT !.gone = @ \ {x}])
  BY DEF DropGone
<1> DEFINE s == [r EXCEPT !.gone = @ \ {x}]
           e == DeleteFileByPath(work, x)
<1>2. pc[p] = "write" /\ RunType(r) /\ Sound(work)
  BY DEF DropGone, IInv, RunInv, Good
<1>3. FileAt(e, x) = {} /\ e.vecs = work.vecs /\ \A q : q # x => Untouched(work, e, q)
  BY <1>2, DeleteOnlyThere
<1>4. /\ s.mode = r.mode /\ s.model = r.model /\ s.cands = r.cands /\ s.scanned = r.scanned
      /\ s.existing = r.existing /\ s.quiet = r.quiet /\ s.gone = r.gone \ {x} /\ s.todo = r.todo
      /\ s.carry = r.carry /\ s.syms = r.syms /\ s.fallbacks = r.fallbacks /\ s.slots = r.slots
  BY <1>2, RunFields DEF RunType, Fields
<1>5. Writing(p, e, s)
  BY <1>1
<1> HIDE DEF s, e
<1>6. ASSUME WriteFits(db, work, r) PROVE WriteFits(db, e, s)
  <2> HIDE DEF r
  <2>1. Parsed(s) = Parsed(r) /\ Gone(s) = Gone(r)
    BY <1>4 DEF Parsed, Gone
  <2>2. r.gone \subseteq IF r.mode = "incremental" THEN Gone(r) ELSE {}
    BY <1>6 DEF WriteFits
  <2>3. r.mode = "incremental" /\ x \in Gone(r) /\ x \in Path
    BY <1>1, <2>2 DEF Gone
  <2>4. x \in Cleared(s) /\ x \notin r.cands
    BY <1>4, <2>1, <2>3 DEF Cleared, Gone
  <2>5. x \notin Parsed(r)
    <3>1. ScanFits(r, pc[p])
      BY DEF RInv, Knows, r
    <3> QED BY <2>3, <2>4, <3>1 DEF ScanFits, Parsed
  <2>6. e.vecs = db.vecs /\ s.gone \subseteq IF s.mode = "incremental" THEN Gone(s) ELSE {}
    BY <1>3, <1>4, <1>6, <2>1, <2>2 DEF WriteFits
  <2>7. ASSUME NEW q \in Path
        PROVE  IF q \in Parsed(s) \ s.todo THEN HashesAt(e, q) = {s.scanned[q].hash}
               ELSE IF q \in Cleared(s) THEN FileAt(e, q) = {} ELSE Untouched(db, e, q)
    <3>1. IF q \in Parsed(r) \ r.todo THEN HashesAt(work, q) = {r.scanned[q].hash}
          ELSE IF q \in Cleared(r) THEN FileAt(work, q) = {} ELSE Untouched(db, work, q)
      BY <1>6 DEF WriteFits
    <3>2. CASE q = x
      BY <3>2, <1>3, <2>1, <2>4, <2>5
    <3>3. CASE q # x
      <4>1. Untouched(work, e, q) /\ (q \in Cleared(s) <=> q \in Cleared(r))
        BY <3>3, <1>3, <1>4, <2>1 DEF Cleared
      <4>2. FileAt(e, q) = FileAt(work, q)
        BY <4>1 DEF Untouched
      <4>3. HashesAt(e, q) = HashesAt(work, q)
        BY <4>2 DEF HashesAt
      <4>4. Untouched(db, work, q) => Untouched(db, e, q)
        BY <4>1, UntouchedTwice
      <4> QED BY <1>4, <2>1, <3>1, <4>1, <4>2, <4>3, <4>4
    <3> QED BY <3>2, <3>3
  <2> QED BY <2>6, <2>7 DEF WriteFits
<1> QED BY <1>2, <1>4, <1>5, <1>6, WritingKnows

\* Writing a parsed file.
LEMMA PutNextKnows == ASSUME IInv, RInv, NEW p \in Proc, PutNext(p) PROVE RInv'
<1> DEFINE r == run[p]
           x == Min(r.todo)
           h == r.scanned[x].hash
           s == [r EXCEPT !.todo = @ \ {x}]
           e == PutFile(work, x, h)
<1>1. /\ pc[p] = "write" /\ RunInv(r, "write") /\ Sound(work) /\ r.todo # {} /\ r.gone = {}
      /\ Writing(p, e, s)
  BY DEF PutNext, IInv, Good
<1>2. x \in r.todo
  BY <1>1, CatalogAssumption, MinIsLeast DEF RunInv, RunType
<1> HIDE DEF x
<1>3. x \in Path /\ h \in Hash /\ x \in Parsed(r)
  BY <1>1, <1>2 DEF RunInv, RunType, Parsed
<1> HIDE DEF h
<1>4. HashesAt(e, x) = {h} /\ e.vecs = work.vecs /\ \A q : q # x => Untouched(work, e, q)
  BY <1>1, <1>3, PutOnlyThere
<1>5. /\ s.mode = r.mode /\ s.model = r.model /\ s.cands = r.cands /\ s.scanned = r.scanned
      /\ s.existing = r.existing /\ s.quiet = r.quiet /\ s.gone = r.gone /\ s.todo = r.todo \ {x}
      /\ s.carry = r.carry /\ s.syms = r.syms /\ s.fallbacks = r.fallbacks /\ s.slots = r.slots
  BY <1>1, RunFields DEF RunInv, RunType, Fields
<1> HIDE DEF s, e
<1>6. ASSUME WriteFits(db, work, r) PROVE WriteFits(db, e, s)
  <2>1. h = r.scanned[x].hash
    BY DEF h
  <2> HIDE DEF r
  <2>2. Parsed(s) = Parsed(r) /\ Gone(s) = Gone(r) /\ Cleared(s) = Cleared(r)
    BY <1>5 DEF Parsed, Gone, Cleared
  <2>3. e.vecs = db.vecs /\ s.gone \subseteq IF s.mode = "incremental" THEN Gone(s) ELSE {}
    BY <1>4, <1>5, <1>6, <2>2 DEF WriteFits
  <2>4. ASSUME NEW q \in Path
        PROVE  IF q \in Parsed(s) \ s.todo THEN HashesAt(e, q) = {s.scanned[q].hash}
               ELSE IF q \in Cleared(s) THEN FileAt(e, q) = {} ELSE Untouched(db, e, q)
    <3>1. IF q \in Parsed(r) \ r.todo THEN HashesAt(work, q) = {r.scanned[q].hash}
          ELSE IF q \in Cleared(r) THEN FileAt(work, q) = {} ELSE Untouched(db, work, q)
      BY <1>6 DEF WriteFits
    <3>2. CASE q = x
      BY <3>2, <1>3, <1>4, <1>5, <2>1, <2>2
    <3>3. CASE q # x
      <4>1. Untouched(work, e, q)
        BY <3>3, <1>4
      <4>2. FileAt(e, q) = FileAt(work, q)
        BY <4>1 DEF Untouched
      <4>3. HashesAt(e, q) = HashesAt(work, q)
        BY <4>2 DEF HashesAt
      <4>4. Untouched(db, work, q) => Untouched(db, e, q)
        BY <4>1, UntouchedTwice
      <4> QED BY <1>5, <2>2, <3>1, <3>3, <4>2, <4>3, <4>4
    <3> QED BY <3>2, <3>3
  <2> QED BY <2>3, <2>4 DEF WriteFits
<1> QED BY <1>1, <1>5, <1>6, WritingKnows

\* What the write transaction leaves when both its loops are done: what was parsed has its
\* new hash, what was the same the old one, and nothing else is left that should not be.
LEMMA WrittenAtEnd ==
    ASSUME NEW d, NEW w, NEW r, RunType(r), ScanFits(r, "write"), WriteFits(d, w, r),
           r.todo = {}, r.gone = {}, w.files \subseteq FileRow,
           \A q \in Path : HashesAt(d, q) = {r.existing[q]} \ {NoHash},
           NEW e, e.files = w.files
    PROVE  Written(e, r)
<1>1. \A q : FileAt(e, q) = FileAt(w, q) /\ HashesAt(e, q) = HashesAt(w, q)
  BY DEF FileAt, HashesAt
<1>2. ASSUME NEW q \in Path
      PROVE  IF q \in Parsed(r) THEN HashesAt(w, q) = {r.scanned[q].hash}
             ELSE IF q \in Cleared(r) THEN FileAt(w, q) = {} ELSE Untouched(d, w, q)
  BY DEF WriteFits
<1>3. ASSUME NEW q \in Path, Untouched(d, w, q) PROVE HashesAt(w, q) = HashesAt(d, q)
  BY <1>3 DEF Untouched, HashesAt
<1>4. ASSUME NEW q \in Path, r.scanned[q].kind \in {"same", "parsed"}
      PROVE  HashesAt(e, q) = {r.scanned[q].hash}
  <2>1. CASE r.scanned[q].kind = "parsed"
    BY <1>1, <1>2, <2>1 DEF Parsed
  <2>2. CASE r.scanned[q].kind = "same"
    <3>1. /\ r.mode # "full" /\ r.scanned[q].hash \in Hash /\ r.existing[q] = r.scanned[q].hash
          /\ q \in r.cands
      BY <2>2 DEF ScanFits
    <3>2. q \notin Parsed(r) /\ q \notin Cleared(r)
      BY <2>2, <3>1 DEF Parsed, Cleared, Gone
    <3>3. HashesAt(w, q) = {r.existing[q]} \ {NoHash}
      BY <1>2, <1>3, <3>2
    <3> QED BY <1>1, <3>1, <3>3, ReindexAssumption
  <2> QED BY <1>4, <2>1, <2>2
<1>5. ASSUME NEW f \in e.files
      PROVE  f.path \in Path /\ FileAt(w, f.path) # {} /\ HashesAt(w, f.path) # {}
  BY DEF FileRow, FileAt, HashesAt
<1>6. r.mode = "full" => \A f \in e.files : f.path \in Parsed(r)
  <2>1. r.mode = "full" => \A q \in Path : q \in Cleared(r)
    BY DEF Cleared
  <2> QED BY <1>2, <1>5, <2>1
<1>7. r.mode = "incremental" => \A f \in e.files : f.path \in r.cands
  <2>1. SUFFICES ASSUME r.mode = "incremental", NEW f \in e.files, f.path \notin r.cands PROVE FALSE
    OBVIOUS
  <2> DEFINE q == f.path
  <2>2. q \in Path /\ FileAt(w, q) # {} /\ HashesAt(w, q) # {}
    BY <1>5
  <2> HIDE DEF q
  <2>3. q \notin r.cands
    BY <2>1 DEF q
  <2>4. q \notin Parsed(r)
    BY <2>2, <2>3 DEF ScanFits, Parsed
  <2>5. CASE r.existing[q] = NoHash
    <3>1. q \notin Cleared(r)
      BY <2>1, <2>5 DEF Cleared, Gone
    <3>2. HashesAt(w, q) = {}
      BY <1>2, <1>3, <2>2, <2>4, <2>5, <3>1
    <3> QED BY <2>2, <3>2
  <2>6. CASE r.existing[q] # NoHash
    <3>1. q \in Cleared(r)
      BY <2>1, <2>2, <2>3, <2>6 DEF Cleared, Gone
    <3> QED BY <1>2, <2>2, <2>4, <3>1
  <2> QED BY <2>5, <2>6
<1> QED BY <1>4, <1>6, <1>7 DEF Written

\* The commit.
LEMMA CommitWriteKnows == ASSUME IInv, RInv, NEW p \in Proc, CommitWrite(p) PROVE RInv'
<1> DEFINE r == run[p]
<1>1. /\ pc[p] = "write" /\ db' = SetIndexState(work) /\ lock' = NoProc /\ work' = EmptyCatalog
      /\ run' = [q \in Proc |-> IF q = p THEN run[p] ELSE Disturbed(q)]
      /\ pc' = [pc EXCEPT ![p] = "graph"]
      /\ UNCHANGED <<tree, staged, runs, edits>> /\ r.gone = {} /\ r.todo = {}
  BY DEF CommitWrite, Commit
<1>2. /\ pc'[p] = "graph" /\ run'[p] = r /\ Knows(db, work, r, "write") /\ RunType(r)
      /\ \A q \in Proc : q # p => pc'[q] = pc[q] /\ run'[q] = Disturbed(q) /\ pc[q] # "write"
      /\ Sound(work)
  BY <1>1, OneWriter DEF IInv, RInv, RunInv, Good
<1>3. db'.files = work.files
  BY <1>1, <1>2, SetIndexStateTables
<1> HIDE DEF r
<1>4. ScanFits(r, "graph")
  <2>1. ScanFits(r, "write") /\ r.carry = {} /\ r.syms = {} /\ r.fallbacks = {} /\ r.slots = <<>>
    BY <1>2 DEF Knows, ScanFits
  <2> QED BY <2>1, ScanKept DEF AfterScan, AfterWrite
<1>5. r.quiet => TreeFits(r, "graph")
  BY <1>2, TreeKept DEF Knows
<1>6. Sole(r) => StoreFits(db', work', r, "graph")
  <2>1. SUFFICES ASSUME Sole(r) PROVE Written(db', r)
    BY DEF StoreFits, EdgesFit, Embedding
  <2>2. /\ \A q \in Path : HashesAt(db, q) = {r.existing[q]} \ {NoHash}
        /\ WriteFits(db, work, r) /\ ScanFits(r, "write")
    BY <1>2, <2>1 DEF Knows, StoreFits
  <2> QED BY <1>1, <1>2, <1>3, <2>2, WrittenAtEnd DEF Sound
<1>7. EmbedFits(db', r, "graph")
  BY DEF EmbedFits
<1>8. Knows(db', work', run'[p], pc'[p])
  BY <1>2, <1>4, <1>5, <1>6, <1>7 DEF Knows
<1> QED BY <1>1, <1>2, <1>8, StepKnows

\* No files, no edges.
LEMMA NothingResolves == ASSUME NEW files, files = {}, NEW imports PROVE Resolve(files, imports) = {}
  BY DEF Resolve, FirstAt

\* A clean run.
LEMMA CleanKnows == ASSUME IInv, RInv, NEW p \in Proc, Clean(p) PROVE RInv'
<1> DEFINE r == run[p]
           d == SetIndexState(ClearIndex(db))
<1>1. pc[p] = "clean" /\ Knows(db, work, r, "clean") /\ RunType(r) /\ Sound(db)
  BY DEF Clean, IInv, RInv, RunInv, Good
<1>2. ScanFits(r, "clean") /\ r.mode = "clean" /\ r.model = NoModel
  BY <1>1 DEF Knows, ScanFits
<1>3. Publishing(p, d, Result(r), "done")
  BY <1>2 DEF Clean
<1>4. d.files = {} /\ d.edges = {}
  <2>1. Sound(ClearIndex(db)) /\ ClearIndex(db).files = {} /\ ClearIndex(db).edges = {}
    BY <1>1, ClearIndexSound, ClearIndexTables
  <2> QED BY <2>1, SetIndexStateTables
<1> HIDE DEF r, d
<1>5. d.edges = Resolve(d.files, Imports(d))
  BY <1>4, NothingResolves
<1>6. Knows(d, work, Result(r), "done")
  <2>1. r.quiet => TreeFits(r, "clean")
    BY <1>1 DEF Knows
  <2> QED BY <1>1, <1>2, <1>4, <1>5, <2>1, ResultKnows
<1> QED BY <1>3, <1>6, PublishingKnows

\* A row that an earlier write left is still there for whoever has the same outcomes.
LEMMA WrittenKept ==
    ASSUME NEW d, NEW r, Written(d, r), NEW e, e.files = d.files, NEW s,
           s.mode = r.mode, s.cands = r.cands, s.scanned = r.scanned
    PROVE  Written(e, s)
<1>1. \A q : HashesAt(e, q) = HashesAt(d, q)
  BY DEF HashesAt, FileAt
<1>2. Parsed(s) = Parsed(r)
  BY DEF Parsed
<1> QED BY <1>1, <1>2 DEF Written

\* Two lists of files with the same ids and paths.
SamePaths(F, G) ==
    /\ \A f \in F : \E g \in G : g.id = f.id /\ g.path = f.path
    /\ \A g \in G : \E f \in F : g.id = f.id /\ g.path = f.path

\* Where an import leads is a matter of ids and paths.
LEMMA FirstOfSamePaths ==
    ASSUME NEW F, NEW G, SamePaths(F, G), NEW paths
    PROVE  FirstAt(F, paths) = FirstAt(G, paths)
<1> DEFINE Takes(H, h, k) == h.path = paths[k] /\ \A j \in 1 .. (k - 1), x \in H : x.path # paths[j]
<1>1. \A k : \A f \in F, g \in G : f.path = g.path => (Takes(F, f, k) <=> Takes(G, g, k))
  BY DEF SamePaths
<1>2. /\ FirstAt(F, paths) = {f.id : f \in {x \in F : \E k \in DOMAIN paths : Takes(F, x, k)}}
      /\ FirstAt(G, paths) = {f.id : f \in {x \in G : \E k \in DOMAIN paths : Takes(G, x, k)}}
  BY DEF FirstAt
<1> HIDE DEF Takes
<1>3. \A i : i \in FirstAt(F, paths) <=> i \in FirstAt(G, paths)
  BY <1>1, <1>2 DEF SamePaths
<1> QED BY <1>3

\* The graph needs of a file its id and its path, and of the catalog its files.
LEMMA ResolvedFromRows ==
    ASSUME NEW files, NEW imports
    PROVE  Resolve({[id |-> f.id, path |-> f.path] : f \in files}, imports) = Resolve(files, imports)
<1> DEFINE short == {[id |-> f.id, path |-> f.path] : f \in files}
<1>1. SamePaths(short, files)
  <2>1. ASSUME NEW f \in files PROVE \E g \in short : f.id = g.id /\ f.path = g.path
    <3>1. [id |-> f.id, path |-> f.path] \in short
      OBVIOUS
    <3> QED BY <3>1
  <2>2. \A g \in short : \E f \in files : f.id = g.id /\ f.path = g.path
    OBVIOUS
  <2> QED BY <2>1, <2>2 DEF SamePaths
<1> HIDE DEF short
<1>2. \A i : PathOf(short, i) = PathOf(files, i)
  <2>1. SUFFICES ASSUME NEW i PROVE PathOf(short, i) = PathOf(files, i)
    OBVIOUS
  <2> DEFINE Paths(F) == {f.path : f \in {g \in F : g.id = i}}
  <2>2. Paths(short) = Paths(files)
    <3>1. \A q : q \in Paths(short) <=> q \in Paths(files)
      BY <1>1 DEF SamePaths
    <3> QED BY <3>1
  <2>3. /\ PathOf(short, i) = IF Paths(short) = {} THEN Root ELSE CHOOSE q \in Paths(short) : TRUE
        /\ PathOf(files, i) = IF Paths(files) = {} THEN Root ELSE CHOOSE q \in Paths(files) : TRUE
    BY DEF PathOf
  <2> HIDE DEF Paths
  <2> QED BY <2>2, <2>3
<1>3. \A paths : FirstAt(short, paths) = FirstAt(files, paths)
  BY <1>1, FirstOfSamePaths
<1>4. \A i, paths : FirstAt({f \in short : f.id # i}, paths) = FirstAt({f \in files : f.id # i}, paths)
  <2>1. ASSUME NEW i PROVE SamePaths({f \in short : f.id # i}, {f \in files : f.id # i})
    BY <1>1 DEF SamePaths
  <2> QED BY <2>1, FirstOfSamePaths
<1> DEFINE Target(F, i) == FirstAt(F, Candidates[<<PathOf(F, i[1]), i[2]>>]) \ {i[1]}
           Impl(F, id, path) == FirstAt({f \in F : f.id # id}, ImplsOf[path])
           Imported(F) == UNION {{<<i[1], to, "import">> : to \in Target(F, i)} : i \in imports}
           Tested(F) == UNION {{<<from, t.id, "test">> : from \in Impl(F, t.id, t.path)} : t \in F}
<1>5. Imported(short) = Imported(files)
  <2>1. \A i : Target(short, i) = Target(files, i)
    BY <1>2, <1>3
  <2> HIDE DEF Target
  <2> QED BY <2>1
<1>6. Tested(short) = Tested(files)
  <2>1. \A i, q : Impl(short, i, q) = Impl(files, i, q)
    BY <1>4
  <2> HIDE DEF Impl
  <2>2. \A e : e \in Tested(short) <=> e \in Tested(files)
    BY <1>1, <2>1 DEF SamePaths
  <2> QED BY <2>2
<1>7. /\ Resolve(short, imports) = Imported(short) \cup Tested(short)
      /\ Resolve(files, imports) = Imported(files) \cup Tested(files)
  BY Zenon DEF Resolve
<1> HIDE DEF Imported, Tested
<1> QED BY <1>5, <1>6, <1>7, Zenon DEF short

\* The imports of a catalog depend on its file rows alone.
LEMMA ImportsOfFiles == ASSUME NEW d, NEW e, e.files = d.files PROVE Imports(e) = Imports(d)
  BY DEF Imports

\* Reading the files for the graph.
LEMMA ReadFilesKnows == ASSUME IInv, RInv, NEW p \in Proc, ReadFiles(p) PROVE RInv'
<1> DEFINE r == run[p]
           files == {[id |-> f.id, path |-> f.path] : f \in db.files}
           s == [r EXCEPT !.files = files]
<1>1. /\ pc[p] = "graph" /\ Privately(p, s, "imports") /\ RunType(r) /\ Knows(db, work, r, "graph")
  BY DEF ReadFiles, IInv, RInv, RunInv
<1>2. files = {[id |-> f.id, path |-> f.path] : f \in db.files}
  OBVIOUS
<1> HIDE DEF files, r
<1>3. /\ s.mode = r.mode /\ s.model = r.model /\ s.cands = r.cands /\ s.scanned = r.scanned
      /\ s.existing = r.existing /\ s.quiet = r.quiet /\ s.files = files
      /\ s.carry = r.carry /\ s.syms = r.syms /\ s.fallbacks = r.fallbacks /\ s.slots = r.slots
  BY <1>1, RunFields DEF RunType, Fields
<1> HIDE DEF s
<1>4. ScanFits(s, "imports")
  <2>1. ScanFits(r, "graph") /\ r.carry = {} /\ r.syms = {} /\ r.fallbacks = {} /\ r.slots = <<>>
    BY <1>1 DEF Knows, ScanFits
  <2> QED BY <1>3, <2>1, ScanKept DEF AfterScan, AfterWrite
<1>5. s.quiet => TreeFits(s, "imports")
  BY <1>1, <1>3, TreeKept DEF Knows
<1>6. Sole(s) => StoreFits(db, work, s, "imports")
  <2>1. SUFFICES ASSUME Sole(s) PROVE StoreFits(db, work, s, "imports")
    OBVIOUS
  <2>2. Written(db, r)
    BY <1>1, <1>3, <2>1 DEF Knows, Sole, StoreFits, AfterWrite
  <2>3. Written(db, s)
    BY <1>3, <2>2, WrittenKept
  <2> QED BY <1>2, <1>3, <2>3 DEF StoreFits, EdgesFit, AfterWrite, Embedding
<1>7. EmbedFits(db, s, "imports")
  BY DEF EmbedFits
<1>8. Knows(db, work, s, "imports")
  BY <1>4, <1>5, <1>6, <1>7 DEF Knows
<1> QED BY <1>1, <1>8, PrivatelyKnows

\* Reading the imports: of a catalog in which nothing has changed since.
LEMMA ReadImportsKnows == ASSUME IInv, RInv, NEW p \in Proc, ReadImports(p) PROVE RInv'
<1> DEFINE r == run[p]
           imports == Imports(db)
           s == [r EXCEPT !.imports = imports]
<1>1. /\ pc[p] = "imports" /\ Privately(p, s, "link") /\ RunType(r) /\ Knows(db, work, r, "imports")
  BY DEF ReadImports, IInv, RInv, RunInv
<1>2. imports = Imports(db)
  OBVIOUS
<1> HIDE DEF imports, r
<1>3. /\ s.mode = r.mode /\ s.model = r.model /\ s.cands = r.cands /\ s.scanned = r.scanned
      /\ s.existing = r.existing /\ s.quiet = r.quiet /\ s.files = r.files /\ s.imports = imports
      /\ s.carry = r.carry /\ s.syms = r.syms /\ s.fallbacks = r.fallbacks /\ s.slots = r.slots
  BY <1>1, RunFields DEF RunType, Fields
<1> HIDE DEF s
<1>4. ScanFits(s, "link")
  <2>1. ScanFits(r, "imports") /\ r.carry = {} /\ r.syms = {} /\ r.fallbacks = {} /\ r.slots = <<>>
    BY <1>1 DEF Knows, ScanFits
  <2> QED BY <1>3, <2>1, ScanKept DEF AfterScan, AfterWrite
<1>5. s.quiet => TreeFits(s, "link")
  BY <1>1, <1>3, TreeKept DEF Knows
<1>6. Sole(s) => StoreFits(db, work, s, "link")
  <2>1. SUFFICES ASSUME Sole(s) PROVE StoreFits(db, work, s, "link")
    OBVIOUS
  <2>2. Written(db, r) /\ r.files = {[id |-> f.id, path |-> f.path] : f \in db.files}
    BY <1>1, <1>3, <2>1 DEF Knows, Sole, StoreFits, EdgesFit, AfterWrite
  <2>3. Written(db, s)
    BY <1>3, <2>2, WrittenKept
  <2> QED BY <1>2, <1>3, <2>2, <2>3 DEF StoreFits, EdgesFit, AfterWrite, Embedding
<1>7. EmbedFits(db, s, "link")
  BY DEF EmbedFits
<1>8. Knows(db, work, s, "link")
  BY <1>4, <1>5, <1>6, <1>7 DEF Knows
<1> QED BY <1>1, <1>8, PrivatelyKnows

\* Replacing the graph: it is the resolution of what was read, which is what there is.
LEMMA WriteGraphKnows == ASSUME IInv, RInv, NEW p \in Proc, WriteGraph(p) PROVE RInv'
<1> DEFINE o == run[p]
           edges == Edges(o)
           d == ReplaceGraph(db, edges)
           r == [o EXCEPT !.files = {}, !.imports = {}]
           todo == Captured(r)
           s == [r EXCEPT !.todo = todo]
<1>1. /\ pc[p] = "link" /\ RunType(o) /\ Knows(db, work, o, "link") /\ Sound(db)
  BY DEF WriteGraph, IInv, RInv, RunInv, Good
<1>2. \/ r.model = NoModel /\ Publishing(p, d, Result(r), "done")
      \/ r.model # NoModel /\ Publishing(p, d, s, "purge")
  BY DEF WriteGraph
<1>3. d.files = db.files /\ d.edges = edges /\ edges = Resolve(o.files, o.imports)
  BY <1>1 DEF ReplaceGraph, Edges, Sound, Tables
<1> HIDE DEF o, edges, d, todo
<1>4. /\ DOMAIN r = Fields /\ r.mode = o.mode /\ r.model = o.model /\ r.cands = o.cands
      /\ r.scanned = o.scanned /\ r.existing = o.existing /\ r.quiet = o.quiet
      /\ r.carry = o.carry /\ r.syms = o.syms /\ r.fallbacks = o.fallbacks /\ r.slots = o.slots
  BY <1>1, RunFields DEF RunType, Fields
<1>5. RunType(r)
  BY <1>1, <1>4, RunFields DEF RunType, Fields
<1> HIDE DEF r
<1>6. /\ s.mode = r.mode /\ s.model = r.model /\ s.cands = r.cands /\ s.scanned = r.scanned
      /\ s.existing = r.existing /\ s.quiet = r.quiet
      /\ s.carry = r.carry /\ s.syms = r.syms /\ s.fallbacks = r.fallbacks /\ s.slots = r.slots
  BY <1>4 DEF Fields
<1> HIDE DEF s
<1>7. ScanFits(o, "link") /\ o.mode \notin {"status", "clean"}
  BY <1>1 DEF Knows, ScanFits, AfterScan, AfterWrite
<1>8. o.carry = {} /\ o.syms = {} /\ o.fallbacks = {} /\ o.slots = <<>>
  BY <1>7 DEF ScanFits
<1>9. ASSUME Sole(r)
      PROVE  Written(d, r) /\ Written(d, s) /\ d.edges = Resolve(d.files, Imports(d))
  <2>1. /\ Written(db, o) /\ o.imports = Imports(db)
        /\ o.files = {[id |-> f.id, path |-> f.path] : f \in db.files}
    BY <1>1, <1>4, <1>9 DEF Knows, Sole, StoreFits, EdgesFit, AfterWrite
  <2>2. Written(d, r) /\ Written(d, s)
    BY <1>3, <1>4, <1>6, <2>1, WrittenKept
  <2>3. Imports(d) = Imports(db)
    BY <1>3, ImportsOfFiles
  <2>4. edges = Resolve(db.files, Imports(db))
    BY <1>3, <2>1, ResolvedFromRows
  <2> QED BY <1>3, <2>2, <2>3, <2>4
<1>10. CASE r.model = NoModel /\ Publishing(p, d, Result(r), "done")
  <2>1. ScanFits(r, "link")
    BY <1>4, <1>7, <1>8, ScanKept DEF AfterScan, AfterWrite
  <2>2. r.quiet => TreeFits(r, "link")
    BY <1>1, <1>4, TreeKept DEF Knows
  <2>3. r.quiet => Sole(r)
    BY DEF Sole
  <2>4. Knows(d, work, Result(r), "done")
    BY <1>4, <1>5, <1>7, <1>9, <1>10, <2>1, <2>2, <2>3, ResultKnows DEF AfterScan, AfterWrite
  <2> QED BY <1>10, <2>4, PublishingKnows
<1>11. CASE r.model # NoModel /\ Publishing(p, d, s, "purge")
  <2>1. ScanFits(s, "purge")
    BY <1>4, <1>6, <1>7, <1>8, ScanKept DEF AfterScan, AfterWrite, Embedding
  <2>2. s.quiet => TreeFits(s, "purge")
    BY <1>1, <1>4, <1>6, TreeKept DEF Knows
  <2>3. Sole(s) => StoreFits(d, work, s, "purge")
    BY <1>6, <1>9 DEF Sole, StoreFits, EdgesFit, AfterWrite, Embedding
  <2>4. EmbedFits(d, s, "purge")
    BY DEF EmbedFits
  <2>5. Knows(d, work, s, "purge")
    BY <2>1, <2>2, <2>3, <2>4 DEF Knows
  <2> QED BY <1>11, <2>5, PublishingKnows
<1> QED BY <1>2, <1>10, <1>11

\* A step of the embedding leaves rows and graph alone: what is known is then a matter of
\* what is still owed.
LEMMA EmbeddingKnows ==
    ASSUME NEW r, NEW l \in Embedding, Knows(db, work, r, l), Sound(db),
           NEW d, d.files = db.files, d.edges = db.edges,
           NEW s, NEW m \in Embedding, s.mode = r.mode, s.model = r.model, s.cands = r.cands,
           s.scanned = r.scanned, s.existing = r.existing, s.quiet = r.quiet,
           m \notin {"plan", "store"} => s.carry = {} /\ s.syms = {} /\ s.fallbacks = {} /\ s.slots = <<>>,
           Sole(s) => EmbedFits(d, s, m)
    PROVE  Knows(d, work, s, m)
<1>1. ScanFits(r, l)
  BY DEF Knows
<1>2. ScanFits(s, m)
  BY <1>1, ScanKept DEF AfterScan, AfterWrite
<1>3. s.quiet => TreeFits(s, m)
  BY TreeKept DEF Knows, Embedding
<1>4. Sole(s) => StoreFits(d, work, s, m)
  <2>1. SUFFICES ASSUME Sole(s) PROVE StoreFits(d, work, s, m)
    OBVIOUS
  <2>2. Written(db, r) /\ db.edges = Resolve(db.files, Imports(db))
    BY <2>1 DEF Knows, Sole, StoreFits, EdgesFit, AfterWrite
  <2>3. Written(d, s) /\ Imports(d) = Imports(db)
    BY <2>2, WrittenKept, ImportsOfFiles
  <2> QED BY <2>2, <2>3 DEF StoreFits, EdgesFit, AfterWrite, Embedding
<1> QED BY <1>2, <1>3, <1>4 DEF Knows

\* Statements on vectors leave the rest alone.
LEMMA DeleteVectorsTables ==
    ASSUME NEW d, Sound(d), NEW o, NEW ids
    PROVE  LET e == DeleteVectors(d, o, ids)
           IN  e.files = d.files /\ e.symbols = d.symbols /\ e.edges = d.edges
  BY DEF Sound, Tables, DeleteVectors

\* Recording the model changes index_meta and no table.
LEMMA SetEmbedInfoTables ==
    ASSUME NEW d, Sound(d), NEW m
    PROVE  LET e == SetEmbedInfo(d, m)
           IN  e.files = d.files /\ e.symbols = d.symbols /\ e.edges = d.edges /\ e.vecs = d.vecs
  BY DEF Sound, Tables, SetEmbedInfo

\* A stored vector replaces those its owner had, and no other's.
LEMMA UpsertEmbeds ==
    ASSUME NEW d, Sound(d), NEW o, NEW i, NEW m, NEW of
    PROVE  LET e == UpsertVector(d, o, i, m, of)
           IN  /\ e.files = d.files /\ e.symbols = d.symbols /\ e.edges = d.edges
               /\ Embedded(e, o, i, of, m)
               /\ \A o2, i2, truth : (o2 # o \/ i2 # i) /\ Embedded(d, o2, i2, truth, m)
                     => Embedded(e, o2, i2, truth, m)
<1> DEFINE e == UpsertVector(d, o, i, m, of)
           new == [owner |-> o, id |-> i, model |-> m, of |-> of]
<1>1. /\ e.files = d.files /\ e.symbols = d.symbols /\ e.edges = d.edges
      /\ e.vecs = (d.vecs \ VectorsOf(d, o, i, m)) \cup {new}
  BY DEF Sound, Tables, UpsertVector
<1>2. new.owner = o /\ new.id = i /\ new.model = m /\ new.of = of
  OBVIOUS
<1> HIDE DEF e, new
<1>3. VectorsOf(e, o, i, m) = {new}
  BY <1>1, <1>2 DEF VectorsOf
<1>4. Embedded(e, o, i, of, m)
  BY <1>2, <1>3 DEF Embedded
<1>5. ASSUME NEW o2, NEW i2, o2 # o \/ i2 # i
      PROVE  VectorsOf(e, o2, i2, m) = VectorsOf(d, o2, i2, m)
  BY <1>1, <1>2, <1>5 DEF VectorsOf
<1>6. ASSUME NEW o2, NEW i2, NEW truth, o2 # o \/ i2 # i, Embedded(d, o2, i2, truth, m)
      PROVE  Embedded(e, o2, i2, truth, m)
  BY <1>5, <1>6 DEF Embedded
<1> QED BY <1>1, <1>4, <1>6 DEF e

\* Purging the vectors of old symbols.
LEMMA PurgeSymbolsKnows == ASSUME IInv, RInv, NEW p \in Proc, PurgeSymbols(p) PROVE RInv'
<1> DEFINE r == run[p]
           syms == r.caps[Min(r.todo)].syms
           d == DeleteVectors(db, "symbol", syms)
<1>1. pc[p] = "purge" /\ Knows(db, work, r, "purge") /\ Sound(db)
  BY DEF PurgeSymbols, IInv, RInv, Good
<1>2. Privately(p, r, "purgeFile") \/ Publishing(p, d, r, "purgeFile")
  BY DEF PurgeSymbols
<1>3. d.files = db.files /\ d.edges = db.edges
  BY <1>1, DeleteVectorsTables
<1> HIDE DEF r, d
<1>4. r.carry = {} /\ r.syms = {} /\ r.fallbacks = {} /\ r.slots = <<>>
  BY <1>1 DEF Knows, ScanFits
<1>5. EmbedFits(db, r, "purgeFile") /\ EmbedFits(d, r, "purgeFile")
  BY DEF EmbedFits
<1>6. Knows(db, work, r, "purgeFile")
  BY <1>1, <1>4, <1>5, EmbeddingKnows DEF Embedding
<1>7. Knows(d, work, r, "purgeFile")
  BY <1>1, <1>3, <1>4, <1>5, EmbeddingKnows DEF Embedding
<1>8. CASE Privately(p, r, "purgeFile")
  BY <1>6, <1>8, PrivatelyKnows
<1>9. CASE Publishing(p, d, r, "purgeFile")
  BY <1>7, <1>9, PublishingKnows
<1> QED BY <1>2, <1>8, <1>9

\* Purging the vector of an old file.
LEMMA PurgeFileKnows == ASSUME IInv, RInv, NEW p \in Proc, PurgeFile(p) PROVE RInv'
<1> DEFINE r == run[p]
           q == Min(r.todo)
           ids == {r.caps[q].file}
           s == [r EXCEPT !.todo = @ \ {q}]
           d == DeleteVectors(db, "file", ids)
<1>1. pc[p] = "purgeFile" /\ Knows(db, work, r, "purgeFile") /\ Sound(db) /\ RunType(r)
  BY DEF PurgeFile, IInv, RInv, Good, RunInv
<1>2. Publishing(p, d, s, "purge")
  BY DEF PurgeFile
<1>3. d.files = db.files /\ d.edges = db.edges
  BY <1>1, DeleteVectorsTables
<1> HIDE DEF r, d, q
<1>4. r.carry = {} /\ r.syms = {} /\ r.fallbacks = {} /\ r.slots = <<>>
  BY <1>1 DEF Knows, ScanFits
<1>5. /\ s.mode = r.mode /\ s.model = r.model /\ s.cands = r.cands /\ s.scanned = r.scanned
      /\ s.existing = r.existing /\ s.quiet = r.quiet
      /\ s.carry = r.carry /\ s.syms = r.syms /\ s.fallbacks = r.fallbacks /\ s.slots = r.slots
  BY <1>1, RunFields DEF RunType, Fields
<1> HIDE DEF s
<1>6. EmbedFits(d, s, "purge")
  BY DEF EmbedFits
<1>7. Knows(d, work, s, "purge")
  BY <1>1, <1>3, <1>4, <1>5, <1>6, EmbeddingKnows DEF Embedding
<1> QED BY <1>2, <1>7, PublishingKnows

\* The end of the purge: every parsed file is to be planned, and nothing is owed yet.
LEMMA EndPurgeKnows == ASSUME IInv, RInv, NEW p \in Proc, EndPurge(p) PROVE RInv'
<1> DEFINE r == run[p]
           todo == Parsed(r)
           s == [r EXCEPT !.todo = todo]
<1>1. pc[p] = "purge" /\ Knows(db, work, r, "purge") /\ Sound(db) /\ RunType(r)
  BY DEF EndPurge, IInv, RInv, Good, RunInv
<1>2. Privately(p, s, "plan")
  BY DEF EndPurge
<1>3. todo = Parsed(r)
  OBVIOUS
<1> HIDE DEF r, todo
<1>4. r.carry = {} /\ r.syms = {} /\ r.fallbacks = {} /\ r.slots = <<>>
  BY <1>1 DEF Knows, ScanFits
<1>5. /\ s.mode = r.mode /\ s.model = r.model /\ s.cands = r.cands /\ s.scanned = r.scanned
      /\ s.existing = r.existing /\ s.quiet = r.quiet /\ s.todo = todo
      /\ s.carry = r.carry /\ s.syms = r.syms /\ s.fallbacks = r.fallbacks /\ s.slots = r.slots
  BY <1>1, RunFields DEF RunType, Fields
<1> HIDE DEF s
<1>6. PlanFits(db, s, "plan")
  <2>1. Parsed(s) = todo /\ Due(s, "plan") = {}
    BY <1>3, <1>5 DEF Parsed, Due
  <2> QED BY <1>4, <1>5, <2>1 DEF PlanFits
<1>7. EmbedFits(db, s, "plan")
  BY <1>6 DEF EmbedFits
<1>8. Knows(db, work, s, "plan")
  BY <1>1, <1>5, <1>7, EmbeddingKnows DEF Embedding
<1> QED BY <1>2, <1>8, PrivatelyKnows

\* The return of the batch: everything is planned.
LEMMA EmbedBatchKnows == ASSUME IInv, RInv, NEW p \in Proc, EmbedBatch(p) PROVE RInv'
<1> DEFINE r == run[p]
<1>1. /\ pc[p] = "plan" /\ Knows(db, work, r, "plan") /\ Sound(db)
      /\ r.carry = {} /\ r.todo = {} /\ Privately(p, r, "store")
  BY DEF EmbedBatch, IInv, RInv, Good
<1> HIDE DEF r
<1>2. PlanFits(db, r, "plan") => PlanFits(db, r, "store")
  <2>1. Due(r, "store") = Due(r, "plan")
    BY <1>1 DEF Due
  <2> QED BY <1>1, <2>1 DEF PlanFits, SymbolJobFits, FallbackFits
<1>3. Sole(r) => EmbedFits(db, r, "store")
  BY <1>1, <1>2 DEF Knows, EmbedFits
<1>4. Knows(db, work, r, "store")
  BY <1>1, <1>3, EmbeddingKnows DEF Embedding
<1> QED BY <1>1, <1>4, PrivatelyKnows

\* What is owed does not depend on the vectors.
LEMMA JobsKept ==
    ASSUME NEW d, NEW e, e.files = d.files, e.symbols = d.symbols, NEW r, NEW s, NEW l, NEW m,
           Due(r, l) \subseteq Due(s, m), NEW j
    PROVE  /\ SymbolJobFits(d, r, l, j) => SymbolJobFits(e, s, m, j)
           /\ FallbackFits(d, r, l, j) => FallbackFits(e, s, m, j)
<1>1. ASSUME SymbolJobFits(d, r, l, j) PROVE SymbolJobFits(e, s, m, j)
  BY <1>1 DEF SymbolJobFits
<1>2. ASSUME FallbackFits(d, r, l, j) PROVE FallbackFits(e, s, m, j)
  BY <1>2 DEF FallbackFits
<1> QED BY <1>1, <1>2

\* A symbol's vector is stored: one job is done, and it was the job of that symbol.
LEMMA SymbolStored ==
    ASSUME NEW d, Sound(d), NEW r, NEW l, PlanFits(d, r, l), NEW j \in r.carry \cup r.syms,
           NEW s, s.model = r.model, s.scanned = r.scanned, s.todo = r.todo, s.fallbacks = r.fallbacks,
           (r.carry \cup r.syms) \ {j} \subseteq s.carry \cup s.syms,
           s.carry \subseteq r.carry, s.syms \subseteq r.syms,
           DOMAIN s.slots = DOMAIN r.slots,
           \A f \in d.files : f.id \in DOMAIN r.slots /\ SlotsFit(r, f) => SlotsFit(s, f)
    PROVE  PlanFits(UpsertVector(d, "symbol", j.id, r.model, j.of), s, l)
<1> DEFINE e == UpsertVector(d, "symbol", j.id, r.model, j.of)
<1>1. /\ e.files = d.files /\ e.symbols = d.symbols
      /\ Embedded(e, "symbol", j.id, j.of, r.model)
      /\ \A o, i, truth : (o # "symbol" \/ i # j.id) /\ Embedded(d, o, i, truth, r.model)
            => Embedded(e, o, i, truth, r.model)
  BY UpsertEmbeds
<1> HIDE DEF e
<1>2. Parsed(s) = Parsed(r) /\ Due(s, l) = Due(r, l)
  BY DEF Parsed, Due
<1>3. SymbolJobFits(d, r, l, j)
  BY DEF PlanFits
<1>4. \A x \in d.symbols : x.id = j.id => j.of = TruthOfSymbol(x)
  BY <1>3 DEF SymbolJobFits, TruthOfSymbol, Sound, Consistent, UniqueIds
<1>5. \A k \in s.carry \cup s.syms : SymbolJobFits(e, s, l, k)
  <2>1. \A k \in s.carry \cup s.syms : SymbolJobFits(d, r, l, k)
    BY DEF PlanFits
  <2> QED BY <1>1, <1>2, <2>1, JobsKept
<1>6. \A k \in s.fallbacks : FallbackFits(e, s, l, k)
  <2>1. \A k \in s.fallbacks : FallbackFits(d, r, l, k)
    BY DEF PlanFits
  <2> QED BY <1>1, <1>2, <2>1, JobsKept
<1>7. ASSUME NEW f \in e.files, f.path \in Due(s, l) PROVE FileFits(e, s, f)
  <2>1. FileFits(d, r, f) /\ f \in d.files
    BY <1>1, <1>2, <1>7 DEF PlanFits
  <2>2. ASSUME NEW x \in SymbolsIn(e, {f.id})
        PROVE  \/ Embedded(e, "symbol", x.id, TruthOfSymbol(x), s.model)
               \/ \E k \in s.carry \cup s.syms : k.id = x.id
    <3>1. x \in d.symbols /\ x \in SymbolsIn(d, {f.id})
      BY <1>1 DEF SymbolsIn
    <3>2. CASE x.id = j.id
      BY <1>1, <1>4, <3>1, <3>2
    <3>3. CASE x.id # j.id
      <4>1. \/ Embedded(d, "symbol", x.id, TruthOfSymbol(x), r.model)
            \/ \E k \in r.carry \cup r.syms : k.id = x.id
        BY <2>1, <3>1 DEF FileFits
      <4> QED BY <1>1, <3>3, <4>1
    <3> QED BY <3>2, <3>3
  <2>3. CASE f.id \in DOMAIN r.slots
    <3>1. SlotsFit(s, f)
      BY <2>1, <2>3 DEF FileFits
    <3> QED BY <2>2, <2>3, <3>1 DEF FileFits
  <2>4. CASE f.id \notin DOMAIN r.slots
    <3>1. \/ Embedded(d, "file", f.id, TruthOfFile(f), r.model)
          \/ \E k \in r.fallbacks : k.id = f.id
      BY <2>1, <2>4 DEF FileFits
    <3>2. \/ Embedded(e, "file", f.id, TruthOfFile(f), s.model)
          \/ \E k \in s.fallbacks : k.id = f.id
      BY <1>1, <3>1
    <3> QED BY <2>2, <2>4, <3>2 DEF FileFits
  <2> QED BY <2>3, <2>4
<1>8. /\ \A i \in DOMAIN s.slots : \E f \in e.files :
            f.id = i /\ f.path \in Due(s, l) /\ SymbolsOf[f.hash.content] # <<>>
      /\ l = "plan" => s.todo \subseteq Parsed(s)
      /\ l = "store" => s.carry = {}
      /\ \A k \in s.syms : k.file \in DOMAIN s.slots
  BY <1>1, <1>2 DEF PlanFits
<1> QED BY <1>5, <1>6, <1>7, <1>8 DEF PlanFits, e

\* Storing a carried vector.
LEMMA CarryVectorKnows == ASSUME IInv, RInv, NEW p \in Proc, CarryVector(p) PROVE RInv'
<1> DEFINE r == run[p]
<1>1. pc[p] = "plan" /\ Knows(db, work, r, "plan") /\ Sound(db) /\ RunType(r)
  BY DEF CarryVector, IInv, RInv, Good, RunInv
<1>2. PICK j \in First(r.carry) : Store(p, "symbol", j.id, j.of, [r EXCEPT !.carry = @ \ {j}])
  BY DEF CarryVector
<1> DEFINE s == [r EXCEPT !.carry = @ \ {j}]
           d == UpsertVector(db, "symbol", j.id, r.model, j.of)
<1>3. Publishing(p, d, s, "plan") /\ j \in r.carry
  BY <1>1, <1>2 DEF Store, First
<1>4. d.files = db.files /\ d.edges = db.edges
  BY <1>1, UpsertEmbeds
<1> HIDE DEF r
<1>5. /\ s.mode = r.mode /\ s.model = r.model /\ s.cands = r.cands /\ s.scanned = r.scanned
      /\ s.existing = r.existing /\ s.quiet = r.quiet /\ s.todo = r.todo
      /\ s.carry = r.carry \ {j} /\ s.syms = r.syms /\ s.fallbacks = r.fallbacks /\ s.slots = r.slots
  BY <1>1, RunFields DEF RunType, Fields
<1> HIDE DEF s
<1>6. Sole(s) => EmbedFits(d, s, "plan")
  <2>1. SUFFICES ASSUME Sole(s) PROVE PlanFits(d, s, "plan")
    BY DEF EmbedFits
  <2>2. PlanFits(db, r, "plan")
    BY <1>1, <1>5, <2>1 DEF Knows, Sole, EmbedFits
  <2>3. \A f \in db.files : f.id \in DOMAIN r.slots /\ SlotsFit(r, f) => SlotsFit(s, f)
    BY <1>5 DEF SlotsFit
  <2> QED BY <1>1, <1>3, <1>5, <2>2, <2>3, SymbolStored
<1> HIDE DEF d
<1>7. Knows(d, work, s, "plan")
  BY <1>1, <1>4, <1>5, <1>6, EmbeddingKnows DEF Embedding
<1> QED BY <1>3, <1>7, PublishingKnows

\* Storing a symbol's vector, and noting it in the slot of its file's mean.
LEMMA StoreSymbolKnows == ASSUME IInv, RInv, NEW p \in Proc, StoreSymbol(p) PROVE RInv'
<1> DEFINE r == run[p]
<1>1. pc[p] = "store" /\ Knows(db, work, r, "store") /\ Sound(db) /\ RunType(r)
  BY DEF StoreSymbol, IInv, RInv, Good, RunInv
<1>2. PICK j \in First(r.syms) :
        Store(p, "symbol", j.id, j.of, [r EXCEPT !.syms = @ \ {j}, !.slots[j.file][j.slot] = {j.of}])
  BY DEF StoreSymbol
<1> DEFINE s == [r EXCEPT !.syms = @ \ {j}, !.slots[j.file][j.slot] = {j.of}]
           d == UpsertVector(db, "symbol", j.id, r.model, j.of)
<1>3. Publishing(p, d, s, "store") /\ j \in r.syms
  BY <1>1, <1>2 DEF Store, First
<1>4. d.files = db.files /\ d.edges = db.edges
  BY <1>1, UpsertEmbeds
<1> HIDE DEF r
<1>5. /\ s.mode = r.mode /\ s.model = r.model /\ s.cands = r.cands /\ s.scanned = r.scanned
      /\ s.existing = r.existing /\ s.quiet = r.quiet /\ s.todo = r.todo
      /\ s.carry = r.carry /\ s.syms = r.syms \ {j} /\ s.fallbacks = r.fallbacks
      /\ s.slots = [r.slots EXCEPT ![j.file] = [@ EXCEPT ![j.slot] = {j.of}]]
  BY <1>1, RunFields DEF RunType, Fields
<1> HIDE DEF s
<1>6. ASSUME NEW f \in db.files, f.id \in DOMAIN r.slots, SlotsFit(r, f), SymbolJobFits(db, r, "store", j)
      PROVE  SlotsFit(s, f)
  <2> DEFINE t == SymbolsOf[f.hash.content]
             old == r.slots[f.id]
             new == s.slots[f.id]
  <2>1. /\ old = [i \in DOMAIN t |-> old[i]]
        /\ \A i \in DOMAIN t : \/ old[i] = {SymbolVector(t[i].text)}
                               \/ old[i] = {} /\ \E k \in r.syms : k.file = f.id /\ k.slot = i
    BY <1>6 DEF SlotsFit
  <2>2. CASE f.id # j.file
    <3>1. new = old
      BY <1>5, <1>6, <2>2
    <3>2. \A i : (\E k \in r.syms : k.file = f.id /\ k.slot = i)
                   => \E k \in s.syms : k.file = f.id /\ k.slot = i
      BY <1>5, <2>2
    <3> HIDE DEF t, old
    <3>3. /\ new = [i \in DOMAIN t |-> new[i]]
          /\ \A i \in DOMAIN t : \/ new[i] = {SymbolVector(t[i].text)}
                                 \/ new[i] = {} /\ \E k \in s.syms : k.file = f.id /\ k.slot = i
      BY <2>1, <3>1, <3>2
    <3> QED BY <3>3 DEF SlotsFit, t
  <2>3. CASE f.id = j.file
    <3>1. PICK g \in db.files, x \in db.symbols :
             /\ j.file = g.id /\ j.of = SymbolVector(x.text)
             /\ j.slot \in DOMAIN SymbolsOf[g.hash.content] /\ SymbolsOf[g.hash.content][j.slot].text = x.text
      BY <1>6 DEF SymbolJobFits
    <3>2. g = f
      BY <1>1, <2>3, <3>1 DEF Sound, Consistent, UniqueIds
    <3>3. j.slot \in DOMAIN t /\ j.of = SymbolVector(t[j.slot].text)
      BY <3>1, <3>2
    <3>4. new = [old EXCEPT ![j.slot] = {j.of}]
      BY <1>5, <1>6, <2>3
    <3>5. \A i : i # j.slot /\ (\E k \in r.syms : k.file = f.id /\ k.slot = i)
                   => \E k \in s.syms : k.file = f.id /\ k.slot = i
      BY <1>5
    <3> HIDE DEF t, old, new
    <3>6. DOMAIN old = DOMAIN t
      BY <2>1
    <3>7. new = [i \in DOMAIN t |-> new[i]] /\ \A i \in DOMAIN t : new[i] = IF i = j.slot THEN {j.of} ELSE old[i]
      BY <3>4, <3>6
    <3>8. \A i \in DOMAIN t : \/ new[i] = {SymbolVector(t[i].text)}
                              \/ new[i] = {} /\ \E k \in s.syms : k.file = f.id /\ k.slot = i
      BY <2>1, <3>3, <3>5, <3>7
    <3> QED BY <3>7, <3>8 DEF SlotsFit, t, new
  <2> QED BY <2>2, <2>3
<1>7. Sole(s) => EmbedFits(d, s, "store")
  <2>1. SUFFICES ASSUME Sole(s) PROVE PlanFits(d, s, "store")
    BY DEF EmbedFits
  <2>2. PlanFits(db, r, "store")
    BY <1>1, <1>5, <2>1 DEF Knows, Sole, EmbedFits
  <2>3. SymbolJobFits(db, r, "store", j)
    BY <1>3, <2>2 DEF PlanFits
  <2>4. \A f \in db.files : f.id \in DOMAIN r.slots /\ SlotsFit(r, f) => SlotsFit(s, f)
    BY <1>6, <2>3
  <2>5. DOMAIN s.slots = DOMAIN r.slots
    BY <1>5
  <2> QED BY <1>1, <1>3, <1>5, <2>2, <2>4, <2>5, SymbolStored
<1> HIDE DEF d
<1>8. Knows(d, work, s, "store")
  BY <1>1, <1>4, <1>5, <1>7, EmbeddingKnows DEF Embedding
<1> QED BY <1>3, <1>8, PublishingKnows

\* A panic after a stored vector leaves no run to know anything.
LEMMA StoreAndPanicKnows == ASSUME IInv, RInv, NEW p \in Proc, StoreAndPanic(p) PROVE RInv'
<1>1. PICK d : Publishing(p, d, NoRun, "idle")
  BY DEF StoreAndPanic
<1> QED BY <1>1, NothingKnown, PublishingKnows

\* A file's vector is stored: the file owes no mean and no fallback any more.
LEMMA FileStored ==
    ASSUME NEW d, Sound(d), NEW r, PlanFits(d, r, "store"), NEW i, NEW of,
           \A f \in d.files : f.id = i => of = TruthOfFile(f),
           NEW s, s.model = r.model, s.scanned = r.scanned, s.carry = r.carry, s.syms = r.syms,
           r.fallbacks \ {k \in r.fallbacks : k.id = i} \subseteq s.fallbacks, s.fallbacks \subseteq r.fallbacks,
           DOMAIN r.slots \ {i} \subseteq DOMAIN s.slots, DOMAIN s.slots \subseteq DOMAIN r.slots,
           \A k \in DOMAIN s.slots : s.slots[k] = r.slots[k],
           \A j \in s.syms : j.file \in DOMAIN s.slots
    PROVE  PlanFits(UpsertVector(d, "file", i, r.model, of), s, "store")
<1> DEFINE e == UpsertVector(d, "file", i, r.model, of)
<1>1. /\ e.files = d.files /\ e.symbols = d.symbols
      /\ Embedded(e, "file", i, of, r.model)
      /\ \A o, k, truth : (o # "file" \/ k # i) /\ Embedded(d, o, k, truth, r.model)
            => Embedded(e, o, k, truth, r.model)
  BY UpsertEmbeds
<1> HIDE DEF e
<1>2. Due(s, "store") = Due(r, "store")
  BY DEF Parsed, Due
<1>3. \A k \in s.carry \cup s.syms : SymbolJobFits(e, s, "store", k)
  <2>1. \A k \in s.carry \cup s.syms : SymbolJobFits(d, r, "store", k)
    BY DEF PlanFits
  <2> QED BY <1>1, <1>2, <2>1, JobsKept
<1>4. \A k \in s.fallbacks : FallbackFits(e, s, "store", k)
  <2>1. \A k \in s.fallbacks : FallbackFits(d, r, "store", k)
    BY DEF PlanFits
  <2> QED BY <1>1, <1>2, <2>1, JobsKept
<1>5. ASSUME NEW f \in e.files, f.path \in Due(s, "store") PROVE FileFits(e, s, f)
  <2>1. FileFits(d, r, f) /\ f \in d.files
    BY <1>1, <1>2, <1>5 DEF PlanFits
  <2>2. ASSUME NEW x \in SymbolsIn(e, {f.id})
        PROVE  \/ Embedded(e, "symbol", x.id, TruthOfSymbol(x), s.model)
               \/ \E k \in s.carry \cup s.syms : k.id = x.id
    <3>1. x \in SymbolsIn(d, {f.id})
      BY <1>1 DEF SymbolsIn
    <3> QED BY <1>1, <2>1, <3>1 DEF FileFits
  <2>3. CASE f.id \in DOMAIN s.slots
    <3>1. SlotsFit(r, f) /\ s.slots[f.id] = r.slots[f.id]
      BY <2>1, <2>3 DEF FileFits
    <3>2. SlotsFit(s, f)
      <4> DEFINE t == SymbolsOf[f.hash.content]
                 Fit(slots, syms) ==
                    /\ slots = [n \in DOMAIN t |-> slots[n]]
                    /\ \A n \in DOMAIN t :
                          \/ slots[n] = {SymbolVector(t[n].text)}
                          \/ slots[n] = {} /\ \E j \in syms : j.file = f.id /\ j.slot = n
      <4>1. SlotsFit(r, f) <=> Fit(r.slots[f.id], r.syms)
        BY Zenon DEF SlotsFit
      <4>2. SlotsFit(s, f) <=> Fit(s.slots[f.id], s.syms)
        BY Zenon DEF SlotsFit
      <4> HIDE DEF Fit
      <4> QED BY <3>1, <4>1, <4>2
    <3> QED BY <2>2, <2>3, <3>2 DEF FileFits
  <2>4. CASE f.id \notin DOMAIN s.slots
    <3>1. \/ Embedded(e, "file", f.id, TruthOfFile(f), s.model)
          \/ \E k \in s.fallbacks : k.id = f.id
      <4>1. CASE f.id = i
        BY <1>1, <2>1, <4>1
      <4>2. CASE f.id # i
        <5>1. f.id \notin DOMAIN r.slots
          BY <2>4, <4>2
        <5>2. \/ Embedded(d, "file", f.id, TruthOfFile(f), r.model)
              \/ \E k \in r.fallbacks : k.id = f.id
          BY <2>1, <5>1 DEF FileFits
        <5> QED BY <1>1, <4>2, <5>2
      <4> QED BY <4>1, <4>2
    <3> QED BY <2>2, <2>4, <3>1 DEF FileFits
  <2> QED BY <2>3, <2>4
<1>6. /\ \A k \in DOMAIN s.slots : \E f \in e.files :
            f.id = k /\ f.path \in Due(s, "store") /\ SymbolsOf[f.hash.content] # <<>>
      /\ s.carry = {}
  BY <1>1, <1>2 DEF PlanFits
<1> QED BY <1>3, <1>4, <1>5, <1>6 DEF PlanFits, e

\* Storing a fallback vector.
LEMMA StoreFallbackKnows == ASSUME IInv, RInv, NEW p \in Proc, StoreFallback(p) PROVE RInv'
<1> DEFINE r == run[p]
<1>1. pc[p] = "store" /\ Knows(db, work, r, "store") /\ Sound(db) /\ RunType(r)
  BY DEF StoreFallback, IInv, RInv, Good, RunInv
<1>2. PICK j \in First(r.fallbacks) : Store(p, "file", j.id, j.of, [r EXCEPT !.fallbacks = @ \ {j}])
  BY DEF StoreFallback
<1> DEFINE s == [r EXCEPT !.fallbacks = @ \ {j}]
           d == UpsertVector(db, "file", j.id, r.model, j.of)
<1>3. Publishing(p, d, s, "store") /\ j \in r.fallbacks
  BY <1>1, <1>2 DEF Store, First
<1>4. d.files = db.files /\ d.edges = db.edges
  BY <1>1, UpsertEmbeds
<1> HIDE DEF r
<1>5. /\ s.mode = r.mode /\ s.model = r.model /\ s.cands = r.cands /\ s.scanned = r.scanned
      /\ s.existing = r.existing /\ s.quiet = r.quiet /\ s.todo = r.todo
      /\ s.carry = r.carry /\ s.syms = r.syms /\ s.fallbacks = r.fallbacks \ {j} /\ s.slots = r.slots
  BY <1>1, RunFields DEF RunType, Fields
<1> HIDE DEF s
<1>6. Sole(s) => EmbedFits(d, s, "store")
  <2>1. SUFFICES ASSUME Sole(s) PROVE PlanFits(d, s, "store")
    BY DEF EmbedFits
  <2>2. PlanFits(db, r, "store")
    BY <1>1, <1>5, <2>1 DEF Knows, Sole, EmbedFits
  <2>3. \A f \in db.files : f.id = j.id => j.of = TruthOfFile(f)
    <3>1. FallbackFits(db, r, "store", j)
      BY <1>3, <2>2 DEF PlanFits
    <3> QED BY <1>1, <3>1 DEF FallbackFits, Sound, Consistent, UniqueIds
  <2>4. \A k \in s.syms : k.file \in DOMAIN s.slots
    BY <1>5, <2>2 DEF PlanFits
  <2> QED BY <1>1, <1>5, <2>2, <2>3, <2>4, FileStored
<1> HIDE DEF d
<1>7. Knows(d, work, s, "store")
  BY <1>1, <1>4, <1>5, <1>6, EmbeddingKnows DEF Embedding
<1> QED BY <1>3, <1>7, PublishingKnows

\* When no symbol is left to store, the slots of a file hold the vectors of its symbols.
LEMMA SlotsComplete ==
    ASSUME NEW r, r.syms = {}, NEW f, SlotsFit(r, f), SymbolsOf[f.hash.content] # <<>>
    PROVE  /\ MeanVector(r.slots[f.id]) = TruthOfFile(f)
           /\ \A i \in DOMAIN SymbolsOf[f.hash.content] : r.slots[f.id][i] # {}
<1> DEFINE t == SymbolsOf[f.hash.content]
           slots == r.slots[f.id]
<1>1. slots = [i \in DOMAIN t |-> slots[i]] /\ \A i \in DOMAIN t : slots[i] = {SymbolVector(t[i].text)}
  BY DEF SlotsFit
<1>2. TruthOfFile(f) = MeanVector([i \in DOMAIN t |-> {SymbolVector(t[i].text)}])
  BY DEF TruthOfFile
<1> HIDE DEF t, slots
<1>3. slots = [i \in DOMAIN t |-> {SymbolVector(t[i].text)}]
  BY <1>1
<1> QED BY <1>1, <1>2, <1>3 DEF t, slots

\* Storing a mean.
LEMMA StoreMeanKnows == ASSUME IInv, RInv, NEW p \in Proc, StoreMean(p) PROVE RInv'
<1> DEFINE r == run[p]
<1>1. pc[p] = "store" /\ Knows(db, work, r, "store") /\ Sound(db) /\ RunType(r) /\ r.syms = {}
  BY DEF StoreMean, IInv, RInv, Good, RunInv
<1>2. PICK fid \in Means(r) :
        Store(p, "file", fid, MeanVector(r.slots[fid]),
              [r EXCEPT !.slots = [i \in DOMAIN @ \ {fid} |-> @[i]]])
  BY DEF StoreMean
<1> DEFINE s == [r EXCEPT !.slots = [i \in DOMAIN @ \ {fid} |-> @[i]]]
           of == MeanVector(r.slots[fid])
           d == UpsertVector(db, "file", fid, r.model, of)
<1>3. Publishing(p, d, s, "store") /\ fid \in DOMAIN r.slots
  BY <1>1, <1>2 DEF Store, Means
<1>4. d.files = db.files /\ d.edges = db.edges
  BY <1>1, UpsertEmbeds
<1> HIDE DEF r
<1>5. /\ s.mode = r.mode /\ s.model = r.model /\ s.cands = r.cands /\ s.scanned = r.scanned
      /\ s.existing = r.existing /\ s.quiet = r.quiet /\ s.todo = r.todo
      /\ s.carry = r.carry /\ s.syms = r.syms /\ s.fallbacks = r.fallbacks
      /\ s.slots = [i \in DOMAIN r.slots \ {fid} |-> r.slots[i]]
  BY <1>1, RunFields DEF RunType, Fields
<1> HIDE DEF s
<1>6. Sole(s) => EmbedFits(d, s, "store")
  <2>1. SUFFICES ASSUME Sole(s) PROVE PlanFits(d, s, "store")
    BY DEF EmbedFits
  <2>2. PlanFits(db, r, "store")
    BY <1>1, <1>5, <2>1 DEF Knows, Sole, EmbedFits
  <2>3. ASSUME NEW f \in db.files, f.id = fid PROVE of = TruthOfFile(f)
    <3>1. PICK g \in db.files : g.id = fid /\ g.path \in Due(r, "store") /\ SymbolsOf[g.hash.content] # <<>>
      BY <1>3, <2>2 DEF PlanFits
    <3>2. g = f
      BY <1>1, <2>3, <3>1 DEF Sound, Consistent, UniqueIds
    <3>3. SlotsFit(r, f)
      BY <1>3, <2>2, <2>3, <3>1, <3>2 DEF PlanFits, FileFits
    <3> QED BY <1>1, <2>3, <3>1, <3>2, <3>3, SlotsComplete
  <2> HIDE DEF of
  <2> QED BY <1>1, <1>5, <2>2, <2>3, FileStored
<1> HIDE DEF d
<1>7. Knows(d, work, s, "store")
  BY <1>1, <1>4, <1>5, <1>6, EmbeddingKnows DEF Embedding
<1> QED BY <1>3, <1>7, PublishingKnows

\* Nothing is left to store: every file the run has written has its vectors.
LEMMA NothingOwed ==
    ASSUME NEW d, Sound(d), NEW r, PlanFits(d, r, "store"),
           r.syms = {}, r.fallbacks = {}, Means(r) = {},
           NEW f \in d.files, f.path \in Parsed(r)
    PROVE  FileEmbedded(d, f, r.model)
<1>1. FileFits(d, r, f) /\ r.carry = {}
  BY DEF PlanFits, Due
<1>2. f.id \notin DOMAIN r.slots
  <2>1. SUFFICES ASSUME f.id \in DOMAIN r.slots PROVE FALSE
    OBVIOUS
  <2> DEFINE t == SymbolsOf[f.hash.content]
  <2>2. SlotsFit(r, f)
    BY <1>1, <2>1 DEF FileFits
  <2>3. t # <<>>
    BY <2>1 DEF PlanFits, Sound, Consistent, UniqueIds
  <2>4. r.slots[f.id] = [i \in DOMAIN t |-> r.slots[f.id][i]]
    BY <2>2 DEF SlotsFit
  <2>5. \A i \in DOMAIN t : r.slots[f.id][i] # {}
    BY <2>2, <2>3, SlotsComplete
  <2>6. t \in Seq([ident : Ident, text : Text])
    BY CatalogAssumption DEF Sound, FileRow, Hash
  <2> HIDE DEF t
  <2>7. 1 \in DOMAIN t
    BY <2>3, <2>6
  <2>8. 1 \in DOMAIN r.slots[f.id]
    BY <2>4, <2>7
  <2> QED BY <2>1, <2>5, <2>7, <2>8 DEF Means
<1>3. \A x \in SymbolsIn(d, {f.id}) : Embedded(d, "symbol", x.id, TruthOfSymbol(x), r.model)
  BY <1>1 DEF FileFits
<1>4. Embedded(d, "file", f.id, TruthOfFile(f), r.model)
  BY <1>1, <1>2 DEF FileFits
<1> QED BY <1>3, <1>4 DEF FileEmbedded

\* Recording the model.
LEMMA SealKnows == ASSUME IInv, RInv, NEW p \in Proc, Seal(p) PROVE RInv'
<1> DEFINE r == run[p]
           d == SetEmbedInfo(db, r.model)
<1>1. /\ pc[p] = "store" /\ Knows(db, work, r, "store") /\ Sound(db) /\ RunType(r)
      /\ r.syms = {} /\ r.fallbacks = {} /\ Means(r) = {} /\ Publishing(p, d, Result(r), "done")
  BY DEF Seal, IInv, RInv, Good, RunInv
<1>2. /\ d.files = db.files /\ d.symbols = db.symbols /\ d.edges = db.edges /\ d.vecs = db.vecs
  BY <1>1, SetEmbedInfoTables
<1> HIDE DEF r, d
<1>3. ScanFits(r, "store") /\ r.mode \notin {"status", "clean"}
  BY <1>1 DEF Knows, ScanFits, AfterScan, AfterWrite, Embedding
<1>4. r.quiet => TreeFits(r, "store")
  BY <1>1 DEF Knows
<1>5. ASSUME r.quiet
      PROVE  /\ Written(d, r)
             /\ d.edges = Resolve(d.files, Imports(d))
             /\ \A f \in d.files : f.path \in Parsed(r) => FileEmbedded(d, f, r.model)
  <2>1. /\ Written(db, r) /\ db.edges = Resolve(db.files, Imports(db))
        /\ PlanFits(db, r, "store")
    BY <1>1, <1>5 DEF Knows, Sole, StoreFits, EdgesFit, EmbedFits, AfterWrite, Embedding
  <2>2. Written(d, r) /\ Imports(d) = Imports(db)
    BY <1>2, <2>1, WrittenKept, ImportsOfFiles
  <2>3. ASSUME NEW f \in d.files, f.path \in Parsed(r) PROVE FileEmbedded(d, f, r.model)
    <3>1. FileEmbedded(db, f, r.model)
      BY <1>1, <1>2, <2>1, <2>3, NothingOwed
    <3> QED BY <1>2, <3>1 DEF FileEmbedded, Embedded, VectorsOf, SymbolsIn
  <2> QED BY <1>2, <2>1, <2>2, <2>3
<1>6. Knows(d, work, Result(r), "done")
  BY <1>1, <1>3, <1>4, <1>5, ResultKnows DEF AfterScan, AfterWrite, Embedding
<1> QED BY <1>1, <1>6, PublishingKnows

\* The ids of a file's symbols, in order, number the parsed symbols one after the other.
PlacedFrom(d, fid, t, base) ==
    /\ SymbolsIn(d, {fid}) = SymbolRows(fid, base, t)
    /\ SymbolIdsByFile(d, {fid}) = {[id |-> base + i - 1, place |-> i] : i \in DOMAIN t}

\* A live file's symbols are placed.
LEMMA PlacesOfRows ==
    ASSUME NEW d, Sound(d), NEW f \in d.files
    PROVE  \E base \in RowId : PlacedFrom(d, f.id, SymbolsOf[f.hash.content], base)
<1> DEFINE t == SymbolsOf[f.hash.content]
<1>1. t \in Seq([ident : Ident, text : Text])
  BY CatalogAssumption DEF Sound, FileRow, Hash
<1>2. WholeFile(d, f)
  BY DEF Sound
<1>3. PICK base \in Ids(SymbolsIn(d, {f.id})) \cup {1} : SymbolsIn(d, {f.id}) = SymbolRows(f.id, base, t)
  BY <1>2 DEF WholeFile
<1>4. base \in RowId
  BY <1>3 DEF Sound, SymbolRow, SymbolsIn, Ids, RowId
<1> HIDE DEF t
<1> DEFINE S == Ids(SymbolsIn(d, {f.id}))
<1>5. S = {base + i - 1 : i \in DOMAIN t}
  <2> DEFINE rows == SymbolRows(f.id, base, t)
  <2>1. /\ \A s \in rows : \E i \in DOMAIN t : s.id = base + i - 1
        /\ \A i \in DOMAIN t : \E s \in rows : s.id = base + i - 1
    <3>1. ASSUME NEW i \in DOMAIN t PROVE \E s \in rows : s.id = base + i - 1
      <4>1. [id |-> base + i - 1, file |-> f.id, ident |-> t[i].ident, text |-> t[i].text] \in rows
        BY DEF SymbolRows
      <4> QED BY <4>1
    <3>2. \A s \in rows : \E i \in DOMAIN t : s.id = base + i - 1
      BY DEF SymbolRows
    <3> QED BY <3>1, <3>2
  <2>2. S = {s.id : s \in rows}
    BY <1>3 DEF Ids
  <2> HIDE DEF rows, S
  <2>3. \A k : k \in S <=> k \in {base + i - 1 : i \in DOMAIN t}
    BY <2>1, <2>2
  <2> QED BY <2>3
<1> HIDE DEF S
<1>6. DOMAIN t = 1 .. Len(t) /\ Len(t) \in Nat
  BY <1>1
<1>7. ASSUME NEW i \in DOMAIN t PROVE Cardinality({j \in S : j <= base + i - 1}) = i
  <2>1. i \in Nat /\ i >= 1 /\ base \in Nat
    BY <1>4, <1>6 DEF RowId
  <2>2. \A j : j \in S /\ j <= base + i - 1 <=> j \in base .. (base + i - 1)
    <3>1. ASSUME NEW j \in S, j <= base + i - 1 PROVE j \in base .. (base + i - 1)
      BY <1>4, <1>5, <1>6, <2>1, <3>1
    <3>2. ASSUME NEW j \in base .. (base + i - 1) PROVE j \in S /\ j <= base + i - 1
      <4>1. j - base + 1 \in DOMAIN t /\ j = base + (j - base + 1) - 1
        BY <1>6, <2>1
      <4> QED BY <1>5, <2>1, <4>1
    <3> QED BY <3>1, <3>2
  <2>3. {j \in S : j <= base + i - 1} = base .. (base + i - 1)
    BY <2>2
  <2>4. base \in Int /\ (base + i - 1) \in Int /\ ~(base > base + i - 1) /\ (base + i - 1) - base + 1 = i
    BY <2>1
  <2>5. Cardinality(base .. (base + i - 1)) = i
    BY <2>4, FS_Interval
  <2> QED BY <2>3, <2>5
<1> DEFINE place(i) == Cardinality({j \in S : j <= i})
           ids == SymbolIdsByFile(d, {f.id})
           all == {[id |-> base + i - 1, place |-> i] : i \in DOMAIN t}
<1>8. ids = {[id |-> i, place |-> place(i)] : i \in S}
  BY DEF SymbolIdsByFile, S
<1>9. \A i \in DOMAIN t : place(base + i - 1) = i
  BY <1>7
<1>10. ids = all
  <2> HIDE DEF place, ids
  <2>1. ASSUME NEW x \in ids PROVE x \in all
    <3>1. PICK k \in S : x = [id |-> k, place |-> place(k)]
      BY <1>8
    <3>2. PICK i \in DOMAIN t : k = base + i - 1
      BY <1>5
    <3>3. x = [id |-> base + i - 1, place |-> i]
      BY <1>9, <3>1, <3>2
    <3> QED BY <3>3
  <2>2. ASSUME NEW x \in all PROVE x \in ids
    <3>1. PICK i \in DOMAIN t : x = [id |-> base + i - 1, place |-> i]
      OBVIOUS
    <3>2. base + i - 1 \in S /\ place(base + i - 1) = i
      BY <1>5, <1>9
    <3> QED BY <1>8, <3>1, <3>2
  <2> HIDE DEF all
  <2> QED BY <2>1, <2>2
<1>11. PlacedFrom(d, f.id, t, base)
  BY <1>3, <1>10, Zenon DEF PlacedFrom
<1> QED BY <1>4, <1>11 DEF t

\* A job for the symbol at place i.
JobAt(q, fid, base, t, j, i) ==
    /\ j.file = fid /\ j.slot = i /\ j.id = base + i - 1 /\ j.of = SymbolVector(t[i].text)

\* What the plan of a file adds: a fallback if it has no symbols, and otherwise one job for
\* each of them; a slot is set if its symbol's vector is carried, and else some job will.
PlanAdds(r, s, q, fid, base, c) ==
    LET t == SymbolsOf[c]
    IN  /\ s.mode = r.mode /\ s.model = r.model /\ s.cands = r.cands /\ s.scanned = r.scanned
        /\ s.existing = r.existing /\ s.quiet = r.quiet /\ s.todo = r.todo
        /\ t = <<>> =>
              /\ s.carry = r.carry /\ s.syms = r.syms /\ s.slots = r.slots
              /\ \E k : s.fallbacks = r.fallbacks \cup {k} /\ k.id = fid /\ k.of = FallbackVector(q, c)
        /\ t # <<>> =>
              /\ s.fallbacks = r.fallbacks
              /\ \E C, J, slots :
                    /\ s.carry = C /\ s.syms = r.syms \cup J
                    /\ s.slots = [i \in DOMAIN r.slots \cup {fid} |-> IF i = fid THEN slots ELSE r.slots[i]]
                    /\ \A j \in C \cup J : \E i \in DOMAIN t : JobAt(q, fid, base, t, j, i)
                    /\ \A i \in DOMAIN t : \E j \in C \cup J : JobAt(q, fid, base, t, j, i)
                    /\ slots = [i \in DOMAIN t |-> slots[i]]
                    /\ \A i \in DOMAIN t :
                          \/ slots[i] = {SymbolVector(t[i].text)}
                          \/ slots[i] = {} /\ \E j \in J : j.file = fid /\ j.slot = i

\* Planning a file adds one job per symbol, or one for the file when it has none.
LEMMA PlanFileAdds ==
    ASSUME NEW r, RunType(r), NEW q, NEW fid, NEW base, NEW ids,
           ids = {[id |-> base + i - 1, place |-> i] : i \in DOMAIN SymbolsOf[r.scanned[q].hash.content]}
    PROVE  PlanAdds(r, PlanFile(r, q, fid, ids), q, fid, base, r.scanned[q].hash.content)
<1> DEFINE c == r.scanned[q].hash.content
           t == SymbolsOf[c]
           rows    == {x \in ids : x.place \in DOMAIN t}
           kept(i) == Carried(r.caps[q].chunks, t[i])
           carried == {x \in rows : kept(x.place) # {}}
           of(i)   == IF kept(i) # {} THEN CHOOSE v \in kept(i) : TRUE ELSE SymbolVector(t[i].text)
           jobs(X) == {Job(q, fid, x.place, x.id, of(x.place)) : x \in X}
           slots   == [i \in {x.place : x \in rows} |-> IF kept(i) # {} THEN {of(i)} ELSE {}]
           k       == Job(q, fid, 0, fid, FallbackVector(q, c))
           fb      == r.fallbacks \cup {k}
           C       == jobs(carried)
           J       == jobs(rows \ carried)
           syms    == r.syms \cup J
           all     == [i \in DOMAIN r.slots \cup {fid} |-> IF i = fid THEN slots ELSE r.slots[i]]
           s       == PlanFile(r, q, fid, ids)
<1>1. s = IF t = <<>> THEN [r EXCEPT !.fallbacks = fb]
          ELSE [r EXCEPT !.carry = C, !.syms = syms, !.slots = all]
  BY Zenon DEF PlanFile
<1>2. \A i : of(i) = SymbolVector(t[i].text)
  <2>1. \A i : \A v \in kept(i) : v = SymbolVector(t[i].text)
    BY DEF Carried
  <2> HIDE DEF kept
  <2> QED BY <2>1
<1> HIDE DEF of
<1>3. k.id = fid /\ k.of = FallbackVector(q, c)
  BY DEF Job
<1>4. \A x \in ids : x.place \in DOMAIN t /\ x.id = base + x.place - 1
  BY DEF t
<1>5. \A i \in DOMAIN t : \E x \in ids : x.place = i
  <2>1. ASSUME NEW i \in DOMAIN t PROVE \E x \in ids : x.place = i
    <3>1. [id |-> base + i - 1, place |-> i] \in ids
      OBVIOUS
    <3> QED BY <3>1
  <2> QED BY <2>1
<1> HIDE DEF t
<1>6. rows = ids
  BY <1>4
<1> DEFINE job(x) == Job(q, fid, x.place, x.id, of(x.place))
<1>7. \A x \in ids : JobAt(q, fid, base, t, job(x), x.place)
  BY <1>2, <1>4 DEF JobAt, Job
<1>8. carried \subseteq ids /\ C = {job(x) : x \in carried} /\ J = {job(x) : x \in ids \ carried}
  BY <1>6
<1>9. DOMAIN slots = DOMAIN t
  <2>1. \A i : i \in {x.place : x \in rows} <=> i \in DOMAIN t
    BY <1>4, <1>5, <1>6
  <2> HIDE DEF rows
  <2> QED BY <2>1
<1>10. \A i \in DOMAIN t : slots[i] = IF kept(i) # {} THEN {of(i)} ELSE {}
  <2>1. \A i \in DOMAIN slots : slots[i] = IF kept(i) # {} THEN {of(i)} ELSE {}
    <3> HIDE DEF kept, rows
    <3> QED OBVIOUS
  <2> QED BY <1>9, <2>1
<1>11. \A x \in ids : kept(x.place) # {} <=> x \in carried
  BY <1>6
<1>12. slots = [i \in DOMAIN t |-> slots[i]]
  BY <1>9
<1> HIDE DEF carried, rows, kept, slots, job, C, J, fb, k
<1>13. \A j \in C \cup J : \E i \in DOMAIN t : JobAt(q, fid, base, t, j, i)
  BY <1>4, <1>7, <1>8
<1>14. \A i \in DOMAIN t : \E j \in C \cup J : JobAt(q, fid, base, t, j, i)
  <2>1. SUFFICES ASSUME NEW i \in DOMAIN t PROVE \E j \in C \cup J : JobAt(q, fid, base, t, j, i)
    OBVIOUS
  <2>2. PICK x \in ids : x.place = i
    BY <1>5
  <2>3. job(x) \in C \cup J
    BY <1>8
  <2> QED BY <1>7, <2>2, <2>3
<1>15. ASSUME NEW i \in DOMAIN t
       PROVE  \/ slots[i] = {SymbolVector(t[i].text)}
              \/ slots[i] = {} /\ \E j \in J : j.file = fid /\ j.slot = i
  <2>1. PICK x \in ids : x.place = i
    BY <1>5
  <2>2. CASE kept(i) # {}
    BY <1>2, <1>10, <2>2
  <2>3. CASE kept(i) = {}
    <3>1. x \notin carried
      BY <1>11, <2>1, <2>3
    <3>2. job(x) \in J
      BY <1>8, <3>1
    <3>3. job(x).file = fid /\ job(x).slot = i
      BY <1>7, <2>1 DEF JobAt
    <3> QED BY <1>10, <2>3, <3>2, <3>3
  <2> QED BY <2>2, <2>3
<1>16. DOMAIN r = Fields
  BY RunFields DEF RunType
<1> HIDE DEF s, all, syms
<1>17. /\ s.mode = r.mode /\ s.model = r.model /\ s.cands = r.cands /\ s.scanned = r.scanned
       /\ s.existing = r.existing /\ s.quiet = r.quiet /\ s.todo = r.todo
  BY <1>1, <1>16 DEF Fields
<1>18. t = <<>> => s.carry = r.carry /\ s.syms = r.syms /\ s.slots = r.slots /\ s.fallbacks = fb
  BY <1>1, <1>16 DEF Fields
<1>19. t # <<>> => s.carry = C /\ s.syms = syms /\ s.slots = all /\ s.fallbacks = r.fallbacks
  BY <1>1, <1>16 DEF Fields
<1>20. t = <<>> => \E x : s.fallbacks = r.fallbacks \cup {x} /\ x.id = fid /\ x.of = FallbackVector(q, c)
  BY <1>3, <1>18 DEF fb
<1>21. t # <<>> => s.syms = r.syms \cup J
  BY <1>19 DEF syms
<1>22. t # <<>> => s.slots = [i \in DOMAIN r.slots \cup {fid} |-> IF i = fid THEN slots ELSE r.slots[i]]
  BY <1>19 DEF all
<1> DEFINE Adds(CC, JJ, sl) ==
              /\ s.carry = CC /\ s.syms = r.syms \cup JJ
              /\ s.slots = [i \in DOMAIN r.slots \cup {fid} |-> IF i = fid THEN sl ELSE r.slots[i]]
              /\ \A j \in CC \cup JJ : \E i \in DOMAIN t : JobAt(q, fid, base, t, j, i)
              /\ \A i \in DOMAIN t : \E j \in CC \cup JJ : JobAt(q, fid, base, t, j, i)
              /\ sl = [i \in DOMAIN t |-> sl[i]]
              /\ \A i \in DOMAIN t :
                    \/ sl[i] = {SymbolVector(t[i].text)}
                    \/ sl[i] = {} /\ \E j \in JJ : j.file = fid /\ j.slot = i
<1>23. t # <<>> => Adds(C, J, slots)
  <2> HIDE DEF c
  <2> QED BY <1>12, <1>13, <1>14, <1>15, <1>19, <1>21, <1>22
<1>24. t # <<>> => \E CC, JJ, sl : Adds(CC, JJ, sl)
  <2> HIDE DEF Adds
  <2> QED BY <1>23
<1> QED BY <1>17, <1>18, <1>19, <1>20, <1>24, Zenon DEF s, t, c, PlanAdds

\* Planning a file: it owes what the plan says, and the files planned before owe what they did.
LEMMA PlanFileFits ==
    ASSUME NEW d, Sound(d), NEW o, RunType(o), PlanFits(d, o, "plan"), o.carry = {}, NEW q \in o.todo,
           NEW f \in d.files, f.path = q, f.hash = o.scanned[q].hash, UniquePaths(d),
           NEW r, RunType(r), r.model = o.model, r.scanned = o.scanned, r.todo = o.todo \ {q},
           r.carry = o.carry, r.syms = o.syms, r.fallbacks = o.fallbacks, r.slots = o.slots
    PROVE  PlanFits(d, PlanFile(r, q, f.id, SymbolIdsByFile(d, {f.id})), "plan")
<1> DEFINE c == f.hash.content
           t == SymbolsOf[c]
           ids == SymbolIdsByFile(d, {f.id})
           s == PlanFile(r, q, f.id, ids)
<1>1. t = SymbolsOf[f.hash.content] /\ c = r.scanned[q].hash.content /\ t \in Seq([ident : Ident, text : Text])
  BY CatalogAssumption DEF Sound, FileRow, Hash
<1>2. PICK base \in RowId : PlacedFrom(d, f.id, t, base)
  BY PlacesOfRows
<1>16. PlanAdds(r, s, q, f.id, base, c)
  <2>1. ids = {[id |-> base + i - 1, place |-> i] : i \in DOMAIN SymbolsOf[r.scanned[q].hash.content]}
    <3>1. ids = {[id |-> base + i - 1, place |-> i] : i \in DOMAIN t}
      BY <1>2, Zenon DEF PlacedFrom
    <3>2. t = SymbolsOf[r.scanned[q].hash.content]
      BY <1>1
    <3> HIDE DEF t, ids
    <3> QED BY <3>1, <3>2, Zenon
  <2>2. PlanAdds(r, PlanFile(r, q, f.id, ids), q, f.id, base, r.scanned[q].hash.content)
    <3> HIDE DEF ids
    <3> QED BY <2>1, PlanFileAdds
  <2> HIDE DEF ids, c
  <2> QED BY <1>1, <2>2, Zenon
<1> HIDE DEF s, ids
<1>3. /\ s.model = r.model /\ s.scanned = r.scanned /\ s.todo = r.todo
      /\ t = <<>> =>
            /\ s.carry = r.carry /\ s.syms = r.syms /\ s.slots = r.slots
            /\ \E k : s.fallbacks = r.fallbacks \cup {k} /\ k.id = f.id /\ k.of = FallbackVector(q, c)
  BY <1>16, Zenon DEF PlanAdds
<1>4. t # <<>> =>
         /\ s.fallbacks = r.fallbacks
         /\ \E C, J, slots :
               /\ s.carry = C /\ s.syms = r.syms \cup J
               /\ s.slots = [i \in DOMAIN r.slots \cup {f.id} |-> IF i = f.id THEN slots ELSE r.slots[i]]
               /\ \A j \in C \cup J : \E i \in DOMAIN t : JobAt(q, f.id, base, t, j, i)
               /\ \A i \in DOMAIN t : \E j \in C \cup J : JobAt(q, f.id, base, t, j, i)
               /\ slots = [i \in DOMAIN t |-> slots[i]]
               /\ \A i \in DOMAIN t :
                     \/ slots[i] = {SymbolVector(t[i].text)}
                     \/ slots[i] = {} /\ \E j \in J : j.file = f.id /\ j.slot = i
  BY <1>16, Zenon DEF PlanAdds
<1>5. c = f.hash.content
  OBVIOUS
<1> HIDE DEF s, ids, t, c
<1> DEFINE rows == SymbolRows(f.id, base, t)
<1>14. \A x \in rows : \E i \in DOMAIN t : x.id = base + i - 1
  BY DEF SymbolRows
<1> HIDE DEF rows
<1>15. SymbolsIn(d, {f.id}) = rows
  BY <1>2 DEF rows, PlacedFrom
<1>6. Parsed(s) = Parsed(o) /\ Due(s, "plan") = Due(o, "plan") \cup {q} /\ q \notin Due(o, "plan")
  <2>1. q \in Parsed(o) /\ Parsed(s) = Parsed(o)
    BY <1>3 DEF PlanFits, Parsed
  <2> QED BY <1>3, <2>1 DEF Due
<1>7. s.todo \subseteq Parsed(s)
  BY <1>3, <1>6 DEF PlanFits
<1>8. /\ \A j \in o.syms : SymbolJobFits(d, s, "plan", j)
      /\ \A j \in o.fallbacks : FallbackFits(d, s, "plan", j)
  <2>1. Due(o, "plan") \subseteq Due(s, "plan")
    BY <1>6
  <2> QED BY <2>1, JobsKept DEF PlanFits
<1>9. \A i \in DOMAIN o.slots : \E g \in d.files :
         g.id = i /\ g.path \in Due(o, "plan") /\ SymbolsOf[g.hash.content] # <<>>
  BY DEF PlanFits
<1>10. f.id \notin DOMAIN o.slots
  BY <1>6, <1>9 DEF Sound, Consistent, UniqueIds
<1>11. ASSUME NEW g \in d.files, g.path \in Due(s, "plan"), g # f
       PROVE  FileFits(d, o, g) /\ g.id # f.id
  <2>1. g.path \in Due(o, "plan") /\ g.id # f.id
    BY <1>6, <1>11 DEF UniquePaths, Sound, Consistent, UniqueIds
  <2> QED BY <2>1 DEF PlanFits
<1>12. CASE t = <<>>
  <2>1. PICK k : s.fallbacks = r.fallbacks \cup {k} /\ k.id = f.id /\ k.of = FallbackVector(q, c)
    BY <1>3, <1>12
  <2>2. s.carry = o.carry /\ s.syms = o.syms /\ s.slots = o.slots
    BY <1>3, <1>12
  <2>3. FallbackFits(d, s, "plan", k)
    <3>1. k.of = TruthOfFile(f)
      BY <1>1, <1>5, <1>12, <2>1 DEF TruthOfFile
    <3> QED BY <1>1, <1>6, <1>12, <2>1, <3>1 DEF FallbackFits
  <2>4. SymbolsIn(d, {f.id}) = {}
    <3>1. DOMAIN t = {}
      BY <1>12
    <3> QED BY <1>14, <1>15, <3>1
  <2>5. FileFits(d, s, f)
    BY <1>10, <2>1, <2>2, <2>4 DEF FileFits
  <2>6. ASSUME NEW g \in d.files, g.path \in Due(s, "plan"), g # f PROVE FileFits(d, s, g)
    <3>1. FileFits(d, o, g)
      BY <1>11, <2>6
    <3>2. SlotsFit(o, g) => SlotsFit(s, g)
      BY <2>2 DEF SlotsFit
    <3>3. s.model = o.model /\ o.fallbacks \subseteq s.fallbacks
      BY <1>3, <2>1
    <3> QED BY <2>2, <3>1, <3>2, <3>3 DEF FileFits
  <2>7. \A g \in d.files : g.path \in Due(s, "plan") => FileFits(d, s, g)
    BY <2>5, <2>6
  <2>8. \A j \in s.carry \cup s.syms : SymbolJobFits(d, s, "plan", j)
    BY <1>8, <2>2
  <2>9. \A j \in s.fallbacks : FallbackFits(d, s, "plan", j)
    BY <1>8, <2>1, <2>3
  <2>10. \A i \in DOMAIN s.slots : \E g \in d.files :
            g.id = i /\ g.path \in Due(s, "plan") /\ SymbolsOf[g.hash.content] # <<>>
    BY <1>6, <1>9, <2>2
  <2>11. \A j \in s.syms : j.file \in DOMAIN s.slots
    BY <2>2 DEF PlanFits
  <2> QED BY <1>7, <2>7, <2>8, <2>9, <2>10, <2>11 DEF PlanFits, s, ids
<1>13. CASE t # <<>>
  <2>1. PICK C, J, slots :
               /\ s.carry = C /\ s.syms = r.syms \cup J
               /\ s.slots = [i \in DOMAIN r.slots \cup {f.id} |-> IF i = f.id THEN slots ELSE r.slots[i]]
               /\ \A j \in C \cup J : \E i \in DOMAIN t : JobAt(q, f.id, base, t, j, i)
               /\ \A i \in DOMAIN t : \E j \in C \cup J : JobAt(q, f.id, base, t, j, i)
               /\ slots = [i \in DOMAIN t |-> slots[i]]
               /\ \A i \in DOMAIN t :
                     \/ slots[i] = {SymbolVector(t[i].text)}
                     \/ slots[i] = {} /\ \E j \in J : j.file = f.id /\ j.slot = i
    BY <1>4, <1>13
  <2>2. /\ s.fallbacks = o.fallbacks /\ s.model = o.model
        /\ DOMAIN s.slots = DOMAIN o.slots \cup {f.id} /\ s.slots[f.id] = slots
        /\ \A i \in DOMAIN o.slots : i # f.id => s.slots[i] = o.slots[i]
        /\ o.syms \subseteq s.syms /\ J \subseteq s.syms
    BY <1>3, <1>4, <1>13, <2>1
  <2>3. ASSUME NEW j \in C \cup J PROVE SymbolJobFits(d, s, "plan", j)
    <3>1. PICK i \in DOMAIN t : JobAt(q, f.id, base, t, j, i)
      BY <2>1
    <3> DEFINE x == [id |-> base + i - 1, file |-> f.id, ident |-> t[i].ident, text |-> t[i].text]
    <3>2. x \in d.symbols
      <4>1. x \in SymbolRows(f.id, base, t)
        BY DEF SymbolRows
      <4> QED BY <1>2, <4>1 DEF SymbolsIn, PlacedFrom
    <3>3. /\ x.file = f.id /\ j.file = f.id /\ j.id = x.id /\ j.of = SymbolVector(x.text)
          /\ j.slot \in DOMAIN t /\ t[j.slot].text = x.text
      BY <3>1 DEF JobAt
    <3> HIDE DEF x
    <3>4. f.path \in Due(s, "plan")
      BY <1>6
    <3> QED BY <1>1, <3>2, <3>3, <3>4 DEF SymbolJobFits
  <2>4. \A j \in s.carry \cup s.syms : SymbolJobFits(d, s, "plan", j)
    BY <1>8, <2>1, <2>3
  <2>5. \A j \in s.fallbacks : FallbackFits(d, s, "plan", j)
    BY <1>8, <2>2
  <2>6. \A i \in DOMAIN s.slots : \E g \in d.files :
            g.id = i /\ g.path \in Due(s, "plan") /\ SymbolsOf[g.hash.content] # <<>>
    BY <1>1, <1>6, <1>9, <1>13, <2>2
  <2>7. FileFits(d, s, f)
    <3>1. ASSUME NEW x \in SymbolsIn(d, {f.id}) PROVE \E j \in s.carry \cup s.syms : j.id = x.id
      <4>1. PICK i \in DOMAIN t : x.id = base + i - 1
        BY <1>14, <1>15
      <4>2. PICK j \in C \cup J : JobAt(q, f.id, base, t, j, i)
        BY <2>1
      <4> QED BY <2>1, <2>2, <4>1, <4>2 DEF JobAt
    <3>2. SlotsFit(s, f)
      <4>1. slots = [i \in DOMAIN t |-> slots[i]]
        BY <2>1
      <4>2. \A i \in DOMAIN t :
               \/ slots[i] = {SymbolVector(t[i].text)}
               \/ slots[i] = {} /\ \E j \in s.syms : j.file = f.id /\ j.slot = i
        BY <2>1, <2>2
      <4>3. s.slots[f.id] = slots
        BY <2>2
      <4> QED BY <1>1, <4>1, <4>2, <4>3, Zenon DEF SlotsFit
    <3> QED BY <2>2, <3>1, <3>2 DEF FileFits
  <2>8. ASSUME NEW g \in d.files, g.path \in Due(s, "plan"), g # f PROVE FileFits(d, s, g)
    <3>1. FileFits(d, o, g) /\ g.id # f.id
      BY <1>11, <2>8
    <3>2. g.id \in DOMAIN s.slots <=> g.id \in DOMAIN o.slots
      BY <2>2, <3>1
    <3>3. ASSUME g.id \in DOMAIN o.slots PROVE SlotsFit(s, g)
      <4> DEFINE u == SymbolsOf[g.hash.content]
                 Fit(sl, syms) ==
                    /\ sl = [i \in DOMAIN u |-> sl[i]]
                    /\ \A i \in DOMAIN u :
                          \/ sl[i] = {SymbolVector(u[i].text)}
                          \/ sl[i] = {} /\ \E j \in syms : j.file = g.id /\ j.slot = i
      <4>1. SlotsFit(o, g)
        BY <3>1, <3>3 DEF FileFits
      <4>2. Fit(o.slots[g.id], o.syms)
        BY <4>1, Zenon DEF SlotsFit
      <4>3. s.slots[g.id] = o.slots[g.id]
        BY <2>2, <3>1, <3>3
      <4>4. Fit(o.slots[g.id], s.syms)
        <5> DEFINE sl == o.slots[g.id]
        <5> HIDE DEF u, sl
        <5> QED BY <2>2, <4>2 DEF sl
      <4>5. Fit(s.slots[g.id], s.syms)
        <5> HIDE DEF Fit
        <5> QED BY <4>3, <4>4
      <4> QED BY <4>5, Zenon DEF SlotsFit
    <3>4. \A x \in SymbolsIn(d, {g.id}) :
             \/ Embedded(d, "symbol", x.id, TruthOfSymbol(x), s.model)
             \/ \E j \in s.carry \cup s.syms : j.id = x.id
      <4>1. \A x \in SymbolsIn(d, {g.id}) :
               \/ Embedded(d, "symbol", x.id, TruthOfSymbol(x), o.model)
               \/ \E j \in o.carry \cup o.syms : j.id = x.id
        BY <3>1 DEF FileFits
      <4> QED BY <2>2, <4>1
    <3>5. g.id \notin DOMAIN o.slots =>
             \/ Embedded(d, "file", g.id, TruthOfFile(g), s.model)
             \/ \E j \in s.fallbacks : j.id = g.id
      BY <2>2, <3>1 DEF FileFits
    <3> QED BY <3>2, <3>3, <3>4, <3>5 DEF FileFits
  <2>9. \A g \in d.files : g.path \in Due(s, "plan") => FileFits(d, s, g)
    BY <2>7, <2>8
  <2>10. \A j \in s.syms : j.file \in DOMAIN s.slots
    <3>1. \A j \in o.syms : j.file \in DOMAIN o.slots
      BY DEF PlanFits
    <3>2. \A j \in J : j.file = f.id
      BY <2>1 DEF JobAt
    <3> QED BY <2>1, <2>2, <3>1, <3>2
  <2> QED BY <1>7, <2>4, <2>5, <2>6, <2>9, <2>10 DEF PlanFits, s, ids
<1> QED BY <1>12, <1>13

\* Planning a file.
LEMMA PlanKnows == ASSUME IInv, RInv, NEW p \in Proc, Plan(p) PROVE RInv'
<1> DEFINE o == run[p]
           q == Min(o.todo)
           r == [o EXCEPT !.todo = @ \ {q}]
           fid == CHOOSE i \in Ids(FileAt(db, q)) : TRUE
           ids == SymbolIdsByFile(db, {fid})
           s == PlanFile(r, q, fid, ids)
<1>1. /\ pc[p] = "plan" /\ RunType(o) /\ o.carry = {} /\ o.todo # {}
      /\ Knows(db, work, o, "plan") /\ Sound(db) /\ Good(db)
  BY DEF Plan, IInv, RInv, RunInv, Good
<1>2. q \in o.todo
  BY <1>1, CatalogAssumption, MinIsLeast DEF RunType
<1>3. \/ FileAt(db, q) = {} /\ Privately(p, r, "plan")
      \/ FileAt(db, q) # {} /\ Privately(p, s, "plan")
  BY DEF Plan
<1> HIDE DEF o, q
<1>4. q \in Path
  BY <1>1, <1>2 DEF RunType
<1>5. /\ r.mode = o.mode /\ r.model = o.model /\ r.cands = o.cands /\ r.scanned = o.scanned
      /\ r.existing = o.existing /\ r.quiet = o.quiet /\ r.todo = o.todo \ {q}
      /\ r.carry = o.carry /\ r.syms = o.syms /\ r.fallbacks = o.fallbacks /\ r.slots = o.slots
  BY <1>1, RunFields DEF RunType, Fields
<1>6. RunType(r)
  BY <1>1, RunFields DEF RunType, Fields
<1> HIDE DEF r
<1>7. ASSUME Sole(o)
      PROVE  PlanFits(db, o, "plan") /\ q \in Parsed(o) /\ HashesAt(db, q) = {o.scanned[q].hash}
  <2>1. PlanFits(db, o, "plan") /\ Written(db, o)
    BY <1>1, <1>7 DEF Knows, StoreFits, EmbedFits, AfterWrite, Embedding
  <2> QED BY <1>2, <1>4, <2>1 DEF PlanFits, Written, Parsed
<1>8. CASE FileAt(db, q) = {} /\ Privately(p, r, "plan")
  <2>1. ~Sole(r)
    BY <1>5, <1>7, <1>8 DEF Sole, HashesAt
  <2>2. Knows(db, work, r, "plan")
    BY <1>1, <1>5, <2>1, EmbeddingKnows DEF Embedding
  <2> QED BY <1>8, <2>2, PrivatelyKnows
<1>9. CASE FileAt(db, q) # {} /\ Privately(p, s, "plan")
  <2>1. PICK f \in FileAt(db, q) : f.id = fid
    BY <1>1, <1>9, FileRowTyped DEF Ids
  <2>2. f \in db.files /\ f.path = q /\ f.id = fid /\ UniquePaths(db)
    BY <1>1, <2>1 DEF FileAt, Sound, Consistent
  <2> HIDE DEF fid, ids, s
  <2>3. /\ s.mode = r.mode /\ s.model = r.model /\ s.cands = r.cands /\ s.scanned = r.scanned
        /\ s.existing = r.existing /\ s.quiet = r.quiet
    <3> DEFINE fb == PlanFile(r, q, fid, ids)
    <3>1. \/ \E x : s = [r EXCEPT !.fallbacks = x]
          \/ \E x, y, z : s = [r EXCEPT !.carry = x, !.syms = y, !.slots = z]
      BY DEF PlanFile, s
    <3>2. DOMAIN r = Fields
      BY <1>6, RunFields DEF RunType
    <3> QED BY <3>1, <3>2 DEF Fields
  <2>4. ASSUME Sole(s) PROVE EmbedFits(db, s, "plan")
    <3>1. Sole(o)
      BY <1>5, <2>3, <2>4 DEF Sole
    <3>2. PlanFits(db, o, "plan") /\ HashesAt(db, q) = {o.scanned[q].hash}
      BY <1>7, <3>1
    <3>3. f.hash = o.scanned[q].hash
      BY <2>1, <3>2 DEF HashesAt
    <3>4. PlanFits(db, PlanFile(r, q, f.id, SymbolIdsByFile(db, {f.id})), "plan")
      BY <1>1, <1>2, <1>5, <1>6, <2>2, <3>2, <3>3, PlanFileFits
    <3> QED BY <2>2, <3>4 DEF EmbedFits, s, ids
  <2>5. Knows(db, work, s, "plan")
    BY <1>1, <1>5, <2>3, <2>4, EmbeddingKnows DEF Embedding
  <2> QED BY <1>9, <2>5, PrivatelyKnows
<1> QED BY <1>3, <1>8, <1>9

\* What a run knows of the catalog does not depend on who else has changed what.
LEMMA QuietKept ==
    ASSUME NEW r, RunType(r), NEW d, NEW w, NEW l
    PROVE  LET s == [r EXCEPT !.quiet = FALSE]
           IN  /\ ScanFits(r, l) => ScanFits(s, l)
               /\ StoreFits(d, w, r, l) => StoreFits(d, w, s, l)
               /\ EmbedFits(d, r, l) => EmbedFits(d, s, l)
<1> DEFINE s == [r EXCEPT !.quiet = FALSE]
<1>1. /\ s.mode = r.mode /\ s.model = r.model /\ s.cands = r.cands /\ s.scanned = r.scanned
      /\ s.existing = r.existing /\ s.todo = r.todo /\ s.gone = r.gone /\ s.files = r.files
      /\ s.imports = r.imports
      /\ s.carry = r.carry /\ s.syms = r.syms /\ s.fallbacks = r.fallbacks /\ s.slots = r.slots
  BY RunFields DEF RunType, Fields
<1> HIDE DEF s
<1>2. Parsed(s) = Parsed(r) /\ Gone(s) = Gone(r)
  BY <1>1 DEF Parsed, Gone
<1>3. Cleared(s) = Cleared(r) /\ Due(s, l) = Due(r, l)
  BY <1>1, <1>2 DEF Cleared, Due
<1>4. ScanFits(r, l) => ScanFits(s, l)
  BY <1>1 DEF ScanFits
<1>5. ASSUME StoreFits(d, w, r, l) PROVE StoreFits(d, w, s, l)
  <2>1. WriteFits(d, w, r) => WriteFits(d, w, s)
    BY <1>1, <1>2, <1>3 DEF WriteFits
  <2>2. Written(d, r) => Written(d, s)
    BY <1>1, WrittenKept
  <2>3. EdgesFit(d, r, l) => EdgesFit(d, s, l)
    BY <1>1 DEF EdgesFit
  <2> QED BY <1>1, <1>5, <2>1, <2>2, <2>3 DEF StoreFits
<1>6. ASSUME PlanFits(d, r, l) PROVE PlanFits(d, s, l)
  <2>1. /\ \A j \in s.carry \cup s.syms : SymbolJobFits(d, s, l, j)
        /\ \A j \in s.fallbacks : FallbackFits(d, s, l, j)
    <3>1. Due(r, l) \subseteq Due(s, l)
      BY <1>3
    <3> QED BY <1>1, <1>6, <3>1, JobsKept DEF PlanFits
  <2>2. ASSUME NEW f \in d.files, f.path \in Due(s, l) PROVE FileFits(d, s, f)
    <3>1. FileFits(d, r, f)
      BY <1>3, <1>6, <2>2 DEF PlanFits
    <3>2. SlotsFit(r, f) => SlotsFit(s, f)
      BY <1>1 DEF SlotsFit
    <3> QED BY <1>1, <3>1, <3>2 DEF FileFits
  <2> QED BY <1>1, <1>2, <1>3, <1>6, <2>1, <2>2 DEF PlanFits
<1>7. EmbedFits(d, r, l) => EmbedFits(d, s, l)
  BY <1>1, <1>2, <1>6 DEF EmbedFits
<1> QED BY <1>4, <1>5, <1>7 DEF s

\* A run that dies knows nothing, and the others lose nothing by it.
LEMMA AbandonKnows == ASSUME IInv, RInv, NEW p \in Proc, Abandon(p) PROVE RInv'
<1>1. /\ run' = [run EXCEPT ![p] = NoRun] /\ pc' = [pc EXCEPT ![p] = "idle"]
      /\ work' = IF lock = p THEN EmptyCatalog ELSE work
      /\ UNCHANGED <<tree, staged, db, runs, edits>>
  BY DEF Abandon
<1>2. /\ run'[p] = NoRun /\ pc'[p] = "idle"
      /\ \A q \in Proc : q # p => run'[q] = run[q] /\ pc'[q] = pc[q]
      /\ \A q \in Proc : q # p /\ pc[q] = "write" => work' = work
  BY <1>1 DEF IInv, LockHeldByWriter
<1>3. Knows(db', work', run'[p], pc'[p])
  BY <1>2, NothingKnown
<1> QED BY <1>1, <1>2, <1>3, StepKnows

\* Whatever the user does, what a run knows of the catalog stays.
LEMMA EditingKnows == ASSUME IInv, RInv, Editing PROVE RInv'
<1>1. run' = [q \in Proc |-> Disturbed(q)] /\ UNCHANGED <<db, lock, work, pc, runs>>
  BY DEF Editing
<1>2. ASSUME NEW q \in Proc PROVE ~run'[q].quiet /\ Knows(db', work', run'[q], pc'[q])
  <2>1. run'[q] = Disturbed(q) /\ Knows(db, work, run[q], pc[q]) /\ RunType(run[q])
    BY <1>1 DEF RInv, IInv, RunInv
  <2>2. CASE pc[q] = "done"
    <3>1. run'[q] = NoRun /\ pc'[q] = "done" /\ ~NoRun.quiet
      BY <1>1, <2>1, <2>2 DEF Disturbed, NoRun
    <3> QED BY <3>1, NothingKnown
  <2>3. CASE pc[q] # "done"
    <3> DEFINE r == run[q]
               l == pc[q]
               s == [r EXCEPT !.quiet = FALSE]
    <3>1. run'[q] = s /\ pc'[q] = l /\ db' = db /\ work' = work
      BY <1>1, <2>1, <2>3 DEF Disturbed
    <3>2. Knows(db, work, r, l) /\ RunType(r)
      BY <2>1
    <3> HIDE DEF r, l
    <3>3. ~s.quiet
      BY <3>2, RunFields DEF RunType, Fields
    <3>4. /\ ScanFits(r, l) => ScanFits(s, l)
          /\ StoreFits(db, work, r, l) => StoreFits(db, work, s, l)
          /\ EmbedFits(db, r, l) => EmbedFits(db, s, l)
      BY <3>2, QuietKept
    <3>5. Sole(s) => Sole(r)
      BY <3>3 DEF Sole
    <3> HIDE DEF s
    <3>6. Knows(db, work, s, l)
      BY <3>2, <3>3, <3>4, <3>5 DEF Knows
    <3> QED BY <3>1, <3>3, <3>6
  <2> QED BY <2>2, <2>3
<1>3. ASSUME NEW q \in Proc PROVE Knows(db, work, run[q], pc[q])'
  <2>1. ~run'[q].quiet /\ Knows(db', work', run'[q], pc'[q])
    BY <1>2
  <2> QED BY <2>1 DEF Knows
<1> QED BY <1>3 DEF RInv

\* Before anything runs, nothing is known.
LEMMA InitKnows == Init => RInv
  BY NothingKnown DEF Init, RInv

\* Every step preserves what is known.
LEMMA NextKnows == IInv /\ RInv /\ [Next]_vars => RInv'
<1> SUFFICES ASSUME IInv, RInv, [Next]_vars PROVE RInv'
  OBVIOUS
<1>1. ASSUME NEW p \in Proc, Step(p) PROVE RInv'
  <2>1. ASSUME GraphConflict(p) PROVE RInv'
    BY <2>1, AbandonKnows DEF GraphConflict
  <2> QED BY <1>1, <2>1, SelectFilesKnows, ReadHashesKnows, ScanKnows, EndScanKnows, CaptureKnows,
             BeginWriteKnows, DropGoneKnows, PutNextKnows, CommitWriteKnows, CleanKnows,
             ReadFilesKnows, ReadImportsKnows, WriteGraphKnows, PurgeSymbolsKnows, PurgeFileKnows,
             EndPurgeKnows, PlanKnows, CarryVectorKnows, EmbedBatchKnows, StoreSymbolKnows,
             StoreAndPanicKnows, StoreFallbackKnows, StoreMeanKnows, SealKnows DEF Step
<1>2. ASSUME NEW p \in Proc, Fail(p) \/ Busy(p) PROVE RInv'
  BY <1>2, AbandonKnows DEF Fail, Busy
<1>3. ASSUME Edit \/ Stage PROVE RInv'
  BY <1>3, EditingKnows DEF Edit, Stage
<1>4. ASSUME UNCHANGED vars PROVE RInv'
  <2>1. UNCHANGED <<tree, staged, db, work, pc, run>>
    BY <1>4 DEF vars
  <2>2. ASSUME NEW q \in Proc PROVE Knows(db, work, run[q], pc[q])'
    <3>1. Knows(db', work', run'[q], pc'[q])
      BY <2>1 DEF RInv
    <3>2. TreeFits(run'[q], pc'[q]) => TreeFits(run[q], pc[q])'
      BY <2>1 DEF TreeFits, Tracked
    <3> QED BY <3>1, <3>2 DEF Knows
  <2> QED BY <2>2 DEF RInv
<1> QED BY <1>1, <1>2, <1>3, <1>4, StartKnows DEF Next, Rest

\* At every step of every run, whatever others do: its scan is in order; if it was left
\* alone, what it found is in the tree, the catalog holds what its write was to leave, and
\* its plan covers every vector that is not right yet.
THEOREM IndexRunsKnowTheStore == Spec => [](IInv /\ RInv)
<1>1. Init => IInv /\ RInv
  BY InitIInv, InitKnows
<1>2. IInv /\ RInv /\ [Next]_vars => (IInv /\ RInv)'
  BY NextIInv, NextKnows
<1> QED BY <1>1, <1>2, PTL DEF Spec

\* What a run that was left alone to its end has known implies what is promised of it.
LEMMA RInvImplies == IInv /\ RInv => MirrorsTree /\ GraphComplete /\ RewrittenFilesEmbedded
<1> SUFFICES ASSUME IInv, RInv PROVE MirrorsTree /\ GraphComplete /\ RewrittenFilesEmbedded
  OBVIOUS
<1>1. ASSUME NEW p \in Proc, LeftAlone(p)
      PROVE  /\ ScanFits(run[p], "done") /\ TreeFits(run[p], "done") /\ RunType(run[p])
             /\ StoreFits(db, work, run[p], "done") /\ EmbedFits(db, run[p], "done")
  BY <1>1 DEF LeftAlone, RInv, Knows, Sole, IInv, RunInv
<1>2. MirrorsTree
  <2>1. SUFFICES ASSUME NEW p \in Proc, LeftAlone(p)
                 PROVE  LET r == run[p]
                            read == {q \in r.cands : r.scanned[q].kind # "skip"}
                            rows == {f.path : f \in db.files}
                        IN  /\ r.mode \notin {"status", "clean"} => \A q \in read : RowMatchesTree(q)
                            /\ r.mode = "full" => rows = read
                            /\ r.mode = "incremental" => rows \subseteq r.cands
                            /\ r.mode = "clean" => db.files = {}
    BY DEF MirrorsTree
  <2> DEFINE r == run[p]
             read == {q \in r.cands : r.scanned[q].kind # "skip"}
             rows == {f.path : f \in db.files}
  <2>2. /\ ScanFits(r, "done") /\ TreeFits(r, "done") /\ RunType(r) /\ StoreFits(db, work, r, "done")
    BY <1>1, <2>1
  <2> HIDE DEF r
  <2>3. \A q \in read : q \in Path /\ r.scanned[q].kind \in {"same", "parsed"}
    <3>1. \A q \in r.cands : q \in Path /\ r.scanned[q].kind # "none"
      BY <2>2 DEF ScanFits, RunType
    <3>2. \A q \in Path : r.scanned[q].kind \in {"none", "skip", "same", "parsed"}
      BY <2>2 DEF RunType
    <3> QED BY <3>1, <3>2
  <2>4. ASSUME r.mode \notin {"status", "clean"}, NEW q \in read PROVE RowMatchesTree(q)
    <3>1. HashesAt(db, q) = {r.scanned[q].hash}
      BY <2>2, <2>3, <2>4 DEF StoreFits, Written
    <3>2. r.scanned[q].hash = [tracked |-> q \in Tracked, content |-> tree[q]]
      BY <2>2, <2>3 DEF TreeFits
    <3>3. PICK f \in FileAt(db, q) : f.hash = r.scanned[q].hash
      BY <3>1 DEF HashesAt
    <3> QED BY <3>2, <3>3 DEF RowMatchesTree, FileAt
  <2>5. ASSUME r.mode = "full" PROVE rows = read
    <3>1. Written(db, r)
      BY <2>2, <2>5 DEF StoreFits
    <3>2. ASSUME NEW q \in rows PROVE q \in read
      BY <2>2, <2>5, <3>1 DEF Written, Parsed, ScanFits
    <3>3. ASSUME NEW q \in read PROVE q \in rows
      <4>1. HashesAt(db, q) = {r.scanned[q].hash}
        BY <2>3, <3>1 DEF Written
      <4> QED BY <4>1 DEF HashesAt, FileAt
    <3> QED BY <3>2, <3>3
  <2>6. r.mode = "incremental" => rows \subseteq r.cands
    BY <2>2 DEF StoreFits, Written
  <2>7. r.mode = "clean" => db.files = {}
    BY <2>2 DEF StoreFits
  <2> QED BY <2>4, <2>5, <2>6, <2>7 DEF r
<1>3. GraphComplete
  BY <1>1 DEF GraphComplete, StoreFits, EdgesFit
<1>4. RewrittenFilesEmbedded
  BY <1>1 DEF RewrittenFilesEmbedded, EmbedFits
<1> QED BY <1>2, <1>3, <1>4

\* When a run that was left alone ends, the catalog mirrors the tree, for any number of
\* processes and whatever happened before it started (MirrorsTree; index.go:20-32).
THEOREM RunsMirrorTheTree == Spec => []MirrorsTree
  BY IndexRunsKnowTheStore, RInvImplies, PTL

\* And the graph is the resolution of all the rows there are (GraphComplete; index.go:158-159).
THEOREM GraphsAreComplete == Spec => []GraphComplete
  BY IndexRunsKnowTheStore, RInvImplies, PTL

\* And every file it has rewritten has the right vectors, whichever it carried over and
\* whatever earlier runs left on the ids it reused (RewrittenFilesEmbedded; embed.go:91-238).
THEOREM RewrittenFilesAreEmbedded == Spec => []RewrittenFilesEmbedded
  BY IndexRunsKnowTheStore, RInvImplies, PTL

-----------------------------------------------------------------------------
(* A store only one process writes: the graph *)

\* Every edge is one that its files may have.
Supported(d) == \A e \in d.edges : \E f, g \in d.files : f.id # g.id /\ MayJoin(f, g, e)

\* The invariant of a store only one process writes: in the catalog and in the open
\* transaction every edge is one that its files may have.
SInv == Alone => Supported(db) /\ Supported(work)

\* What the rows resolve to is what an import may mean or the name of a test says.
LEMMA ResolvedJoins ==
    ASSUME NEW d, d.files \subseteq FileRow, UniqueIds(d.files), NEW e \in Resolve(d.files, Imports(d))
    PROVE  \E f, g \in d.files : f.id # g.id /\ MayJoin(f, g, e)
<1> DEFINE files == d.files
<1>1. ASSUME NEW F, NEW paths, NEW i \in FirstAt(F, paths)
      PROVE  \E f \in F : f.id = i /\ f.path \in Range(paths)
  BY <1>1 DEF FirstAt, Range
<1>2. CASE \E i \in Imports(d) : \E to \in FirstAt(files, Candidates[<<PathOf(files, i[1]), i[2]>>]) :
              to # i[1] /\ e = <<i[1], to, "import">>
  <2> DEFINE Target(i) == FirstAt(files, Candidates[<<PathOf(files, i[1]), i[2]>>])
  <2>0. PICK i \in Imports(d) : \E to \in Target(i) : to # i[1] /\ e = <<i[1], to, "import">>
    BY <1>2
  <2>1. PICK to \in Target(i) : to # i[1] /\ e = <<i[1], to, "import">>
    BY <2>0
  <2>2. PICK f \in files : f.id = i[1] /\ i[2] \in ImportsOf[f.hash.content]
    BY DEF Imports
  <2>3. PathOf(files, i[1]) = f.path
    <3>1. {x.path : x \in {y \in files : y.id = i[1]}} = {f.path}
      BY <2>2 DEF UniqueIds
    <3> QED BY <3>1 DEF PathOf
  <2>4. PICK g \in files : g.id = to /\ g.path \in Range(Candidates[<<f.path, i[2]>>])
    BY <1>1, <2>3
  <2>5. MayJoin(f, g, e)
    BY <2>1, <2>2, <2>4 DEF MayJoin
  <2> QED BY <2>1, <2>2, <2>4, <2>5
<1>3. CASE \E t \in files : \E from \in FirstAt({f \in files : f.id # t.id}, ImplsOf[t.path]) :
              e = <<from, t.id, "test">>
  <2> DEFINE Impl(t) == FirstAt({f \in files : f.id # t.id}, ImplsOf[t.path])
  <2>0. PICK t \in files : \E from \in Impl(t) : e = <<from, t.id, "test">>
    BY <1>3
  <2>1. PICK from \in Impl(t) : e = <<from, t.id, "test">>
    BY <2>0
  <2>2. PICK f \in files : f.id # t.id /\ f.id = from /\ f.path \in Range(ImplsOf[t.path])
    BY <1>1
  <2>3. MayJoin(f, t, e)
    BY <2>1, <2>2 DEF MayJoin
  <2> QED BY <2>2, <2>3
<1> QED BY <1>2, <1>3 DEF Resolve

\* An edge stays supported as long as both its files stay.
LEMMA SupportedKept ==
    ASSUME NEW d, d.files \subseteq FileRow, Supported(d), NEW e, e.files \subseteq FileRow,
           e.edges \subseteq d.edges,
           \A x \in e.edges : \A f \in d.files : f.id \in {x[1], x[2]} => f \in e.files
    PROVE  Supported(e)
<1> SUFFICES ASSUME NEW x \in e.edges PROVE \E f, g \in e.files : f.id # g.id /\ MayJoin(f, g, x)
  BY DEF Supported
<1>1. PICK f, g \in d.files : f.id # g.id /\ MayJoin(f, g, x)
  BY DEF Supported
<1>2. x[1] = f.id /\ x[2] = g.id
  BY <1>1 DEF MayJoin
<1>3. f \in e.files /\ g \in e.files
  BY <1>2
<1> QED BY <1>1, <1>3

\* Deleting a file takes its edges along, replacing it adds none.
LEMMA DeleteSupported ==
    ASSUME NEW d, Sound(d), Supported(d), NEW p
    PROVE  Supported(DeleteFileByPath(d, p))
<1> DEFINE e == DeleteFileByPath(d, p)
           fids == Ids(FileAt(d, p))
<1>1. /\ e.files = {f \in d.files : f.id \notin fids}
      /\ e.edges = {x \in d.edges : x[1] \notin fids /\ x[2] \notin fids}
  BY DeleteFileByPathTables DEF Sound
<1> HIDE DEF e, fids
<1>2. e.files \subseteq FileRow /\ d.files \subseteq FileRow /\ e.edges \subseteq d.edges
  BY <1>1 DEF Sound
<1>3. \A x \in e.edges : \A f \in d.files : f.id \in {x[1], x[2]} => f \in e.files
  BY <1>1
<1>4. Supported(e)
  BY <1>2, <1>3, SupportedKept
<1> QED BY <1>4 DEF e

\* Writing a file row adds a node without edges.
LEMMA PutSupported ==
    ASSUME NEW d, Sound(d), Supported(d), NEW p \in Path, NEW h \in Hash
    PROVE  Supported(PutFile(d, p, h))
<1> DEFINE m == DeleteFileByPath(d, p)
           e == InsertFile(m, p, h)
           new == [id |-> NextId(Ids(m.files)), path |-> p, hash |-> h]
<1>1. Sound(m) /\ Supported(m) /\ PutFile(d, p, h) = e /\ Sound(PutFile(d, p, h))
  BY DeleteFileByPathSound, DeleteSupported, PutFileSound DEF PutFile
<1>2. e.files = m.files \cup {new} /\ e.edges = m.edges
  BY <1>1, InsertFileTables DEF Sound
<1> HIDE DEF m, e, new
<1>3. e.files \subseteq FileRow /\ m.files \subseteq FileRow
  BY <1>1 DEF Sound
<1>4. Supported(e)
  BY <1>1, <1>2, <1>3, SupportedKept
<1> QED BY <1>1, <1>4

\* A statement that leaves files and edges alone leaves the edges supported.
LEMMA SupportedSame ==
    ASSUME NEW d, Supported(d), NEW e, e.files = d.files, e.edges = d.edges
    PROVE  Supported(e)
  BY DEF Supported

\* Every step of a run keeps the edges supported.
LEMMA StepSupported ==
    ASSUME IInv, RInv, Alone, Supported(db), Supported(work), NEW p \in Proc, Step(p)
    PROVE  Supported(db') /\ Supported(work')
<1>1. Sound(db) /\ Sound(work) /\ RunInv(run[p], pc[p]) /\ Knows(db, work, run[p], pc[p])
  BY DEF IInv, Good, RInv
<1>2. ASSUME NEW r, NEW l, Privately(p, r, l) PROVE Supported(db') /\ Supported(work')
  BY <1>2 DEF Privately
<1>3. ASSUME NEW d, NEW r, NEW l, Publishing(p, d, r, l), Supported(d)
      PROVE  Supported(db') /\ Supported(work')
  BY <1>3 DEF Publishing
<1>4. ASSUME NEW d, NEW r, Writing(p, d, r), Supported(d) PROVE Supported(db') /\ Supported(work')
  BY <1>4 DEF Writing
<1>5. Supported(EmptyCatalog)
  BY DEF Supported, EmptyCatalog
<1>6. Supported(ClearIndex(db)) /\ Supported(SetIndexState(ClearIndex(db)))
  <2>1. Sound(ClearIndex(db)) /\ ClearIndex(db).edges = {}
    BY <1>1, ClearIndexSound, ClearIndexTables
  <2> QED BY <2>1, SetIndexStateTables DEF Supported
<1>7. CASE SelectFiles(p) \/ ReadHashes(p) \/ Scan(p) \/ EndScan(p) \/ Capture(p)
           \/ ReadFiles(p) \/ ReadImports(p) \/ EndPurge(p) \/ Plan(p) \/ EmbedBatch(p)
  <2>1. UNCHANGED <<db, work>>
    BY <1>7 DEF SelectFiles, ReadHashes, Scan, EndScan, Capture, ReadFiles, ReadImports, EndPurge,
               Plan, EmbedBatch, Privately
  <2> QED BY <2>1
<1>8. CASE BeginWrite(p)
  BY <1>6, <1>8 DEF BeginWrite, OpenWrite
<1>9. CASE DropGone(p)
  BY <1>1, <1>4, <1>9, DeleteSupported DEF DropGone
<1>10. CASE PutNext(p)
  <2> DEFINE q == Min(run[p].todo)
             h == run[p].scanned[q].hash
  <2>1. pc[p] = "write" /\ run[p].todo # {} /\ \E r : Writing(p, PutFile(work, q, h), r)
    BY <1>10 DEF PutNext
  <2>2. q \in run[p].todo
    BY <1>1, <2>1, CatalogAssumption, MinIsLeast DEF RunInv, RunType
  <2> HIDE DEF q
  <2>3. q \in Path /\ h \in Hash
    BY <1>1, <2>1, <2>2 DEF RunInv, RunType, Parsed
  <2> HIDE DEF h
  <2>4. Supported(PutFile(work, q, h))
    BY <1>1, <2>3, PutSupported
  <2> QED BY <1>4, <2>1, <2>4
<1>11. CASE CommitWrite(p)
  <2>1. db' = SetIndexState(work) /\ work' = EmptyCatalog
    BY <1>11 DEF CommitWrite, Commit
  <2>2. Supported(SetIndexState(work))
    BY <1>1, SetIndexStateTables, SupportedSame
  <2> QED BY <1>5, <2>1, <2>2
<1>12. CASE Clean(p)
  <2>1. pc[p] = "clean" /\ run[p].model = NoModel
    BY <1>1, <1>12 DEF Clean, Knows, ScanFits
  <2> QED BY <1>3, <1>6, <1>12, <2>1 DEF Clean
<1>13. CASE WriteGraph(p)
  <2> DEFINE edges == Edges(run[p])
  <2>1. \E r, l : Publishing(p, ReplaceGraph(db, edges), r, l)
    BY <1>13 DEF WriteGraph
  <2>2. /\ run[p].files = {[id |-> f.id, path |-> f.path] : f \in db.files}
        /\ run[p].imports = Imports(db)
    BY <1>1, <1>13 DEF WriteGraph, Knows, Sole, StoreFits, EdgesFit
  <2>3. edges = Resolve(db.files, Imports(db))
    BY <2>2, ResolvedFromRows DEF Edges
  <2> HIDE DEF edges
  <2>4. ReplaceGraph(db, edges).files = db.files /\ ReplaceGraph(db, edges).edges = edges
    BY <1>1 DEF Sound, Tables, ReplaceGraph
  <2>5. Supported(ReplaceGraph(db, edges))
    <3>1. db.files \subseteq FileRow /\ UniqueIds(db.files)
      BY <1>1 DEF Sound, Consistent
    <3> QED BY <2>3, <2>4, <3>1, ResolvedJoins DEF Supported
  <2> QED BY <1>3, <2>1, <2>5
<1>14. CASE GraphConflict(p)
  BY <1>5, <1>14 DEF GraphConflict, Abandon
<1>15. CASE PurgeSymbols(p)
  <2>1. PICK l : Privately(p, run[p], l) \/ \E syms : Publishing(p, DeleteVectors(db, "symbol", syms), run[p], l)
    BY <1>15 DEF PurgeSymbols
  <2>2. \A syms : Supported(DeleteVectors(db, "symbol", syms))
    BY <1>1, DeleteVectorsTables, SupportedSame
  <2> QED BY <1>2, <1>3, <2>1, <2>2
<1>16. CASE PurgeFile(p)
  <2>1. \E ids, r : Publishing(p, DeleteVectors(db, "file", ids), r, "purge")
    BY <1>16 DEF PurgeFile
  <2>2. \A ids : Supported(DeleteVectors(db, "file", ids))
    BY <1>1, DeleteVectorsTables, SupportedSame
  <2> QED BY <1>3, <2>1, <2>2
<1>17. CASE CarryVector(p) \/ StoreSymbol(p) \/ StoreAndPanic(p) \/ StoreFallback(p) \/ StoreMean(p)
  <2>1. \E o, i, of, r, l : Publishing(p, UpsertVector(db, o, i, run[p].model, of), r, l)
    BY <1>17 DEF CarryVector, StoreSymbol, StoreAndPanic, StoreFallback, StoreMean, Store
  <2>2. \A o, i, of : Supported(UpsertVector(db, o, i, run[p].model, of))
    BY <1>1, UpsertEmbeds, SupportedSame
  <2> QED BY <1>3, <2>1, <2>2
<1>18. CASE Seal(p)
  <2>1. Supported(SetEmbedInfo(db, run[p].model))
    BY <1>1, SetEmbedInfoTables, SupportedSame
  <2> QED BY <1>3, <1>18, <2>1 DEF Seal
<1> QED BY <1>7, <1>8, <1>9, <1>10, <1>11, <1>12, <1>13, <1>14, <1>15, <1>16, <1>17, <1>18 DEF Step

\* No step of anybody breaks the invariant.
LEMMA NextSupported == IInv /\ RInv /\ SInv /\ [Next]_vars => SInv'
<1> SUFFICES ASSUME IInv, RInv, SInv, [Next]_vars, Alone PROVE Supported(db') /\ Supported(work')
  BY DEF SInv, Supported, Alone
<1>1. Supported(db) /\ Supported(work)
  BY DEF SInv
<1>2. CASE \E p \in Proc : Step(p)
  BY <1>1, <1>2, StepSupported
<1>3. CASE \E p \in Proc : Start(p)
  BY <1>1, <1>3 DEF Start
<1>4. CASE \E p \in Proc : Fail(p) \/ Busy(p)
  <2>1. Supported(EmptyCatalog)
    BY DEF Supported, EmptyCatalog
  <2> QED BY <1>1, <1>4, <2>1 DEF Fail, Busy, Abandon
<1>5. CASE Edit \/ Stage
  BY <1>1, <1>5 DEF Edit, Stage, Editing
<1>6. CASE UNCHANGED vars
  BY <1>1, <1>6 DEF vars
<1> QED BY <1>2, <1>3, <1>4, <1>5, <1>6 DEF Next, Rest

\* In a store only one process writes every edge joins two files one of which may import,
\* or is named as the test of, the other as it is now, also between the transactions of a
\* run and after one that died between them, and whatever ids were reused: edges are
\* missing, or lead to a later candidate than the rows resolve to (EdgesSupported).
THEOREM EdgesStaySupported == Spec => [](Alone => EdgesSupported)
<1>1. Init => SInv
  BY DEF Init, SInv, Supported, EmptyCatalog
<1>2. SInv => (Alone => EdgesSupported)
  BY DEF SInv, Supported, EdgesSupported
<1> QED BY <1>1, <1>2, NextSupported, IndexRunsKnowTheStore, PTL DEF Spec

-----------------------------------------------------------------------------
(* A store only one process writes, with one model and no failures: the vectors *)

\* Every run embeds with the same model, and none is killed.
OneModel == NoModel \notin Embedders /\ (\A e, f \in Embedders : e = f) /\ ~MayFail

\* What a run captured names the rows it is going to replace or drop; once they are
\* replaced or dropped, no row that stays is named.
CaptureFits(d, r, label) ==
    /\ label \in {"select", "hashes", "scan", "capture"} => DOMAIN r.caps = Path
    /\ label \in {"select", "hashes", "scan"} => \A q \in Path : r.caps[q].file = 0
    /\ label \in {"capture", "begin", "write"} =>
          \A q \in Path : r.caps[q].file # 0 =>
             \E g \in d.files : /\ g.path = q /\ g.id = r.caps[q].file
                                /\ r.caps[q].syms = Ids(SymbolsIn(d, {g.id}))
    /\ label \in {"graph", "imports", "link", "purge", "purgeFile"} =>
          \A q \in Captured(r), f \in d.files : f.path \in Parsed(r) \/
              /\ f.id # r.caps[q].file
              /\ \A s \in SymbolsIn(d, {f.id}) : s.id \notin r.caps[q].syms
    /\ label \in {"purge", "purgeFile"} => r.todo \subseteq Captured(r)
    /\ label = "purgeFile" => r.todo # {}

\* Every file has its vectors, or the run has rewritten it and owes them.
Covered(d, r, label) ==
    \A f \in d.files, m \in Embedders :
        FileEmbedded(d, f, m) \/ (label \in AfterWrite /\ f.path \in Parsed(r))

\* The invariant of such a store.  Without a process it stays empty.
AInv ==
    Alone /\ OneModel =>
        /\ Proc = {} => db.files = {}
        /\ \A p \in Proc : CaptureFits(db, run[p], pc[p]) /\ Covered(db, run[p], pc[p])

\* Vectors that stay keep the files that stay embedded.
LEMMA EmbeddedKept ==
    ASSUME NEW d, NEW e, NEW f, NEW m, FileEmbedded(d, f, m),
           SymbolsIn(e, {f.id}) = SymbolsIn(d, {f.id}),
           VectorsOf(e, "file", f.id, m) = VectorsOf(d, "file", f.id, m),
           \A s \in SymbolsIn(d, {f.id}) : VectorsOf(e, "symbol", s.id, m) = VectorsOf(d, "symbol", s.id, m)
    PROVE  FileEmbedded(e, f, m)
  BY DEF FileEmbedded, Embedded

\* A catalog with the same rows and vectors has the same files embedded.
LEMMA EmbeddedSame ==
    ASSUME NEW d, NEW e, e.symbols = d.symbols, e.vecs = d.vecs, NEW f, NEW m, FileEmbedded(d, f, m)
    PROVE  FileEmbedded(e, f, m)
  BY EmbeddedKept DEF SymbolsIn, VectorsOf

\* A step that leaves captures, candidates and rows alone leaves what is known of the
\* captures alone.
LEMMA CaptureKept ==
    ASSUME NEW r, NEW s, s.caps = r.caps, s.scanned = r.scanned, s.mode = r.mode,
           s.existing = r.existing, s.cands = r.cands, s.todo = r.todo,
           NEW d, NEW e, e.files = d.files, e.symbols = d.symbols,
           NEW l, CaptureFits(d, r, l)
    PROVE  CaptureFits(e, s, l)
<1>1. Parsed(s) = Parsed(r)
  BY DEF Parsed
<1>2. Gone(s) = Gone(r)
  BY DEF Gone
<1>3. Captured(s) = Captured(r)
  BY <1>1, <1>2 DEF Captured
<1>4. \A fids : SymbolsIn(e, fids) = SymbolsIn(d, fids)
  BY DEF SymbolsIn
<1> QED BY <1>1, <1>3, <1>4 DEF CaptureFits

\* What one process knows of its captures, and that every file is covered, is the
\* invariant when there is no other process.
LEMMA SoloStep ==
    ASSUME Alone, NEW p \in Proc, CaptureFits(db, run[p], pc[p])', Covered(db, run[p], pc[p])'
    PROVE  AInv'
  BY DEF AInv, Alone

\* A step nobody sees, of the only process.
LEMMA PrivatelySolo ==
    ASSUME IInv, Alone, NEW p \in Proc, NEW r, NEW label, Privately(p, r, label),
           CaptureFits(db, r, label), Covered(db, r, label)
    PROVE  AInv'
<1>1. run'[p] = r /\ pc'[p] = label /\ db' = db
  BY DEF Privately, IInv
<1>2. CaptureFits(db', run'[p], pc'[p]) /\ Covered(db', run'[p], pc'[p])
  BY <1>1
<1> QED BY <1>2, SoloStep

\* A transaction of one step, of the only process.
LEMMA PublishingSolo ==
    ASSUME IInv, Alone, NEW p \in Proc, NEW d, NEW r, NEW label, Publishing(p, d, r, label),
           CaptureFits(d, r, label), Covered(d, r, label)
    PROVE  AInv'
<1>1. run'[p] = r /\ pc'[p] = label /\ db' = d
  BY DEF Publishing, IInv
<1>2. CaptureFits(db', run'[p], pc'[p]) /\ Covered(db', run'[p], pc'[p])
  BY <1>1
<1> QED BY <1>2, SoloStep

\* Starting a run: nothing is captured.
LEMMA StartCovers ==
    ASSUME IInv, AInv, Alone, OneModel, NEW p \in Proc, Start(p)
    PROVE  AInv'
<1>1. PICK m \in Modes, e \in Embedders \cup {NoModel} :
        /\ run' = [run EXCEPT ![p] = [NoRun EXCEPT !.mode = m, !.model = e, !.quiet = TRUE]]
        /\ pc' = [pc EXCEPT ![p] = IF m = "clean" THEN "clean" ELSE "select"]
  BY DEF Start
<1> DEFINE r == [NoRun EXCEPT !.mode = m, !.model = e, !.quiet = TRUE]
           l == IF m = "clean" THEN "clean" ELSE "select"
<1>2. run'[p] = r /\ pc'[p] = l /\ db' = db /\ pc[p] \in {"idle", "done"}
  BY <1>1 DEF Start, IInv, Running
<1>3. r.caps = [q \in Path |-> NoCapture] /\ NoCapture.file = 0
  BY DEF NoRun, NoCapture
<1> HIDE DEF r
<1>4. CaptureFits(db, r, l)
  BY <1>3 DEF CaptureFits
<1>5. Covered(db, r, l)
  BY <1>2 DEF AInv, Covered, AfterWrite, Embedding
<1>6. CaptureFits(db', run'[p], pc'[p]) /\ Covered(db', run'[p], pc'[p])
  BY <1>2, <1>4, <1>5
<1> QED BY <1>6, SoloStep

\* Selecting and scanning: still nothing is captured.
LEMMA ScanningCovers ==
    ASSUME IInv, AInv, Alone, OneModel, NEW p \in Proc,
           SelectFiles(p) \/ ReadHashes(p) \/ Scan(p) \/ EndScan(p)
    PROVE  AInv'
<1> DEFINE r == run[p]
<1>1. DOMAIN r = Fields /\ CaptureFits(db, r, pc[p]) /\ Covered(db, r, pc[p])
  BY RunFields DEF IInv, RunInv, RunType, AInv
<1>2. PICK s, l : /\ Privately(p, s, l)
                  /\ pc[p] \in {"select", "hashes", "scan"}
                  /\ \/ l = "done"
                     \/ l \in {"hashes", "scan", "capture", "begin"} /\ s.caps = r.caps
  <2>1. CASE SelectFiles(p)
    <3> DEFINE s == [r EXCEPT !.cands = Listed(r.mode), !.tracked = Listed(r.mode) \cap Tracked]
    <3>1. pc[p] = "select" /\ Privately(p, s, "hashes")
      BY <2>1 DEF SelectFiles
    <3>2. s.caps = r.caps
      BY <1>1 DEF Fields
    <3> QED BY <3>1, <3>2
  <2>2. CASE ReadHashes(p)
    <3>1. PICK ex : Privately(p, [r EXCEPT !.existing = ex, !.todo = r.cands], "scan")
      BY <2>2 DEF ReadHashes
    <3>2. [r EXCEPT !.existing = ex, !.todo = r.cands].caps = r.caps
      BY <1>1 DEF Fields
    <3> QED BY <2>2, <3>1, <3>2 DEF ReadHashes
  <2>3. CASE Scan(p)
    <3>1. PICK q : Privately(p, [r EXCEPT !.scanned[q] = ScanOne(r, q), !.todo = @ \ {q}], "scan")
      BY <2>3 DEF Scan
    <3>2. [r EXCEPT !.scanned[q] = ScanOne(r, q), !.todo = @ \ {q}].caps = r.caps
      BY <1>1 DEF Fields
    <3> QED BY <2>3, <3>1, <3>2 DEF Scan
  <2>4. CASE EndScan(p)
    <3>1. \/ Privately(p, Result(r), "done")
          \/ \E todo : Privately(p, [r EXCEPT !.todo = todo], "capture")
          \/ Privately(p, r, "begin")
      BY <2>4 DEF EndScan
    <3>2. \A todo : [r EXCEPT !.todo = todo].caps = r.caps
      BY <1>1 DEF Fields
    <3>3. pc[p] = "scan"
      BY <2>4 DEF EndScan
    <3> QED BY <3>1, <3>2, <3>3
  <2> QED BY <2>1, <2>2, <2>3, <2>4
<1> HIDE DEF r
<1>3. CaptureFits(db, s, l)
  BY <1>1, <1>2 DEF CaptureFits
<1>4. Covered(db, s, l)
  BY <1>1, <1>2 DEF Covered, AfterWrite, Embedding
<1> QED BY <1>2, <1>3, <1>4, PrivatelySolo

\* Capturing a path names the row that is there.
LEMMA CaptureCovers ==
    ASSUME IInv, AInv, Alone, OneModel, NEW p \in Proc, Capture(p)
    PROVE  AInv'
<1> DEFINE r == run[p]
<1>1. /\ DOMAIN r = Fields /\ pc[p] = "capture" /\ CaptureFits(db, r, "capture")
      /\ Covered(db, r, "capture") /\ Sound(db)
  BY RunFields DEF IInv, RunInv, RunType, AInv, Capture, Good
<1>2. CASE Privately(p, r, "begin")
  <2>1. CaptureFits(db, r, "begin") /\ Covered(db, r, "begin")
    BY <1>1 DEF CaptureFits, Covered, AfterWrite, Embedding
  <2> QED BY <1>2, <2>1, PrivatelySolo
<1>3. ASSUME NEW q, Privately(p, [r EXCEPT !.caps[q] = CaptureOf(q, r.model), !.todo = @ \ {q}], "capture")
      PROVE  AInv'
  <2> DEFINE cap == CaptureOf(q, r.model)
             s == [r EXCEPT !.caps[q] = cap, !.todo = @ \ {q}]
  <2>1. ASSUME cap.file # 0
        PROVE  \E g \in db.files : g.path = q /\ g.id = cap.file /\ cap.syms = Ids(SymbolsIn(db, {g.id}))
    <3> DEFINE fids == Ids(FileAt(db, q))
    <3>1. fids # {}
      BY <2>1 DEF CaptureOf, NoCapture
    <3>2. PICK g \in db.files : g.path = q /\ g.id \in fids
      BY <3>1 DEF Ids, FileAt
    <3>3. fids = {g.id}
      BY <1>1, <3>2 DEF Ids, FileAt, Sound, Consistent, UniquePaths
    <3> DEFINE chosen == CHOOSE i \in fids : TRUE
    <3>4. cap.file = chosen /\ cap.syms = Ids(SymbolsIn(db, fids))
      BY <3>1 DEF CaptureOf
    <3>5. chosen \in fids
      BY <3>1
    <3> QED BY <3>2, <3>3, <3>4, <3>5
  <2> HIDE DEF cap, r
  <2>2. s.caps = [r.caps EXCEPT ![q] = cap]
    BY <1>1 DEF Fields
  <2> HIDE DEF s
  <2>3. DOMAIN r.caps = Path
    BY <1>1 DEF CaptureFits
  <2>4. DOMAIN s.caps = Path /\ \A x \in Path : s.caps[x] = IF x = q THEN cap ELSE r.caps[x]
    BY <2>2, <2>3
  <2>5. CaptureFits(db, s, "capture")
    <3>1. ASSUME NEW x \in Path, s.caps[x].file # 0
          PROVE  \E g \in db.files : /\ g.path = x /\ g.id = s.caps[x].file
                                     /\ s.caps[x].syms = Ids(SymbolsIn(db, {g.id}))
      <4>1. CASE x = q
        BY <2>1, <2>4, <3>1, <4>1
      <4>2. CASE x # q
        <5>1. s.caps[x] = r.caps[x]
          BY <2>4, <4>2
        <5> QED BY <1>1, <3>1, <5>1 DEF CaptureFits
      <4> QED BY <4>1, <4>2
    <3> QED BY <2>4, <3>1 DEF CaptureFits
  <2>6. Covered(db, s, "capture")
    BY <1>1 DEF Covered, AfterWrite, Embedding
  <2> QED BY <1>3, <2>5, <2>6, PrivatelySolo DEF s, cap, r
<1> QED BY <1>2, <1>3 DEF Capture

\* In the write transaction nothing is committed.
LEMMA WritingCovers ==
    ASSUME IInv, AInv, Alone, OneModel, NEW p \in Proc, BeginWrite(p) \/ DropGone(p) \/ PutNext(p)
    PROVE  AInv'
<1> DEFINE r == run[p]
<1>1. /\ DOMAIN r = Fields /\ CaptureFits(db, r, pc[p]) /\ Covered(db, r, pc[p])
  BY RunFields DEF IInv, RunInv, RunType, AInv
<1>2. pc[p] \in {"begin", "write"} /\ pc'[p] = "write" /\ db' = db /\ run'[p].caps = r.caps
  <2>1. CASE BeginWrite(p)
    <3>1. /\ run' = [run EXCEPT ![p].gone = IF run[p].mode = "incremental" THEN Gone(run[p]) ELSE {},
                                ![p].todo = Parsed(run[p])]
          /\ pc' = [pc EXCEPT ![p] = "write"] /\ db' = db /\ pc[p] = "begin"
      BY <2>1 DEF BeginWrite, OpenWrite
    <3>2. run'[p].caps = r.caps
      BY <1>1, <3>1 DEF IInv, Fields
    <3> QED BY <3>1, <3>2 DEF IInv
  <2>2. CASE DropGone(p)
    <3>1. PICK q, d : Writing(p, d, [r EXCEPT !.gone = @ \ {q}])
      BY <2>2 DEF DropGone
    <3>2. [r EXCEPT !.gone = @ \ {q}].caps = r.caps
      BY <1>1 DEF Fields
    <3> QED BY <2>2, <3>1, <3>2 DEF DropGone, Writing, IInv
  <2>3. CASE PutNext(p)
    <3>1. PICK q, d : Writing(p, d, [r EXCEPT !.todo = @ \ {q}])
      BY <2>3 DEF PutNext
    <3>2. [r EXCEPT !.todo = @ \ {q}].caps = r.caps
      BY <1>1 DEF Fields
    <3> QED BY <2>3, <3>1, <3>2 DEF PutNext, Writing, IInv
  <2> QED BY <2>1, <2>2, <2>3
<1> HIDE DEF r
<1>3. CaptureFits(db, run'[p], "write")
  BY <1>1, <1>2 DEF CaptureFits
<1>4. Covered(db, run'[p], "write")
  BY <1>1, <1>2 DEF Covered, AfterWrite, Embedding
<1>5. CaptureFits(db', run'[p], pc'[p]) /\ Covered(db', run'[p], pc'[p])
  BY <1>2, <1>3, <1>4
<1> QED BY <1>5, SoloStep

\* The commit: a path the run has not parsed keeps its row, its symbols and their vectors,
\* and what was captured names none of them, as it names rows that are replaced or gone.
LEMMA CommitCovers ==
    ASSUME IInv, RInv, AInv, Alone, OneModel, NEW p \in Proc, CommitWrite(p)
    PROVE  AInv'
<1> DEFINE r == run[p]
           d == SetIndexState(work)
<1>1. /\ pc[p] = "write" /\ r.gone = {} /\ r.todo = {}
      /\ db' = d /\ run' = [q \in Proc |-> IF q = p THEN r ELSE Disturbed(q)]
      /\ pc' = [pc EXCEPT ![p] = "graph"]
  BY DEF CommitWrite, Commit
<1>2. db' = d /\ run'[p] = r /\ pc'[p] = "graph"
  BY <1>1 DEF IInv
<1>3. /\ d.files = work.files /\ d.symbols = work.symbols /\ d.vecs = work.vecs
      /\ Sound(db) /\ Sound(work)
  BY SetIndexStateTables DEF IInv, Good
<1>4. WriteFits(db, work, r) /\ CaptureFits(db, r, "write") /\ Covered(db, r, "write")
  BY <1>1 DEF RInv, Knows, Sole, StoreFits, AInv
<1> HIDE DEF r, d
<1>5. ASSUME NEW f \in d.files, f.path \notin Parsed(r)
      PROVE  /\ f \in db.files /\ f.path \notin Cleared(r)
             /\ SymbolsIn(d, {f.id}) = SymbolsIn(db, {f.id})
  <2>1. f.path \in Path /\ f \in FileAt(work, f.path)
    BY <1>3, <1>5 DEF Sound, FileRow, FileAt
  <2>2. IF f.path \in Cleared(r) THEN FileAt(work, f.path) = {} ELSE Untouched(db, work, f.path)
    BY <1>4, <1>5, <2>1 DEF WriteFits
  <2>3. f.path \notin Cleared(r) /\ Untouched(db, work, f.path)
    BY <2>1, <2>2
  <2>4. f \in FileAt(db, f.path) /\ SymbolsIn(work, {f.id}) = SymbolsIn(db, {f.id})
    BY <2>1, <2>3 DEF Untouched
  <2> QED BY <1>3, <2>3, <2>4 DEF FileAt, SymbolsIn
<1>6. Covered(d, r, "graph")
  <2>1. SUFFICES ASSUME NEW f \in d.files, NEW m \in Embedders, f.path \notin Parsed(r)
                 PROVE  FileEmbedded(d, f, m)
    BY DEF Covered, AfterWrite
  <2>2. f \in db.files /\ SymbolsIn(d, {f.id}) = SymbolsIn(db, {f.id})
    BY <1>5, <2>1
  <2>3. FileEmbedded(db, f, m)
    BY <1>4, <2>2 DEF Covered, AfterWrite, Embedding
  <2>4. d.vecs = db.vecs
    BY <1>3, <1>4 DEF WriteFits
  <2> QED BY <2>2, <2>3, <2>4, EmbeddedKept DEF VectorsOf
<1>7. CaptureFits(d, r, "graph")
  <2>1. SUFFICES ASSUME NEW q \in Captured(r), NEW f \in d.files, f.path \notin Parsed(r)
                 PROVE  /\ f.id # r.caps[q].file
                        /\ \A s \in SymbolsIn(d, {f.id}) : s.id \notin r.caps[q].syms
    BY DEF CaptureFits
  <2>2. /\ q \in Path /\ r.caps[q].file # 0
        /\ q \in Parsed(r) \/ (r.mode = "incremental" /\ q \in Gone(r))
    BY DEF Captured, Parsed, Gone
  <2>3. PICK g \in db.files : /\ g.path = q /\ g.id = r.caps[q].file
                              /\ r.caps[q].syms = Ids(SymbolsIn(db, {g.id}))
    BY <1>4, <2>2 DEF CaptureFits
  <2>4. f \in db.files /\ f.path \notin Cleared(r) /\ SymbolsIn(d, {f.id}) = SymbolsIn(db, {f.id})
    BY <1>5, <2>1
  <2>5. f.path # q
    <3>1. r.mode = "incremental" => Cleared(r) = Gone(r) \ r.gone
      BY DEF Cleared
    <3>2. r.gone = {}
      BY <1>1 DEF r
    <3> QED BY <2>1, <2>2, <2>4, <3>1, <3>2
  <2>6. f.id # g.id
    BY <1>3, <2>3, <2>4, <2>5 DEF Sound, Consistent, UniqueIds
  <2>7. ASSUME NEW s \in SymbolsIn(d, {f.id}), s.id \in r.caps[q].syms PROVE FALSE
    <3>1. s \in db.symbols /\ s.file = f.id
      BY <2>4, <2>7 DEF SymbolsIn
    <3>2. PICK x \in db.symbols : x.file = g.id /\ x.id = s.id
      BY <2>3, <2>7 DEF Ids, SymbolsIn
    <3> QED BY <1>3, <2>6, <3>1, <3>2 DEF Sound, Consistent, UniqueIds
  <2> QED BY <2>3, <2>6, <2>7
<1>8. CaptureFits(db', run'[p], pc'[p]) /\ Covered(db', run'[p], pc'[p])
  BY <1>2, <1>6, <1>7
<1> QED BY <1>8, SoloStep

\* A clean run leaves no file.
LEMMA CleanCovers ==
    ASSUME IInv, RInv, AInv, Alone, OneModel, NEW p \in Proc, Clean(p)
    PROVE  AInv'
<1> DEFINE d == SetIndexState(ClearIndex(db))
<1>1. pc[p] = "clean" /\ run[p].model = NoModel /\ Sound(db)
  BY DEF Clean, RInv, Knows, ScanFits, IInv, Good
<1>2. Publishing(p, d, Result(run[p]), "done")
  BY <1>1 DEF Clean
<1>3. d.files = {}
  BY <1>1, ClearIndexSound, ClearIndexTables, SetIndexStateTables
<1> HIDE DEF d
<1>4. CaptureFits(d, Result(run[p]), "done") /\ Covered(d, Result(run[p]), "done")
  BY <1>3 DEF CaptureFits, Covered
<1> QED BY <1>2, <1>4, PublishingSolo

\* Reading for the graph changes nothing.
LEMMA ReadingCovers ==
    ASSUME IInv, AInv, Alone, OneModel, NEW p \in Proc, ReadFiles(p) \/ ReadImports(p)
    PROVE  AInv'
<1> DEFINE r == run[p]
<1>1. /\ DOMAIN r = Fields /\ CaptureFits(db, r, pc[p]) /\ Covered(db, r, pc[p])
  BY RunFields DEF IInv, RunInv, RunType, AInv
<1>2. PICK s, l : /\ Privately(p, s, l) /\ pc[p] \in {"graph", "imports"} /\ l \in {"imports", "link"}
                  /\ s.caps = r.caps /\ s.scanned = r.scanned /\ s.mode = r.mode
                  /\ s.existing = r.existing /\ s.cands = r.cands /\ s.todo = r.todo
  <2>1. CASE ReadFiles(p)
    <3> DEFINE rows == {[id |-> f.id, path |-> f.path] : f \in db.files}
               s == [r EXCEPT !.files = rows]
    <3>1. pc[p] = "graph" /\ Privately(p, s, "imports")
      BY <2>1 DEF ReadFiles
    <3> HIDE DEF rows, r
    <3>2. /\ s.caps = r.caps /\ s.scanned = r.scanned /\ s.mode = r.mode
          /\ s.existing = r.existing /\ s.cands = r.cands /\ s.todo = r.todo
      BY <1>1 DEF Fields
    <3> QED BY <3>1, <3>2 DEF r
  <2>2. CASE ReadImports(p)
    <3> DEFINE s == [r EXCEPT !.imports = Imports(db)]
    <3>1. pc[p] = "imports" /\ Privately(p, s, "link")
      BY <2>2 DEF ReadImports
    <3> HIDE DEF r
    <3>2. /\ s.caps = r.caps /\ s.scanned = r.scanned /\ s.mode = r.mode
          /\ s.existing = r.existing /\ s.cands = r.cands /\ s.todo = r.todo
      BY <1>1 DEF Fields
    <3> QED BY <3>1, <3>2 DEF r
  <2> QED BY <2>1, <2>2
<1> HIDE DEF r
<1>3. CaptureFits(db, s, pc[p])
  BY <1>1, <1>2, CaptureKept
<1>4. CaptureFits(db, s, l)
  BY <1>2, <1>3 DEF CaptureFits
<1>5. Parsed(s) = Parsed(r)
  BY <1>2 DEF Parsed
<1>6. Covered(db, s, l)
  BY <1>1, <1>2, <1>5 DEF Covered, AfterWrite
<1> QED BY <1>2, <1>4, <1>6, PrivatelySolo

\* The graph changes no row, and what was captured is what is left to purge.
LEMMA WriteGraphCovers ==
    ASSUME IInv, RInv, AInv, Alone, OneModel, NEW p \in Proc, WriteGraph(p)
    PROVE  AInv'
<1> DEFINE r == run[p]
           d == ReplaceGraph(db, Edges(r))
           s == [[r EXCEPT !.files = {}, !.imports = {}] EXCEPT !.todo = Captured([r EXCEPT !.files = {}, !.imports = {}])]
<1>1. /\ DOMAIN r = Fields /\ pc[p] = "link" /\ CaptureFits(db, r, "link") /\ Covered(db, r, "link")
      /\ Sound(db) /\ ScanFits(r, "link")
  BY RunFields DEF IInv, RunInv, RunType, AInv, WriteGraph, Good, RInv, Knows
<1>2. r.model # NoModel
  BY <1>1 DEF ScanFits, AfterScan, AfterWrite, OneModel
<1>3. Publishing(p, d, s, "purge")
  BY <1>2 DEF WriteGraph
<1>4. d.files = db.files /\ d.symbols = db.symbols /\ d.vecs = db.vecs
  BY <1>1 DEF Sound, Tables, ReplaceGraph
<1> HIDE DEF r, d
<1> DEFINE t == [r EXCEPT !.files = {}, !.imports = {}]
<1>5. /\ t.caps = r.caps /\ t.scanned = r.scanned /\ t.mode = r.mode
      /\ t.existing = r.existing /\ t.cands = r.cands /\ DOMAIN t = Fields
  BY <1>1 DEF Fields
<1> HIDE DEF t
<1>6. /\ s.caps = t.caps /\ s.scanned = t.scanned /\ s.mode = t.mode
      /\ s.existing = t.existing /\ s.cands = t.cands /\ s.todo = Captured(t)
  BY <1>5 DEF Fields, t
<1> HIDE DEF s
<1>7. Parsed(s) = Parsed(r) /\ Parsed(t) = Parsed(r) /\ Gone(s) = Gone(r) /\ Gone(t) = Gone(r)
  BY <1>5, <1>6 DEF Parsed, Gone
<1>8. Captured(s) = Captured(r) /\ Captured(t) = Captured(r)
  BY <1>5, <1>6, <1>7 DEF Captured
<1>9. \A fids : SymbolsIn(d, fids) = SymbolsIn(db, fids)
  BY <1>4 DEF SymbolsIn
<1>10. CaptureFits(d, s, "purge")
  <2>1. \A q \in Captured(r), f \in db.files : f.path \in Parsed(r) \/
            /\ f.id # r.caps[q].file
            /\ \A x \in SymbolsIn(db, {f.id}) : x.id \notin r.caps[q].syms
    BY <1>1 DEF CaptureFits
  <2>2. s.caps = r.caps /\ s.todo = Captured(s)
    BY <1>5, <1>6, <1>8
  <2> QED BY <1>4, <1>7, <1>8, <1>9, <2>1, <2>2 DEF CaptureFits
<1>11. Covered(d, s, "purge")
  BY <1>1, <1>4, <1>7, EmbeddedSame DEF Covered, AfterWrite, Embedding
<1> QED BY <1>3, <1>10, <1>11, PublishingSolo

\* The graph that was resolved from the rows there are never fails.
LEMMA NoConflict == ASSUME IInv, RInv, Alone, NEW p \in Proc, GraphConflict(p) PROVE FALSE
<1> DEFINE edges == Edges(run[p])
<1>1. /\ pc[p] = "link" /\ ~EdgesHaveFiles(db, edges)
      /\ db.files \subseteq FileRow /\ UniqueIds(db.files)
  BY DEF GraphConflict, IInv, Good, Sound, Consistent
<1>2. /\ run[p].files = {[id |-> f.id, path |-> f.path] : f \in db.files}
      /\ run[p].imports = Imports(db)
  BY <1>1 DEF RInv, Knows, Sole, StoreFits, EdgesFit
<1>3. edges = Resolve(db.files, Imports(db))
  BY <1>2, ResolvedFromRows DEF Edges
<1> HIDE DEF edges
<1>4. ASSUME NEW e \in edges PROVE {e[1], e[2]} \subseteq Ids(db.files)
  BY <1>1, <1>3, ResolvedJoins DEF Ids, MayJoin
<1> QED BY <1>1, <1>4 DEF EdgesHaveFiles

\* What the only process knows while it embeds.
LEMMA EmbeddingFacts ==
    ASSUME IInv, RInv, AInv, Alone, OneModel, NEW p \in Proc, pc[p] \in Embedding
    PROVE  /\ RunType(run[p]) /\ DOMAIN run[p] = Fields /\ Sound(db)
           /\ CaptureFits(db, run[p], pc[p]) /\ Covered(db, run[p], pc[p])
           /\ \A m \in Embedders : m = run[p].model
           /\ EmbedFits(db, run[p], pc[p])
<1>1. /\ RunType(run[p]) /\ DOMAIN run[p] = Fields /\ Sound(db)
      /\ CaptureFits(db, run[p], pc[p]) /\ Covered(db, run[p], pc[p])
      /\ Knows(db, work, run[p], pc[p])
  BY RunFields DEF IInv, RunInv, RunType, Good, AInv, RInv
<1>2. run[p].model \in Embedders
  <2>1. run[p].mode \notin {"status", "clean"}
    BY <1>1 DEF Knows, ScanFits, AfterScan, AfterWrite
  <2> QED BY <1>1, <2>1 DEF Knows, ScanFits, AfterScan, AfterWrite
<1>3. EmbedFits(db, run[p], pc[p])
  BY <1>1 DEF Knows, Sole
<1> QED BY <1>1, <1>2, <1>3 DEF OneModel

\* Purging what was captured leaves the files alone that the run has not rewritten.
LEMMA PurgingCovers ==
    ASSUME IInv, RInv, AInv, Alone, OneModel, NEW p \in Proc,
           PurgeSymbols(p) \/ PurgeFile(p) \/ EndPurge(p)
    PROVE  AInv'
<1> DEFINE r == run[p]
           x == Min(r.todo)
<1>1. pc[p] \in {"purge", "purgeFile"}
  BY DEF PurgeSymbols, PurgeFile, EndPurge
<1>2. /\ RunType(r) /\ DOMAIN r = Fields /\ Sound(db)
      /\ CaptureFits(db, r, pc[p]) /\ Covered(db, r, pc[p])
  BY <1>1, EmbeddingFacts DEF Embedding
<1>3. r.todo # {} => x \in r.todo
  BY <1>2, CatalogAssumption, MinIsLeast DEF RunType
<1>4. r.todo # {} => \A f \in db.files : f.path \in Parsed(r) \/
                        /\ f.id # r.caps[x].file
                        /\ \A s \in SymbolsIn(db, {f.id}) : s.id \notin r.caps[x].syms
  BY <1>1, <1>2, <1>3 DEF CaptureFits
<1>5. CASE PurgeSymbols(p)
  <2> DEFINE syms == r.caps[x].syms
             d == DeleteVectors(db, "symbol", syms)
  <2>1. pc[p] = "purge" /\ r.todo # {}
    BY <1>5 DEF PurgeSymbols
  <2>2. Privately(p, r, "purgeFile") \/ Publishing(p, d, r, "purgeFile")
    BY <1>5 DEF PurgeSymbols
  <2>3. CaptureFits(db, r, "purgeFile") /\ Covered(db, r, "purgeFile")
    BY <1>2, <2>1 DEF CaptureFits, Covered, AfterWrite, Embedding
  <2>4. d.files = db.files /\ d.symbols = db.symbols
    BY <1>2, DeleteVectorsTables
  <2>5. d.vecs = {v \in db.vecs : ~(v.owner = "symbol" /\ v.id \in syms)}
    BY <1>2 DEF DeleteVectors, Sound, Tables
  <2> HIDE DEF d, r, x
  <2>6. CaptureFits(d, r, "purgeFile")
    BY <2>3, <2>4, CaptureKept
  <2>7. Covered(d, r, "purgeFile")
    <3>1. SUFFICES ASSUME NEW f \in db.files, NEW m \in Embedders, f.path \notin Parsed(r)
                   PROVE  FileEmbedded(d, f, m)
      BY <2>4 DEF Covered, AfterWrite, Embedding
    <3>2. FileEmbedded(db, f, m)
      BY <2>3, <3>1 DEF Covered
    <3>3. \A s \in SymbolsIn(db, {f.id}) : s.id \notin syms
      BY <1>4, <2>1, <3>1
    <3> HIDE DEF syms
    <3>4. \A s \in SymbolsIn(db, {f.id}) : VectorsOf(d, "symbol", s.id, m) = VectorsOf(db, "symbol", s.id, m)
      BY <2>5, <3>3 DEF VectorsOf
    <3>5. VectorsOf(d, "file", f.id, m) = VectorsOf(db, "file", f.id, m)
      BY <2>5 DEF VectorsOf
    <3>6. SymbolsIn(d, {f.id}) = SymbolsIn(db, {f.id})
      BY <2>4 DEF SymbolsIn
    <3> QED BY <3>2, <3>4, <3>5, <3>6, EmbeddedKept
  <2> QED BY <2>2, <2>3, <2>6, <2>7, PrivatelySolo, PublishingSolo
<1>6. CASE PurgeFile(p)
  <2> DEFINE i == r.caps[x].file
             d == DeleteVectors(db, "file", {i})
             s == [r EXCEPT !.todo = @ \ {x}]
  <2>1. pc[p] = "purgeFile" /\ Publishing(p, d, s, "purge")
    BY <1>6 DEF PurgeFile
  <2>2. r.todo # {} /\ r.todo \subseteq Captured(r)
    BY <1>2, <2>1 DEF CaptureFits
  <2>3. d.files = db.files /\ d.symbols = db.symbols
    BY <1>2, DeleteVectorsTables
  <2>4. d.vecs = {v \in db.vecs : ~(v.owner = "file" /\ v.id \in {i})}
    BY <1>2 DEF DeleteVectors, Sound, Tables
  <2> HIDE DEF d, r, x
  <2>5. /\ s.caps = r.caps /\ s.scanned = r.scanned /\ s.mode = r.mode
        /\ s.existing = r.existing /\ s.cands = r.cands /\ s.todo = r.todo \ {x}
    BY <1>2 DEF Fields
  <2> HIDE DEF s
  <2>6. Parsed(s) = Parsed(r) /\ Gone(s) = Gone(r)
    BY <2>5 DEF Parsed, Gone
  <2>7. Captured(s) = Captured(r)
    BY <2>5, <2>6 DEF Captured
  <2>8. CaptureFits(d, s, "purge")
    <3>1. \A fids : SymbolsIn(d, fids) = SymbolsIn(db, fids)
      BY <2>3 DEF SymbolsIn
    <3> QED BY <1>2, <2>1, <2>2, <2>3, <2>5, <2>6, <2>7, <3>1 DEF CaptureFits
  <2>9. Covered(d, s, "purge")
    <3>1. SUFFICES ASSUME NEW f \in db.files, NEW m \in Embedders, f.path \notin Parsed(r)
                   PROVE  FileEmbedded(d, f, m)
      BY <2>3, <2>6 DEF Covered, AfterWrite, Embedding
    <3>2. FileEmbedded(db, f, m)
      BY <1>2, <3>1 DEF Covered
    <3>3. f.id # i
      BY <1>4, <2>2, <3>1
    <3> HIDE DEF i
    <3>4. \A t \in SymbolsIn(db, {f.id}) : VectorsOf(d, "symbol", t.id, m) = VectorsOf(db, "symbol", t.id, m)
      BY <2>4 DEF VectorsOf
    <3>5. VectorsOf(d, "file", f.id, m) = VectorsOf(db, "file", f.id, m)
      BY <2>4, <3>3 DEF VectorsOf
    <3>6. SymbolsIn(d, {f.id}) = SymbolsIn(db, {f.id})
      BY <2>3 DEF SymbolsIn
    <3> QED BY <3>2, <3>4, <3>5, <3>6, EmbeddedKept
  <2> QED BY <2>1, <2>8, <2>9, PublishingSolo
<1>7. CASE EndPurge(p)
  <2> DEFINE s == [r EXCEPT !.todo = Parsed(r)]
  <2>1. Privately(p, s, "plan")
    BY <1>7 DEF EndPurge
  <2> HIDE DEF r
  <2>2. s.scanned = r.scanned
    BY <1>2 DEF Fields
  <2> HIDE DEF s
  <2>3. Parsed(s) = Parsed(r)
    BY <2>2 DEF Parsed
  <2>4. CaptureFits(db, s, "plan") /\ Covered(db, s, "plan")
    BY <1>1, <1>2, <2>3 DEF CaptureFits, Covered, AfterWrite, Embedding
  <2> QED BY <2>1, <2>4, PrivatelySolo
<1> QED BY <1>5, <1>6, <1>7

\* Planning changes nothing that is stored.
LEMMA PlanningCovers ==
    ASSUME IInv, RInv, AInv, Alone, OneModel, NEW p \in Proc, Plan(p) \/ EmbedBatch(p)
    PROVE  AInv'
<1> DEFINE r == run[p]
<1>1. pc[p] = "plan"
  BY DEF Plan, EmbedBatch
<1>2. DOMAIN r = Fields /\ Covered(db, r, "plan")
  BY <1>1, EmbeddingFacts DEF Embedding
<1>3. PICK s, l : Privately(p, s, l) /\ l \in {"plan", "store"} /\ s.scanned = r.scanned
  <2>1. CASE Plan(p)
    <3> DEFINE x == Min(r.todo)
               t == [r EXCEPT !.todo = @ \ {x}]
    <3>1. Privately(p, t, "plan") \/ \E fid, ids : Privately(p, PlanFile(t, x, fid, ids), "plan")
      BY <2>1 DEF Plan
    <3> HIDE DEF r, x
    <3>2. t.scanned = r.scanned /\ DOMAIN t = Fields
      BY <1>2 DEF Fields
    <3> HIDE DEF t
    <3>3. \A fid, ids : PlanFile(t, x, fid, ids).scanned = t.scanned
      BY <3>2 DEF PlanFile, Fields
    <3> QED BY <3>1, <3>2, <3>3 DEF r
  <2>2. CASE EmbedBatch(p)
    BY <2>2 DEF EmbedBatch
  <2> QED BY <2>1, <2>2
<1> HIDE DEF r
<1>4. Parsed(s) = Parsed(r)
  BY <1>3 DEF Parsed
<1>5. CaptureFits(db, s, l) /\ Covered(db, s, l)
  BY <1>2, <1>3, <1>4 DEF CaptureFits, Covered, AfterWrite, Embedding
<1> QED BY <1>3, <1>5, PrivatelySolo

\* The owner of a vector is no file that a run has not rewritten, and no symbol of one.
Rewritten(d, r, owner, i) ==
    \A f \in d.files : f.path \in Parsed(r) \/
        /\ owner = "file" => f.id # i
        /\ owner = "symbol" => \A x \in SymbolsIn(d, {f.id}) : x.id # i

\* A stored vector that is not of a file the run left alone.
LEMMA StoredCovers ==
    ASSUME IInv, RInv, AInv, Alone, OneModel, NEW p \in Proc, pc[p] \in {"plan", "store"},
           NEW o \in {"file", "symbol"}, NEW i, NEW of, NEW s, s.scanned = run[p].scanned,
           Publishing(p, UpsertVector(db, o, i, run[p].model, of), s, pc[p]),
           Rewritten(db, run[p], o, i)
    PROVE  AInv'
<1> DEFINE r == run[p]
           d == UpsertVector(db, o, i, r.model, of)
           l == pc[p]
<1>1. Sound(db) /\ Covered(db, r, l) /\ \A m \in Embedders : m = r.model
  BY EmbeddingFacts DEF Embedding
<1>2. /\ d.files = db.files /\ d.symbols = db.symbols
      /\ \A o2, i2, truth : (o2 # o \/ i2 # i) /\ Embedded(db, o2, i2, truth, r.model)
            => Embedded(d, o2, i2, truth, r.model)
  BY <1>1, UpsertEmbeds
<1>3. Publishing(p, d, s, l) /\ l \in {"plan", "store"}
  OBVIOUS
<1>4. \A f \in db.files : f.path \in Parsed(r) \/
         /\ o = "file" => f.id # i
         /\ o = "symbol" => \A x \in SymbolsIn(db, {f.id}) : x.id # i
  BY DEF Rewritten
<1>5. Parsed(s) = Parsed(r)
  BY DEF Parsed
<1> HIDE DEF r, d, l
<1>6. CaptureFits(d, s, l)
  BY <1>3 DEF CaptureFits
<1>7. Covered(d, s, l)
  <2>1. SUFFICES ASSUME NEW f \in db.files, NEW m \in Embedders, f.path \notin Parsed(r)
                 PROVE  FileEmbedded(d, f, m)
    BY <1>2, <1>3, <1>5 DEF Covered, AfterWrite, Embedding
  <2>2. FileEmbedded(db, f, r.model) /\ m = r.model
    BY <1>1, <2>1 DEF Covered
  <2>3. Embedded(d, "file", f.id, TruthOfFile(f), r.model)
    BY <1>2, <1>4, <2>1, <2>2 DEF FileEmbedded
  <2>4. ASSUME NEW x \in SymbolsIn(d, {f.id})
        PROVE  Embedded(d, "symbol", x.id, TruthOfSymbol(x), r.model)
    <3>1. x \in SymbolsIn(db, {f.id})
      BY <1>2 DEF SymbolsIn
    <3> QED BY <1>2, <1>4, <2>1, <2>2, <3>1 DEF FileEmbedded
  <2> QED BY <2>2, <2>3, <2>4 DEF FileEmbedded
<1> QED BY <1>3, <1>6, <1>7, PublishingSolo

\* The vector of a symbol job hits no symbol of another file.
LEMMA JobHitsItsFile ==
    ASSUME NEW d, Sound(d), NEW r, NEW l, NEW j, SymbolJobFits(d, r, l, j),
           NEW f \in d.files, f.path \notin Parsed(r), NEW x \in SymbolsIn(d, {f.id})
    PROVE  x.id # j.id
<1>1. PICK g \in d.files, s \in d.symbols : g.path \in Due(r, l) /\ s.file = g.id /\ j.id = s.id
  BY DEF SymbolJobFits
<1>2. x \in d.symbols /\ x.file = f.id
  BY DEF SymbolsIn
<1>3. g.path \in Parsed(r)
  BY <1>1 DEF Due
<1> QED BY <1>1, <1>2, <1>3 DEF Sound, Consistent, UniqueIds

\* Every vector stored is of a file the run has rewritten.
LEMMA StoringCovers ==
    ASSUME IInv, RInv, AInv, Alone, OneModel, NEW p \in Proc,
           CarryVector(p) \/ StoreSymbol(p) \/ StoreFallback(p) \/ StoreMean(p)
    PROVE  AInv'
<1> DEFINE r == run[p]
<1>1. pc[p] \in {"plan", "store"}
  BY DEF CarryVector, StoreSymbol, StoreFallback, StoreMean
<1>2. DOMAIN r = Fields /\ Sound(db) /\ PlanFits(db, r, pc[p])
  BY <1>1, EmbeddingFacts DEF Embedding, EmbedFits
<1>3. CASE CarryVector(p)
  <2>1. PICK j \in First(r.carry) : Store(p, "symbol", j.id, j.of, [r EXCEPT !.carry = @ \ {j}])
    BY <1>3 DEF CarryVector
  <2> DEFINE s == [r EXCEPT !.carry = @ \ {j}]
  <2>2. s.scanned = r.scanned
    BY <1>2 DEF Fields
  <2>3. SymbolJobFits(db, r, pc[p], j)
    BY <1>2, <2>1 DEF First, PlanFits
  <2>4. Rewritten(db, r, "symbol", j.id)
    BY <1>2, <2>3, JobHitsItsFile DEF Rewritten
  <2>5. Publishing(p, UpsertVector(db, "symbol", j.id, r.model, j.of), s, pc[p])
    BY <2>1 DEF Store
  <2> HIDE DEF s
  <2> QED BY <1>1, <2>2, <2>4, <2>5, StoredCovers
<1>4. CASE StoreSymbol(p)
  <2>1. PICK j \in First(r.syms) :
          Store(p, "symbol", j.id, j.of, [r EXCEPT !.syms = @ \ {j}, !.slots[j.file][j.slot] = {j.of}])
    BY <1>4 DEF StoreSymbol
  <2> DEFINE s == [r EXCEPT !.syms = @ \ {j}, !.slots[j.file][j.slot] = {j.of}]
  <2>2. s.scanned = r.scanned
    BY <1>2 DEF Fields
  <2>3. SymbolJobFits(db, r, pc[p], j)
    BY <1>2, <2>1 DEF First, PlanFits
  <2>4. Rewritten(db, r, "symbol", j.id)
    BY <1>2, <2>3, JobHitsItsFile DEF Rewritten
  <2>5. Publishing(p, UpsertVector(db, "symbol", j.id, r.model, j.of), s, pc[p])
    BY <2>1 DEF Store
  <2> HIDE DEF s
  <2> QED BY <1>1, <2>2, <2>4, <2>5, StoredCovers
<1>5. CASE StoreFallback(p)
  <2>1. PICK j \in First(r.fallbacks) : Store(p, "file", j.id, j.of, [r EXCEPT !.fallbacks = @ \ {j}])
    BY <1>5 DEF StoreFallback
  <2> DEFINE s == [r EXCEPT !.fallbacks = @ \ {j}]
  <2>2. s.scanned = r.scanned
    BY <1>2 DEF Fields
  <2>3. FallbackFits(db, r, pc[p], j)
    BY <1>2, <2>1 DEF First, PlanFits
  <2>4. Rewritten(db, r, "file", j.id)
    BY <1>2, <2>3 DEF FallbackFits, Rewritten, Due, Sound, Consistent, UniqueIds
  <2>5. Publishing(p, UpsertVector(db, "file", j.id, r.model, j.of), s, pc[p])
    BY <2>1 DEF Store
  <2> HIDE DEF s
  <2> QED BY <1>1, <2>2, <2>4, <2>5, StoredCovers
<1>6. CASE StoreMean(p)
  <2>1. PICK fid \in Means(r) : Store(p, "file", fid, MeanVector(r.slots[fid]),
                                      [r EXCEPT !.slots = [i \in DOMAIN @ \ {fid} |-> @[i]]])
    BY <1>6 DEF StoreMean
  <2> DEFINE s == [r EXCEPT !.slots = [i \in DOMAIN @ \ {fid} |-> @[i]]]
  <2>2. s.scanned = r.scanned
    BY <1>2 DEF Fields
  <2>3. fid \in DOMAIN r.slots
    BY <2>1 DEF Means
  <2>4. Rewritten(db, r, "file", fid)
    BY <1>2, <2>3 DEF PlanFits, Rewritten, Due, Sound, Consistent, UniqueIds
  <2>5. Publishing(p, UpsertVector(db, "file", fid, r.model, MeanVector(r.slots[fid])), s, pc[p])
    BY <2>1 DEF Store
  <2> HIDE DEF s
  <2> QED BY <1>1, <2>2, <2>4, <2>5, StoredCovers
<1> QED BY <1>3, <1>4, <1>5, <1>6

\* The panic needs two runs: the slots of a file the only process plans are as many as its
\* symbols.
LEMMA NoPanic ==
    ASSUME IInv, RInv, AInv, Alone, OneModel, NEW p \in Proc, StoreAndPanic(p) PROVE FALSE
<1> DEFINE r == run[p]
<1>1. pc[p] = "store" /\ \E j \in r.syms : j.slot \notin DOMAIN r.slots[j.file]
  BY DEF StoreAndPanic, First
<1>2. PICK j \in r.syms : j.slot \notin DOMAIN r.slots[j.file]
  BY <1>1
<1>3. Sound(db) /\ PlanFits(db, r, "store")
  BY <1>1, EmbeddingFacts DEF Embedding, EmbedFits
<1> HIDE DEF r
<1>4. SymbolJobFits(db, r, "store", j) /\ j.file \in DOMAIN r.slots
  BY <1>3 DEF PlanFits
<1>5. PICK f \in db.files : /\ f.path \in Due(r, "store") /\ j.file = f.id
                            /\ j.slot \in DOMAIN SymbolsOf[f.hash.content]
  BY <1>4 DEF SymbolJobFits
<1>6. SlotsFit(r, f)
  BY <1>3, <1>4, <1>5 DEF PlanFits, FileFits
<1>7. DOMAIN r.slots[f.id] = DOMAIN SymbolsOf[f.hash.content]
  BY <1>6 DEF SlotsFit
<1> QED BY <1>2, <1>5, <1>7

\* When the run ends nothing is owed, so every file has its vectors.
LEMMA SealCovers ==
    ASSUME IInv, RInv, AInv, Alone, OneModel, NEW p \in Proc, Seal(p)
    PROVE  AInv'
<1> DEFINE r == run[p]
           d == SetEmbedInfo(db, r.model)
           s == Result(r)
<1>1. /\ pc[p] = "store" /\ Publishing(p, d, s, "done")
      /\ r.syms = {} /\ r.fallbacks = {} /\ Means(r) = {}
  BY DEF Seal
<1>2. /\ Sound(db) /\ Covered(db, r, "store") /\ PlanFits(db, r, "store")
      /\ \A m \in Embedders : m = r.model
  BY <1>1, EmbeddingFacts DEF Embedding, EmbedFits
<1>3. d.files = db.files /\ d.symbols = db.symbols /\ d.vecs = db.vecs
  BY <1>2, SetEmbedInfoTables
<1> HIDE DEF r, d, s
<1>4. ASSUME NEW f \in db.files, NEW m \in Embedders PROVE FileEmbedded(d, f, m)
  <2>1. FileEmbedded(db, f, r.model)
    <3>1. CASE f.path \in Parsed(r)
      BY <1>1, <1>2, <3>1, NothingOwed
    <3>2. CASE f.path \notin Parsed(r)
      BY <1>2, <1>4, <3>2 DEF Covered
    <3> QED BY <3>1, <3>2
  <2> QED BY <1>2, <1>3, <1>4, <2>1, EmbeddedSame
<1>5. CaptureFits(d, s, "done") /\ Covered(d, s, "done")
  BY <1>3, <1>4 DEF CaptureFits, Covered
<1> QED BY <1>1, <1>5, PublishingSolo

\* An edit changes what a run knows of the tree, not what it has captured or owes.
LEMMA EditingCovers == ASSUME IInv, AInv, Alone, OneModel, Editing PROVE AInv'
<1>1. db' = db /\ pc' = pc /\ \A p \in Proc : run'[p] = Disturbed(p)
  BY DEF Editing
<1>2. ASSUME NEW p \in Proc
      PROVE  CaptureFits(db', run'[p], pc'[p]) /\ Covered(db', run'[p], pc'[p])
  <2> DEFINE r == run[p]
             l == pc[p]
             s == [r EXCEPT !.quiet = FALSE]
  <2>1. CaptureFits(db, r, l) /\ Covered(db, r, l) /\ DOMAIN r = Fields
    BY RunFields DEF AInv, IInv, RunInv, RunType
  <2>2. CASE l = "done"
    <3>1. CaptureFits(db, NoRun, l) /\ Covered(db, NoRun, l)
      BY <2>1, <2>2 DEF CaptureFits, Covered, AfterWrite, Embedding
    <3> QED BY <1>1, <2>2, <3>1 DEF Disturbed
  <2>3. CASE l # "done"
    <3>1. run'[p] = s
      BY <1>1, <2>3 DEF Disturbed
    <3>2. pc'[p] = l
      BY <1>1
    <3> HIDE DEF r, l
    <3>3. /\ s.caps = r.caps /\ s.scanned = r.scanned /\ s.mode = r.mode
          /\ s.existing = r.existing /\ s.cands = r.cands /\ s.todo = r.todo
      BY <2>1 DEF Fields
    <3> HIDE DEF s
    <3>4. CaptureFits(db, s, l)
      BY <2>1, <3>3, CaptureKept
    <3>5. Parsed(s) = Parsed(r)
      BY <3>3 DEF Parsed
    <3>6. Covered(db, s, l)
      BY <2>1, <3>5 DEF Covered
    <3> QED BY <1>1, <3>1, <3>2, <3>4, <3>6
  <2> QED BY <2>2, <2>3
<1>3. Proc = {} => db'.files = {}
  BY <1>1 DEF AInv
<1> QED BY <1>2, <1>3 DEF AInv

\* Nobody breaks the invariant of a store only one process writes.
LEMMA NextCovers == IInv /\ RInv /\ AInv /\ [Next]_vars => AInv'
<1> SUFFICES ASSUME IInv, RInv, AInv, [Next]_vars, Alone, OneModel PROVE AInv'
  <2>1. ~(Alone /\ OneModel) => AInv'
    BY DEF AInv, Alone, OneModel
  <2> QED BY <2>1
<1>1. ASSUME NEW p \in Proc, Step(p) PROVE AInv'
  BY <1>1, ScanningCovers, CaptureCovers, WritingCovers, CommitCovers, CleanCovers, ReadingCovers,
     WriteGraphCovers, NoConflict, PurgingCovers, PlanningCovers, StoringCovers, NoPanic, SealCovers
     DEF Step
<1>2. ASSUME NEW p \in Proc, Start(p) PROVE AInv'
  BY <1>2, StartCovers
<1>3. ASSUME NEW p \in Proc, Fail(p) \/ Busy(p) PROVE FALSE
  BY <1>3 DEF Fail, OneModel, Busy, Alone, IInv
<1>4. CASE Edit \/ Stage
  BY <1>4, EditingCovers DEF Edit, Stage
<1>5. CASE UNCHANGED vars
  BY <1>5 DEF vars, AInv, Alone, OneModel
<1> QED BY <1>1, <1>2, <1>3, <1>4, <1>5 DEF Next, Rest

\* In a store only one process writes, always with one model and without being killed,
\* every file and every symbol has one vector between runs and it is the right one:
\* whatever the modes of the runs were, no vector is left on a row it was not computed
\* from and no row is left without (AllEmbedded).
THEOREM FilesStayEmbedded == Spec => [](Alone /\ OneModel => AllEmbedded)
<1>1. Init => AInv
  <2> SUFFICES ASSUME Init, Alone, OneModel PROVE AInv
    BY DEF AInv
  <2>1. db.files = {}
    BY DEF Init, EmptyCatalog
  <2>2. ASSUME NEW p \in Proc PROVE CaptureFits(db, run[p], pc[p])
    BY DEF Init, CaptureFits
  <2> QED BY <2>1, <2>2 DEF AInv, Covered
<1>2. IInv /\ AInv => (Alone /\ OneModel => AllEmbedded)
  <2> SUFFICES ASSUME IInv, AInv, Alone, OneModel, Settled,
                      NEW m \in Embedders, NEW f \in db.files
               PROVE  FileEmbedded(db, f, m)
    BY DEF AllEmbedded
  <2>1. PICK p \in Proc : Covered(db, run[p], pc[p])
    BY DEF AInv
  <2>2. pc[p] \in {"idle", "done"}
    BY DEF Settled, Running
  <2> QED BY <2>1, <2>2 DEF Covered, AfterWrite, Embedding
<1> QED BY <1>1, <1>2, NextCovers, IndexRunsKnowTheStore, PTL DEF Spec
=============================================================================
