---------------------------- MODULE PromiseProofs ----------------------------
(***************************************************************************)
(* Index runs implement IndexPromise: what searches find changes only by   *)
(* whole runs, for any number of processes, files and failures.            *)
(*                                                                         *)
(* What is found at a path is a function of the file row there (ShownFile, *)
(* NothingShown), so the statements of the write transaction can be        *)
(* followed path by path.  Progress relates the private copy of the open   *)
(* transaction to the catalog it started from; when both loops are done it *)
(* says that the copy is the catalog with the offer on top.                *)
(***************************************************************************)
EXTENDS ReindexProofs

-----------------------------------------------------------------------------
(* What a search finds *)

\* The columns of a full-text row tell what it is the row of.
LEMMA FtsRowFields ==
    ASSUME NEW d, NEW r, IsFtsRow(d, r)
    PROVE  \/ r.grain = "file" /\ \E f \in d.files : r.path = f.path /\ r.ref = f.id
           \/ /\ r.grain = "symbol"
              /\ \E f \in d.files : \E s \in SymbolsIn(d, {f.id}) : r.path = f.path /\ r.ref = s.id
<1>1. CASE \E f \in d.files : r = [path |-> f.path, grain |-> "file", ref |-> f.id]
  <2>1. PICK f \in d.files : r = [path |-> f.path, grain |-> "file", ref |-> f.id]
    BY <1>1
  <2>2. r.grain = "file" /\ r.path = f.path /\ r.ref = f.id
    BY <2>1
  <2> QED BY <2>2
<1>2. CASE \E f \in d.files : \E s \in SymbolsIn(d, {f.id}) :
              r = [path |-> f.path, grain |-> "symbol", ref |-> s.id]
  <2>1. PICK f \in d.files : \E s \in SymbolsIn(d, {f.id}) :
              r = [path |-> f.path, grain |-> "symbol", ref |-> s.id]
    BY <1>2
  <2>2. PICK s \in SymbolsIn(d, {f.id}) : r = [path |-> f.path, grain |-> "symbol", ref |-> s.id]
    BY <2>1
  <2>3. r.grain = "symbol" /\ r.path = f.path /\ r.ref = s.id
    BY <2>2
  <2> QED BY <2>3
<1> QED BY <1>1, <1>2 DEF IsFtsRow

\* A search finds nothing at a path without a row.
LEMMA NothingShown ==
    ASSUME NEW d, Sound(d), NEW q, FileAt(d, q) = {}
    PROVE  ShownAt(d, q) = ShowsNothing
<1>1. \A r \in d.fts : r.path # q
  <2>1. \A f \in d.files : f.path # q
    BY DEF FileAt
  <2>2. ASSUME NEW r, IsFtsRow(d, r) PROVE r.path # q
    <3>1. CASE \E f \in d.files : r = [path |-> f.path, grain |-> "file", ref |-> f.id]
      <4>1. PICK f \in d.files : r = [path |-> f.path, grain |-> "file", ref |-> f.id]
        BY <3>1
      <4>2. r.path = f.path
        BY <4>1
      <4> QED BY <2>1, <4>2
    <3>2. CASE \E f \in d.files : \E s \in SymbolsIn(d, {f.id}) :
                  r = [path |-> f.path, grain |-> "symbol", ref |-> s.id]
      <4>1. PICK f \in d.files : \E s \in SymbolsIn(d, {f.id}) :
                  r = [path |-> f.path, grain |-> "symbol", ref |-> s.id]
        BY <3>2
      <4>2. r.path = f.path
        BY <4>1
      <4> QED BY <2>1, <4>2
    <3> QED BY <2>2, <3>1, <3>2 DEF IsFtsRow
  <2>3. \A r \in d.fts : IsFtsRow(d, r)
    BY FtsRowsOfMembers DEF Sound, Consistent
  <2> QED BY <2>2, <2>3
<1> QED BY <1>1 DEF ShownAt, ShowsNothing

\* It finds the whole extraction of the file's content at any other.
LEMMA ShownFile ==
    ASSUME NEW d, Sound(d), NEW f \in d.files
    PROVE  ShownAt(d, f.path) = ShownOf(f.hash.content)
<1> DEFINE q == f.path
           c == f.hash.content
           hits(grain) == {r.ref : r \in {x \in d.fts : x.path = q /\ x.grain = grain}}
<1>1. /\ UniquePaths(d) /\ UniqueIds(d.files) /\ UniqueIds(d.symbols)
      /\ \A r : r \in d.fts <=> IsFtsRow(d, r)
      /\ WholeFile(d, f)
  BY FtsRowsOfMembers DEF Sound, Consistent
<1>2. hits("file") = {f.id}
  <2>1. ASSUME NEW r \in d.fts, r.path = q, r.grain = "file" PROVE r.ref = f.id
    <3>1. PICK g \in d.files : r.ref = g.id /\ r.path = g.path
      BY <1>1, <2>1, FtsRowFields
    <3> QED BY <1>1, <2>1, <3>1 DEF UniquePaths
  <2>2. [path |-> f.path, grain |-> "file", ref |-> f.id] \in d.fts
    BY <1>1 DEF IsFtsRow
  <2> QED BY <2>1, <2>2
<1>3. {x \in d.files : x.id \in hits("file")} = {f}
  BY <1>1, <1>2 DEF UniqueIds
<1>4. hits("symbol") = Ids(SymbolsIn(d, {f.id}))
  <2>1. ASSUME NEW r \in d.fts, r.path = q, r.grain = "symbol"
        PROVE  r.ref \in Ids(SymbolsIn(d, {f.id}))
    <3>1. PICK g \in d.files : \E s \in SymbolsIn(d, {g.id}) : r.ref = s.id /\ r.path = g.path
      BY <1>1, <2>1, FtsRowFields
    <3>2. g = f
      BY <1>1, <2>1, <3>1 DEF UniquePaths
    <3> QED BY <3>1, <3>2 DEF Ids
  <2>2. ASSUME NEW s \in SymbolsIn(d, {f.id}) PROVE s.id \in hits("symbol")
    <3>1. [path |-> f.path, grain |-> "symbol", ref |-> s.id] \in d.fts
      BY <1>1 DEF IsFtsRow
    <3> QED BY <3>1
  <2> QED BY <2>1, <2>2 DEF Ids
<1>5. {x \in d.symbols : x.id \in hits("symbol")} = SymbolsIn(d, {f.id})
  BY <1>1, <1>4 DEF UniqueIds, Ids, SymbolsIn
<1>6. {s.ident : s \in SymbolsIn(d, {f.id})} = {SymbolsOf[c][i].ident : i \in DOMAIN SymbolsOf[c]}
  <2>1. PICK base : SymbolsIn(d, {f.id}) = SymbolRows(f.id, base, SymbolsOf[c])
    BY <1>1 DEF WholeFile
  <2> DEFINE rows == SymbolRows(f.id, base, SymbolsOf[c])
             row(i) == [id |-> base + i - 1, file |-> f.id,
                        ident |-> SymbolsOf[c][i].ident, text |-> SymbolsOf[c][i].text]
  <2>2. rows = {row(i) : i \in DOMAIN SymbolsOf[c]}
    BY DEF SymbolRows
  <2>3. \A i : row(i).ident = SymbolsOf[c][i].ident
    OBVIOUS
  <2> HIDE DEF row
  <2>4. {s.ident : s \in rows} = {row(i).ident : i \in DOMAIN SymbolsOf[c]}
    BY <2>2
  <2> QED BY <2>1, <2>3, <2>4
<1>7. {x.hash.content : x \in {x \in d.files : x.id \in hits("file")}} = {c}
  BY <1>3
<1>8. ShownAt(d, q) = [files |-> {x.hash.content : x \in {x \in d.files : x.id \in hits("file")}},
                       symbols |-> {s.ident : s \in {x \in d.symbols : x.id \in hits("symbol")}}]
  BY DEF ShownAt
<1> HIDE DEF hits
<1> QED BY <1>5, <1>6, <1>7, <1>8 DEF ShownOf

\* Two catalogs with the same file at a path show the same there.
LEMMA SameFileShown ==
    ASSUME NEW d, Sound(d), NEW e, Sound(e), NEW q, FileAt(d, q) = FileAt(e, q)
    PROVE  ShownAt(d, q) = ShownAt(e, q)
<1>1. CASE FileAt(d, q) = {}
  BY <1>1, NothingShown
<1>2. CASE FileAt(d, q) # {}
  <2>1. PICK f : f \in d.files /\ f \in e.files /\ f.path = q
    BY <1>2 DEF FileAt
  <2> QED BY <2>1, ShownFile
<1> QED BY <1>1, <1>2

\* DeleteFileByPath hides its path and no other.
LEMMA DeleteShown ==
    ASSUME NEW d, Sound(d), NEW p, NEW q
    PROVE  ShownAt(DeleteFileByPath(d, p), q) = IF q = p THEN ShowsNothing ELSE ShownAt(d, q)
<1> DEFINE e == DeleteFileByPath(d, p)
<1>1. Sound(e) /\ FileAt(e, p) = {}
  BY DeleteFileByPathSound
<1>2. e.files = {f \in d.files : f.id \notin Ids(FileAt(d, p))}
  BY DeleteFileByPathTables DEF Sound
<1> HIDE DEF e
<1>3. q # p => FileAt(e, q) = FileAt(d, q)
  BY <1>2 DEF FileAt, Ids, Sound, Consistent, UniqueIds
<1> QED BY <1>1, <1>3, NothingShown, SameFileShown DEF e

\* PutFile shows the new content at its path and changes no other.
LEMMA PutShown ==
    ASSUME NEW d, Sound(d), NEW p \in Path, NEW h \in Hash, NEW q
    PROVE  ShownAt(PutFile(d, p, h), q) = IF q = p THEN ShownOf(h.content) ELSE ShownAt(d, q)
<1> DEFINE m == DeleteFileByPath(d, p)
           e == PutFile(d, p, h)
           new == [id |-> NextId(Ids(m.files)), path |-> p, hash |-> h]
<1>1. Sound(m) /\ Sound(e)
  BY DeleteFileByPathSound, PutFileSound
<1>2. e.files = m.files \cup {new}
  BY <1>1, InsertFileTables DEF PutFile, Sound
<1>3. ShownAt(e, p) = ShownOf(h.content)
  <2>1. new \in e.files /\ new.path = p /\ new.hash = h
    BY <1>2
  <2> QED BY <1>1, <2>1, ShownFile
<1>4. q # p => FileAt(e, q) = FileAt(m, q)
  BY <1>2 DEF FileAt
<1> HIDE DEF m, e
<1>5. q # p => ShownAt(e, q) = ShownAt(m, q)
  BY <1>1, <1>4, SameFileShown
<1>6. q # p => ShownAt(m, q) = ShownAt(d, q)
  BY DeleteShown DEF m
<1> QED BY <1>3, <1>5, <1>6 DEF e

\* Statements that leave files, symbols and full text alone change nothing a search
\* finds: the graph, the vectors, the counts, the model.
SameRows(d, e) == e.files = d.files /\ e.symbols = d.symbols /\ e.fts = d.fts

LEMMA SameRowsShown ==
    ASSUME NEW d, NEW e, SameRows(d, e), NEW q
    PROVE  ShownAt(e, q) = ShownAt(d, q)
  BY DEF SameRows, ShownAt

\* Those statements.
LEMMA StatementsKeepRows ==
    ASSUME NEW d, Sound(d)
    PROVE  /\ SameRows(d, SetIndexState(d))
           /\ \A edges : SameRows(d, ReplaceGraph(d, edges))
           /\ \A owner, i, m, of : SameRows(d, UpsertVector(d, owner, i, m, of))
           /\ \A owner, ids : SameRows(d, DeleteVectors(d, owner, ids))
           /\ SameRows(d, ClearVectors(d))
           /\ \A m : SameRows(d, SetEmbedInfo(d, m))
<1>1. DOMAIN d = Tables /\ DOMAIN d.meta = Columns
  BY DEF Sound
<1>2. SameRows(d, SetIndexState(d))
  BY <1>1 DEF SameRows, SetIndexState, Tables, Columns
<1>3. \A edges : SameRows(d, ReplaceGraph(d, edges))
  BY <1>1 DEF SameRows, ReplaceGraph, Tables
<1>4. \A owner, i, m, of : SameRows(d, UpsertVector(d, owner, i, m, of))
  BY <1>1 DEF SameRows, UpsertVector, Tables
<1>5. \A owner, ids : SameRows(d, DeleteVectors(d, owner, ids))
  BY <1>1 DEF SameRows, DeleteVectors, Tables
<1>6. SameRows(d, ClearVectors(d))
  BY <1>1 DEF SameRows, ClearVectors, Tables
<1>7. \A m : SameRows(d, SetEmbedInfo(d, m))
  BY <1>1 DEF SameRows, SetEmbedInfo, Tables
<1> QED BY <1>2, <1>3, <1>4, <1>5, <1>6, <1>7

\* After ClearIndex a search finds nothing anywhere.
LEMMA ClearShown ==
    ASSUME NEW d, Sound(d), NEW q
    PROVE  ShownAt(ClearIndex(d), q) = ShowsNothing
<1>1. ClearIndex(d).files = {}
  <2>1. DOMAIN d = Tables /\ DOMAIN d.meta = Columns
    BY DEF Sound
  <2> DEFINE m == DeleteFiles(d, Ids(d.files))
  <2>2. DOMAIN m = Tables /\ m.files = {f \in d.files : f.id \notin Ids(d.files)} /\ m.meta = d.meta
    BY <2>1, DeleteFilesTables
  <2>3. m.files = {}
    BY <2>2 DEF Ids
  <2>4. ClearIndex(d) = [m EXCEPT !.fts = {}, !.meta.files = 0, !.meta.symbols = 0]
    BY DEF ClearIndex
  <2> HIDE DEF m
  <2> QED BY <2>2, <2>3, <2>4 DEF Tables
<1> QED BY <1>1, ClearIndexSound, NothingShown DEF FileAt

-----------------------------------------------------------------------------
(* The write transaction, path by path *)

\* How far the write of r has come: what it has parsed and written shows the new
\* content, what it has dropped shows nothing, and what it is not going to touch
\* shows what is committed.  Nothing is written before everything is dropped.
Progress(r) ==
    /\ r.todo # Parsed(r) => r.gone = {}
    /\ r.gone \subseteq Dropped(r)
    /\ \A q \in Path :
        /\ q \in Parsed(r) \ r.todo => ShownAt(work, q) = ShownOf(r.scanned[q].hash.content)
        /\ q \in Dropped(r) \ (r.gone \cup Parsed(r)) => ShownAt(work, q) = ShowsNothing
        /\ q \notin Parsed(r) \cup Dropped(r) => ShownAt(work, q) = ShownAt(db, q)

\* Every run in its write transaction has come that far.
WritesProgress == \A p \in Proc : pc[p] = "write" => Progress(run[p])

\* The locals Progress and OfferOf read.
SameWrite(r, s) ==
    /\ r.mode = s.mode /\ r.cands = s.cands /\ r.existing = s.existing
    /\ r.scanned = s.scanned

\* What a run parses, drops and offers depends on no other.
LEMMA SameWriteOffers ==
    ASSUME NEW r, NEW s, SameWrite(r, s)
    PROVE  Parsed(r) = Parsed(s) /\ Dropped(r) = Dropped(s) /\ OfferOf(r) = OfferOf(s)
<1>1. Parsed(r) = Parsed(s) /\ Gone(r) = Gone(s)
  BY DEF SameWrite, Parsed, Gone
<1>2. Dropped(r) = Dropped(s)
  BY <1>1 DEF Dropped, SameWrite
<1> QED BY <1>1, <1>2 DEF OfferOf, SameWrite

\* Opening the transaction: nothing is done yet, but a full run has dropped
\* everything.
LEMMA BeginWriteProgress ==
    ASSUME IInv, NEW p \in Proc, BeginWrite(p)
    PROVE  Progress(run[p])' /\ OfferOf(run'[p]) = OfferOf(run[p])
<1> DEFINE gone == IF run[p].mode = "incremental" THEN Gone(run[p]) ELSE {}
           todo == Parsed(run[p])
           r == [run[p] EXCEPT !.gone = gone, !.todo = todo]
           d == IF run[p].mode = "full" THEN ClearIndex(db) ELSE db
<1>1. Sound(db) /\ DOMAIN run[p] = Fields
  BY RunFields DEF IInv, Good, RunInv, RunType
<1>2. run'[p] = r /\ work' = d /\ db' = db
  BY DEF BeginWrite, OpenWrite, IInv
<1>3. r.gone = gone /\ r.todo = todo /\ SameWrite(r, run[p])
  BY <1>1 DEF SameWrite, Fields
<1> HIDE DEF r
<1>4. r.todo = Parsed(r) /\ r.gone \subseteq Dropped(r)
  BY <1>3, SameWriteOffers DEF Dropped, SameWrite
<1>5. ASSUME NEW q \in Path
      PROVE  /\ q \in Dropped(r) \ (r.gone \cup Parsed(r)) => ShownAt(d, q) = ShowsNothing
             /\ q \notin Parsed(r) \cup Dropped(r) => ShownAt(d, q) = ShownAt(db, q)
  <2>1. CASE r.mode = "full"
    <3>1. ShownAt(d, q) = ShowsNothing
      BY <1>1, <1>3, <2>1, ClearShown DEF SameWrite
    <3> QED BY <2>1, <3>1 DEF Dropped
  <2>2. CASE r.mode # "full"
    <3>1. d = db
      BY <1>3, <2>2 DEF SameWrite
    <3>2. Dropped(r) \subseteq r.gone
      BY <1>3, <2>2, SameWriteOffers DEF Dropped, SameWrite, Gone
    <3> QED BY <3>1, <3>2
  <2> QED BY <2>1, <2>2
<1> HIDE DEF d
<1>6. Progress(run[p])'
  BY <1>2, <1>4, <1>5 DEF Progress, Parsed, Dropped, Gone
<1> QED BY <1>2, <1>3, <1>6, SameWriteOffers

\* Dropping a path: it shows nothing now, and no other has changed.
LEMMA DropGoneProgress ==
    ASSUME IInv, NEW p \in Proc, DropGone(p), Progress(run[p])
    PROVE  Progress(run[p])' /\ OfferOf(run'[p]) = OfferOf(run[p])
<1>1. Sound(work) /\ DOMAIN run[p] = Fields
  BY RunFields DEF IInv, Good, RunInv, RunType
<1>2. PICK x \in run[p].gone :
        Writing(p, DeleteFileByPath(work, x), [run[p] EXCEPT !.gone = @ \ {x}])
  BY DEF DropGone
<1> DEFINE r == [run[p] EXCEPT !.gone = @ \ {x}]
           d == DeleteFileByPath(work, x)
<1>3. run'[p] = r /\ work' = d /\ db' = db
  BY <1>2 DEF Writing, IInv
<1>4. r.gone = run[p].gone \ {x} /\ r.todo = run[p].todo /\ SameWrite(r, run[p])
  BY <1>1 DEF SameWrite, Fields
<1> HIDE DEF r
<1>5. Parsed(r) = Parsed(run[p]) /\ Dropped(r) = Dropped(run[p]) /\ r.scanned = run[p].scanned
  BY <1>4, SameWriteOffers DEF SameWrite
<1>6. \A q : ShownAt(d, q) = IF q = x THEN ShowsNothing ELSE ShownAt(work, q)
  BY <1>1, DeleteShown
<1> HIDE DEF d
<1>7. r.todo = Parsed(r) /\ x \in Dropped(r)
  BY <1>2, <1>4, <1>5 DEF Progress
<1>8. Progress(run[p])'
  BY <1>3, <1>4, <1>5, <1>6, <1>7 DEF Progress, Parsed, Dropped, Gone
<1> QED BY <1>3, <1>4, <1>8, SameWriteOffers

\* Writing a path: it shows what was parsed now, and no other has changed.
LEMMA PutNextProgress ==
    ASSUME IInv, NEW p \in Proc, PutNext(p), Progress(run[p])
    PROVE  Progress(run[p])' /\ OfferOf(run'[p]) = OfferOf(run[p])
<1> DEFINE x == Min(run[p].todo)
           h == run[p].scanned[x].hash
           r == [run[p] EXCEPT !.todo = @ \ {x}]
           d == PutFile(work, x, h)
<1>1. /\ Sound(work) /\ DOMAIN run[p] = Fields /\ RunInv(run[p], "write")
      /\ run[p].gone = {} /\ run[p].todo # {}
  BY RunFields DEF IInv, Good, RunInv, RunType, PutNext
<1>2. run'[p] = r /\ work' = d /\ db' = db
  BY DEF PutNext, Writing, IInv
<1>3. x \in run[p].todo
  BY <1>1, CatalogAssumption, MinIsLeast DEF RunInv, RunType
<1> HIDE DEF x
<1>4. r.todo = run[p].todo \ {x} /\ r.gone = {} /\ SameWrite(r, run[p])
  BY <1>1 DEF SameWrite, Fields
<1> HIDE DEF r
<1>5. Parsed(r) = Parsed(run[p]) /\ Dropped(r) = Dropped(run[p]) /\ r.scanned = run[p].scanned
  BY <1>4, SameWriteOffers DEF SameWrite
<1>6. x \in Parsed(r) /\ x \in Path /\ h \in Hash
  BY <1>1, <1>3, <1>5 DEF RunInv, RunType, Parsed
<1>7. \A q : ShownAt(d, q) = IF q = x THEN ShownOf(h.content) ELSE ShownAt(work, q)
  BY <1>1, <1>6, PutShown
<1>8. h = r.scanned[x].hash
  BY <1>5
<1> HIDE DEF d, h
<1>9. Progress(run[p])'
  BY <1>1, <1>2, <1>4, <1>5, <1>6, <1>7, <1>8 DEF Progress, Parsed, Dropped, Gone
<1> QED BY <1>2, <1>4, <1>9, SameWriteOffers

\* When both loops are done the commit publishes the offer on top of the catalog.
LEMMA CommitShown ==
    ASSUME IInv, NEW p \in Proc, CommitWrite(p), Progress(run[p]), NEW q \in Path
    PROVE  ShownAt(db', q) = IF q \in DOMAIN OfferOf(run[p]) THEN OfferOf(run[p])[q]
                             ELSE ShownAt(db, q)
<1> DEFINE r == run[p]
<1>1. Sound(work) /\ r.todo = {} /\ r.gone = {} /\ db' = SetIndexState(work)
  BY DEF CommitWrite, Commit, IInv, Good
<1>2. ShownAt(db', q) = ShownAt(work, q)
  BY <1>1, StatementsKeepRows, SameRowsShown
<1>3. /\ DOMAIN OfferOf(r) = Parsed(r) \cup Dropped(r)
      /\ \A x \in Parsed(r) \cup Dropped(r) : OfferOf(r)[x] =
            IF x \in Parsed(r) THEN ShownOf(r.scanned[x].hash.content) ELSE ShowsNothing
  BY DEF OfferOf
<1> HIDE DEF r
<1>4. Progress(r)
  BY DEF r
<1>5. ShownAt(work, q) = IF q \in DOMAIN OfferOf(r) THEN OfferOf(r)[q] ELSE ShownAt(db, q)
  BY <1>1, <1>3, <1>4 DEF Progress
<1> QED BY <1>2, <1>5 DEF r

-----------------------------------------------------------------------------
(* The kinds of step *)

\* A step nobody sees, of a run that is not in its write transaction.
PrivateStep(p) ==
    /\ pc[p] # "write"
    /\ \E r, label : label # "write" /\ Privately(p, r, label)

\* A transaction of one step that leaves the rows searches read as they are.
SideStep(p) ==
    \E d, r, label : label # "write" /\ Publishing(p, d, r, label) /\ SameRows(db, d)

\* Every step of a run is of one of these kinds.
LEMMA StepKinds ==
    ASSUME IInv, NEW p \in Proc, Step(p)
    PROVE  \/ PrivateStep(p) \/ SideStep(p) \/ Abandon(p)
           \/ BeginWrite(p) \/ DropGone(p) \/ PutNext(p) \/ CommitWrite(p) \/ Clean(p)
<1>1. Sound(db)
  BY DEF IInv, Good
<1>2. ASSUME SelectFiles(p) \/ ReadHashes(p) \/ Scan(p) \/ Capture(p) PROVE PrivateStep(p)
  BY <1>2 DEF SelectFiles, ReadHashes, Scan, Capture, PrivateStep
<1>3. ASSUME EndScan(p) PROVE PrivateStep(p)
  BY <1>3 DEF EndScan, PrivateStep
<1>4. ASSUME ReadFiles(p) \/ ReadImports(p) \/ EndPurge(p) \/ Plan(p) \/ EmbedBatch(p)
      PROVE  PrivateStep(p)
  BY <1>4 DEF ReadFiles, ReadImports, EndPurge, Plan, EmbedBatch, PrivateStep
<1>5. ASSUME WriteGraph(p) PROVE SideStep(p)
  BY <1>1, <1>5, StatementsKeepRows DEF WriteGraph, SideStep
<1>6. ASSUME PurgeSymbols(p) PROVE PrivateStep(p) \/ SideStep(p)
  BY <1>1, <1>6, StatementsKeepRows DEF PurgeSymbols, PrivateStep, SideStep
<1>7. ASSUME PurgeFile(p) PROVE SideStep(p)
  BY <1>1, <1>7, StatementsKeepRows DEF PurgeFile, SideStep
<1>8. ASSUME NEW owner, NEW i, NEW of, NEW r, Store(p, owner, i, of, r), pc[p] # "write"
      PROVE  SideStep(p)
  <2>1. SameRows(db, UpsertVector(db, owner, i, run[p].model, of))
    BY <1>1, StatementsKeepRows
  <2> QED BY <1>8, <2>1 DEF Store, SideStep
<1>9. ASSUME CarryVector(p) \/ StoreSymbol(p) \/ StoreFallback(p) \/ StoreMean(p) PROVE SideStep(p)
  BY <1>8, <1>9 DEF CarryVector, StoreSymbol, StoreFallback, StoreMean
<1>10. ASSUME StoreAndPanic(p) PROVE SideStep(p)
  BY <1>1, <1>10, StatementsKeepRows DEF StoreAndPanic, SideStep
<1>11. ASSUME Seal(p) PROVE SideStep(p)
  BY <1>1, <1>11, StatementsKeepRows DEF Seal, SideStep
<1> QED BY <1>2, <1>3, <1>4, <1>5, <1>6, <1>7, <1>9, <1>10, <1>11 DEF Step, GraphConflict

\* What another run's commit or an edit does to the locals of a run leaves its offer
\* and its progress alone.
LEMMA DisturbedOffers ==
    ASSUME IInv, NEW q \in Proc, pc[q] = "write"
    PROVE  /\ SameWrite(Disturbed(q), run[q])
           /\ Disturbed(q).todo = run[q].todo /\ Disturbed(q).gone = run[q].gone
<1>1. DOMAIN run[q] = Fields
  BY RunFields DEF IInv, RunInv, RunType
<1>2. Disturbed(q) = [run[q] EXCEPT !.quiet = FALSE]
  BY DEF Disturbed
<1> QED BY <1>1, <1>2 DEF SameWrite, Fields

\* A run whose write locals, catalog and private copy stay has come as far as before.
LEMMA ProgressKept ==
    ASSUME UNCHANGED <<db, work>>, NEW p \in Proc, Progress(run[p]), SameWrite(run'[p], run[p]),
           run'[p].todo = run[p].todo, run'[p].gone = run[p].gone
    PROVE  Progress(run[p])'
<1> DEFINE r == run[p]
           s == run'[p]
<1>1. Parsed(s) = Parsed(r) /\ Dropped(s) = Dropped(r) /\ s.scanned = r.scanned
  BY SameWriteOffers DEF SameWrite
<1>2. Progress(s)
  BY <1>1 DEF Progress
<1>3. Parsed(run[p])' = Parsed(s) /\ Dropped(run[p])' = Dropped(s)
  BY DEF Parsed, Dropped, Gone
<1>4. \A q \in Path : ShownAt(work, q)' = ShownAt(work, q) /\ ShownAt(db, q)' = ShownAt(db, q)
  BY DEF ShownAt
<1>5. run[p]' = s
  OBVIOUS
<1> HIDE DEF s
<1> QED BY <1>2, <1>3, <1>4, <1>5 DEF Progress

-----------------------------------------------------------------------------
(* The refinement *)

\* The mapping of Promise, by name.
Visible == [q \in Path |-> ShownAt(db, q)]
Offered == [p \in Proc |-> IF pc[p] = "write" THEN {OfferOf(run[p])} ELSE {}]

\* The steps of IndexPromise under that mapping.
Stutters    == UNCHANGED <<Visible, Offered>>
Offers(p)   == /\ Offered[p] = {} /\ Visible' = Visible
               /\ Offered' = [Offered EXCEPT ![p] = {OfferOf(run[p])}]
Publishes(p) ==
    /\ Offered[p] = {OfferOf(run[p])} /\ Offered' = [Offered EXCEPT ![p] = {}]
    /\ Visible' = [q \in Path |-> IF q \in DOMAIN OfferOf(run[p]) THEN OfferOf(run[p])[q]
                                   ELSE Visible[q]]
Withdraws(p) == /\ Offered[p] # {} /\ Visible' = Visible
                /\ Offered' = [Offered EXCEPT ![p] = {}]
Clears == Visible' = [q \in Path |-> ShowsNothing] /\ Offered' = Offered

\* Nobody but the holder of the lock has an offer.
LEMMA OnlyWriterOffers ==
    ASSUME IInv
    PROVE  /\ \A p, q \in Proc : pc[p] = "write" /\ pc[q] = "write" => p = q
           /\ lock = NoProc => \A p \in Proc : pc[p] # "write"
  BY ReindexAssumption DEF IInv, LockHeldByWriter

\* A step nobody sees is a stutter.
LEMMA PrivateStutters ==
    ASSUME IInv, WritesProgress, NEW p \in Proc, PrivateStep(p)
    PROVE  Stutters /\ WritesProgress'
<1>1. PICK r, label : label # "write" /\ Privately(p, r, label) /\ pc[p] # "write"
  BY DEF PrivateStep
<1>2. /\ run' = [run EXCEPT ![p] = r] /\ pc' = [pc EXCEPT ![p] = label]
      /\ UNCHANGED <<db, work>>
  BY <1>1 DEF Privately
<1>3. \A q \in Proc : /\ pc'[q] = "write" <=> pc[q] = "write"
                      /\ pc[q] = "write" => run'[q] = run[q]
  BY <1>1, <1>2 DEF IInv
<1>4. Stutters
  BY <1>2, <1>3 DEF Stutters, Visible, Offered
<1>5. WritesProgress'
  BY <1>2, <1>3, ProgressKept DEF WritesProgress, SameWrite
<1> QED BY <1>4, <1>5

\* A transaction of one step is taken while nobody has an offer.
LEMMA PublishingOffers ==
    ASSUME IInv, NEW p \in Proc, NEW d, NEW r, NEW label, label # "write", Publishing(p, d, r, label)
    PROVE  Offered' = Offered /\ WritesProgress'
<1>1. pc' = [pc EXCEPT ![p] = label] /\ \A q \in Proc : pc[q] # "write"
  BY OnlyWriterOffers DEF Publishing
<1>2. \A q \in Proc : pc'[q] # "write"
  BY <1>1 DEF IInv
<1> QED BY <1>1, <1>2 DEF Offered, WritesProgress

\* One that leaves the rows as they are is a stutter.
LEMMA SideStutters ==
    ASSUME IInv, NEW p \in Proc, SideStep(p)
    PROVE  Stutters /\ WritesProgress'
<1>1. PICK d, r, label : label # "write" /\ Publishing(p, d, r, label) /\ SameRows(db, d)
  BY DEF SideStep
<1>2. Visible' = Visible
  BY <1>1, SameRowsShown DEF Publishing, Visible
<1> QED BY <1>1, <1>2, PublishingOffers DEF Stutters

\* A clean run clears.
LEMMA CleanClears ==
    ASSUME IInv, NEW p \in Proc, Clean(p)
    PROVE  Clears /\ WritesProgress'
<1> DEFINE d == SetIndexState(ClearIndex(db))
           e == IF run[p].model = NoModel THEN d ELSE ClearVectors(d)
<1>1. Publishing(p, e, Result(run[p]), "done")
  BY DEF Clean
<1>2. Sound(db) /\ Sound(ClearIndex(db)) /\ Sound(d)
  BY ClearIndexSound, SetIndexStateSound DEF IInv, Good
<1>3. \A q : ShownAt(e, q) = ShowsNothing
  BY <1>2, ClearShown, StatementsKeepRows, SameRowsShown
<1> HIDE DEF e
<1>4. Visible' = [q \in Path |-> ShowsNothing]
  BY <1>1, <1>3 DEF Visible, Publishing
<1> QED BY <1>1, <1>4, PublishingOffers DEF Clears

\* Opening the write transaction makes the offer.
LEMMA BeginWriteOffers ==
    ASSUME IInv, NEW p \in Proc, BeginWrite(p)
    PROVE  Offers(p) /\ WritesProgress'
<1>1. /\ pc' = [pc EXCEPT ![p] = "write"] /\ db' = db /\ \A q \in Proc : pc[q] # "write"
  BY OnlyWriterOffers DEF BeginWrite, OpenWrite
<1>2. \A q \in Proc : pc'[q] = "write" <=> q = p
  BY <1>1 DEF IInv
<1>3. Progress(run[p])' /\ OfferOf(run'[p]) = OfferOf(run[p])
  BY BeginWriteProgress
<1>4. Visible' = Visible
  BY <1>1 DEF Visible
<1>5. Offered[p] = {} /\ Offered' = [Offered EXCEPT ![p] = {OfferOf(run[p])}]
  BY <1>1, <1>2, <1>3 DEF Offered
<1>6. WritesProgress'
  BY <1>2, <1>3 DEF WritesProgress
<1> QED BY <1>4, <1>5, <1>6 DEF Offers

\* The statements of the transaction are stutters: nobody sees them.
LEMMA WritingStutters ==
    ASSUME IInv, WritesProgress, NEW p \in Proc, DropGone(p) \/ PutNext(p)
    PROVE  Stutters /\ WritesProgress'
<1>1. pc[p] = "write" /\ Progress(run[p])
  BY DEF DropGone, PutNext, WritesProgress
<1>2. Progress(run[p])' /\ OfferOf(run'[p]) = OfferOf(run[p])
  BY <1>1, DropGoneProgress, PutNextProgress
<1>3. UNCHANGED <<db, pc>> /\ \A q \in Proc : pc[q] = "write" <=> q = p
  BY <1>1, OnlyWriterOffers DEF DropGone, PutNext, Writing
<1>4. Stutters
  BY <1>2, <1>3 DEF Stutters, Visible, Offered
<1>5. WritesProgress'
  BY <1>2, <1>3 DEF WritesProgress
<1> QED BY <1>4, <1>5

\* The commit publishes the offer.
LEMMA CommitPublishes ==
    ASSUME IInv, WritesProgress, NEW p \in Proc, CommitWrite(p)
    PROVE  Publishes(p) /\ WritesProgress'
<1>1. pc[p] = "write" /\ pc' = [pc EXCEPT ![p] = "graph"]
  BY DEF CommitWrite, Commit
<1>2. /\ \A q \in Proc : pc[q] = "write" <=> q = p
      /\ \A q \in Proc : pc'[q] # "write"
  BY <1>1, OnlyWriterOffers DEF IInv
<1>3. \A q \in Path : ShownAt(db', q) = IF q \in DOMAIN OfferOf(run[p]) THEN OfferOf(run[p])[q]
                                       ELSE ShownAt(db, q)
  BY <1>1, CommitShown DEF WritesProgress
<1>4. Visible' = [q \in Path |-> IF q \in DOMAIN OfferOf(run[p]) THEN OfferOf(run[p])[q]
                                 ELSE Visible[q]]
  BY <1>3 DEF Visible
<1>5. Offered[p] = {OfferOf(run[p])} /\ Offered' = [Offered EXCEPT ![p] = {}]
  BY <1>2 DEF Offered
<1> QED BY <1>2, <1>4, <1>5 DEF Publishes, WritesProgress

\* A run that dies withdraws the offer it had, and is nothing to see otherwise.
LEMMA AbandonWithdraws ==
    ASSUME IInv, WritesProgress, NEW p \in Proc, Abandon(p)
    PROVE  (Withdraws(p) \/ Stutters) /\ WritesProgress'
<1>1. /\ run' = [run EXCEPT ![p] = NoRun] /\ pc' = [pc EXCEPT ![p] = "idle"] /\ db' = db
      /\ work' = IF lock = p THEN EmptyCatalog ELSE work
  BY DEF Abandon
<1>2. \A q \in Proc : /\ pc'[q] = "write" <=> pc[q] = "write" /\ q # p
                      /\ q # p => run'[q] = run[q]
  BY <1>1 DEF IInv
<1>3. Visible' = Visible
  BY <1>1 DEF Visible
<1>4. Offered' = [Offered EXCEPT ![p] = {}]
  BY <1>2 DEF Offered
<1>5. pc[p] # "write" => Offered' = Offered
  BY <1>2 DEF Offered
<1>6. pc[p] = "write" => Offered[p] # {}
  BY DEF Offered
<1>7. WritesProgress'
  <2>1. SUFFICES ASSUME NEW q \in Proc, pc'[q] = "write" PROVE Progress(run[q])'
    BY DEF WritesProgress
  <2>2. pc[q] = "write" /\ q # p /\ run'[q] = run[q]
    BY <1>2, <2>1
  <2>3. work' = work
    BY <1>1, <2>2 DEF IInv, LockHeldByWriter
  <2> QED BY <1>1, <2>2, <2>3, ProgressKept DEF WritesProgress, SameWrite
<1> QED BY <1>3, <1>4, <1>5, <1>6, <1>7 DEF Withdraws, Stutters

\* Starting a run is a stutter.
LEMMA StartStutters ==
    ASSUME IInv, WritesProgress, NEW p \in Proc, Start(p)
    PROVE  Stutters /\ WritesProgress'
<1>1. PICK r, label : /\ label # "write" /\ run' = [run EXCEPT ![p] = r]
                      /\ pc' = [pc EXCEPT ![p] = label]
  BY DEF Start
<1>2. UNCHANGED <<db, work>> /\ pc[p] # "write"
  BY DEF Start, Running
<1>3. \A q \in Proc : /\ pc'[q] = "write" <=> pc[q] = "write"
                      /\ pc[q] = "write" => run'[q] = run[q]
  BY <1>1, <1>2 DEF IInv
<1>4. Stutters
  BY <1>2, <1>3 DEF Stutters, Visible, Offered
<1>5. WritesProgress'
  BY <1>2, <1>3, ProgressKept DEF WritesProgress, SameWrite
<1> QED BY <1>4, <1>5

\* So is what the user does.
LEMMA EditingStutters ==
    ASSUME IInv, WritesProgress, Editing
    PROVE  Stutters /\ WritesProgress'
<1>1. run' = [q \in Proc |-> Disturbed(q)] /\ UNCHANGED <<db, work, pc>>
  BY DEF Editing
<1>2. \A q \in Proc : pc[q] = "write" => /\ SameWrite(run'[q], run[q])
                                         /\ run'[q].todo = run[q].todo
                                         /\ run'[q].gone = run[q].gone
  BY <1>1, DisturbedOffers
<1>3. \A q \in Proc : pc[q] = "write" => OfferOf(run'[q]) = OfferOf(run[q])
  BY <1>2, SameWriteOffers
<1>4. Stutters
  BY <1>1, <1>3 DEF Stutters, Visible, Offered
<1>5. WritesProgress'
  BY <1>1, <1>2, ProgressKept DEF WritesProgress
<1> QED BY <1>4, <1>5

\* Every step refines one of IndexPromise, and keeps the progress of writes.
LEMMA NextRefines ==
    ASSUME IInv, WritesProgress, [Next]_vars
    PROVE  /\ \/ Stutters \/ Clears
              \/ \E p \in Proc : Offers(p) \/ Publishes(p) \/ Withdraws(p)
           /\ WritesProgress'
<1>1. ASSUME NEW p \in Proc, Step(p)
      PROVE  /\ Stutters \/ Clears \/ Offers(p) \/ Publishes(p) \/ Withdraws(p)
             /\ WritesProgress'
  BY <1>1, StepKinds, PrivateStutters, SideStutters, AbandonWithdraws, BeginWriteOffers,
     WritingStutters, CommitPublishes, CleanClears
<1>2. ASSUME NEW p \in Proc, Fail(p) \/ Busy(p)
      PROVE  (Withdraws(p) \/ Stutters) /\ WritesProgress'
  BY <1>2, AbandonWithdraws DEF Fail, Busy
<1>3. ASSUME Edit \/ Stage PROVE Stutters /\ WritesProgress'
  BY <1>3, EditingStutters DEF Edit, Stage
<1>4. ASSUME UNCHANGED vars PROVE Stutters /\ WritesProgress'
  <2>1. UNCHANGED <<db, work, pc, run>>
    BY <1>4 DEF vars
  <2>2. Stutters
    BY <2>1 DEF Stutters, Visible, Offered
  <2>3. WritesProgress'
    BY <2>1, ProgressKept DEF WritesProgress, SameWrite
  <2> QED BY <2>2, <2>3
<1> QED BY <1>1, <1>2, <1>3, <1>4, StartStutters DEF Next, Rest

\* An offer maps the paths it is about to the extraction of a content or to nothing.
LEMMA OffersTyped ==
    ASSUME NEW r, RunType(r)
    PROVE  OfferOf(r) \in Promise!Offers
<1> DEFINE D == Parsed(r) \cup Dropped(r)
           Shown == {ShownOf(c) : c \in Content} \cup {ShowsNothing}
<1>1. D \in SUBSET Path
  BY DEF Parsed, Dropped, Gone
<1>2. \A q \in Parsed(r) : r.scanned[q].hash.content \in Content
  BY DEF Parsed, RunType, Hash
<1>3. OfferOf(r) \in [D -> Shown]
  BY <1>2 DEF OfferOf
<1>4. Promise!Offers = UNION {[E -> Shown] : E \in SUBSET Path}
  BY DEF Promise!Offers, Promise!Shown
<1> QED BY <1>1, <1>3, <1>4

\* The initial states are initial states of IndexPromise.
LEMMA InitRefines == Init => Promise!Init /\ WritesProgress
<1> SUFFICES ASSUME Init PROVE Promise!Init /\ WritesProgress
  OBVIOUS
<1>1. \A q : ShownAt(db, q) = ShowsNothing
  BY EmptyCatalogSound, NothingShown DEF Init, FileAt, EmptyCatalog
<1>2. \A p \in Proc : pc[p] # "write"
  BY DEF Init
<1>3. Promise!Init
  BY <1>1, <1>2 DEF Promise!Init
<1> QED BY <1>2, <1>3 DEF WritesProgress

\* Every step is a step of IndexPromise or a stutter.
LEMMA StepRefines ==
    IInv /\ WritesProgress /\ [Next]_vars
        => [Promise!Next]_<<Visible, Offered>> /\ WritesProgress'
<1> SUFFICES ASSUME IInv, WritesProgress, [Next]_vars
             PROVE  [Promise!Next]_<<Visible, Offered>> /\ WritesProgress'
  OBVIOUS
<1>1. ASSUME Clears PROVE Promise!Next
  BY <1>1 DEF Promise!Next, Promise!Clear, Clears, Visible, Offered
<1>2. ASSUME NEW p \in Proc, Offers(p) PROVE Promise!Offer(p)
  <2>1. OfferOf(run[p]) \in Promise!Offers
    BY OffersTyped DEF IInv, RunInv
  <2> QED BY <1>2, <2>1 DEF Promise!Offer, Offers, Visible, Offered
<1>3. ASSUME NEW p \in Proc, Publishes(p) PROVE Promise!Publish(p)
  <2>1. OfferOf(run[p]) \in Offered[p]
    BY <1>3 DEF Publishes
  <2> QED BY <1>3, <2>1 DEF Promise!Publish, Publishes, Visible, Offered
<1>4. ASSUME NEW p \in Proc, Withdraws(p) PROVE Promise!Withdraw(p)
  BY <1>4 DEF Promise!Withdraw, Withdraws, Visible, Offered
<1>5. WritesProgress'
  BY NextRefines
<1>6. Stutters \/ Promise!Next
  BY <1>1, <1>2, <1>3, <1>4, NextRefines DEF Promise!Next
<1> QED BY <1>5, <1>6 DEF Stutters

\* Index runs are atomic to whoever searches (RunsAreAtomic; index.go:1-3): for any
\* number of processes, files and failures, what searches find at each path changes
\* only when a run publishes everything it parsed and dropped in one step.
THEOREM IndexRunsAreAtomic == Spec => RunsAreAtomic
<1>1. IInv /\ WritesProgress /\ [Next]_vars => WritesProgress'
  BY StepRefines
<1>2. IInv /\ WritesProgress /\ [Next]_vars => [Promise!Next]_<<Visible, Offered>>
  BY StepRefines
<1>3. Init => Promise!Init /\ WritesProgress
  BY InitRefines
<1>4. Spec => Promise!Init /\ [][Promise!Next]_<<Visible, Offered>>
  BY <1>1, <1>2, <1>3, IndexRunsKeepTheirInvariant, PTL DEF Spec
<1> QED BY <1>4, PTL DEF RunsAreAtomic, Promise!Spec, Visible, Offered
=============================================================================
