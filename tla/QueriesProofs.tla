---------------------------- MODULE QueriesProofs ----------------------------
(***************************************************************************)
(* What a query promises whatever is committed or edited between its       *)
(* reads (QInv), and what it has found when nothing was (FInv), for any    *)
(* repository, any index runs and any caps.                                *)
(***************************************************************************)
EXTENDS Queries, ReindexProofs

SearchStages == {"vectors", "symbols", "files", "keywords", "matches", "grep", "attribute"}
GraphStages  == {"graph", "import", "test", "external"}

\* Where a query can be tells what was asked; a search reads neighbours last.
AskFits(q) ==
    /\ q.at \in SearchStages => q.ask.kind = "search" /\ q.reads = {}
    /\ q.at \in GraphStages  => q.ask.kind = "graph"
    /\ q.at = "outline"      => q.ask.kind = "file" /\ q.todo = {}
    /\ q.at = "locate"       => q.ask.kind \in {"search", "symbol", "file"}

\* From ranking to the answer, the hits of a search fit together.
HitsFit(q) ==
    q.at \in {"locate", "done"} /\ q.error = "none" /\ q.ask.kind = "search" =>
        /\ Cardinality(DOMAIN q.found) <= q.ask.max
        /\ \A j, k \in DOMAIN q.found : j.path = k.path /\ j.name = NoName => k = j

\* A graph whose edges join its nodes, once each, with the degrees they have.
Closes(nodes, edges) ==
    LET ids == {n.id : n \in nodes}
    IN  /\ \A e \in edges : {e.from, e.to} \subseteq ids
        /\ \A n \in nodes : n.in = InDegree(edges, n.id) /\ n.out = OutDegree(edges, n.id)
        /\ \A n \in nodes : n.id \notin Path => \E e \in edges : e.to = n.id
        /\ \A m, n \in nodes : m.id = n.id => m = n

GraphFits(q) ==
    q.at = "done" /\ q.error = "none" /\ q.ask.kind = "graph" => Closes(q.nodes, q.edges)

QueryOK(q) == QueryType(q) /\ AskFits(q) /\ HitsFit(q) /\ GraphFits(q)

QInv == memvecs \subseteq MemoryVec /\ QueryOK(query) /\ asked \in 0 .. MaxQueries

-----------------------------------------------------------------------------
(* What the reads return *)

LEMMA FilesHavePaths ==
    ASSUME TypeOK, NEW f \in db.files
    PROVE  f.path \in Path /\ f.id \in RowId
BY DEF TypeOK, CatalogType, FileRow

LEMMA KeysAtAreKeys ==
    ASSUME TypeOK, NEW grain, NEW i
    PROVE  KeysAt(db, grain, i) \subseteq Key
<1>1. SymbolKeys(db, {s \in db.symbols : s.id = i}) \subseteq Key
  BY DEF SymbolKeys
<1>2. \A f \in db.files : FileKey(f.path) \in Key
  BY FilesHavePaths DEF FileKey, Key
<1> QED BY <1>1, <1>2 DEF KeysAt

LEMMA LinksOfPaths ==
    ASSUME TypeOK, NEW i, NEW l
    PROVE  LinksOf(db, i, l) \subseteq Path
<1>1. LinksOf(db, i, l) \subseteq {f.path : f \in db.files}
  BY Zenon DEF LinksOf
<1> QED BY <1>1, FilesHavePaths

LEMMA LiveNameIsName ==
    ASSUME NEW c \in Content \cup {NoFile}, NEW i \in DOMAIN LiveSymbols(c)
    PROVE  LiveName(c, i) \in Name /\ i \in Nat
<1>1. c # NoFile /\ c \in Content
  BY DEF LiveSymbols
<1> DEFINE Extracted == [ident : Ident, text : Text]
<1>2. LiveSymbols(c) \in Seq(Extracted)
  BY <1>1, CatalogAssumption DEF LiveSymbols
<1>3. LiveSymbols(c)[i] \in Extracted /\ i \in Nat
  <2> HIDE DEF Extracted
  <2> QED BY <1>2
<1>4. LiveSymbols(c)[i].ident \in Ident
  BY <1>3
<1>5. NameOf[LiveSymbols(c)[i].ident] \in Name
  BY <1>4, QueryAssumption
<1> QED BY <1>3, <1>5 DEF LiveName

LEMMA EnclosingIsKey ==
    ASSUME TypeOK, NEW p \in Path, NEW line
    PROVE  Enclosing(p, tree[p], line) \in Key
<1>1. tree[p] \in Content \cup {NoFile}
  BY DEF TypeOK, Tree
<1>2. CASE line \in DOMAIN LiveSymbols(tree[p])
  BY <1>1, <1>2, LiveNameIsName DEF Enclosing, SymbolKey, Key
<1>3. CASE line \notin DOMAIN LiveSymbols(tree[p])
  BY <1>3 DEF Enclosing, FileKey, Key
<1> QED BY <1>2, <1>3

LEMMA FindSymbolIsLine ==
    ASSUME TypeOK, NEW p \in Path, NEW n
    PROVE  FindSymbol(tree[p], n) \in Nat
<1> DEFINE lines == {i \in DOMAIN LiveSymbols(tree[p]) : LiveName(tree[p], i) = n}
<1>1. tree[p] \in Content \cup {NoFile}
  BY DEF TypeOK, Tree
<1>2. lines \in SUBSET Nat
  BY <1>1, LiveNameIsName
<1>3. lines # {} => Min(lines) \in lines
  <2> HIDE DEF lines
  <2> QED BY <1>2, MinIsLeast
<1>4. FindSymbol(tree[p], n) = IF lines = {} THEN 0 ELSE Min(lines)
  BY Zenon DEF FindSymbol
<1> HIDE DEF lines
<1>5. CASE lines = {}
  BY <1>4, <1>5
<1>6. CASE lines # {}
  <2>1. Min(lines) \in Nat
    BY <1>2, <1>3, <1>6
  <2> QED BY <1>4, <1>6, <2>1
<1> QED BY <1>5, <1>6

\* What a cap leaves is at most as much as it allows.
LEMMA AtMostFits ==
    ASSUME NEW k \in Nat, NEW S, NEW T \in AtMost(k, S)
    PROVE  T \subseteq S /\ Cardinality(T) <= k
BY DEF AtMost, kSubset

LEMMA BlankIsEvidence ==
    /\ Evidence(Blank)
    /\ \A v : Cardinality(v) <= 1 => Evidence([Blank EXCEPT !.vector = v])
<1>1. Cardinality({}) = 0
  BY FS_EmptySet
<1> QED BY <1>1 DEF Blank, Evidence

LEMMA NeighboursAreOwners ==
    ASSUME TypeOK, memvecs \subseteq MemoryVec, NEW owner \in {"symbol", "file"},
           NEW near \in Neighbours(db.vecs \cup memvecs, owner), NEW n \in near
    PROVE  n.grain \in {"symbol", "file"} /\ n.id \in RowId /\ Cardinality(n.vector) <= 1
<1>1. PICK S \in AtMost(VecK, db.vecs \cup memvecs) :
          near = {[grain |-> owner, id |-> v.id, vector |-> {v.of}] : v \in {w \in S : w.owner = owner}}
  BY DEF Neighbours
<1>2. S \subseteq db.vecs \cup memvecs
  BY AtMostFits, QueryAssumption
<1>3. PICK v \in S : v.owner = owner /\ n = [grain |-> owner, id |-> v.id, vector |-> {v.of}]
  BY <1>1
<1>a. v \in db.vecs
  BY <1>2, <1>3, QueryAssumption
<1>4. v.id \in RowId
  BY <1>a DEF TypeOK, CatalogType
<1>5. Cardinality({v.of}) = 1
  BY FS_Singleton
<1> QED BY <1>3, <1>4, <1>5

\* No file is left beside one of its symbols.
LEMMA FoldedHitsFit ==
    ASSUME NEW keys \in SUBSET Key, NEW kept \in SUBSET FoldFileHits(keys)
    PROVE  /\ kept \subseteq keys
           /\ \A j, k \in kept : j.path = k.path /\ j.name = NoName => k = j
<1>1. kept \subseteq keys
  BY DEF FoldFileHits
<1>2. ASSUME NEW j \in kept, NEW k \in kept, j.path = k.path, j.name = NoName
      PROVE  k = j
  <2>1. k.name = NoName
    BY <1>1, <1>2 DEF FoldFileHits
  <2> QED BY <1>1, <1>2, <2>1 DEF Key
<1> QED BY <1>1, <1>2

\* The projection of any files and any edges closes, whether or not they were read
\* from one catalog.
LEMMA ProjectionCloses ==
    ASSUME NEW paths, NEW edges, NEW a \in Ask
    PROVE  Closes(Project(paths, edges, a).nodes, Project(paths, edges, a).edges)
<1> DEFINE selected == paths \cap a.within
           filtered == Induced(edges, selected)
           central  == Central(filtered, selected, a.max)
           shown    == Induced(filtered, central)
           outside  == {e.to : e \in {x \in shown : x.type = "external"}}
           tested   == {e.from : e \in {x \in edges : x.type = "test"}}
           nodes    == {Node(shown, tested, n) : n \in central \cup outside}
<1>1. Project(paths, edges, a) = [edges |-> shown, nodes |-> nodes]
  BY Zenon DEF Project
<1>2. selected \subseteq Path
  BY DEF Ask
<1>3. central \subseteq selected
  BY DEF Central
<1>4. \A e \in shown : e.from \in central /\ (e.type = "external" \/ e.to \in central)
  BY DEF Induced
<1>5. \A e \in shown : e.from \in central /\ e.to \in central \cup outside
  BY <1>4
<1>6. \A n \in outside : \E e \in shown : e.to = n
  OBVIOUS
<1> HIDE DEF shown, central, outside, tested, selected, filtered
<1>7. \A n : /\ Node(shown, tested, n).id = n
             /\ Node(shown, tested, n).in = InDegree(shown, n)
             /\ Node(shown, tested, n).out = OutDegree(shown, n)
  BY DEF Node
<1>8. \A m \in nodes : m.id \in central \cup outside /\ m = Node(shown, tested, m.id)
  BY <1>7
<1>9. \A n \in central \cup outside : n \in {m.id : m \in nodes}
  BY <1>7
<1> HIDE DEF nodes
<1>10. Closes(nodes, shown)
  <2>1. \A e \in shown : {e.from, e.to} \subseteq {m.id : m \in nodes}
    BY <1>5, <1>9
  <2>2. \A n \in nodes : n.in = InDegree(shown, n.id) /\ n.out = OutDegree(shown, n.id)
    BY <1>7, <1>8
  <2>3. \A n \in nodes : n.id \notin Path => \E e \in shown : e.to = n.id
    BY <1>2, <1>3, <1>6, <1>8
  <2>4. \A m, n \in nodes : m.id = n.id => m = n
    BY <1>8
  <2> QED BY <2>1, <2>2, <2>3, <2>4 DEF Closes
<1> QED BY <1>1, <1>10

-----------------------------------------------------------------------------
(* How a query may change *)

QFields ==
    {"at", "ask", "error", "semantic", "ids", "lines", "found", "parse", "todo", "file",
     "reads", "files", "edges", "nodes", "quiet"}

LEMMA QueryFields == DOMAIN NoQuery = QFields
BY DEF NoQuery, QFields

LEMMA EvidenceFields == DOMAIN Blank = {"vector", "dense", "line", "links"}
BY DEF Blank

LEMMA GoesOn ==
    ASSUME QInv, NEW q, QueryOK(q), Goes(q)
    PROVE  QInv'
BY DEF QInv, Goes

LEMMA Begins ==
    ASSUME QInv, NEW q, QueryOK(q), Begin(q)
    PROVE  QInv'
<1>1. asked' \in 0 .. MaxQueries
  BY QueryAssumption DEF QInv, Begin
<1>2. query' = q /\ memvecs' = memvecs
  BY DEF Begin
<1> QED BY <1>1, <1>2 DEF QInv

\* Before it has ranked its hits or projected its graph, a query owes nothing.
LEMMA Unfinished ==
    ASSUME NEW q, QueryType(q), AskFits(q), q.at \notin {"locate", "done"}
    PROVE  QueryOK(q)
BY DEF QueryOK, HitsFit, GraphFits

LEMMA AskedOK ==
    ASSUME NEW a \in Asks,
           NEW at \in QueryLocations \ {"locate", "done"},
           AskFits(Asked(a, at))
    PROVE  QueryOK(Asked(a, at)) /\ QueryOK([Asked(a, at) EXCEPT !.semantic = TRUE])
<1>1. QueryType(Asked(a, at))
  BY DEF Asked, NoQuery, QueryType
<1>2. QueryType([Asked(a, at) EXCEPT !.semantic = TRUE])
  BY DEF Asked, NoQuery, QueryType
<1>3. AskFits([Asked(a, at) EXCEPT !.semantic = TRUE])
  BY DEF Asked, NoQuery, AskFits
<1>4. Asked(a, at).at = at /\ [Asked(a, at) EXCEPT !.semantic = TRUE].at = at
  BY DEF Asked, NoQuery
<1> QED BY <1>1, <1>2, <1>3, <1>4, Unfinished

LEMMA RefusedOK ==
    ASSUME NEW a \in Asks, NEW error \in {"INDEX_MISSING", "NOT_FOUND"}
    PROVE  QueryOK(Refused(a, error))
BY DEF Refused, Asked, NoQuery, QueryOK, QueryType, QueryLocations, AskFits, HitsFit, GraphFits,
       SearchStages, GraphStages

-----------------------------------------------------------------------------
(* Every action of a search *)

LEMMA BeginSearchOK == ASSUME QInv, BeginSearch PROVE QInv'
<1>1. PICK a \in Asks :
          /\ a.kind = "search"
          /\ \/ Begin(Refused(a, "INDEX_MISSING"))
             \/ Begin(Asked(a, "keywords"))
             \/ Begin([Asked(a, "vectors") EXCEPT !.semantic = TRUE])
  BY Zenon DEF BeginSearch, AsksFor
<1>2. AskFits(Asked(a, "keywords")) /\ AskFits(Asked(a, "vectors"))
  BY <1>1 DEF AskFits, Asked, NoQuery, SearchStages, GraphStages
<1>3. {"keywords", "vectors"} \subseteq QueryLocations \ {"locate", "done"}
  BY DEF QueryLocations
<1> QED BY <1>1, <1>2, <1>3, AskedOK, RefusedOK, Begins

LEMMA FindNearOK ==
    ASSUME TypeOK, QInv, NEW at \in SearchStages, NEW owner \in {"symbol", "file"},
           NEW next \in SearchStages, FindNear(at, owner, next)
    PROVE  QInv'
<1>1. PICK near \in Neighbours(db.vecs \cup memvecs, owner) : Goes([query EXCEPT !.at = next, !.ids = near])
  BY DEF FindNear
<1> DEFINE q == [query EXCEPT !.at = next, !.ids = near]
<1>2. QueryType(query) /\ AskFits(query) /\ query.at = at /\ memvecs \subseteq MemoryVec
  BY DEF FindNear, QInv, QueryOK
<1>3. \A n \in near : n.grain \in {"symbol", "file"} /\ n.id \in RowId /\ Cardinality(n.vector) <= 1
  BY <1>1, <1>2, NeighboursAreOwners
<1>4. QueryType(q)
  BY <1>2, <1>3, QueryFields DEF QueryType, QFields, QueryLocations, SearchStages
<1>5. AskFits(q) /\ q.at \notin {"locate", "done"}
  BY <1>2, QueryFields DEF QueryType, QFields, AskFits, SearchStages, GraphStages
<1> QED BY <1>1, <1>4, <1>5, Unfinished, GoesOn

LEMMA PutIsEvidence ==
    ASSUME NEW found, \A k \in DOMAIN found : Evidence(found[k]), DOMAIN found \subseteq Key,
           NEW k \in Key, NEW e, Evidence(e)
    PROVE  /\ DOMAIN Put(found, k, e) = DOMAIN found \cup {k}
           /\ DOMAIN Put(found, k, e) \subseteq Key
           /\ \A j \in DOMAIN Put(found, k, e) : Evidence(Put(found, k, e)[j])
BY DEF Put

LEMMA TakeNearOK == ASSUME TypeOK, QInv, TakeNear PROVE QInv'
<1>1. PICK n \in query.ids :
          \/ Goes([query EXCEPT !.ids = @ \ {n}])
          \/ \E k \in KeysAt(db, n.grain, n.id) :
                Goes([[query EXCEPT !.ids = @ \ {n}] EXCEPT !.found = Put(@, k, [Blank EXCEPT !.vector = n.vector])])
  BY Zenon DEF TakeNear
<1>2. QueryType(query) /\ AskFits(query) /\ query.at \in {"symbols", "files"}
  BY DEF TakeNear, QInv, QueryOK
<1> DEFINE left == [query EXCEPT !.ids = @ \ {n}]
<1>3. QueryType(left)
  BY <1>2, QueryFields DEF QueryType, QFields
<1>4. AskFits(left) /\ left.at \notin {"locate", "done"}
  BY <1>2, QueryFields DEF QueryType, QFields, AskFits
<1>5. CASE Goes(left)
  BY <1>3, <1>4, <1>5, Unfinished, GoesOn
<1>6. ASSUME NEW k \in KeysAt(db, n.grain, n.id),
             Goes([left EXCEPT !.found = Put(@, k, [Blank EXCEPT !.vector = n.vector])])
      PROVE  QInv'
  <2> DEFINE more == Put(query.found, k, [Blank EXCEPT !.vector = n.vector])
             q == [query EXCEPT !.ids = @ \ {n}, !.found = more]
  <2>1. k \in Key
    BY KeysAtAreKeys
  <2>2. Cardinality(n.vector) <= 1
    BY <1>2 DEF QueryType
  <2>3. /\ DOMAIN more = DOMAIN query.found \cup {k} /\ DOMAIN more \subseteq Key
        /\ \A j \in DOMAIN more : Evidence(more[j])
    BY <1>2, <2>1, <2>2, BlankIsEvidence, PutIsEvidence DEF QueryType
  <2>4. [left EXCEPT !.found = Put(@, k, [Blank EXCEPT !.vector = n.vector])] = q
    BY <1>2, QueryFields DEF QueryType, QFields
  <2> HIDE DEF more
  <2>5. QueryType(q)
    BY <1>2, <2>3, QueryFields DEF QueryType, QFields
  <2>6. AskFits(q) /\ q.at \notin {"locate", "done"}
    BY <1>2, QueryFields DEF QueryType, QFields, AskFits
  <2> QED BY <1>6, <2>4, <2>5, <2>6, Unfinished, GoesOn
<1> QED BY <1>1, <1>5, <1>6

LEMMA FindMatchesOK == ASSUME TypeOK, QInv, FindMatches PROVE QInv'
<1>1. PICK hits \in AtMost(IF query.semantic THEN RescueCap ELSE CandidateCap, Matching(db, query.ask)) :
          Goes([query EXCEPT !.at = "matches",
                             !.ids = {[grain |-> r.grain, id |-> r.ref, vector |-> {}] : r \in hits}])
  BY DEF FindMatches
<1> DEFINE ids == {[grain |-> r.grain, id |-> r.ref, vector |-> {}] : r \in hits}
           q == [query EXCEPT !.at = "matches", !.ids = ids]
<1>2. QueryType(query) /\ AskFits(query) /\ query.at \in {"keywords", "files"}
  BY DEF FindMatches, QInv, QueryOK
<1>3. hits \subseteq db.fts
  BY QueryAssumption, AtMostFits DEF Matching
<1>4. \A n \in ids : n.grain \in {"symbol", "file"} /\ n.id \in RowId /\ Cardinality(n.vector) <= 1
  <2>1. Cardinality({}) <= 1
    BY FS_EmptySet
  <2>2. \A r \in hits : r.grain \in {"symbol", "file"} /\ r.ref \in RowId
    BY <1>3 DEF TypeOK, CatalogType, FtsRow
  <2> QED BY <2>1, <2>2
<1> HIDE DEF ids
<1>5. QueryType(q)
  BY <1>2, <1>4, QueryFields DEF QueryType, QFields, QueryLocations
<1>6. AskFits(q) /\ q.at \notin {"locate", "done"}
  BY <1>2, QueryFields DEF QueryType, QFields, AskFits, SearchStages, GraphStages
<1> QED BY <1>1, <1>5, <1>6, Unfinished, GoesOn DEF ids

LEMMA TakeMatchOK == ASSUME TypeOK, QInv, TakeMatch PROVE QInv'
<1>1. PICK n \in query.ids :
          Goes([query EXCEPT
                !.ids = @ \ {n},
                !.found = [k \in DOMAIN @ \cup KeysAt(db, n.grain, n.id) |->
                              IF k \in DOMAIN @ THEN @[k] ELSE Blank]])
  BY DEF TakeMatch
<1> DEFINE more == [k \in DOMAIN query.found \cup KeysAt(db, n.grain, n.id) |->
                       IF k \in DOMAIN query.found THEN query.found[k] ELSE Blank]
           q == [query EXCEPT !.ids = @ \ {n}, !.found = more]
<1>2. QueryType(query) /\ AskFits(query) /\ query.at = "matches"
  BY DEF TakeMatch, QInv, QueryOK
<1>3. Evidence(Blank)
  BY BlankIsEvidence
<1>4. /\ DOMAIN query.found \subseteq DOMAIN more /\ DOMAIN more \subseteq Key
      /\ \A j \in DOMAIN more : Evidence(more[j])
  BY <1>2, <1>3, KeysAtAreKeys DEF QueryType
<1> HIDE DEF more
<1>5. QueryType(q)
  BY <1>2, <1>4, QueryFields DEF QueryType, QFields
<1>6. AskFits(q) /\ q.at \notin {"locate", "done"}
  BY <1>2, QueryFields DEF QueryType, QFields, AskFits, SearchStages, GraphStages
<1> QED BY <1>1, <1>5, <1>6, Unfinished, GoesOn DEF more

LEMMA ListFilesOK == ASSUME TypeOK, QInv, ListFiles PROVE QInv'
<1> DEFINE q == [query EXCEPT !.at = "grep", !.files = {f.path : f \in db.files}]
<1>1. QueryType(query) /\ AskFits(query) /\ query.at = "matches" /\ Goes(q)
  BY DEF ListFiles, QInv, QueryOK
<1>2. {f.path : f \in db.files} \subseteq Path
  BY FilesHavePaths
<1>3. QueryType(q)
  BY <1>1, <1>2, QueryFields DEF QueryType, QFields, QueryLocations
<1>4. AskFits(q) /\ q.at \notin {"locate", "done"}
  BY <1>1, QueryFields DEF QueryType, QFields, AskFits, SearchStages, GraphStages
<1> QED BY <1>1, <1>3, <1>4, Unfinished, GoesOn

\* A line grep finds is one of a listed file that contains one of the names.
LEMMA HitLinesMembers ==
    ASSUME NEW t, NEW paths, NEW names
    PROVE  /\ \A l \in HitLines(t, paths, names) :
                  l[1] \in paths \cap Greppable /\ l[2] \in LinesWith(t[l[1]], names)
           /\ \A p \in paths \cap Greppable : \A i \in LinesWith(t[p], names) :
                  <<p, i>> \in HitLines(t, paths, names)
BY DEF HitLines

LEMMA GrepOK == ASSUME TypeOK, QInv, Grep PROVE QInv'
<1>a. query.at = "grep"
  BY DEF Grep
<1>b. PICK lines \in AtMost(ContentCap, HitLines(tree, query.files, query.ask.names)) :
          Goes([query EXCEPT !.at = "attribute", !.files = {}, !.lines = lines])
  BY DEF Grep
<1> DEFINE q == [query EXCEPT !.at = "attribute", !.files = {}, !.lines = lines]
<1>1. QueryType(query) /\ AskFits(query) /\ query.at = "grep" /\ Goes(q)
  BY <1>a, <1>b DEF QInv, QueryOK
<1>c. lines \subseteq HitLines(tree, query.files, query.ask.names)
  BY AtMostFits, QueryAssumption
<1>2. \A l \in lines : l[1] \in Path
  BY <1>1, <1>c, HitLinesMembers DEF QueryType
<1>3. QueryType(q)
  BY <1>1, <1>2, QueryFields DEF QueryType, QFields, QueryLocations
<1>4. AskFits(q) /\ q.at \notin {"locate", "done"}
  BY <1>1, QueryFields DEF QueryType, QFields, AskFits, SearchStages, GraphStages
<1> QED BY <1>1, <1>3, <1>4, Unfinished, GoesOn

LEMMA DenseIsEvidence ==
    ASSUME NEW e, Evidence(e)
    PROVE  Evidence([e EXCEPT !.dense = TRUE])
BY EvidenceFields DEF Evidence

LEMMA AttributeOK == ASSUME TypeOK, QInv, Attribute PROVE QInv'
<1> DEFINE known(k) == IF k \in DOMAIN query.found THEN query.found[k] ELSE Blank
<1>1. PICK p \in {l[1] : l \in query.lines} :
        LET here == {l \in query.lines : l[1] = p}
            keys == {Enclosing(p, tree[p], l[2]) : l \in here}
        IN  Goes([query EXCEPT
                    !.lines = @ \ here,
                    !.found = [k \in DOMAIN @ \cup keys |->
                                  IF k \in keys THEN [known(k) EXCEPT !.dense = TRUE] ELSE @[k]]])
  BY Zenon DEF Attribute
<1> DEFINE here == {l \in query.lines : l[1] = p}
           keys == {Enclosing(p, tree[p], l[2]) : l \in here}
           more == [k \in DOMAIN query.found \cup keys |->
                       IF k \in keys THEN [known(k) EXCEPT !.dense = TRUE] ELSE query.found[k]]
           q == [query EXCEPT !.lines = @ \ here, !.found = more]
<1>2. QueryType(query) /\ AskFits(query) /\ query.at = "attribute"
  BY DEF Attribute, QInv, QueryOK
<1>3. p \in Path
  BY <1>2 DEF QueryType
<1>4. keys \subseteq Key
  BY <1>3, EnclosingIsKey
<1>5. \A k : Evidence(known(k))
  BY <1>2, BlankIsEvidence DEF QueryType
<1>6. \A k : Evidence([known(k) EXCEPT !.dense = TRUE])
  <2> HIDE DEF known
  <2> QED BY <1>5, DenseIsEvidence
<1>7. DOMAIN query.found \subseteq DOMAIN more /\ DOMAIN more \subseteq Key
  <2> HIDE DEF keys, known
  <2> QED BY <1>2, <1>4 DEF QueryType
<1>8. \A j \in DOMAIN more : Evidence(more[j])
  <2> HIDE DEF keys, known
  <2> QED BY <1>2, <1>6 DEF QueryType
<1>9. Goes(q)
  BY <1>1
<1> HIDE DEF more, here
<1>10. QueryType(q)
  BY <1>2, <1>7, <1>8, QueryFields DEF QueryType, QFields
<1>11. AskFits(q) /\ q.at \notin {"locate", "done"}
  BY <1>2, QueryFields DEF QueryType, QFields, AskFits
<1> QED BY <1>9, <1>10, <1>11, Unfinished, GoesOn

LEMMA RankOK == ASSUME QInv, Rank PROVE QInv'
<1>1. PICK kept \in AtMost(query.ask.max, FoldFileHits(DOMAIN query.found)) :
        Goes([query EXCEPT !.at = "locate", !.found = Restrict(@, kept),
                           !.parse = {k.path : k \in {j \in kept : j.name # NoName}},
                           !.todo = kept])
  BY DEF Rank
<1> DEFINE fewer == Restrict(query.found, kept)
           q == [query EXCEPT !.at = "locate", !.found = fewer,
                              !.parse = {k.path : k \in {j \in kept : j.name # NoName}},
                              !.todo = kept]
<1>2. /\ QueryType(query) /\ AskFits(query) /\ query.at \in {"matches", "attribute"}
      /\ query.reads = {}
  BY DEF Rank, QInv, QueryOK, AskFits, SearchStages
<1>3. query.ask \in Asks /\ query.ask.max \in Nat /\ query.ask.kind = "search"
  BY <1>2, QueryAssumption DEF QueryType, AskFits, SearchStages, Ask
<1>4. kept \subseteq FoldFileHits(DOMAIN query.found) /\ Cardinality(kept) <= query.ask.max
  BY <1>3, AtMostFits
<1>5. /\ kept \subseteq DOMAIN query.found
      /\ \A j, k \in kept : j.path = k.path /\ j.name = NoName => k = j
  BY <1>2, <1>4, FoldedHitsFit DEF QueryType
<1>6. DOMAIN fewer = kept /\ \A k \in kept : fewer[k] = query.found[k]
  BY <1>5 DEF Restrict
<1>7. Goes(q)
  BY <1>1
<1>8. kept \subseteq Key /\ {k.path : k \in {j \in kept : j.name # NoName}} \subseteq Path
  BY <1>2, <1>5 DEF QueryType, Key
<1> HIDE DEF fewer
<1>9. QueryType(q)
  BY <1>2, <1>5, <1>6, <1>8, QueryFields DEF QueryType, QFields, QueryLocations
<1>10. AskFits(q) /\ HitsFit(q) /\ GraphFits(q)
  BY <1>2, <1>3, <1>4, <1>5, <1>6, QueryFields
     DEF QueryType, QFields, AskFits, HitsFit, GraphFits, SearchStages, GraphStages
<1> QED BY <1>7, <1>9, <1>10, GoesOn DEF QueryOK

-----------------------------------------------------------------------------
(* Lines, neighbours and the answer *)

\* What is known of the hits may change, what they are may not.
LEMMA StillFits ==
    ASSUME QueryOK(query), query.at = "locate",
           NEW q, DOMAIN q = QFields,
           q.at \in {"locate", "done"}, q.ask = query.ask, q.error = query.error,
           q.at = "done" => q.ask.kind # "graph",
           DOMAIN q.found = DOMAIN query.found
    PROVE  AskFits(q) /\ HitsFit(q) /\ GraphFits(q)
BY DEF QueryOK, AskFits, HitsFit, GraphFits, SearchStages, GraphStages

LEMMA LineIsEvidence ==
    ASSUME NEW e, Evidence(e), NEW n \in Nat
    PROVE  Evidence([e EXCEPT !.line = n])
BY EvidenceFields DEF Evidence

LEMMA LocateOK == ASSUME TypeOK, QInv, Locate PROVE QInv'
<1>1. PICK p \in query.parse :
        Goes([query EXCEPT
                !.parse = @ \ {p},
                !.found = [k \in DOMAIN @ |->
                              IF k.path = p /\ k.name # NoName
                              THEN [@[k] EXCEPT !.line = FindSymbol(tree[p], k.name)]
                              ELSE @[k]]])
  BY DEF Locate
<1> DEFINE found == [k \in DOMAIN query.found |->
                        IF k.path = p /\ k.name # NoName
                        THEN [query.found[k] EXCEPT !.line = FindSymbol(tree[p], k.name)]
                        ELSE query.found[k]]
           q == [query EXCEPT !.parse = @ \ {p}, !.found = found]
<1>2. QueryOK(query) /\ QueryType(query) /\ query.at = "locate"
  BY DEF Locate, QInv, QueryOK
<1>3. p \in Path
  BY <1>2 DEF QueryType
<1>4. \A k \in DOMAIN query.found : Evidence(found[k])
  BY <1>2, <1>3, FindSymbolIsLine, LineIsEvidence DEF QueryType
<1>5. DOMAIN found = DOMAIN query.found
  OBVIOUS
<1>6. Goes(q)
  BY <1>1
<1> HIDE DEF found
<1>7. QueryType(q)
  BY <1>2, <1>4, <1>5, QueryFields DEF QueryType, QFields
<1>8. /\ DOMAIN q = QFields /\ q.at = "locate" /\ q.ask = query.ask /\ q.error = query.error
      /\ q.found = found
  BY <1>2, QueryFields DEF QueryType, QFields
<1> QED BY <1>2, <1>5, <1>6, <1>7, <1>8, StillFits, GoesOn DEF QueryOK

LEMMA ReadsFit ==
    ASSUME NEW k, NEW i, NEW places, DOMAIN places \subseteq Link, NEW r \in Reads(k, i, places)
    PROVE  r.key = k /\ r.link \in Link
BY DEF Reads

LEMMA LookUpOK == ASSUME QInv, LookUp PROVE QInv'
<1> DEFINE places == [tests |-> 1, imports |-> 2, importers |-> 3]
           k == CHOOSE j \in query.todo : TRUE
           reads == UNION {Reads(k, f.id, places) : f \in FileAt(db, k.path)}
           q == [query EXCEPT !.todo = @ \ {k}, !.reads = reads]
<1>1. Goes(q) /\ query.todo # {} /\ query.at = "locate"
  BY Zenon DEF LookUp
<1>2. QueryOK(query) /\ QueryType(query)
  BY DEF QInv, QueryOK
<1>3. k \in DOMAIN query.found
  BY <1>1, <1>2 DEF QueryType
<1>4. DOMAIN places = Link
  BY DEF Link
<1> HIDE DEF k, places
<1>5. \A r \in reads : r.key = k /\ r.link \in Link
  BY <1>4, ReadsFit
<1> HIDE DEF reads
<1>6. QueryType(q)
  BY <1>2, <1>3, <1>5, QueryFields DEF QueryType, QFields
<1>7. /\ DOMAIN q = QFields /\ q.at = "locate" /\ q.ask = query.ask /\ q.error = query.error
      /\ q.found = query.found
  BY <1>1, <1>2, QueryFields DEF QueryType, QFields
<1> QED BY <1>1, <1>2, <1>6, <1>7, StillFits, GoesOn DEF QueryOK

LEMMA LinksAreEvidence ==
    ASSUME NEW e, Evidence(e), NEW l \in Link, NEW paths \in SUBSET Path
    PROVE  Evidence([e EXCEPT !.links[l] = paths])
BY EvidenceFields DEF Evidence

LEMMA ReadNeighboursOK == ASSUME TypeOK, QInv, ReadNeighbours PROVE QInv'
<1>1. PICK r \in query.reads :
          Goes([query EXCEPT !.reads = @ \ {r},
                             !.found[r.key].links[r.link] = LinksOf(db, r.file, r.link)])
  BY DEF ReadNeighbours
<1> DEFINE links == LinksOf(db, r.file, r.link)
           found == [query.found EXCEPT ![r.key] = [@ EXCEPT !.links[r.link] = links]]
           q == [query EXCEPT !.reads = @ \ {r}, !.found = found]
<1>2. QueryOK(query) /\ QueryType(query) /\ query.at = "locate"
  BY DEF ReadNeighbours, QInv, QueryOK
<1>3. r.key \in DOMAIN query.found /\ r.link \in Link
  BY <1>2 DEF QueryType
<1>4. links \in SUBSET Path
  BY LinksOfPaths
<1>5. Goes(q)
  BY <1>1
<1> HIDE DEF links
<1>6. Evidence([query.found[r.key] EXCEPT !.links[r.link] = links])
  BY <1>2, <1>3, <1>4, LinksAreEvidence DEF QueryType
<1>7. /\ DOMAIN found = DOMAIN query.found
      /\ \A k \in DOMAIN query.found : Evidence(found[k])
  BY <1>2, <1>3, <1>6 DEF QueryType
<1> HIDE DEF found
<1>8. QueryType(q)
  BY <1>2, <1>7, QueryFields DEF QueryType, QFields
<1>9. /\ DOMAIN q = QFields /\ q.at = "locate" /\ q.ask = query.ask /\ q.error = query.error
      /\ q.found = found
  BY <1>2, QueryFields DEF QueryType, QFields
<1> QED BY <1>2, <1>5, <1>7, <1>8, <1>9, StillFits, GoesOn DEF QueryOK

LEMMA AnswerOK == ASSUME QInv, Answer PROVE QInv'
<1> DEFINE q == [query EXCEPT !.at = "done"]
<1>1. QueryOK(query) /\ QueryType(query) /\ query.at = "locate" /\ Goes(q)
  BY DEF Answer, QInv, QueryOK
<1>2. QueryType(q)
  BY <1>1, QueryFields DEF QueryType, QFields, QueryLocations
<1>3. /\ DOMAIN q = QFields /\ q.at = "done" /\ q.ask = query.ask /\ q.error = query.error
      /\ q.found = query.found
  BY <1>1, QueryFields DEF QueryType, QFields
<1>4. q.ask.kind # "graph"
  BY <1>1, <1>3 DEF QueryOK, AskFits
<1> QED BY <1>1, <1>2, <1>3, <1>4, StillFits, GoesOn DEF QueryOK

-----------------------------------------------------------------------------
(* Every action of a show and of a graph *)

LEMMA BeginSymbolOK == ASSUME TypeOK, QInv, BeginSymbol PROVE QInv'
<1>1. PICK a \in Asks :
        /\ a.kind = "symbol"
        /\ LET rows   == {s \in db.symbols : NameOf[s.ident] \in a.names}
               within == {k \in SymbolKeys(db, rows) : k.path \in a.within}
           IN  IF within = {} THEN Begin(Refused(a, "NOT_FOUND"))
               ELSE \E kept \in AtMost(BlockCap, within) :
                    /\ \A k \in kept, j \in within \ kept : k.path <= j.path
                    /\ Begin([Asked(a, "locate") EXCEPT
                                 !.found = [k \in kept |-> Blank],
                                 !.parse = {k.path : k \in kept},
                                 !.reads = UNION {Reads(x[1], x[2].id, [tests |-> x[1].path]) :
                                                     x \in {y \in kept \X db.files : y[1].path = y[2].path}}])
  BY Zenon DEF BeginSymbol, AsksFor
<1> DEFINE rows   == {s \in db.symbols : NameOf[s.ident] \in a.names}
           within == {k \in SymbolKeys(db, rows) : k.path \in a.within}
<1>2. CASE Begin(Refused(a, "NOT_FOUND"))
  BY <1>2, RefusedOK, Begins
<1>3. ASSUME NEW kept \in AtMost(BlockCap, within),
             Begin([Asked(a, "locate") EXCEPT
                       !.found = [k \in kept |-> Blank],
                       !.parse = {k.path : k \in kept},
                       !.reads = UNION {Reads(x[1], x[2].id, [tests |-> x[1].path]) :
                                           x \in {y \in kept \X db.files : y[1].path = y[2].path}}])
      PROVE  QInv'
  <2> DEFINE found == [k \in kept |-> Blank]
             parse == {k.path : k \in kept}
             pairs == {y \in kept \X db.files : y[1].path = y[2].path}
             reads == UNION {Reads(x[1], x[2].id, [tests |-> x[1].path]) : x \in pairs}
             q == [Asked(a, "locate") EXCEPT !.found = found, !.parse = parse, !.reads = reads]
  <2>1. kept \subseteq Key
    <3>1. within \subseteq Key
      BY DEF SymbolKeys
    <3> HIDE DEF within
    <3> QED BY <3>1, QueryAssumption, AtMostFits
  <2>2. parse \subseteq Path
    BY <2>1 DEF Key
  <2>3. \A x \in pairs : \A r \in Reads(x[1], x[2].id, [tests |-> x[1].path]) : r.key = x[1] /\ r.link \in Link
    <3> HIDE DEF pairs
    <3> SUFFICES ASSUME NEW x \in pairs, NEW r \in Reads(x[1], x[2].id, [tests |-> x[1].path])
                 PROVE  r.key = x[1] /\ r.link \in Link
      OBVIOUS
    <3>1. DOMAIN [tests |-> x[1].path] \subseteq Link
      BY DEF Link
    <3> QED BY <3>1, ReadsFit
  <2>4. \A x \in pairs : x[1] \in kept
    OBVIOUS
  <2> HIDE DEF pairs
  <2>5. \A r \in reads : r.key \in kept /\ r.link \in Link
    BY <2>3, <2>4
  <2>6. DOMAIN found = kept /\ \A k \in kept : Evidence(found[k])
    BY BlankIsEvidence
  <2>7. Begin(q)
    BY <1>3 DEF pairs
  <2> HIDE DEF found, parse, reads
  <2>8. QueryType(q)
    BY <2>1, <2>2, <2>5, <2>6 DEF Asked, NoQuery, QueryType, QueryLocations
  <2>9. AskFits(q) /\ HitsFit(q) /\ GraphFits(q)
    BY <1>1 DEF Asked, NoQuery, AskFits, HitsFit, GraphFits, SearchStages, GraphStages
  <2> QED BY <2>7, <2>8, <2>9, Begins DEF QueryOK
<1> QED BY <1>1, <1>2, <1>3

LEMMA BeginFileOK == ASSUME QInv, BeginFile PROVE QInv'
<1>1. PICK a \in Asks :
          /\ a.kind = "file"
          /\ \/ Begin(Refused(a, "NOT_FOUND"))
             \/ \E f \in FileAt(db, a.path) : Begin([Asked(a, "outline") EXCEPT !.file = f.id])
  BY Zenon DEF BeginFile, AsksFor
<1>2. ASSUME NEW f \in FileAt(db, a.path), Begin([Asked(a, "outline") EXCEPT !.file = f.id])
      PROVE  QInv'
  <2> DEFINE q == [Asked(a, "outline") EXCEPT !.file = f.id]
  <2>1. QueryType(q)
    BY DEF Asked, NoQuery, QueryType, QueryLocations
  <2>2. AskFits(q) /\ q.at \notin {"locate", "done"}
    BY <1>1 DEF Asked, NoQuery, AskFits, SearchStages, GraphStages
  <2> QED BY <1>2, <2>1, <2>2, Unfinished, Begins
<1> QED BY <1>1, <1>2, RefusedOK, Begins

LEMMA ReadOutlineOK == ASSUME TypeOK, QInv, ReadOutline PROVE QInv'
<1> DEFINE rows == SymbolKeys(db, SymbolsIn(db, {query.file}))
           self == FileKey(query.ask.path)
           places == [imports |-> 1, importers |-> 2, tests |-> 3]
           found == [k \in rows \cup {self} |-> Blank]
           q == [query EXCEPT
                    !.at = "locate", !.file = 0, !.found = found,
                    !.parse = {k.path : k \in rows},
                    !.reads = Reads(self, query.file, places)]
<1>1. query.at = "outline" /\ Goes(q)
  BY DEF ReadOutline
<1>2. QueryType(query) /\ query.ask.kind = "file" /\ query.ask \in Asks /\ query.todo = {}
  BY <1>1 DEF QInv, QueryOK, QueryType, AskFits
<1>3. rows \subseteq Key /\ self \in Key
  BY <1>2, QueryAssumption DEF SymbolKeys, FileKey, Key, Ask
<1>4. {k.path : k \in rows} \subseteq Path
  BY <1>3 DEF Key
<1>5. DOMAIN places \subseteq Link
  BY DEF Link
<1> HIDE DEF rows, self, places
<1>6. \A r \in Reads(self, query.file, places) : r.key = self /\ r.link \in Link
  BY <1>5, ReadsFit
<1>7. DOMAIN found = rows \cup {self} /\ \A k \in DOMAIN found : Evidence(found[k])
  BY BlankIsEvidence
<1> HIDE DEF found
<1>8. QueryType(q)
  BY <1>2, <1>3, <1>4, <1>6, <1>7, QueryFields DEF QueryType, QFields, QueryLocations
<1>9. AskFits(q) /\ HitsFit(q) /\ GraphFits(q)
  BY <1>2, QueryFields DEF QueryType, QFields, AskFits, HitsFit, GraphFits, SearchStages, GraphStages
<1> QED BY <1>1, <1>8, <1>9, GoesOn DEF QueryOK

LEMMA BeginGraphOK == ASSUME QInv, BeginGraph PROVE QInv'
<1>1. PICK a \in Asks : a.kind = "graph" /\ Begin(Asked(a, "graph"))
  BY Zenon DEF BeginGraph, AsksFor
<1>2. AskFits(Asked(a, "graph")) /\ "graph" \in QueryLocations \ {"locate", "done"}
  BY <1>1 DEF AskFits, Asked, NoQuery, SearchStages, GraphStages, QueryLocations
<1> QED BY <1>1, <1>2, AskedOK, Begins

LEMMA ReadAllFilesOK == ASSUME TypeOK, QInv, ReadAllFiles PROVE QInv'
<1> DEFINE q == [query EXCEPT !.at = "import", !.files = {f.path : f \in db.files}]
<1>1. QueryType(query) /\ AskFits(query) /\ query.at = "graph" /\ Goes(q)
  BY DEF ReadAllFiles, QInv, QueryOK
<1>2. {f.path : f \in db.files} \subseteq Path
  BY FilesHavePaths
<1>3. QueryType(q)
  BY <1>1, <1>2, QueryFields DEF QueryType, QFields, QueryLocations
<1>4. AskFits(q) /\ q.at \notin {"locate", "done"}
  BY <1>1, QueryFields DEF QueryType, QFields, AskFits, SearchStages, GraphStages
<1> QED BY <1>1, <1>3, <1>4, Unfinished, GoesOn

LEMMA ReadFileEdgesOK ==
    ASSUME QInv, NEW type \in GraphStages, NEW next \in GraphStages, ReadFileEdges(type, next)
    PROVE  QInv'
<1> DEFINE q == [query EXCEPT !.at = next, !.edges = @ \cup FileEdges(db, type)]
<1>1. QueryType(query) /\ AskFits(query) /\ query.at = type /\ Goes(q)
  BY DEF ReadFileEdges, QInv, QueryOK
<1>2. QueryType(q)
  BY <1>1, QueryFields DEF QueryType, QFields, QueryLocations, GraphStages
<1>3. AskFits(q) /\ q.at \notin {"locate", "done"}
  BY <1>1, QueryFields DEF QueryType, QFields, AskFits, SearchStages, GraphStages
<1> QED BY <1>1, <1>2, <1>3, Unfinished, GoesOn

LEMMA ReadUnresolvedOK == ASSUME QInv, ReadUnresolved PROVE QInv'
<1> DEFINE graph == Project(query.files, query.edges \cup ExternalEdges(db), query.ask)
           q == [query EXCEPT !.at = "done", !.files = {}, !.edges = graph.edges, !.nodes = graph.nodes]
<1>1. QueryType(query) /\ AskFits(query) /\ query.at = "external" /\ Goes(q)
  BY Zenon DEF ReadUnresolved, QInv, QueryOK
<1>2. query.ask \in Ask
  BY <1>1, QueryAssumption DEF QueryType
<1>3. Closes(graph.nodes, graph.edges)
  BY <1>2, ProjectionCloses
<1> HIDE DEF graph
<1>4. QueryType(q)
  BY <1>1, QueryFields DEF QueryType, QFields, QueryLocations
<1>5. AskFits(q) /\ HitsFit(q) /\ GraphFits(q)
  BY <1>1, <1>3, QueryFields
     DEF QueryType, QFields, AskFits, HitsFit, GraphFits, SearchStages, GraphStages
<1> QED BY <1>1, <1>4, <1>5, GoesOn DEF QueryOK

-----------------------------------------------------------------------------
(* Queries and index runs *)

LEMMA NoQueryOK == QueryOK(NoQuery)
BY DEF NoQuery, QueryOK, QueryType, QueryLocations, AskFits, HitsFit, GraphFits, SearchStages, GraphStages

LEMMA ReturnOK == ASSUME QInv, Return PROVE QInv'
BY NoQueryOK, GoesOn DEF Return

LEMMA DisturbsOK ==
    ASSUME QInv, NEW changed, Disturbs(changed), memvecs' \subseteq MemoryVec, UNCHANGED asked
    PROVE  QInv'
<1> DEFINE q == [query EXCEPT !.quiet = FALSE]
<1>1. QueryOK(query) /\ (query' = query \/ query' = q) /\ asked' = asked
  BY DEF QInv, Disturbs
<1>2. QueryType(q)
  BY <1>1, QueryFields DEF QueryOK, QueryType, QFields
<1>3. AskFits(q) /\ HitsFit(q) /\ GraphFits(q)
  BY <1>1, QueryFields DEF QueryOK, QueryType, QFields, AskFits, HitsFit, GraphFits
<1> QED BY <1>1, <1>2, <1>3 DEF QueryOK, QInv

LEMMA MeanwhileOK == ASSUME QInv, Meanwhile \/ MemoryChanges PROVE QInv'
<1>1. CASE Meanwhile
  <2>1. PICK changed : Disturbs(changed)
    BY <1>1, Zenon DEF Meanwhile
  <2> QED BY <1>1, <2>1, DisturbsOK DEF Meanwhile, QInv
<1>2. CASE MemoryChanges
  BY <1>2, DisturbsOK DEF MemoryChanges, QInv
<1> QED BY <1>1, <1>2

LEMMA QueryStepOK == ASSUME TypeOK, QInv, QueryStep PROVE QInv'
<1>1. {"vectors", "symbols", "files"} \subseteq SearchStages
  BY DEF SearchStages
<1>2. {"import", "test", "external"} \subseteq GraphStages
  BY DEF GraphStages
<1>3. CASE NearSymbols
  BY <1>1, <1>3, FindNearOK DEF NearSymbols
<1>4. CASE NearFiles
  BY <1>1, <1>4, FindNearOK DEF NearFiles
<1>5. CASE ReadDepEdges
  BY <1>2, <1>5, ReadFileEdgesOK DEF ReadDepEdges
<1>6. CASE ReadTestLinks
  BY <1>2, <1>6, ReadFileEdgesOK DEF ReadTestLinks
<1> QED
  BY <1>3, <1>4, <1>5, <1>6, BeginSearchOK, TakeNearOK, FindMatchesOK, TakeMatchOK, ListFilesOK,
     GrepOK, AttributeOK, RankOK, LocateOK, LookUpOK, ReadNeighboursOK, AnswerOK, BeginSymbolOK,
     BeginFileOK, ReadOutlineOK, BeginGraphOK, ReadAllFilesOK, ReadUnresolvedOK, ReturnOK
  DEF QueryStep

LEMMA QueryStepReads == QueryStep => UNCHANGED vars
BY DEF QueryStep, BeginSearch, NearSymbols, NearFiles, FindNear, TakeNear, FindMatches, TakeMatch,
       ListFiles, Grep, Attribute, Rank, Locate, LookUp, ReadNeighbours, Answer, BeginSymbol,
       BeginFile, ReadOutline, BeginGraph, ReadAllFiles, ReadDepEdges, ReadTestLinks,
       ReadFileEdges, ReadUnresolved, Return, Begin, Goes, vars

\* A query changes nothing that others see: with queries, the index runs are
\* still those of Reindex, and whatever is proved of these holds.
THEOREM QueriesOnlyRead == QueriesSpec => Spec
<1>1. QueriesInit => Init
  BY DEF QueriesInit
<1>2. [QueriesNext]_<<vars, qvars>> => [Next]_vars
  BY QueryStepReads DEF QueriesNext, Meanwhile, MemoryChanges
<1> QED BY <1>1, <1>2, PTL DEF QueriesSpec, Spec

THEOREM QueriesKeepTheirInvariant == QueriesSpec => []QInv
<1>1. QueriesInit => QInv
  BY NoQueryOK, QueryAssumption DEF QueriesInit, QInv
<1>2. TypeOK /\ QInv /\ [QueriesNext]_<<vars, qvars>> => QInv'
  BY QueryStepOK, MeanwhileOK DEF QueriesNext, QInv, qvars
<1>3. QueriesSpec => []TypeOK
  BY QueriesOnlyRead, TypesHold, PTL
<1> QED BY <1>1, <1>2, <1>3, PTL DEF QueriesSpec

\* The query and the counter always have their types (QueryTypeOK).
THEOREM QueryTypesHold == QueriesSpec => []QueryTypeOK
<1>1. QInv => QueryTypeOK
  BY DEF QInv, QueryOK, QueryTypeOK
<1> QED BY <1>1, QueriesKeepTheirInvariant, PTL

\* Whatever commits between its four reads, a graph that is printed closes
\* (GraphAnswerCloses; graph.go:25-187).
THEOREM GraphsClose == QueriesSpec => []GraphAnswerCloses
<1>1. QInv => GraphAnswerCloses
  BY DEF QInv, QueryOK, GraphFits, GraphAnswerCloses, Answered, Closes, InDegree, OutDegree
<1> QED BY <1>1, QueriesKeepTheirInvariant, PTL

\* Whatever commits or is edited between its reads, a search keeps its limit and
\* lists no file beside its symbols (HitsDoNotOverlap; search.go:212-215, 336-351).
THEOREM HitsNeverOverlap == QueriesSpec => []HitsDoNotOverlap
<1>1. QInv => HitsDoNotOverlap
  BY DEF QInv, QueryOK, HitsFit, HitsDoNotOverlap, Answered
<1> QED BY <1>1, QueriesKeepTheirInvariant, PTL

-----------------------------------------------------------------------------
(* What an undisturbed query has found at each place it can be at *)

\* The paths of a catalog.
Paths(d) == {f.path : f \in d.files}

\* k was found by a vector; k will be found when the owners found are fetched.
HasVector(q, k)  == k \in DOMAIN q.found /\ q.found[k].vector # {}
Awaited(d, q, k) == \E n \in q.ids : k \in KeysAt(d, n.grain, n.id)

\* Owners are still to be fetched because of their vectors, or because their text matches.
IdsTrue(d, q) ==
    /\ q.at \in {"symbols", "files"} =>
        \A n \in q.ids :
            /\ n.vector # {}
            /\ \A x \in n.vector : \E v \in d.vecs : v.owner = n.grain /\ v.id = n.id /\ v.of = x
    /\ q.at = "matches" =>
        \A n \in q.ids : \E r \in Matching(d, q.ask) : r.grain = n.grain /\ r.ref = n.id

\* What has been found is a candidate, and its vector its own.
FoundTrue(d, t, q) ==
    /\ q.at \in {"vectors", "symbols", "files"} => q.semantic
    /\ q.at \in {"keywords", "grep", "attribute"} => ~q.semantic
    /\ \A k \in DOMAIN q.found : k \in CandidateKeys(d, t, q) /\ q.found[k].vector \subseteq VectorsFor(d, k)

\* Unless the cap cuts them off, what is near is found or about to be, and so is what matches.
NearFound(d, m, q) ==
    q.semantic /\ NearUncut(d.vecs \cup m) =>
        \A k \in Near(d) :
            /\ q.at = "symbols" /\ k.name # NoName => HasVector(q, k) \/ Awaited(d, q, k)
            /\ q.at = "files" => HasVector(q, k) \/ Awaited(d, q, k)
            /\ q.at = "matches" => HasVector(q, k)
MatchesFound(d, q) ==
    MatchUncut(d, q) =>
        \A k \in Matched(d, q.ask) :
            /\ q.at = "matches" => k \in DOMAIN q.found \/ Awaited(d, q, k)
            /\ q.at \in {"grep", "attribute"} => k \in DOMAIN q.found

\* Grep hits are attributed to the keys around them, and nothing else counts as one;
\* unless the cap cuts them off, there is a hit for every line.
LinesFound(d, t, q) ==
    ~q.semantic =>
        /\ q.at \in {"keywords", "matches", "grep"} => \A k \in DOMAIN q.found : ~q.found[k].dense
        /\ q.at = "grep" => q.files = Paths(d)
        /\ q.at = "attribute" =>
            /\ \A l \in q.lines : l[1] \in Paths(d) \cap Greppable /\ l[2] \in LinesWith(t[l[1]], q.ask.names)
            /\ \A k \in DOMAIN q.found : q.found[k].dense => k \in Dense(d, t, q.ask)
            /\ GrepUncut(d, t, q.ask) =>
                \A p \in Paths(d) \cap Greppable : \A i \in LinesWith(t[p], q.ask.names) :
                    LET k == Enclosing(p, t[p], i)
                    IN  <<p, i>> \in q.lines \/ (k \in DOMAIN q.found /\ q.found[k].dense)

\* The hits that are left after ranking.
HitsTrue(d, m, t, q) ==
    LET all  == CandidateKeys(d, t, q)
        hits == DOMAIN q.found
    IN  q.at \in {"locate", "done"} =>
        /\ MatchUncut(d, q) /\ SourceUncut(d, m, t, q) /\ Cardinality(FoldFileHits(all)) <= q.ask.max
             => hits = FoldFileHits(all)
        /\ q.semantic /\ SourceUncut(d, m, t, q) => \A k \in hits \cap Near(d) : q.found[k].vector # {}
        /\ ~q.semantic => \A k \in hits :
            /\ q.found[k].dense => k \in Dense(d, t, q.ask)
            /\ SourceUncut(d, m, t, q) /\ k \in Dense(d, t, q.ask) => q.found[k].dense

\* What an undisturbed search has found, place by place.
SearchTrue(d, m, t, q) ==
    q.ask.kind = "search" /\ q.error = "none" =>
        /\ IdsTrue(d, q) /\ FoundTrue(d, t, q) /\ HitsTrue(d, m, t, q)
        /\ NearFound(d, m, q) /\ MatchesFound(d, q) /\ LinesFound(d, t, q)

\* The neighbours an answer tells of k, once nothing of it is left to be looked up.
Wanted(q, k) ==
    {l \in Link :
        \/ q.ask.kind = "search" /\ k \notin q.todo
        \/ q.ask.kind = "symbol" /\ l = "tests"
        \/ q.ask.kind = "file" /\ k = FileKey(q.ask.path)}

\* Lines and neighbours are those of the tree and the graph, or still to be read.
LinesTrue(t, q) == \A k \in DOMAIN q.found : k.path \notin q.parse => TrueLine(t, q.found, k)
LinksTrue(d, q) ==
    /\ \A r \in q.reads : \A f \in FileAt(d, r.key.path) : f.id = r.file
    /\ \A k \in DOMAIN q.found : \A l \in Wanted(q, k) :
        \/ FileAt(d, k.path) = {}
        \/ q.found[k].links[l] = LinksTo(d, k, l)
        \/ \E r \in q.reads : r.key = k /\ r.link = l

\* The details of what a search or a show has found.
DetailsTrue(d, t, q) ==
    q.at \in {"locate", "done"} /\ q.ask.kind # "graph" =>
        /\ LinesTrue(t, q) /\ LinksTrue(d, q)
        /\ q.at = "done" => q.parse = {} /\ q.reads = {} /\ q.todo = {}

\* The keys of a show.
Definitions(d, a) == {k \in Key : k.name \in a.names /\ k.path \in a.within /\ OwnersOf(d, k) # {}}
Outline(d, p)     == {FileKey(p)} \cup {k \in Key : k.path = p /\ OwnersOf(d, k) # {}}

\* What an undisturbed show has found, before and after its rows are read.
ShowTrue(d, q) ==
    /\ q.at = "outline" => \E f \in FileAt(d, q.ask.path) : f.id = q.file
    /\ q.at \in {"locate", "done"} /\ q.error = "none" =>
        /\ q.ask.kind = "symbol" => DOMAIN q.found \in AtMost(BlockCap, Definitions(d, q.ask))
        /\ q.ask.kind = "file"   => DOMAIN q.found = Outline(d, q.ask.path)

\* What has been read of the graph, and what is shown of it.
AllEdges(d) == FileEdges(d, "import") \cup FileEdges(d, "test") \cup ExternalEdges(d)

GraphTrue(d, q) ==
    /\ q.at \in GraphStages \ {"graph"} => q.files = Paths(d)
    /\ q.at \in {"graph", "import"} => q.edges = {}
    /\ q.at = "test"     => q.edges = FileEdges(d, "import")
    /\ q.at = "external" => q.edges = FileEdges(d, "import") \cup FileEdges(d, "test")
    /\ q.at = "done" /\ q.error = "none" /\ q.ask.kind = "graph" =>
        LET shown == {n.id : n \in q.nodes} \cap Path
        IN  /\ q.edges = Induced(AllEdges(d), shown)
            /\ shown \in AtMost(q.ask.max, Paths(d) \cap q.ask.within)

\* All of it.
Finds(d, m, t, q) == SearchTrue(d, m, t, q) /\ DetailsTrue(d, t, q) /\ ShowTrue(d, q) /\ GraphTrue(d, q)

\* As long as nothing has changed under a query, it has found what there is to find.
FInv == query.at # "idle" /\ query.quiet => Finds(db, memvecs, tree, query)

-----------------------------------------------------------------------------
(* Keys, owners and neighbours in a catalog *)

\* Good tables have one row per id, one file per path, and no row without its file.
LEMMA GoodRows ==
    ASSUME NEW d, Good(d)
    PROVE  /\ d.files \subseteq FileRow /\ d.symbols \subseteq SymbolRow
           /\ \A f, g \in d.files : f.path = g.path \/ f.id = g.id => f = g
           /\ \A r, s \in d.symbols : r.id = s.id => r = s
           /\ \A s \in d.symbols : \E f \in d.files : f.id = s.file
BY DEF Good, Sound, Consistent, UniquePaths, UniqueIds, References, Ids

\* The keys of one symbol: that of its name in its file, and no other.
LEMMA KeyOfSymbol ==
    ASSUME NEW d, Good(d), NEW s \in d.symbols, NEW f \in d.files, f.id = s.file
    PROVE  SymbolKeys(d, {s}) = {SymbolKey(f.path, NameOf[s.ident])}
<1> DEFINE key == SymbolKey(f.path, NameOf[s.ident])
<1>1. f \in FileRow /\ s \in SymbolRow
  BY GoodRows
<1>2. f.path \in Path /\ NameOf[s.ident] \in Name
  BY <1>1, QueryAssumption DEF FileRow, SymbolRow
<1>3. key \in Key
  BY <1>2 DEF SymbolKey, Key
<1>4. \A g \in d.files : g.id = s.file => g = f
  BY GoodRows
<1>5. \A k : k \in SymbolKeys(d, {s}) <=> k \in Key /\ \E g \in d.files : g.id = s.file /\ k = SymbolKey(g.path, NameOf[s.ident])
  BY DEF SymbolKeys
<1> HIDE DEF key
<1>6. \A k : k \in SymbolKeys(d, {s}) <=> k = key
  BY <1>3, <1>4, <1>5 DEF key
<1> QED BY <1>6 DEF key

\* SymbolByID and FileByID find the key an id belongs to.
LEMMA KeysAtOwned ==
    ASSUME NEW d, Good(d), NEW grain \in {"symbol", "file"}, NEW i, NEW k
    PROVE  k \in KeysAt(d, grain, i) <=> k \in Key /\ <<grain, i>> \in OwnersOf(d, k)
<1>1. CASE grain = "file"
  <2>1. k \in KeysAt(d, grain, i) <=> \E f \in d.files : f.id = i /\ k = FileKey(f.path)
    BY <1>1 DEF KeysAt
  <2>2. <<grain, i>> \in OwnersOf(d, k) <=> k.name = NoName /\ \E f \in d.files : f.path = k.path /\ f.id = i
    BY <1>1 DEF OwnersOf, FileAt
  <2>3. \A f \in d.files : FileKey(f.path) \in Key
    BY GoodRows DEF FileRow, FileKey, Key
  <2>4. k \in Key => \A p : k = FileKey(p) <=> k.name = NoName /\ k.path = p
    BY DEF Key, FileKey
  <2> QED BY <2>1, <2>2, <2>3, <2>4
<1>2. CASE grain = "symbol"
  <2>1. k \in KeysAt(d, grain, i) <=> k \in SymbolKeys(d, {s \in d.symbols : s.id = i})
    BY <1>2 DEF KeysAt
  <2>2. k \in SymbolKeys(d, {s \in d.symbols : s.id = i}) <=>
            \E s \in d.symbols : s.id = i /\ k \in SymbolKeys(d, {s})
    BY DEF SymbolKeys
  <2>3. \A s \in d.symbols : k \in SymbolKeys(d, {s}) <=> SymbolKeys(d, {s}) = {k}
    BY GoodRows, KeyOfSymbol
  <2>4. \A s \in d.symbols : k \in SymbolKeys(d, {s}) => k \in Key /\ k.name # NoName
    <3> SUFFICES ASSUME NEW s \in d.symbols, k \in SymbolKeys(d, {s})
                 PROVE  k \in Key /\ k.name # NoName
      OBVIOUS
    <3>1. s.ident \in Ident
      BY GoodRows DEF SymbolRow
    <3>2. NameOf[s.ident] \in Name
      BY <3>1, QueryAssumption
    <3> QED BY <3>2, QueryAssumption DEF SymbolKeys, SymbolKey
  <2>5. <<grain, i>> \in OwnersOf(d, k) <=>
            k.name # NoName /\ \E s \in d.symbols : s.id = i /\ SymbolKeys(d, {s}) = {k}
    BY <1>2 DEF OwnersOf
  <2> QED BY <2>1, <2>2, <2>3, <2>4, <2>5
<1> QED BY <1>1, <1>2

\* An id has one key at most.
LEMMA OneKeyAt ==
    ASSUME NEW d, Good(d), NEW grain \in {"symbol", "file"}, NEW i,
           NEW j \in KeysAt(d, grain, i), NEW k \in KeysAt(d, grain, i)
    PROVE  j = k
<1>1. CASE grain = "file"
  BY <1>1, GoodRows DEF KeysAt
<1>2. CASE grain = "symbol"
  <2>1. \A x \in KeysAt(d, grain, i) : \E s \in d.symbols : s.id = i /\ x \in SymbolKeys(d, {s})
    BY <1>2 DEF KeysAt, SymbolKeys
  <2>2. PICK s \in d.symbols : s.id = i /\ j \in SymbolKeys(d, {s})
    BY <2>1
  <2>3. PICK r \in d.symbols : r.id = i /\ k \in SymbolKeys(d, {r})
    BY <2>1
  <2>4. r = s
    BY <2>2, <2>3, GoodRows
  <2>5. PICK f \in d.files : f.id = s.file
    BY GoodRows
  <2> QED BY <2>2, <2>3, <2>4, <2>5, KeyOfSymbol
<1> QED BY <1>1, <1>2

\* The graph has an edge of a type from one file to another.
Joined(d, g, h, type) == <<g.id, h.id, type>> \in d.edges

\* The edges between files are those whose two ends are files.
LEMMA FileEdgeMembers ==
    ASSUME NEW d, NEW type, NEW e
    PROVE  e \in FileEdges(d, type) <=>
               \E g, h \in d.files : e = Edge(g.path, h.path, type) /\ Joined(d, g, h, type)
BY DEF FileEdges, Joined

\* What is read by the id of a file is what the graph says of its path.
LEMMA LinksOfRow ==
    ASSUME NEW d, Good(d), NEW k, NEW f \in FileAt(d, k.path), NEW l \in Link
    PROVE  LinksOf(d, f.id, l) = LinksTo(d, k, l)
<1>1. f \in d.files /\ f.path = k.path /\ \A g \in d.files : g.path = k.path \/ g.id = f.id => g = f
  BY GoodRows DEF FileAt
<1>2. \A p, q, x : /\ Edge(p, q, x).from = p /\ Edge(p, q, x).to = q
  BY DEF Edge
<1>3. \A type, p :
        (\E e \in FileEdges(d, type) : e.from = k.path /\ e.to = p) <=>
            \E g \in d.files : g.path = p /\ Joined(d, f, g, type)
  <2> SUFFICES ASSUME NEW type, NEW p
               PROVE  (\E e \in FileEdges(d, type) : e.from = k.path /\ e.to = p) <=>
                          \E g \in d.files : g.path = p /\ Joined(d, f, g, type)
    OBVIOUS
  <2>1. (\E e \in FileEdges(d, type) : e.from = k.path /\ e.to = p) <=>
            \E g, h \in d.files : g.path = k.path /\ h.path = p /\ Joined(d, g, h, type)
    <3>1. ASSUME NEW e \in FileEdges(d, type), e.from = k.path /\ e.to = p
          PROVE  \E g, h \in d.files : g.path = k.path /\ h.path = p /\ Joined(d, g, h, type)
      <4>1. PICK g, h \in d.files : e = Edge(g.path, h.path, type) /\ Joined(d, g, h, type)
        BY FileEdgeMembers, Zenon
      <4>2. e.from = g.path /\ e.to = h.path
        BY <1>2, <4>1
      <4> QED BY <3>1, <4>1, <4>2
    <3>2. ASSUME NEW g \in d.files, NEW h \in d.files, g.path = k.path, h.path = p, Joined(d, g, h, type)
          PROVE  \E e \in FileEdges(d, type) : e.from = k.path /\ e.to = p
      <4>1. Edge(g.path, h.path, type) \in FileEdges(d, type)
        BY <3>2, FileEdgeMembers, Zenon
      <4>2. Edge(g.path, h.path, type).from = g.path /\ Edge(g.path, h.path, type).to = h.path
        BY <1>2
      <4> QED BY <3>2, <4>1, <4>2
    <3> QED BY <3>1, <3>2
  <2> QED BY <1>1, <2>1
<1>4. \A type, p :
        (\E e \in FileEdges(d, type) : e.to = k.path /\ e.from = p) <=>
            \E g \in d.files : g.path = p /\ Joined(d, g, f, type)
  <2> SUFFICES ASSUME NEW type, NEW p
               PROVE  (\E e \in FileEdges(d, type) : e.to = k.path /\ e.from = p) <=>
                          \E g \in d.files : g.path = p /\ Joined(d, g, f, type)
    OBVIOUS
  <2>1. (\E e \in FileEdges(d, type) : e.to = k.path /\ e.from = p) <=>
            \E g, h \in d.files : h.path = k.path /\ g.path = p /\ Joined(d, g, h, type)
    <3>1. ASSUME NEW e \in FileEdges(d, type), e.to = k.path /\ e.from = p
          PROVE  \E g, h \in d.files : h.path = k.path /\ g.path = p /\ Joined(d, g, h, type)
      <4>1. PICK g, h \in d.files : e = Edge(g.path, h.path, type) /\ Joined(d, g, h, type)
        BY FileEdgeMembers, Zenon
      <4>2. e.from = g.path /\ e.to = h.path
        BY <1>2, <4>1
      <4> QED BY <3>1, <4>1, <4>2
    <3>2. ASSUME NEW g \in d.files, NEW h \in d.files, h.path = k.path, g.path = p, Joined(d, g, h, type)
          PROVE  \E e \in FileEdges(d, type) : e.to = k.path /\ e.from = p
      <4>1. Edge(g.path, h.path, type) \in FileEdges(d, type)
        BY <3>2, FileEdgeMembers, Zenon
      <4>2. Edge(g.path, h.path, type).from = g.path /\ Edge(g.path, h.path, type).to = h.path
        BY <1>2
      <4> QED BY <3>2, <4>1, <4>2
    <3> QED BY <3>1, <3>2
  <2> QED BY <1>1, <2>1
<1>5. CASE l = "tests"
  <2>1. \A p : p \in LinksOf(d, f.id, l) <=> \E g \in d.files : g.path = p /\ Joined(d, f, g, "test")
    BY <1>5 DEF LinksOf, Joined
  <2>2. \A p : p \in LinksTo(d, k, l) <=> \E e \in FileEdges(d, "test") : e.from = k.path /\ e.to = p
    BY <1>5 DEF LinksTo
  <2>3. ASSUME NEW p PROVE p \in LinksOf(d, f.id, l) <=> p \in LinksTo(d, k, l)
    BY <1>3, <2>1, <2>2
  <2> QED BY <2>3
<1>6. CASE l = "imports"
  <2>1. \A p : p \in LinksOf(d, f.id, l) <=> \E g \in d.files : g.path = p /\ Joined(d, f, g, "import")
    BY <1>6 DEF LinksOf, Joined
  <2>2. \A p : p \in LinksTo(d, k, l) <=> \E e \in FileEdges(d, "import") : e.from = k.path /\ e.to = p
    BY <1>6 DEF LinksTo
  <2>3. ASSUME NEW p PROVE p \in LinksOf(d, f.id, l) <=> p \in LinksTo(d, k, l)
    BY <1>3, <2>1, <2>2
  <2> QED BY <2>3
<1>7. CASE l = "importers"
  <2>1. \A p : p \in LinksOf(d, f.id, l) <=> \E g \in d.files : g.path = p /\ Joined(d, g, f, "import")
    BY <1>1, <1>7 DEF LinksOf, Joined
  <2>2. \A p : p \in LinksTo(d, k, l) <=> \E e \in FileEdges(d, "import") : e.to = k.path /\ e.from = p
    BY <1>7 DEF LinksTo
  <2>3. ASSUME NEW p PROVE p \in LinksOf(d, f.id, l) <=> p \in LinksTo(d, k, l)
    BY <1>4, <2>1, <2>2
  <2> QED BY <2>3
<1> QED BY <1>5, <1>6, <1>7 DEF Link

-----------------------------------------------------------------------------
(* The files a graph keeps *)

\* A catalog has finitely many paths.
LEMMA PathsFinite ==
    ASSUME NEW d, Good(d)
    PROVE  IsFiniteSet(Paths(d)) /\ Paths(d) \subseteq Path /\ Paths(d) \subseteq Nat
<1>1. IsFiniteSet(d.files)
  <2>1. Ids(d.files) \in SUBSET Nat
    BY DEF Good, Sound, Ids, FileRow, RowId
  <2> QED BY <2>1, RowsFinite DEF Good, Sound, Consistent
<1> DEFINE place == [f \in d.files |-> f.path]
<1>2. place \in Surjection(d.files, Paths(d))
  BY DEF Surjection, Paths
<1>3. IsFiniteSet(Paths(d))
  <2> HIDE DEF place
  <2> QED BY <1>1, <1>2, FS_Surjection
<1>4. Paths(d) \subseteq Path
  BY GoodRows DEF Paths, FileRow
<1> QED BY <1>3, <1>4, CatalogAssumption

\* Sorted by imports and then by path, files have places 0, 1, ...: a cap keeps as
\* many as it allows.
LEMMA CentralFits ==
    ASSUME NEW edges, NEW paths \in SUBSET Nat, IsFiniteSet(paths), NEW max \in Nat,
           \A n \in paths : InDegree(edges, n) \in Nat
    PROVE  Central(edges, paths, max) \in AtMost(max, paths)
<1> DEFINE before(p, q) == \/ InDegree(edges, p) > InDegree(edges, q)
                           \/ InDegree(edges, p) = InDegree(edges, q) /\ p < q
           ahead(p) == {q \in paths : before(q, p)}
           rank == [p \in paths |-> Cardinality(ahead(p))]
           n == Cardinality(paths)
           kept == {p \in paths : rank[p] < max}
<1>1. Central(edges, paths, max) = kept
  <2>1. Central(edges, paths, max) = {p \in paths : Cardinality(ahead(p)) < max}
    BY Zenon DEF Central
  <2> HIDE DEF ahead
  <2> QED BY <2>1
<1>2. \A p, q \in paths : p # q => before(p, q) \/ before(q, p)
  BY SMT
<1>3. \A p \in paths : ~before(p, p)
  BY SMT
<1>4. \A p, q, r \in paths : before(p, q) /\ before(q, r) => before(p, r)
  BY SMT
<1> HIDE DEF before
<1>5. \A p \in paths : ahead(p) \in SUBSET paths /\ p \notin ahead(p)
  BY <1>3
<1>6. \A p, q \in paths : before(p, q) => ahead(p) \cup {p} \subseteq ahead(q)
  BY <1>4
<1> HIDE DEF ahead
<1>7. \A p \in paths : IsFiniteSet(ahead(p)) /\ Cardinality(ahead(p)) \in Nat /\ Cardinality(ahead(p)) < n
  <2> SUFFICES ASSUME NEW p \in paths
               PROVE  IsFiniteSet(ahead(p)) /\ Cardinality(ahead(p)) \in Nat /\ Cardinality(ahead(p)) < n
    OBVIOUS
  <2>1. IsFiniteSet(ahead(p)) /\ Cardinality(ahead(p)) \in Nat /\ n \in Nat
    BY <1>5, FS_Subset, FS_CardinalityType
  <2>2. Cardinality(ahead(p) \cup {p}) = Cardinality(ahead(p)) + 1
    BY <1>5, <2>1, FS_AddElement
  <2>3. Cardinality(ahead(p) \cup {p}) <= n
    BY <1>5, FS_Subset
  <2> QED BY <2>1, <2>2, <2>3
<1>8. \A p, q \in paths : before(p, q) => Cardinality(ahead(p)) < Cardinality(ahead(q))
  <2> SUFFICES ASSUME NEW p \in paths, NEW q \in paths, before(p, q)
               PROVE  Cardinality(ahead(p)) < Cardinality(ahead(q))
    OBVIOUS
  <2>1. Cardinality(ahead(p) \cup {p}) = Cardinality(ahead(p)) + 1
    BY <1>5, <1>7, FS_AddElement
  <2>2. Cardinality(ahead(p) \cup {p}) <= Cardinality(ahead(q))
    BY <1>6, <1>7, FS_Subset
  <2> QED BY <1>7, <2>1, <2>2
<1>9. n \in Nat /\ Cardinality(0 .. n - 1) = n /\ IsFiniteSet(0 .. n - 1)
  <2>1. n \in Nat
    BY FS_CardinalityType
  <2> HIDE DEF n
  <2> QED BY <2>1, FS_Interval
<1>10. rank \in Injection(paths, 0 .. n - 1)
  <2> HIDE DEF n
  <2>1. rank \in [paths -> 0 .. n - 1]
    BY <1>7, <1>9
  <2>2. \A p, q \in paths : rank[p] = rank[q] => p = q
    BY <1>2, <1>7, <1>8
  <2> HIDE DEF rank
  <2> QED BY <2>1, <2>2 DEF Injection, IsInjective
<1>11. rank \in Surjection(paths, 0 .. n - 1)
  BY <1>9, <1>10, FS_Injection
<1> HIDE DEF rank
<1>12. /\ rank \in [paths -> 0 .. n - 1] /\ \A p, q \in paths : rank[p] = rank[q] => p = q
       /\ \A i \in 0 .. n - 1 : \E p \in paths : rank[p] = i
  BY <1>10, <1>11 DEF Injection, IsInjective, Surjection
<1> HIDE DEF n
<1>a. \A p \in paths : rank[p] \in Nat /\ rank[p] < n
  BY <1>9, <1>12
<1>13. CASE n <= max
  <2>1. kept = paths
    <3>1. \A p \in paths : rank[p] < max
      BY <1>9, <1>13, <1>a
    <3> QED BY <3>1
  <2> QED BY <1>1, <1>13, <2>1 DEF AtMost, n
<1>14. CASE ~(n <= max)
  <2> DEFINE least == [p \in kept |-> rank[p]]
  <2>1. IsFiniteSet(0 .. max - 1) /\ Cardinality(0 .. max - 1) = max
    BY FS_Interval
  <2>2. least \in [kept -> 0 .. max - 1] /\ \A p, q \in kept : least[p] = least[q] => p = q
    <3>1. \A p \in kept : p \in paths /\ rank[p] \in 0 .. max - 1
      BY <1>a
    <3> HIDE DEF kept
    <3> QED BY <1>12, <3>1
  <2>3. \A i \in 0 .. max - 1 : \E p \in kept : least[p] = i
    <3> SUFFICES ASSUME NEW i \in 0 .. max - 1 PROVE \E p \in kept : least[p] = i
      OBVIOUS
    <3>1. i \in 0 .. n - 1 /\ i < max
      BY <1>9, <1>14
    <3>2. PICK p \in paths : rank[p] = i
      BY <1>12, <3>1
    <3> QED BY <3>1, <3>2
  <2> HIDE DEF least, kept
  <2>4. least \in Injection(kept, 0 .. max - 1) /\ least \in Surjection(kept, 0 .. max - 1)
    BY <2>2, <2>3 DEF Injection, IsInjective, Surjection
  <2>5. Cardinality(kept) = max
    BY <2>1, <2>4, FS_Injection
  <2>6. kept \subseteq paths
    BY DEF kept
  <2> QED BY <1>1, <1>14, <2>5, <2>6 DEF AtMost, kSubset, n
<1> QED BY <1>13, <1>14

\* An edge to a file joins two files; an edge to a package does not lead to a path.
LEMMA EdgesOfCatalog ==
    ASSUME NEW d, Good(d), NEW e \in AllEdges(d)
    PROVE  /\ e.type = "external" => e.to \notin Path
           /\ e.to \in Path /\ e.type # "test" =>
                  e.from \in Paths(d) /\ e = Edge(e.from, e.to, "import")
<1>1. CASE \E type \in {"import", "test"} : e \in FileEdges(d, type)
  <2>1. PICK type \in {"import", "test"} : e \in FileEdges(d, type)
    BY <1>1
  <2>2. PICK g, h \in d.files : e = Edge(g.path, h.path, type) /\ Joined(d, g, h, type)
    BY <2>1, FileEdgeMembers
  <2>3. e.from = g.path /\ e.to = h.path /\ e.type = type
    BY <2>2 DEF Edge
  <2> QED BY <2>2, <2>3 DEF Paths
<1>2. CASE e \in ExternalEdges(d)
  <2>1. PICK f \in d.files : e \in {Edge(f.path, k, "external") : k \in PackagesOf[f.hash.content]}
    BY <1>2 DEF ExternalEdges
  <2>2. PICK k \in PackagesOf[f.hash.content] : e = Edge(f.path, k, "external")
    BY <2>1
  <2>3. f.hash.content \in Content
    BY GoodRows DEF FileRow, Hash
  <2>4. k \notin Path
    BY <2>2, <2>3, QueryAssumption
  <2>5. e.to = k
    BY <2>2 DEF Edge
  <2> QED BY <2>4, <2>5
<1> QED BY <1>1, <1>2 DEF AllEdges

\* The files that import another are finitely many, however many packages there are.
LEMMA DegreesAreNumbers ==
    ASSUME NEW d, Good(d), NEW edges \in SUBSET AllEdges(d), NEW n \in Path
    PROVE  InDegree(edges, n) \in Nat
<1> DEFINE into == {e \in edges : e.to = n /\ e.type # "test"}
           source == [e \in into |-> e.from]
<1>1. \A e \in into : e.from \in Paths(d) /\ e = Edge(e.from, n, "import")
  BY EdgesOfCatalog
<1> HIDE DEF into
<1>2. source \in [into -> Paths(d)] /\ \A e, f \in into : source[e] = source[f] => e = f
  BY <1>1
<1> HIDE DEF source
<1>3. source \in Injection(into, Paths(d))
  BY <1>2 DEF Injection, IsInjective
<1>4. IsFiniteSet(into)
  BY <1>3, PathsFinite, FS_Injection
<1> QED BY <1>4, FS_CardinalityType DEF InDegree, into

\* What a graph shows when its reads are of one catalog: all edges of the files kept.
LEMMA ProjectionShows ==
    ASSUME NEW d, Good(d), NEW a \in Ask, NEW shown,
           shown = {n.id : n \in Project(Paths(d), AllEdges(d), a).nodes} \cap Path
    PROVE  /\ Project(Paths(d), AllEdges(d), a).edges = Induced(AllEdges(d), shown)
           /\ shown \in AtMost(a.max, Paths(d) \cap a.within)
<1> DEFINE edges    == AllEdges(d)
           selected == Paths(d) \cap a.within
           filtered == Induced(edges, selected)
           central  == Central(filtered, selected, a.max)
           kept     == Induced(filtered, central)
           outside  == {e.to : e \in {x \in kept : x.type = "external"}}
           tested   == {e.from : e \in {x \in edges : x.type = "test"}}
           nodes    == {Node(kept, tested, n) : n \in central \cup outside}
<1>1. Project(Paths(d), edges, a) = [edges |-> kept, nodes |-> nodes]
  BY Zenon DEF Project
<1>a. Project(Paths(d), edges, a).edges = kept /\ Project(Paths(d), edges, a).nodes = nodes
  <2> HIDE DEF kept, nodes, edges
  <2> QED BY <1>1
<1>2. selected \in SUBSET Nat /\ IsFiniteSet(selected) /\ selected \subseteq Path
  BY PathsFinite, FS_Subset
<1>3. filtered \subseteq edges
  BY DEF Induced
<1>4. \A n \in selected : InDegree(filtered, n) \in Nat
  <2> HIDE DEF filtered, selected
  <2> QED BY <1>2, <1>3, DegreesAreNumbers
<1>5. central \in AtMost(a.max, selected)
  <2>1. a.max \in Nat
    BY DEF Ask
  <2> HIDE DEF filtered, selected
  <2> QED BY <1>2, <1>4, <2>1, CentralFits
<1>6. central \subseteq selected
  BY DEF Central
<1>7. kept = Induced(edges, central)
  <2> HIDE DEF central, selected
  <2> QED BY <1>6 DEF Induced
<1>8. kept \subseteq edges
  BY <1>7 DEF Induced
<1> HIDE DEF edges, central, selected, filtered, kept, tested
<1>9. \A k \in outside : k \notin Path
  BY <1>8, EdgesOfCatalog DEF edges
<1> HIDE DEF outside
<1>10. {n.id : n \in nodes} = central \cup outside
  <2>1. \A n : Node(kept, tested, n).id = n
    BY DEF Node
  <2> QED BY <2>1
<1> HIDE DEF nodes
<1>11. shown = central
  <2>1. shown = {n.id : n \in nodes} \cap Path
    BY <1>a DEF edges
  <2> QED BY <1>2, <1>6, <1>9, <1>10, <2>1
<1> QED BY <1>a, <1>5, <1>7, <1>11 DEF edges, selected

-----------------------------------------------------------------------------
(* Every action of a search *)

\* A step of a query that finds keeps FInv.
LEMMA GoesFinding ==
    ASSUME NEW q, Goes(q), q.quiet => Finds(db, memvecs, tree, q)
    PROVE  FInv'
BY DEF Goes, FInv, vars

\* So does the first one, which sees the catalog and the tree as they are.
LEMMA BeginsFinding ==
    ASSUME NEW q, Begin(q), Finds(db, memvecs, tree, q)
    PROVE  FInv'
BY DEF Begin, FInv, vars

\* Until it has ranked its hits, a search owes nothing else.
LEMMA Searching ==
    ASSUME NEW d, NEW m, NEW t, NEW q, q.at \in SearchStages, SearchTrue(d, m, t, q)
    PROVE  Finds(d, m, t, q)
BY DEF Finds, DetailsTrue, ShowTrue, GraphTrue, SearchStages, GraphStages

\* A query that is refused has found nothing.
LEMMA RefusedFinds ==
    ASSUME NEW d, NEW m, NEW t, NEW a, NEW error \in {"INDEX_MISSING", "NOT_FOUND"}
    PROVE  Finds(d, m, t, Refused(a, error))
<1> DEFINE q == Refused(a, error)
<1>1. /\ q.at = "done" /\ q.error # "none" /\ DOMAIN q.found = {}
      /\ q.parse = {} /\ q.reads = {} /\ q.todo = {}
  BY DEF Refused, Asked, NoQuery
<1> HIDE DEF q
<1>2. Finds(d, m, t, q)
  BY <1>1 DEF Finds, SearchTrue, DetailsTrue, LinesTrue, LinksTrue, ShowTrue, GraphTrue, GraphStages
<1> QED BY <1>2 DEF q

\* Nothing is found yet.
LEMMA BeginSearchFinds == ASSUME BeginSearch PROVE FInv'
<1>1. PICK a \in Asks :
          \/ Begin(Refused(a, "INDEX_MISSING"))
          \/ Begin(Asked(a, "keywords"))
          \/ Begin([Asked(a, "vectors") EXCEPT !.semantic = TRUE])
  BY Zenon DEF BeginSearch, AsksFor
<1>2. ASSUME NEW q, Begin(q), DOMAIN q.found = {},
             \/ q.at = "keywords" /\ ~q.semantic
             \/ q.at = "vectors" /\ q.semantic
      PROVE  FInv'
  <2>1. SearchTrue(db, memvecs, tree, q)
    BY <1>2 DEF SearchTrue, IdsTrue, FoundTrue, HitsTrue, NearFound, MatchesFound, LinesFound
  <2>2. q.at \in SearchStages
    BY <1>2 DEF SearchStages
  <2> QED BY <1>2, <2>1, <2>2, Searching, BeginsFinding
<1>3. CASE Begin(Asked(a, "keywords"))
  <2> DEFINE q == Asked(a, "keywords")
  <2>1. q.at = "keywords" /\ ~q.semantic /\ DOMAIN q.found = {}
    BY DEF Asked, NoQuery
  <2> HIDE DEF q
  <2> QED BY <1>2, <1>3, <2>1 DEF q
<1>4. CASE Begin([Asked(a, "vectors") EXCEPT !.semantic = TRUE])
  <2> DEFINE q == [Asked(a, "vectors") EXCEPT !.semantic = TRUE]
  <2>1. q.at = "vectors" /\ q.semantic /\ DOMAIN q.found = {}
    BY DEF Asked, NoQuery
  <2> HIDE DEF q
  <2> QED BY <1>2, <1>4, <2>1 DEF q
<1> QED BY <1>1, <1>3, <1>4, RefusedFinds, BeginsFinding

\* When all vectors are among the nearest, every key that has one is about to be found.
LEMMA NearAwaited ==
    ASSUME NEW d, Good(d), NEW m, NEW owner \in {"symbol", "file"},
           NEW near \in Neighbours(d.vecs \cup m, owner),
           NearUncut(d.vecs \cup m), NEW k \in Near(d), (k.name = NoName) = (owner = "file")
    PROVE  \E n \in near : k \in KeysAt(d, n.grain, n.id)
<1>1. PICK S \in AtMost(VecK, d.vecs \cup m) :
          near = {[grain |-> owner, id |-> v.id, vector |-> {v.of}] : v \in {w \in S : w.owner = owner}}
  BY DEF Neighbours
<1>2. S = d.vecs \cup m
  BY DEF NearUncut, AtMost
<1>3. PICK v \in d.vecs : <<v.owner, v.id>> \in OwnersOf(d, k)
  <2>1. VectorsFor(d, k) # {}
    BY DEF Near
  <2>2. PICK x \in VectorsFor(d, k) : TRUE
    BY <2>1
  <2> QED BY <2>2 DEF VectorsFor
<1>4. v.owner = owner
  <2>1. CASE k.name = NoName
    BY <1>3, <2>1 DEF OwnersOf
  <2>2. CASE k.name # NoName
    BY <1>3, <2>2 DEF OwnersOf
  <2> QED BY <2>1, <2>2
<1>5. k \in KeysAt(d, owner, v.id)
  BY <1>3, <1>4, KeysAtOwned DEF Near
<1> DEFINE n == [grain |-> owner, id |-> v.id, vector |-> {v.of}]
<1>6. n \in near
  BY <1>1, <1>2, <1>4
<1>7. n.grain = owner /\ n.id = v.id
  OBVIOUS
<1> HIDE DEF n
<1> QED BY <1>5, <1>6, <1>7

\* The owners a kNN search returns have the vectors they were found by.
LEMMA NeighboursHaveVectors ==
    ASSUME NEW vecs, NEW owner, NEW near \in Neighbours(vecs, owner)
    PROVE  \A n \in near :
              /\ n.vector # {}
              /\ \A x \in n.vector :
                    \E v \in vecs : v.owner = owner /\ v.owner = n.grain /\ v.id = n.id /\ v.of = x
<1>1. PICK S \in AtMost(VecK, vecs) :
          near = {[grain |-> owner, id |-> v.id, vector |-> {v.of}] : v \in {w \in S : w.owner = owner}}
  BY DEF Neighbours
<1>2. S \subseteq vecs
  BY AtMostFits, QueryAssumption
<1> TAKE n \in near
<1>3. PICK v \in S : v.owner = owner /\ n = [grain |-> owner, id |-> v.id, vector |-> {v.of}]
  BY <1>1
<1> QED BY <1>2, <1>3

\* The nearest vectors are true of their owners, and all of them if VecK does not cut.
LEMMA FindNearFinds ==
    ASSUME Good(db), QInv, FInv,
           NEW at \in {"vectors", "symbols"}, NEW owner \in {"symbol", "file"},
           NEW next \in {"symbols", "files"},
           (at = "vectors") = (owner = "symbol"), (at = "vectors") = (next = "symbols"),
           FindNear(at, owner, next)
    PROVE  FInv'
<1>1. PICK near \in Neighbours(db.vecs \cup memvecs, owner) : Goes([query EXCEPT !.at = next, !.ids = near])
  BY DEF FindNear
<1> DEFINE q == [query EXCEPT !.at = next, !.ids = near]
<1>2. DOMAIN query = QFields /\ query.at = at /\ query.ids = {} /\ memvecs \in SUBSET MemoryVec
  BY QueryFields DEF FindNear, QInv, QueryOK, QueryType
<1>3. /\ q.at = next /\ q.ids = near /\ q.ask = query.ask /\ q.error = query.error
      /\ q.semantic = query.semantic /\ q.found = query.found /\ q.quiet = query.quiet
  BY <1>2 DEF QFields
<1> HIDE DEF q
<1> SUFFICES ASSUME query.quiet PROVE SearchTrue(db, memvecs, tree, q)
  <2>1. q.at \in SearchStages
    BY <1>3 DEF SearchStages
  <2>2. Goes(q)
    BY <1>1 DEF q
  <2> QED BY <1>3, <2>1, <2>2, Searching, GoesFinding
<1> SUFFICES ASSUME q.ask.kind = "search" /\ q.error = "none"
             PROVE  /\ IdsTrue(db, q) /\ FoundTrue(db, tree, q) /\ HitsTrue(db, memvecs, tree, q)
                    /\ NearFound(db, memvecs, q) /\ MatchesFound(db, q) /\ LinesFound(db, tree, q)
  BY DEF SearchTrue
<1>4. FoundTrue(db, tree, query) /\ NearFound(db, memvecs, query)
  BY <1>2, <1>3 DEF FInv, Finds, SearchTrue
<1>5. IdsTrue(db, q)
  <2>1. \A n \in near :
            /\ n.vector # {}
            /\ \A x \in n.vector :
                  \E v \in db.vecs \cup memvecs :
                      v.owner = owner /\ v.owner = n.grain /\ v.id = n.id /\ v.of = x
    BY <1>1, NeighboursHaveVectors
  <2>2. \A v \in db.vecs \cup memvecs : v.owner = owner => v \in db.vecs
    BY <1>2, QueryAssumption
  <2> QED BY <1>3, <2>1, <2>2 DEF IdsTrue
<1>6. FoundTrue(db, tree, q)
  BY <1>2, <1>3, <1>4 DEF FoundTrue, CandidateKeys
<1>7. q.semantic
  BY <1>2, <1>3, <1>4 DEF FoundTrue
<1>8. NearFound(db, memvecs, q)
  <2> SUFFICES ASSUME NearUncut(db.vecs \cup memvecs), NEW k \in Near(db),
                      q.at = "symbols" => k.name # NoName
               PROVE  HasVector(q, k) \/ Awaited(db, q, k)
    BY <1>3 DEF NearFound
  <2>1. CASE (k.name = NoName) = (owner = "file")
    BY <1>3, <2>1, NearAwaited DEF Awaited
  <2>2. CASE (k.name = NoName) # (owner = "file")
    <3>1. at = "symbols" /\ k.name # NoName
      BY <1>3, <2>2
    <3>2. HasVector(query, k) \/ Awaited(db, query, k)
      BY <1>2, <1>3, <1>4, <1>7, <3>1 DEF NearFound
    <3> QED BY <1>2, <1>3, <3>2 DEF HasVector, Awaited
  <2> QED BY <2>1, <2>2
<1>9. HitsTrue(db, memvecs, tree, q) /\ MatchesFound(db, q) /\ LinesFound(db, tree, q)
  BY <1>3, <1>7 DEF HitsTrue, MatchesFound, LinesFound
<1> QED BY <1>5, <1>6, <1>8, <1>9

\* The keys of one owner are found by its vectors.
LEMMA TakeNearFinds == ASSUME Good(db), QInv, FInv, TakeNear PROVE FInv'
<1>1. PICK n \in query.ids :
          \/ KeysAt(db, n.grain, n.id) = {} /\ Goes([query EXCEPT !.ids = @ \ {n}])
          \/ \E k \in KeysAt(db, n.grain, n.id) :
                Goes([[query EXCEPT !.ids = @ \ {n}] EXCEPT !.found = Put(@, k, [Blank EXCEPT !.vector = n.vector])])
  BY Zenon DEF TakeNear
<1>2. /\ DOMAIN query = QFields /\ query.at \in {"symbols", "files"}
      /\ n.grain \in {"symbol", "file"}
  BY QueryFields DEF TakeNear, QInv, QueryOK, QueryType
<1>3. ASSUME NEW q, Goes(q),
             q.at = query.at, q.ids = query.ids \ {n}, q.ask = query.ask, q.error = query.error,
             q.semantic = query.semantic, q.quiet = query.quiet,
             \A j \in DOMAIN q.found \ DOMAIN query.found : j \in KeysAt(db, n.grain, n.id),
             \A j \in DOMAIN q.found :
                 \/ j \in KeysAt(db, n.grain, n.id) /\ q.found[j].vector = n.vector
                 \/ j \in DOMAIN query.found /\ q.found[j] = query.found[j],
             DOMAIN query.found \subseteq DOMAIN q.found,
             KeysAt(db, n.grain, n.id) \subseteq DOMAIN q.found,
             \A j \in KeysAt(db, n.grain, n.id) : q.found[j].vector = n.vector
      PROVE  FInv'
  <2> SUFFICES ASSUME query.quiet PROVE SearchTrue(db, memvecs, tree, q)
    <3>1. q.at \in SearchStages
      BY <1>2, <1>3 DEF SearchStages
    <3> QED BY <1>3, <3>1, Searching, GoesFinding
  <2> SUFFICES ASSUME q.ask.kind = "search" /\ q.error = "none"
               PROVE  /\ IdsTrue(db, q) /\ FoundTrue(db, tree, q) /\ HitsTrue(db, memvecs, tree, q)
                      /\ NearFound(db, memvecs, q) /\ MatchesFound(db, q) /\ LinesFound(db, tree, q)
    BY DEF SearchTrue
  <2>1. FoundTrue(db, tree, query) /\ NearFound(db, memvecs, query) /\ IdsTrue(db, query)
    BY <1>2, <1>3 DEF FInv, Finds, SearchTrue
  <2>2. query.semantic
    BY <1>2, <2>1 DEF FoundTrue
  <2>3. n.vector # {} /\ \A x \in n.vector : \E v \in db.vecs : v.owner = n.grain /\ v.id = n.id /\ v.of = x
    BY <1>2, <2>1 DEF IdsTrue
  <2>4. \A j \in KeysAt(db, n.grain, n.id) : j \in Near(db) /\ n.vector \subseteq VectorsFor(db, j)
    <3> SUFFICES ASSUME NEW j \in KeysAt(db, n.grain, n.id)
                 PROVE  j \in Near(db) /\ n.vector \subseteq VectorsFor(db, j)
      OBVIOUS
    <3>1. j \in Key /\ <<n.grain, n.id>> \in OwnersOf(db, j)
      BY <1>2, KeysAtOwned
    <3>2. n.vector \subseteq VectorsFor(db, j)
      BY <2>3, <3>1 DEF VectorsFor
    <3> QED BY <2>3, <3>1, <3>2 DEF Near
  <2>5. FoundTrue(db, tree, q)
    <3>1. \A j \in DOMAIN q.found : j \in CandidateKeys(db, tree, q) /\ q.found[j].vector \subseteq VectorsFor(db, j)
      BY <1>3, <2>1, <2>2, <2>4 DEF FoundTrue, CandidateKeys
    <3> QED BY <1>2, <1>3, <2>2, <3>1 DEF FoundTrue
  <2>6. NearFound(db, memvecs, q)
    <3> SUFFICES ASSUME NEW k \in Near(db), HasVector(query, k) \/ Awaited(db, query, k)
                 PROVE  HasVector(q, k) \/ Awaited(db, q, k)
      BY <1>2, <1>3, <2>1 DEF NearFound
    <3>1. CASE k \in KeysAt(db, n.grain, n.id)
      BY <1>3, <2>3, <3>1 DEF HasVector
    <3>2. CASE k \notin KeysAt(db, n.grain, n.id)
      BY <1>3, <3>2 DEF HasVector, Awaited
    <3> QED BY <3>1, <3>2
  <2>7. IdsTrue(db, q)
    BY <1>2, <1>3, <2>1 DEF IdsTrue
  <2>8. HitsTrue(db, memvecs, tree, q) /\ MatchesFound(db, q) /\ LinesFound(db, tree, q)
    BY <1>2, <1>3, <2>2 DEF HitsTrue, MatchesFound, LinesFound
  <2> QED BY <2>5, <2>6, <2>7, <2>8
<1>4. CASE KeysAt(db, n.grain, n.id) = {} /\ Goes([query EXCEPT !.ids = @ \ {n}])
  <2> DEFINE q == [query EXCEPT !.ids = @ \ {n}]
  <2>1. /\ q.at = query.at /\ q.ids = query.ids \ {n} /\ q.ask = query.ask /\ q.error = query.error
        /\ q.semantic = query.semantic /\ q.quiet = query.quiet /\ q.found = query.found
    BY <1>2 DEF QFields
  <2>2. Goes(q)
    BY <1>4
  <2> HIDE DEF q
  <2> QED BY <1>3, <1>4, <2>1, <2>2
<1>5. ASSUME NEW k \in KeysAt(db, n.grain, n.id),
             Goes([[query EXCEPT !.ids = @ \ {n}] EXCEPT !.found = Put(@, k, [Blank EXCEPT !.vector = n.vector])])
      PROVE  FInv'
  <2> DEFINE e == [Blank EXCEPT !.vector = n.vector]
             more == Put(query.found, k, e)
             q == [query EXCEPT !.ids = @ \ {n}, !.found = more]
  <2>1. [[query EXCEPT !.ids = @ \ {n}] EXCEPT !.found = Put(@, k, e)] = q
    BY <1>2 DEF QFields
  <2>2. Goes(q)
    BY <1>5, <2>1
  <2>3. e.vector = n.vector
    BY EvidenceFields
  <2>4. \A j \in KeysAt(db, n.grain, n.id) : j = k
    BY <1>2, OneKeyAt
  <2> HIDE DEF e
  <2>5. /\ DOMAIN more = DOMAIN query.found \cup {k}
        /\ more[k] = e /\ \A j \in DOMAIN query.found \ {k} : more[j] = query.found[j]
    BY DEF Put
  <2> HIDE DEF more
  <2>6. /\ q.at = query.at /\ q.ids = query.ids \ {n} /\ q.ask = query.ask /\ q.error = query.error
        /\ q.semantic = query.semantic /\ q.quiet = query.quiet /\ q.found = more
    BY <1>2 DEF QFields
  <2> HIDE DEF q
  <2>7. /\ \A j \in DOMAIN q.found \ DOMAIN query.found : j \in KeysAt(db, n.grain, n.id)
        /\ \A j \in DOMAIN q.found :
              \/ j \in KeysAt(db, n.grain, n.id) /\ q.found[j].vector = n.vector
              \/ j \in DOMAIN query.found /\ q.found[j] = query.found[j]
        /\ DOMAIN query.found \subseteq DOMAIN q.found
        /\ KeysAt(db, n.grain, n.id) \subseteq DOMAIN q.found
        /\ \A j \in KeysAt(db, n.grain, n.id) : q.found[j].vector = n.vector
    BY <2>3, <2>4, <2>5, <2>6
  <2> QED BY <1>3, <2>2, <2>6, <2>7
<1> QED BY <1>1, <1>4, <1>5

\* The matches are rows of the full-text table, and all of them if the cap does not cut.
LEMMA FindMatchesFinds == ASSUME Good(db), TypeOK, QInv, FInv, FindMatches PROVE FInv'
<1>1. PICK hits \in AtMost(IF query.semantic THEN RescueCap ELSE CandidateCap, Matching(db, query.ask)) :
          Goes([query EXCEPT !.at = "matches",
                             !.ids = {[grain |-> r.grain, id |-> r.ref, vector |-> {}] : r \in hits}])
  BY DEF FindMatches
<1> DEFINE ids == {[grain |-> r.grain, id |-> r.ref, vector |-> {}] : r \in hits}
           q == [query EXCEPT !.at = "matches", !.ids = ids]
<1>2. /\ DOMAIN query = QFields
      /\ \/ query.at = "keywords"
         \/ query.at = "files" /\ query.ids = {}
  BY QueryFields DEF FindMatches, QInv, QueryOK, QueryType
<1>3. /\ q.at = "matches" /\ q.ids = ids /\ q.ask = query.ask /\ q.error = query.error
      /\ q.semantic = query.semantic /\ q.found = query.found /\ q.quiet = query.quiet
  BY <1>2 DEF QFields
<1>4. Goes(q)
  BY <1>1
<1>5. \A n \in ids : \E r \in hits : r.grain = n.grain /\ r.ref = n.id
  OBVIOUS
<1>6. \A r \in hits : \E n \in ids : r.grain = n.grain /\ r.ref = n.id
  <2> SUFFICES ASSUME NEW r \in hits PROVE \E n \in ids : r.grain = n.grain /\ r.ref = n.id
    OBVIOUS
  <2>1. [grain |-> r.grain, id |-> r.ref, vector |-> {}] \in ids
    OBVIOUS
  <2> QED BY <2>1
<1> HIDE DEF q, ids
<1> SUFFICES ASSUME query.quiet PROVE SearchTrue(db, memvecs, tree, q)
  <2>1. q.at \in SearchStages
    BY <1>3 DEF SearchStages
  <2> QED BY <1>3, <1>4, <2>1, Searching, GoesFinding
<1> SUFFICES ASSUME q.ask.kind = "search" /\ q.error = "none"
             PROVE  /\ IdsTrue(db, q) /\ FoundTrue(db, tree, q) /\ HitsTrue(db, memvecs, tree, q)
                    /\ NearFound(db, memvecs, q) /\ MatchesFound(db, q) /\ LinesFound(db, tree, q)
  BY DEF SearchTrue
<1>7. FoundTrue(db, tree, query) /\ NearFound(db, memvecs, query) /\ LinesFound(db, tree, query)
  BY <1>2, <1>3 DEF FInv, Finds, SearchTrue
<1>8. query.semantic => query.at = "files" /\ query.ids = {}
  BY <1>2, <1>7 DEF FoundTrue
<1>9. ~query.semantic => query.at = "keywords"
  BY <1>2, <1>7 DEF FoundTrue
<1>10. hits \subseteq Matching(db, query.ask)
  BY QueryAssumption, AtMostFits
<1>11. IdsTrue(db, q)
  BY <1>3, <1>5, <1>10 DEF IdsTrue
<1>12. FoundTrue(db, tree, q)
  BY <1>3, <1>7 DEF FoundTrue, CandidateKeys
<1>13. NearFound(db, memvecs, q)
  BY <1>3, <1>7, <1>8 DEF NearFound, HasVector, Awaited
<1>14. MatchesFound(db, q)
  <2> SUFFICES ASSUME MatchUncut(db, q), NEW k \in Matched(db, q.ask) PROVE Awaited(db, q, k)
    BY <1>3 DEF MatchesFound
  <2>1. hits = Matching(db, query.ask)
    BY <1>3 DEF MatchUncut, AtMost
  <2>2. k \in Key /\ \E r \in Matching(db, query.ask) : <<r.grain, r.ref>> \in OwnersOf(db, k)
    BY <1>3 DEF Matched
  <2>3. PICK r \in hits : <<r.grain, r.ref>> \in OwnersOf(db, k)
    BY <2>1, <2>2
  <2>4. r.grain \in {"symbol", "file"}
    BY <2>1 DEF Matching, TypeOK, CatalogType, FtsRow
  <2>5. PICK n \in ids : r.grain = n.grain /\ r.ref = n.id
    BY <1>6
  <2> QED BY <1>3, <2>2, <2>3, <2>4, <2>5, KeysAtOwned DEF Awaited
<1>15. LinesFound(db, tree, q)
  BY <1>3, <1>7, <1>9 DEF LinesFound
<1>16. HitsTrue(db, memvecs, tree, q)
  BY <1>3 DEF HitsTrue
<1> QED BY <1>11, <1>12, <1>13, <1>14, <1>15, <1>16

\* The keys of one match are found; what a vector has found keeps it.
LEMMA TakeMatchFinds == ASSUME Good(db), QInv, FInv, TakeMatch PROVE FInv'
<1>1. PICK n \in query.ids :
          Goes([query EXCEPT
                !.ids = @ \ {n},
                !.found = [k \in DOMAIN @ \cup KeysAt(db, n.grain, n.id) |->
                              IF k \in DOMAIN @ THEN @[k] ELSE Blank]])
  BY DEF TakeMatch
<1> DEFINE more == [k \in DOMAIN query.found \cup KeysAt(db, n.grain, n.id) |->
                       IF k \in DOMAIN query.found THEN query.found[k] ELSE Blank]
           q == [query EXCEPT !.ids = @ \ {n}, !.found = more]
<1>2. DOMAIN query = QFields /\ query.at = "matches" /\ n.grain \in {"symbol", "file"}
  BY QueryFields DEF TakeMatch, QInv, QueryOK, QueryType
<1>3. /\ DOMAIN more = DOMAIN query.found \cup KeysAt(db, n.grain, n.id)
      /\ \A k \in DOMAIN query.found : more[k] = query.found[k]
      /\ \A k \in DOMAIN more \ DOMAIN query.found : more[k] = Blank
  OBVIOUS
<1>4. Goes(q)
  BY <1>1
<1> HIDE DEF more
<1>5. /\ q.at = "matches" /\ q.ids = query.ids \ {n} /\ q.ask = query.ask /\ q.error = query.error
      /\ q.semantic = query.semantic /\ q.found = more /\ q.quiet = query.quiet
  BY <1>2 DEF QFields
<1> HIDE DEF q
<1>6. Blank.vector = {} /\ ~Blank.dense
  BY DEF Blank
<1> SUFFICES ASSUME query.quiet PROVE SearchTrue(db, memvecs, tree, q)
  <2>1. q.at \in SearchStages
    BY <1>5 DEF SearchStages
  <2> QED BY <1>4, <1>5, <2>1, Searching, GoesFinding
<1> SUFFICES ASSUME q.ask.kind = "search" /\ q.error = "none"
             PROVE  /\ IdsTrue(db, q) /\ FoundTrue(db, tree, q) /\ HitsTrue(db, memvecs, tree, q)
                    /\ NearFound(db, memvecs, q) /\ MatchesFound(db, q) /\ LinesFound(db, tree, q)
  BY DEF SearchTrue
<1>7. /\ IdsTrue(db, query) /\ FoundTrue(db, tree, query) /\ NearFound(db, memvecs, query)
      /\ MatchesFound(db, query) /\ LinesFound(db, tree, query)
  BY <1>2, <1>5 DEF FInv, Finds, SearchTrue
<1>8. IdsTrue(db, q)
  BY <1>2, <1>5, <1>7 DEF IdsTrue
<1>9. \A k \in KeysAt(db, n.grain, n.id) : k \in Matched(db, query.ask)
  <2>1. \E r \in Matching(db, query.ask) : r.grain = n.grain /\ r.ref = n.id
    BY <1>2, <1>7 DEF IdsTrue
  <2>2. \A k \in KeysAt(db, n.grain, n.id) : k \in Key /\ <<n.grain, n.id>> \in OwnersOf(db, k)
    BY <1>2, KeysAtOwned
  <2> QED BY <2>1, <2>2 DEF Matched
<1>10. FoundTrue(db, tree, q)
  <2>1. \A k \in DOMAIN more : k \in CandidateKeys(db, tree, q) /\ more[k].vector \subseteq VectorsFor(db, k)
    <3> SUFFICES ASSUME NEW k \in DOMAIN more
                 PROVE  k \in CandidateKeys(db, tree, q) /\ more[k].vector \subseteq VectorsFor(db, k)
      OBVIOUS
    <3>1. CASE k \in DOMAIN query.found
      BY <1>3, <1>5, <1>7, <3>1 DEF FoundTrue, CandidateKeys
    <3>2. CASE k \notin DOMAIN query.found
      BY <1>3, <1>5, <1>6, <1>9, <3>2 DEF CandidateKeys
    <3> QED BY <3>1, <3>2
  <2> QED BY <1>5, <2>1 DEF FoundTrue
<1>11. NearFound(db, memvecs, q)
  BY <1>2, <1>3, <1>5, <1>7 DEF NearFound, HasVector
<1>12. MatchesFound(db, q)
  BY <1>2, <1>3, <1>5, <1>7 DEF MatchesFound, MatchUncut, Awaited
<1>13. LinesFound(db, tree, q)
  BY <1>2, <1>3, <1>5, <1>6, <1>7 DEF LinesFound
<1>14. HitsTrue(db, memvecs, tree, q)
  BY <1>5 DEF HitsTrue
<1> QED BY <1>8, <1>10, <1>11, <1>12, <1>13, <1>14

\* Grep looks at every file there is.
LEMMA ListFilesFinds == ASSUME QInv, FInv, ListFiles PROVE FInv'
<1> DEFINE q == [query EXCEPT !.at = "grep", !.files = Paths(db)]
<1>1. DOMAIN query = QFields
  BY QueryFields DEF QInv, QueryOK, QueryType
<1>2. query.at = "matches" /\ query.ids = {} /\ ~query.semantic /\ Goes(q)
  BY DEF ListFiles, Paths
<1>3. /\ q.at = "grep" /\ q.ids = {} /\ q.ask = query.ask /\ q.error = query.error /\ q.files = Paths(db)
      /\ q.semantic = query.semantic /\ q.found = query.found /\ q.quiet = query.quiet
  BY <1>1, <1>2 DEF QFields
<1> HIDE DEF q
<1> SUFFICES ASSUME query.quiet PROVE SearchTrue(db, memvecs, tree, q)
  <2>1. q.at \in SearchStages
    BY <1>3 DEF SearchStages
  <2> QED BY <1>2, <1>3, <2>1, Searching, GoesFinding
<1> SUFFICES ASSUME q.ask.kind = "search" /\ q.error = "none"
             PROVE  /\ IdsTrue(db, q) /\ FoundTrue(db, tree, q) /\ HitsTrue(db, memvecs, tree, q)
                    /\ NearFound(db, memvecs, q) /\ MatchesFound(db, q) /\ LinesFound(db, tree, q)
  BY DEF SearchTrue
<1>4. FoundTrue(db, tree, query) /\ MatchesFound(db, query) /\ LinesFound(db, tree, query)
  BY <1>2, <1>3 DEF FInv, Finds, SearchTrue
<1>5. IdsTrue(db, q) /\ HitsTrue(db, memvecs, tree, q) /\ NearFound(db, memvecs, q)
  BY <1>2, <1>3 DEF IdsTrue, HitsTrue, NearFound
<1>6. FoundTrue(db, tree, q)
  BY <1>2, <1>3, <1>4 DEF FoundTrue, CandidateKeys
<1>7. MatchesFound(db, q)
  BY <1>2, <1>3, <1>4 DEF MatchesFound, MatchUncut, Awaited
<1>8. LinesFound(db, tree, q)
  BY <1>2, <1>3, <1>4 DEF LinesFound
<1> QED BY <1>5, <1>6, <1>7, <1>8

\* A cap above the number of hits cuts none off.
LEMMA AtMostAll ==
    ASSUME NEW k, NEW S, NEW T \in AtMost(k, S), Cardinality(S) <= k
    PROVE  T = S
BY DEF AtMost

\* Every line is one of the working tree.
LEMMA GrepFinds == ASSUME QInv, FInv, Grep PROVE FInv'
<1> DEFINE all == HitLines(tree, query.files, query.ask.names)
<1>1. DOMAIN query = QFields
  BY QueryFields DEF QInv, QueryOK, QueryType
<1>a. PICK lines \in AtMost(ContentCap, all) :
          Goes([query EXCEPT !.at = "attribute", !.files = {}, !.lines = lines])
  BY DEF Grep
<1> DEFINE q == [query EXCEPT !.at = "attribute", !.files = {}, !.lines = lines]
<1>2. query.at = "grep" /\ Goes(q)
  BY <1>a DEF Grep
<1>3. \A l \in lines : l[1] \in query.files \cap Greppable /\ l[2] \in LinesWith(tree[l[1]], query.ask.names)
  BY AtMostFits, QueryAssumption, HitLinesMembers
<1>4. Cardinality(all) <= ContentCap =>
        \A p \in query.files \cap Greppable :
            \A i \in LinesWith(tree[p], query.ask.names) : <<p, i>> \in lines
  <2> SUFFICES ASSUME Cardinality(all) <= ContentCap
               PROVE  \A p \in query.files \cap Greppable :
                          \A i \in LinesWith(tree[p], query.ask.names) : <<p, i>> \in lines
    OBVIOUS
  <2>1. lines = all
    <3> HIDE DEF all
    <3> QED BY AtMostAll
  <2> QED BY <2>1, HitLinesMembers
<1>5. /\ q.at = "attribute" /\ q.lines = lines /\ q.ask = query.ask /\ q.error = query.error
      /\ q.semantic = query.semantic /\ q.found = query.found /\ q.quiet = query.quiet
  BY <1>1, <1>2 DEF QFields
<1> HIDE DEF q
<1> SUFFICES ASSUME query.quiet PROVE SearchTrue(db, memvecs, tree, q)
  <2>1. q.at \in SearchStages
    BY <1>5 DEF SearchStages
  <2> QED BY <1>2, <1>5, <2>1, Searching, GoesFinding
<1> SUFFICES ASSUME q.ask.kind = "search" /\ q.error = "none"
             PROVE  /\ IdsTrue(db, q) /\ FoundTrue(db, tree, q) /\ HitsTrue(db, memvecs, tree, q)
                    /\ NearFound(db, memvecs, q) /\ MatchesFound(db, q) /\ LinesFound(db, tree, q)
  BY DEF SearchTrue
<1>6. FoundTrue(db, tree, query) /\ MatchesFound(db, query) /\ LinesFound(db, tree, query)
  BY <1>2, <1>5 DEF FInv, Finds, SearchTrue
<1>7. IdsTrue(db, q) /\ HitsTrue(db, memvecs, tree, q) /\ NearFound(db, memvecs, q)
  BY <1>2, <1>5 DEF IdsTrue, HitsTrue, NearFound
<1>8. FoundTrue(db, tree, q)
  BY <1>2, <1>5, <1>6 DEF FoundTrue, CandidateKeys
<1>9. MatchesFound(db, q)
  BY <1>2, <1>5, <1>6 DEF MatchesFound, MatchUncut
<1>10. ~query.semantic /\ query.files = Paths(db) /\ \A k \in DOMAIN query.found : ~query.found[k].dense
  BY <1>2, <1>6 DEF FoundTrue, LinesFound
<1>11. LinesFound(db, tree, q)
  <2>1. GrepUncut(db, tree, q.ask) => Cardinality(all) <= ContentCap
    BY <1>5, <1>10 DEF GrepUncut, Paths
  <2> HIDE DEF all
  <2> QED BY <1>3, <1>4, <1>5, <1>10, <2>1 DEF LinesFound
<1> QED BY <1>7, <1>8, <1>9, <1>11

\* A line becomes a hit of the key around it, and is done.
LEMMA AttributeFinds == ASSUME QInv, FInv, Attribute PROVE FInv'
<1> DEFINE known(k) == IF k \in DOMAIN query.found THEN query.found[k] ELSE Blank
<1>1. PICK p \in {l[1] : l \in query.lines} :
        LET here == {l \in query.lines : l[1] = p}
            keys == {Enclosing(p, tree[p], l[2]) : l \in here}
        IN  Goes([query EXCEPT
                    !.lines = @ \ here,
                    !.found = [k \in DOMAIN @ \cup keys |->
                                  IF k \in keys THEN [known(k) EXCEPT !.dense = TRUE] ELSE @[k]]])
  BY Zenon DEF Attribute
<1> DEFINE here == {l \in query.lines : l[1] = p}
           keys == {Enclosing(p, tree[p], l[2]) : l \in here}
           more == [k \in DOMAIN query.found \cup keys |->
                       IF k \in keys THEN [known(k) EXCEPT !.dense = TRUE] ELSE query.found[k]]
           q == [query EXCEPT !.lines = @ \ here, !.found = more]
<1>2. /\ DOMAIN query = QFields /\ query.at = "attribute"
      /\ \A k \in DOMAIN query.found : Evidence(query.found[k])
  BY QueryFields DEF Attribute, QInv, QueryOK, QueryType
<1>3. Goes(q)
  BY <1>1
<1>4. \A l \in here : l \in query.lines /\ l[1] = p /\ Enclosing(p, tree[p], l[2]) \in keys
  OBVIOUS
<1>5. \A k \in keys : \E l \in here : k = Enclosing(p, tree[p], l[2])
  OBVIOUS
<1>6. \A l \in query.lines : l[1] = p \/ l \in query.lines \ here
  OBVIOUS
<1>7. \A k : DOMAIN known(k) = {"vector", "dense", "line", "links"}
  BY <1>2, EvidenceFields DEF Evidence
<1>8. /\ \A k \in DOMAIN query.found : known(k) = query.found[k]
      /\ \A k : k \notin DOMAIN query.found => known(k).vector = {}
  BY DEF Blank
<1> HIDE DEF known, here, keys
<1>9. /\ DOMAIN more = DOMAIN query.found \cup keys
      /\ \A k \in keys : more[k].dense /\ more[k].vector = known(k).vector
      /\ \A k \in DOMAIN query.found \ keys : more[k] = query.found[k]
  BY <1>7
<1> HIDE DEF more
<1>10. /\ q.at = "attribute" /\ q.lines = query.lines \ here /\ q.ask = query.ask /\ q.error = query.error
       /\ q.semantic = query.semantic /\ q.found = more /\ q.quiet = query.quiet
  BY <1>2 DEF QFields
<1> HIDE DEF q
<1> SUFFICES ASSUME query.quiet PROVE SearchTrue(db, memvecs, tree, q)
  <2>1. q.at \in SearchStages
    BY <1>10 DEF SearchStages
  <2> QED BY <1>3, <1>10, <2>1, Searching, GoesFinding
<1> SUFFICES ASSUME q.ask.kind = "search" /\ q.error = "none"
             PROVE  /\ IdsTrue(db, q) /\ FoundTrue(db, tree, q) /\ HitsTrue(db, memvecs, tree, q)
                    /\ NearFound(db, memvecs, q) /\ MatchesFound(db, q) /\ LinesFound(db, tree, q)
  BY DEF SearchTrue
<1>11. FoundTrue(db, tree, query) /\ MatchesFound(db, query) /\ LinesFound(db, tree, query)
  BY <1>2, <1>10 DEF FInv, Finds, SearchTrue
<1>12. IdsTrue(db, q) /\ HitsTrue(db, memvecs, tree, q) /\ NearFound(db, memvecs, q)
  BY <1>10 DEF IdsTrue, HitsTrue, NearFound
<1>13. ~query.semantic
  BY <1>2, <1>11 DEF FoundTrue
<1>14. /\ \A l \in query.lines : l[1] \in Paths(db) \cap Greppable /\ l[2] \in LinesWith(tree[l[1]], query.ask.names)
       /\ \A k \in DOMAIN query.found : query.found[k].dense => k \in Dense(db, tree, query.ask)
  BY <1>2, <1>11, <1>13 DEF LinesFound
<1>15. keys \subseteq Dense(db, tree, query.ask)
  BY <1>4, <1>5, <1>14 DEF Dense, Paths
<1>16. FoundTrue(db, tree, q)
  <2>1. \A k \in DOMAIN more : k \in CandidateKeys(db, tree, q) /\ more[k].vector \subseteq VectorsFor(db, k)
    <3> SUFFICES ASSUME NEW k \in DOMAIN more
                 PROVE  k \in CandidateKeys(db, tree, q) /\ more[k].vector \subseteq VectorsFor(db, k)
      OBVIOUS
    <3>1. k \in DOMAIN query.found => k \in CandidateKeys(db, tree, q) /\ query.found[k].vector \subseteq VectorsFor(db, k)
      BY <1>10, <1>11 DEF FoundTrue, CandidateKeys
    <3>2. k \in keys => k \in CandidateKeys(db, tree, q)
      BY <1>10, <1>13, <1>15 DEF CandidateKeys
    <3> QED BY <1>8, <1>9, <3>1, <3>2
  <2> QED BY <1>10, <1>13, <2>1 DEF FoundTrue
<1>17. MatchesFound(db, q)
  BY <1>2, <1>9, <1>10, <1>11 DEF MatchesFound, MatchUncut
<1>18. LinesFound(db, tree, q)
  <2>1. \A k \in DOMAIN more : more[k].dense => k \in Dense(db, tree, query.ask)
    BY <1>9, <1>14, <1>15
  <2>2. ASSUME GrepUncut(db, tree, query.ask),
               NEW x \in Paths(db) \cap Greppable, NEW i \in LinesWith(tree[x], query.ask.names)
        PROVE  \/ <<x, i>> \in q.lines
               \/ Enclosing(x, tree[x], i) \in DOMAIN more /\ more[Enclosing(x, tree[x], i)].dense
    <3> DEFINE k == Enclosing(x, tree[x], i)
    <3>1. <<x, i>> \in query.lines \/ (k \in DOMAIN query.found /\ query.found[k].dense)
      BY <1>2, <1>11, <1>13, <2>2 DEF LinesFound
    <3>2. CASE <<x, i>> \in here
      <4>1. k \in keys
        BY <1>4, <3>2
      <4> QED BY <1>9, <4>1
    <3>3. CASE <<x, i>> \in query.lines \ here
      BY <1>10, <3>3
    <3>4. CASE k \in DOMAIN query.found /\ query.found[k].dense
      BY <1>9, <3>4
    <3> QED BY <3>1, <3>2, <3>3, <3>4
  <2> QED BY <1>10, <1>14, <2>1, <2>2 DEF LinesFound
<1> QED BY <1>12, <1>16, <1>17, <1>18

\* Folding and the limit leave the hits; lines and neighbours are still to be read.
LEMMA RankFinds == ASSUME QInv, FInv, Rank PROVE FInv'
<1>1. PICK kept \in AtMost(query.ask.max, FoldFileHits(DOMAIN query.found)) :
        Goes([query EXCEPT !.at = "locate", !.found = Restrict(@, kept),
                           !.parse = {k.path : k \in {j \in kept : j.name # NoName}},
                           !.todo = kept])
  BY DEF Rank
<1> DEFINE fewer == Restrict(query.found, kept)
           parse == {k.path : k \in {j \in kept : j.name # NoName}}
           q == [query EXCEPT !.at = "locate", !.found = fewer, !.parse = parse, !.todo = kept]
<1>2. /\ DOMAIN query = QFields
      /\ \/ query.at = "matches" /\ query.ids = {} /\ query.semantic
         \/ query.at = "attribute" /\ query.lines = {}
  BY QueryFields DEF Rank, QInv, QueryOK, QueryType
<1>3. query.ask \in Asks /\ query.ask.max \in Nat /\ query.ask.kind = "search" /\ query.reads = {}
  BY <1>2, QueryAssumption DEF QInv, QueryOK, QueryType, AskFits, SearchStages, Ask
<1>4. kept \subseteq FoldFileHits(DOMAIN query.found) /\ kept \subseteq DOMAIN query.found
  BY <1>3, AtMostFits DEF FoldFileHits
<1>5. DOMAIN fewer = kept /\ \A k \in kept : fewer[k] = query.found[k]
  BY <1>4 DEF Restrict
<1>6. Goes(q)
  BY <1>1
<1>7. \A k \in kept : k.path \notin parse => k.name = NoName
  OBVIOUS
<1> HIDE DEF fewer, parse
<1>8. /\ q.at = "locate" /\ q.found = fewer /\ q.parse = parse /\ q.todo = kept /\ q.reads = {}
      /\ q.ask = query.ask /\ q.error = query.error /\ q.semantic = query.semantic
      /\ q.quiet = query.quiet
  BY <1>2, <1>3 DEF QFields
<1> HIDE DEF q
<1> SUFFICES ASSUME query.quiet PROVE Finds(db, memvecs, tree, q)
  BY <1>6, <1>8, GoesFinding
<1>9. DetailsTrue(db, tree, q)
  <2>1. LinesTrue(tree, q)
    BY <1>5, <1>7, <1>8 DEF LinesTrue, TrueLine
  <2>2. \A k \in kept : Wanted(q, k) = {}
    BY <1>3, <1>8 DEF Wanted
  <2>3. LinksTrue(db, q)
    BY <1>5, <1>8, <2>2 DEF LinksTrue
  <2> QED BY <1>8, <2>1, <2>3 DEF DetailsTrue
<1>10. ShowTrue(db, q) /\ GraphTrue(db, q)
  BY <1>3, <1>8 DEF ShowTrue, GraphTrue, GraphStages
<1>11. SUFFICES ASSUME q.error = "none"
                PROVE  /\ IdsTrue(db, q) /\ FoundTrue(db, tree, q) /\ HitsTrue(db, memvecs, tree, q)
                       /\ NearFound(db, memvecs, q) /\ MatchesFound(db, q) /\ LinesFound(db, tree, q)
  BY <1>9, <1>10 DEF SearchTrue, Finds
<1>12. IdsTrue(db, q) /\ NearFound(db, memvecs, q) /\ MatchesFound(db, q) /\ LinesFound(db, tree, q)
  BY <1>8 DEF IdsTrue, NearFound, MatchesFound, LinesFound
<1>13. /\ FoundTrue(db, tree, query) /\ NearFound(db, memvecs, query) /\ MatchesFound(db, query)
       /\ LinesFound(db, tree, query)
  BY <1>2, <1>3, <1>8, <1>11 DEF FInv, Finds, SearchTrue
<1>14. FoundTrue(db, tree, q)
  BY <1>4, <1>5, <1>8, <1>13 DEF FoundTrue, CandidateKeys
<1>15. ~query.semantic => query.at = "attribute" /\ query.lines = {}
  BY <1>2
<1>16. query.semantic => query.at = "matches" /\ query.ids = {}
  BY <1>2, <1>13 DEF FoundTrue
<1> DEFINE all == CandidateKeys(db, tree, query)
<1>17. CandidateKeys(db, tree, q) = all /\ (MatchUncut(db, q) <=> MatchUncut(db, query))
  BY <1>8 DEF CandidateKeys, MatchUncut
<1>u. (SourceUncut(db, memvecs, tree, q) <=> SourceUncut(db, memvecs, tree, query))
  BY <1>8 DEF SourceUncut
<1>18. ~query.semantic /\ SourceUncut(db, memvecs, tree, query) =>
            \A k \in Dense(db, tree, query.ask) : k \in DOMAIN query.found /\ query.found[k].dense
  <2> SUFFICES ASSUME ~query.semantic, SourceUncut(db, memvecs, tree, query),
                      NEW k \in Dense(db, tree, query.ask)
               PROVE  k \in DOMAIN query.found /\ query.found[k].dense
    OBVIOUS
  <2>1. PICK p \in Paths(db) \cap Greppable : k \in {Enclosing(p, tree[p], i) : i \in LinesWith(tree[p], query.ask.names)}
    BY DEF Dense, Paths
  <2>2. PICK i \in LinesWith(tree[p], query.ask.names) : k = Enclosing(p, tree[p], i)
    BY <2>1
  <2>3. GrepUncut(db, tree, query.ask)
    BY DEF SourceUncut
  <2> QED BY <1>13, <1>15, <2>2, <2>3 DEF LinesFound
<1>19. MatchUncut(db, query) /\ SourceUncut(db, memvecs, tree, query) => DOMAIN query.found = all
  <2> SUFFICES ASSUME MatchUncut(db, query), SourceUncut(db, memvecs, tree, query)
               PROVE  all \subseteq DOMAIN query.found
    BY <1>13 DEF FoundTrue
  <2>1. \A k \in Matched(db, query.ask) : k \in DOMAIN query.found
    BY <1>15, <1>16, <1>13 DEF MatchesFound, Awaited
  <2>2. query.semantic => \A k \in Near(db) : k \in DOMAIN query.found
    BY <1>16, <1>13 DEF NearFound, HasVector, SourceUncut
  <2> QED BY <1>18, <2>1, <2>2 DEF CandidateKeys
<1> HIDE DEF all
<1>20. MatchUncut(db, query) /\ SourceUncut(db, memvecs, tree, query)
            /\ Cardinality(FoldFileHits(all)) <= query.ask.max => kept = FoldFileHits(all)
  BY <1>19, AtMostAll
<1>21. query.semantic /\ SourceUncut(db, memvecs, tree, query) =>
            \A k \in kept \cap Near(db) : fewer[k].vector # {}
  BY <1>5, <1>13, <1>16 DEF NearFound, HasVector, SourceUncut
<1>22. ~query.semantic => \A k \in kept :
            /\ fewer[k].dense => k \in Dense(db, tree, query.ask)
            /\ SourceUncut(db, memvecs, tree, query) /\ k \in Dense(db, tree, query.ask) => fewer[k].dense
  <2> SUFFICES ASSUME ~query.semantic, NEW k \in kept
               PROVE  /\ fewer[k].dense => k \in Dense(db, tree, query.ask)
                      /\ SourceUncut(db, memvecs, tree, query) /\ k \in Dense(db, tree, query.ask) => fewer[k].dense
    OBVIOUS
  <2>1. fewer[k] = query.found[k] /\ k \in DOMAIN query.found
    BY <1>4, <1>5
  <2>2. query.found[k].dense => k \in Dense(db, tree, query.ask)
    BY <1>13, <1>15, <2>1 DEF LinesFound
  <2> QED BY <1>18, <2>1, <2>2
<1>23. HitsTrue(db, memvecs, tree, q)
  BY <1>5, <1>8, <1>17, <1>u, <1>20, <1>21, <1>22 DEF HitsTrue
<1> QED BY <1>12, <1>14, <1>23

-----------------------------------------------------------------------------
(* Lines, neighbours and the answer *)

\* Lines and neighbours may be filled in; what was found, and how, stays.
LEMMA StillFinds ==
    ASSUME NEW d, NEW m, NEW t, NEW r, NEW q, Finds(d, m, t, r),
           r.at = "locate", q.at \in {"locate", "done"}, q.ask = r.ask, q.error = r.error,
           q.semantic = r.semantic, q.ask.kind # "graph", DOMAIN q.found = DOMAIN r.found,
           \A k \in DOMAIN r.found : q.found[k].vector = r.found[k].vector /\ q.found[k].dense = r.found[k].dense,
           DetailsTrue(d, t, q)
    PROVE  Finds(d, m, t, q)
<1>1. ShowTrue(d, q) /\ GraphTrue(d, q)
  BY DEF Finds, ShowTrue, GraphTrue, GraphStages
<1>2. SUFFICES ASSUME q.ask.kind = "search" /\ q.error = "none"
               PROVE  /\ IdsTrue(d, q) /\ FoundTrue(d, t, q) /\ HitsTrue(d, m, t, q)
                      /\ NearFound(d, m, q) /\ MatchesFound(d, q) /\ LinesFound(d, t, q)
  BY <1>1 DEF SearchTrue, Finds
<1>3. IdsTrue(d, q) /\ NearFound(d, m, q) /\ MatchesFound(d, q) /\ LinesFound(d, t, q)
  BY DEF IdsTrue, NearFound, MatchesFound, LinesFound
<1>4. FoundTrue(d, t, r) /\ HitsTrue(d, m, t, r)
  BY <1>2 DEF Finds, SearchTrue
<1>5. CandidateKeys(d, t, q) = CandidateKeys(d, t, r) /\ (MatchUncut(d, q) <=> MatchUncut(d, r))
      /\ (SourceUncut(d, m, t, q) <=> SourceUncut(d, m, t, r))
  BY DEF CandidateKeys, MatchUncut, SourceUncut
<1>6. FoundTrue(d, t, q)
  BY <1>4, <1>5 DEF FoundTrue
<1>7. HitsTrue(d, m, t, q)
  BY <1>4, <1>5 DEF HitsTrue
<1> QED BY <1>3, <1>6, <1>7

\* The symbols of one file get their lines.
LEMMA LocateFinds == ASSUME QInv, FInv, Locate PROVE FInv'
<1>1. PICK p \in query.parse :
        Goes([query EXCEPT
                !.parse = @ \ {p},
                !.found = [k \in DOMAIN @ |->
                              IF k.path = p /\ k.name # NoName
                              THEN [@[k] EXCEPT !.line = FindSymbol(tree[p], k.name)]
                              ELSE @[k]]])
  BY DEF Locate
<1> DEFINE found == [k \in DOMAIN query.found |->
                        IF k.path = p /\ k.name # NoName
                        THEN [query.found[k] EXCEPT !.line = FindSymbol(tree[p], k.name)]
                        ELSE query.found[k]]
           q == [query EXCEPT !.parse = @ \ {p}, !.found = found]
<1>2. /\ DOMAIN query = QFields /\ query.at = "locate" /\ query.ask.kind # "graph"
      /\ \A k \in DOMAIN query.found : DOMAIN query.found[k] = {"vector", "dense", "line", "links"}
  BY QueryFields, EvidenceFields DEF Locate, QInv, QueryOK, QueryType, AskFits, Evidence
<1>3. Goes(q)
  BY <1>1
<1>4. /\ DOMAIN found = DOMAIN query.found
      /\ \A k \in DOMAIN query.found :
            /\ found[k].vector = query.found[k].vector /\ found[k].dense = query.found[k].dense
            /\ found[k].links = query.found[k].links
            /\ k.name # NoName =>
                  found[k].line = IF k.path = p THEN FindSymbol(tree[p], k.name) ELSE query.found[k].line
  BY <1>2
<1> HIDE DEF found
<1>5. /\ q.at = "locate" /\ q.found = found /\ q.parse = query.parse \ {p} /\ q.todo = query.todo
      /\ q.reads = query.reads /\ q.ask = query.ask /\ q.error = query.error
      /\ q.semantic = query.semantic /\ q.quiet = query.quiet
  BY <1>2 DEF QFields
<1> HIDE DEF q
<1> SUFFICES ASSUME query.quiet PROVE DetailsTrue(db, tree, q)
  <2>1. query.quiet => Finds(db, memvecs, tree, query)
    BY <1>2 DEF FInv
  <2> QED BY <1>2, <1>3, <1>4, <1>5, <2>1, StillFinds, GoesFinding
<1>6. LinesTrue(tree, query) /\ LinksTrue(db, query)
  BY <1>2 DEF FInv, Finds, DetailsTrue
<1>7. LinesTrue(tree, q)
  BY <1>4, <1>5, <1>6 DEF LinesTrue, TrueLine
<1>8. \A k : Wanted(q, k) = Wanted(query, k)
  BY <1>5 DEF Wanted
<1>9. LinksTrue(db, q)
  BY <1>4, <1>5, <1>6, <1>8 DEF LinksTrue
<1> QED BY <1>5, <1>7, <1>9 DEF DetailsTrue

\* The reads of a key are of all the neighbours that have a place.
LEMMA ReadsAre ==
    ASSUME NEW k, NEW i, NEW places
    PROVE  /\ \A r \in Reads(k, i, places) : r.key = k /\ r.file = i
           /\ \A l \in DOMAIN places : \E r \in Reads(k, i, places) : r.key = k /\ r.link = l
<1>1. \A r \in Reads(k, i, places) : r.key = k /\ r.file = i
  BY DEF Reads
<1>2. ASSUME NEW l \in DOMAIN places
      PROVE  \E r \in Reads(k, i, places) : r.key = k /\ r.link = l
  <2> DEFINE r == [key |-> k, file |-> i, link |-> l, place |-> places[l]]
  <2>1. r \in Reads(k, i, places)
    BY DEF Reads
  <2> QED BY <2>1
<1> QED BY <1>1, <1>2

\* A hit finds its file, or has none, and its neighbours are to be read by the id found.
LEMMA LookUpFinds == ASSUME Good(db), QInv, FInv, LookUp PROVE FInv'
<1> DEFINE places == [tests |-> 1, imports |-> 2, importers |-> 3]
           k == CHOOSE j \in query.todo : TRUE
           reads == UNION {Reads(k, f.id, places) : f \in FileAt(db, k.path)}
           q == [query EXCEPT !.todo = @ \ {k}, !.reads = reads]
<1>1. Goes(q) /\ query.at = "locate" /\ query.reads = {}
  BY Zenon DEF LookUp
<1>2. /\ DOMAIN query = QFields /\ query.ask.kind # "graph"
  BY <1>1, QueryFields DEF QInv, QueryOK, QueryType, AskFits
<1>3. DOMAIN places = Link
  BY DEF Link
<1> HIDE DEF k, places
<1>4. \A r \in reads : r.key = k /\ \A f \in FileAt(db, r.key.path) : f.id = r.file
  <2> SUFFICES ASSUME NEW g \in FileAt(db, k.path), NEW r \in Reads(k, g.id, places)
               PROVE  r.key = k /\ \A f \in FileAt(db, r.key.path) : f.id = r.file
    OBVIOUS
  <2>1. r.key = k /\ r.file = g.id
    BY ReadsAre
  <2>2. \A f \in FileAt(db, k.path) : f = g
    BY GoodRows DEF FileAt
  <2> QED BY <2>1, <2>2
<1>5. FileAt(db, k.path) # {} => \A l \in Link : \E r \in reads : r.key = k /\ r.link = l
  <2> SUFFICES ASSUME NEW f \in FileAt(db, k.path), NEW l \in Link
               PROVE  \E r \in reads : r.key = k /\ r.link = l
    OBVIOUS
  <2>1. PICK r \in Reads(k, f.id, places) : r.key = k /\ r.link = l
    BY <1>3, ReadsAre
  <2> QED BY <2>1
<1> HIDE DEF reads
<1>6. /\ q.at = "locate" /\ q.found = query.found /\ q.parse = query.parse /\ q.todo = query.todo \ {k}
      /\ q.reads = reads /\ q.ask = query.ask /\ q.error = query.error
      /\ q.semantic = query.semantic /\ q.quiet = query.quiet
  BY <1>1, <1>2 DEF QFields
<1> HIDE DEF q
<1> SUFFICES ASSUME query.quiet PROVE DetailsTrue(db, tree, q)
  <2>1. query.quiet => Finds(db, memvecs, tree, query)
    BY <1>1 DEF FInv
  <2> QED BY <1>1, <1>2, <1>6, <2>1, StillFinds, GoesFinding
<1>7. LinesTrue(tree, query) /\ LinksTrue(db, query)
  BY <1>1, <1>2 DEF FInv, Finds, DetailsTrue
<1>8. LinesTrue(tree, q)
  BY <1>6, <1>7 DEF LinesTrue
<1>9. LinksTrue(db, q)
  <2> SUFFICES ASSUME NEW j \in DOMAIN query.found, NEW l \in Wanted(q, j)
               PROVE  \/ FileAt(db, j.path) = {}
                      \/ query.found[j].links[l] = LinksTo(db, j, l)
                      \/ \E r \in reads : r.key = j /\ r.link = l
    BY <1>4, <1>6 DEF LinksTrue
  <2>1. CASE j = k
    <3>1. l \in Link
      BY DEF Wanted
    <3> QED BY <1>5, <2>1, <3>1
  <2>2. CASE j # k
    <3>1. l \in Wanted(query, j)
      BY <1>6, <2>2 DEF Wanted
    <3> QED BY <1>1, <1>7, <3>1 DEF LinksTrue
  <2> QED BY <2>1, <2>2
<1> QED BY <1>6, <1>8, <1>9 DEF DetailsTrue

\* Neighbours read by an id are those of the path, as the id is still its file.
LEMMA ReadNeighboursFinds == ASSUME Good(db), QInv, FInv, ReadNeighbours PROVE FInv'
<1>1. PICK r \in query.reads :
          Goes([query EXCEPT !.reads = @ \ {r},
                             !.found[r.key].links[r.link] = LinksOf(db, r.file, r.link)])
  BY DEF ReadNeighbours
<1> DEFINE links == LinksOf(db, r.file, r.link)
           found == [query.found EXCEPT ![r.key] = [@ EXCEPT !.links[r.link] = links]]
           q == [query EXCEPT !.reads = @ \ {r}, !.found = found]
<1>2. /\ DOMAIN query = QFields /\ query.at = "locate" /\ query.ask.kind # "graph"
      /\ r.key \in DOMAIN query.found /\ r.link \in Link
      /\ \A k \in DOMAIN query.found :
            /\ DOMAIN query.found[k] = {"vector", "dense", "line", "links"}
            /\ query.found[k].links \in [Link -> SUBSET Path]
  BY QueryFields, EvidenceFields DEF ReadNeighbours, QInv, QueryOK, QueryType, AskFits, Evidence
<1>3. Goes(q)
  BY <1>1
<1> HIDE DEF links
<1>4. /\ DOMAIN found = DOMAIN query.found
      /\ \A k \in DOMAIN query.found :
            /\ found[k].vector = query.found[k].vector /\ found[k].dense = query.found[k].dense
            /\ found[k].line = query.found[k].line
            /\ \A l \in Link : found[k].links[l] = IF k = r.key /\ l = r.link THEN links ELSE query.found[k].links[l]
  BY <1>2
<1> HIDE DEF found
<1>5. /\ q.at = "locate" /\ q.found = found /\ q.parse = query.parse /\ q.todo = query.todo
      /\ q.reads = query.reads \ {r} /\ q.ask = query.ask /\ q.error = query.error
      /\ q.semantic = query.semantic /\ q.quiet = query.quiet
  BY <1>2 DEF QFields
<1> HIDE DEF q
<1> SUFFICES ASSUME query.quiet PROVE DetailsTrue(db, tree, q)
  <2>1. query.quiet => Finds(db, memvecs, tree, query)
    BY <1>2 DEF FInv
  <2> QED BY <1>2, <1>3, <1>4, <1>5, <2>1, StillFinds, GoesFinding
<1>6. LinesTrue(tree, query) /\ LinksTrue(db, query)
  BY <1>2 DEF FInv, Finds, DetailsTrue
<1>7. LinesTrue(tree, q)
  BY <1>4, <1>5, <1>6 DEF LinesTrue, TrueLine
<1>8. FileAt(db, r.key.path) # {} => links = LinksTo(db, r.key, r.link)
  <2> SUFFICES ASSUME NEW f \in FileAt(db, r.key.path) PROVE links = LinksTo(db, r.key, r.link)
    OBVIOUS
  <2>1. f.id = r.file
    BY <1>6 DEF LinksTrue
  <2> QED BY <1>2, <2>1, LinksOfRow DEF links
<1>9. \A k : Wanted(q, k) = Wanted(query, k) /\ Wanted(q, k) \subseteq Link
  BY <1>5 DEF Wanted
<1>10. LinksTrue(db, q)
  <2>1. \A x \in q.reads : \A f \in FileAt(db, x.key.path) : f.id = x.file
    BY <1>5, <1>6 DEF LinksTrue
  <2>2. ASSUME NEW k \in DOMAIN query.found, NEW l \in Wanted(query, k)
        PROVE  \/ FileAt(db, k.path) = {}
               \/ found[k].links[l] = LinksTo(db, k, l)
               \/ \E x \in q.reads : x.key = k /\ x.link = l
    <3>1. l \in Link
      BY <1>9
    <3>2. \/ FileAt(db, k.path) = {}
          \/ query.found[k].links[l] = LinksTo(db, k, l)
          \/ \E x \in query.reads : x.key = k /\ x.link = l
      BY <1>6 DEF LinksTrue
    <3>3. CASE k = r.key /\ l = r.link
      BY <1>4, <1>8, <3>1, <3>3
    <3>4. CASE ~(k = r.key /\ l = r.link)
      BY <1>4, <1>5, <3>1, <3>2, <3>4
    <3> QED BY <3>3, <3>4
  <2> QED BY <1>4, <1>5, <1>9, <2>1, <2>2 DEF LinksTrue
<1> QED BY <1>5, <1>7, <1>10 DEF DetailsTrue

\* An answer has nothing left to parse, look up or read.
LEMMA AnswerFinds == ASSUME QInv, FInv, Answer PROVE FInv'
<1> DEFINE q == [query EXCEPT !.at = "done"]
<1>1. /\ query.at = "locate" /\ Goes(q)
      /\ query.parse = {} /\ query.reads = {} /\ query.todo = {}
  BY DEF Answer
<1>2. DOMAIN query = QFields /\ query.ask.kind # "graph"
  BY <1>1, QueryFields DEF QInv, QueryOK, QueryType, AskFits
<1>3. /\ q.at = "done" /\ q.found = query.found /\ q.parse = {} /\ q.todo = {} /\ q.reads = {}
      /\ q.ask = query.ask /\ q.error = query.error
      /\ q.semantic = query.semantic /\ q.quiet = query.quiet
  BY <1>1, <1>2 DEF QFields
<1> HIDE DEF q
<1> SUFFICES ASSUME query.quiet PROVE DetailsTrue(db, tree, q)
  <2>1. query.quiet => Finds(db, memvecs, tree, query)
    BY <1>1 DEF FInv
  <2> QED BY <1>1, <1>2, <1>3, <2>1, StillFinds, GoesFinding
<1>4. LinesTrue(tree, query) /\ LinksTrue(db, query)
  BY <1>1, <1>2 DEF FInv, Finds, DetailsTrue
<1>5. LinesTrue(tree, q)
  BY <1>1, <1>3, <1>4 DEF LinesTrue
<1>6. \A k : Wanted(q, k) = Wanted(query, k)
  BY <1>1, <1>3 DEF Wanted
<1>7. LinksTrue(db, q)
  BY <1>1, <1>3, <1>4, <1>6 DEF LinksTrue
<1> QED BY <1>3, <1>5, <1>7 DEF DetailsTrue

-----------------------------------------------------------------------------
(* Every action of a show and of a graph *)

\* The keys of some symbols are those one of them owns.
LEMMA SymbolKeysOwned ==
    ASSUME NEW d, Good(d), NEW rows \in SUBSET d.symbols, NEW k
    PROVE  k \in SymbolKeys(d, rows) <=>
               k \in Key /\ k.name # NoName /\ \E s \in rows : SymbolKeys(d, {s}) = {k}
<1>1. k \in SymbolKeys(d, rows) <=> \E s \in rows : k \in SymbolKeys(d, {s})
  BY DEF SymbolKeys
<1>2. \A s \in rows : k \in SymbolKeys(d, {s}) => SymbolKeys(d, {s}) = {k} /\ k \in Key /\ k.name # NoName
  <2> SUFFICES ASSUME NEW s \in rows, k \in SymbolKeys(d, {s})
               PROVE  SymbolKeys(d, {s}) = {k} /\ k \in Key /\ k.name # NoName
    OBVIOUS
  <2>1. PICK f \in d.files : f.id = s.file
    BY GoodRows
  <2>2. k = SymbolKey(f.path, NameOf[s.ident]) /\ SymbolKeys(d, {s}) = {k}
    BY <2>1, KeyOfSymbol
  <2>3. s.ident \in Ident
    BY GoodRows DEF SymbolRow
  <2>4. NameOf[s.ident] \in Name
    BY <2>3, QueryAssumption
  <2>5. k \in Key
    BY DEF SymbolKeys
  <2> QED BY <2>2, <2>4, <2>5, QueryAssumption DEF SymbolKey
<1> QED BY <1>1, <1>2

\* A symbol's key bears its name.
LEMMA NameOfKey ==
    ASSUME NEW d, Good(d), NEW s \in d.symbols, NEW k, SymbolKeys(d, {s}) = {k}
    PROVE  k.name = NameOf[s.ident] /\ \E f \in d.files : f.id = s.file /\ k.path = f.path
<1>1. PICK f \in d.files : f.id = s.file
  BY GoodRows
<1>2. k = SymbolKey(f.path, NameOf[s.ident])
  BY <1>1, KeyOfSymbol
<1> QED BY <1>1, <1>2 DEF SymbolKey

\* The rows of the names asked for, in the paths asked for, are the definitions.
LEMMA DefinitionsRead ==
    ASSUME NEW d, Good(d), NEW a \in Ask
    PROVE  {k \in SymbolKeys(d, {s \in d.symbols : NameOf[s.ident] \in a.names}) : k.path \in a.within}
               = Definitions(d, a)
<1> DEFINE rows == {s \in d.symbols : NameOf[s.ident] \in a.names}
           within == {k \in SymbolKeys(d, rows) : k.path \in a.within}
<1>1. a.names \subseteq Name
  BY DEF Ask
<1>2. ASSUME NEW k
      PROVE  k \in SymbolKeys(d, rows) <=> k \in Key /\ k.name \in a.names /\ OwnersOf(d, k) # {}
  <2>1. k \in SymbolKeys(d, rows) <=>
            k \in Key /\ k.name # NoName /\ \E s \in rows : SymbolKeys(d, {s}) = {k}
    BY SymbolKeysOwned
  <2>2. \A s \in d.symbols : SymbolKeys(d, {s}) = {k} => (s \in rows <=> k.name \in a.names)
    BY NameOfKey
  <2>3. k.name # NoName => (OwnersOf(d, k) # {} <=> \E s \in d.symbols : SymbolKeys(d, {s}) = {k})
    BY DEF OwnersOf
  <2>4. k.name \in a.names => k.name # NoName
    BY <1>1, QueryAssumption
  <2> QED BY <2>1, <2>2, <2>3, <2>4
<1>3. \A k : k \in within <=> k \in Definitions(d, a)
  <2> HIDE DEF rows
  <2> QED BY <1>2 DEF Definitions
<1> HIDE DEF within
<1>4. within = Definitions(d, a)
  <2>1. within \subseteq Definitions(d, a) /\ Definitions(d, a) \subseteq within
    BY <1>3
  <2> QED BY <2>1
<1> QED BY <1>4 DEF within

\* The rows of a file and the file itself are its outline.
LEMMA OutlineRead ==
    ASSUME NEW d, Good(d), NEW p, NEW f \in FileAt(d, p)
    PROVE  SymbolKeys(d, SymbolsIn(d, {f.id})) \cup {FileKey(p)} = Outline(d, p)
<1> DEFINE rows == SymbolsIn(d, {f.id})
<1>1. f \in d.files /\ f.path = p /\ \A g \in d.files : g.path = p \/ g.id = f.id => g = f
  BY GoodRows DEF FileAt
<1>2. ASSUME NEW k
      PROVE  k \in SymbolKeys(d, rows) <=> k \in Key /\ k.name # NoName /\ k.path = p /\ OwnersOf(d, k) # {}
  <2>1. k \in SymbolKeys(d, rows) <=>
            k \in Key /\ k.name # NoName /\ \E s \in rows : SymbolKeys(d, {s}) = {k}
    BY SymbolKeysOwned DEF SymbolsIn
  <2>2. \A s \in d.symbols : SymbolKeys(d, {s}) = {k} => (s \in rows <=> k.path = p)
    BY <1>1, NameOfKey DEF SymbolsIn
  <2>3. \A s \in rows : s \in d.symbols
    BY DEF SymbolsIn
  <2>4. k.name # NoName => (OwnersOf(d, k) # {} <=> \E s \in d.symbols : SymbolKeys(d, {s}) = {k})
    BY DEF OwnersOf
  <2> HIDE DEF rows
  <2> QED BY <2>1, <2>2, <2>3, <2>4
<1>3. \A k \in Key : k.name = NoName /\ k.path = p => k = FileKey(p)
  BY DEF Key, FileKey
<1> HIDE DEF rows
<1>4. \A k : k \in SymbolKeys(d, rows) \cup {FileKey(p)} <=> k \in Outline(d, p)
  BY <1>2, <1>3 DEF Outline
<1>5. SymbolKeys(d, rows) \cup {FileKey(p)} = Outline(d, p)
  <2>1. /\ SymbolKeys(d, rows) \cup {FileKey(p)} \subseteq Outline(d, p)
        /\ Outline(d, p) \subseteq SymbolKeys(d, rows) \cup {FileKey(p)}
    BY <1>4
  <2> QED BY <2>1
<1> QED BY <1>5 DEF rows

\* A show of a symbol finds the definitions, up to the cap.
LEMMA BeginSymbolFinds == ASSUME Good(db), BeginSymbol PROVE FInv'
<1>1. PICK a \in Asks :
        /\ a.kind = "symbol"
        /\ LET rows   == {s \in db.symbols : NameOf[s.ident] \in a.names}
               within == {k \in SymbolKeys(db, rows) : k.path \in a.within}
           IN  IF within = {} THEN Begin(Refused(a, "NOT_FOUND"))
               ELSE \E kept \in AtMost(BlockCap, within) :
                    /\ \A k \in kept, j \in within \ kept : k.path <= j.path
                    /\ Begin([Asked(a, "locate") EXCEPT
                                 !.found = [k \in kept |-> Blank],
                                 !.parse = {k.path : k \in kept},
                                 !.reads = UNION {Reads(x[1], x[2].id, [tests |-> x[1].path]) :
                                                     x \in {y \in kept \X db.files : y[1].path = y[2].path}}])
  BY Zenon DEF BeginSymbol, AsksFor
<1> DEFINE rows   == {s \in db.symbols : NameOf[s.ident] \in a.names}
           within == {k \in SymbolKeys(db, rows) : k.path \in a.within}
<1>2. CASE Begin(Refused(a, "NOT_FOUND"))
  BY <1>2, RefusedFinds, BeginsFinding
<1>3. ASSUME NEW kept \in AtMost(BlockCap, within),
             Begin([Asked(a, "locate") EXCEPT
                       !.found = [k \in kept |-> Blank],
                       !.parse = {k.path : k \in kept},
                       !.reads = UNION {Reads(x[1], x[2].id, [tests |-> x[1].path]) :
                                           x \in {y \in kept \X db.files : y[1].path = y[2].path}}])
      PROVE  FInv'
  <2> DEFINE found == [k \in kept |-> Blank]
             parse == {k.path : k \in kept}
             pairs == {y \in kept \X db.files : y[1].path = y[2].path}
             reads == UNION {Reads(x[1], x[2].id, [tests |-> x[1].path]) : x \in pairs}
             q == [Asked(a, "locate") EXCEPT !.found = found, !.parse = parse, !.reads = reads]
  <2>1. Begin(q)
    BY <1>3
  <2>2. \A r \in reads : \A f \in FileAt(db, r.key.path) : f.id = r.file
    <3>0. ASSUME NEW r \in reads
          PROVE  \E x \in pairs : r \in Reads(x[1], x[2].id, [tests |-> x[1].path])
      <4> HIDE DEF pairs
      <4> QED OBVIOUS
    <3> SUFFICES ASSUME NEW x \in pairs, NEW r \in Reads(x[1], x[2].id, [tests |-> x[1].path]),
                        NEW f \in FileAt(db, r.key.path)
                 PROVE  f.id = r.file
      BY <3>0, Zenon
    <3>1. r.key = x[1] /\ r.file = x[2].id
      BY ReadsAre
    <3>2. x[2] \in db.files /\ x[1].path = x[2].path
      <4>1. \A y \in kept \X db.files : y[2] \in db.files
        OBVIOUS
      <4> QED BY <4>1
    <3> QED BY <3>1, <3>2, GoodRows DEF FileAt
  <2>3. \A k \in kept : FileAt(db, k.path) # {} => \E r \in reads : r.key = k /\ r.link = "tests"
    <3> SUFFICES ASSUME NEW k \in kept, NEW f \in FileAt(db, k.path)
                 PROVE  \E r \in reads : r.key = k /\ r.link = "tests"
      OBVIOUS
    <3>1. <<k, f>> \in pairs
      BY DEF FileAt
    <3>2. PICK r \in Reads(k, f.id, [tests |-> k.path]) : r.key = k /\ r.link = "tests"
      BY ReadsAre
    <3>3. r \in reads
      <4> HIDE DEF pairs
      <4> QED BY <3>1, <3>2
    <3> QED BY <3>2, <3>3
  <2>4. \A k \in kept : k.path \in parse
    OBVIOUS
  <2>5. DOMAIN found = kept
    OBVIOUS
  <2> HIDE DEF found, parse, reads, pairs
  <2>6. /\ q.at = "locate" /\ q.ask = a /\ q.found = found /\ q.parse = parse /\ q.reads = reads
    BY DEF Asked, NoQuery
  <2> HIDE DEF q
  <2>7. LinesTrue(tree, q)
    BY <2>4, <2>5, <2>6 DEF LinesTrue
  <2>8. LinksTrue(db, q)
    <3>1. \A k \in kept : \A l \in Wanted(q, k) : l = "tests"
      BY <1>1, <2>6 DEF Wanted
    <3> QED BY <2>2, <2>3, <2>5, <2>6, <3>1 DEF LinksTrue
  <2>9. DOMAIN q.found \in AtMost(BlockCap, Definitions(db, q.ask))
    <3>1. a \in Ask
      BY QueryAssumption
    <3>2. within = Definitions(db, a)
      BY <3>1, DefinitionsRead
    <3> QED BY <2>5, <2>6, <3>2
  <2>10. Finds(db, memvecs, tree, q)
    BY <1>1, <2>6, <2>7, <2>8, <2>9
    DEF Finds, SearchTrue, DetailsTrue, ShowTrue, GraphTrue, GraphStages
  <2> QED BY <2>1, <2>10, BeginsFinding
<1> QED BY <1>1, <1>2, <1>3

\* A show of a file finds its id.
LEMMA BeginFileFinds == ASSUME BeginFile PROVE FInv'
<1>1. PICK a \in Asks :
          /\ a.kind = "file"
          /\ \/ Begin(Refused(a, "NOT_FOUND"))
             \/ \E f \in FileAt(db, a.path) : Begin([Asked(a, "outline") EXCEPT !.file = f.id])
  BY Zenon DEF BeginFile, AsksFor
<1>2. ASSUME NEW f \in FileAt(db, a.path), Begin([Asked(a, "outline") EXCEPT !.file = f.id])
      PROVE  FInv'
  <2> DEFINE q == [Asked(a, "outline") EXCEPT !.file = f.id]
  <2>1. q.at = "outline" /\ q.ask = a /\ q.file = f.id
    BY DEF Asked, NoQuery
  <2>2. Begin(q)
    BY <1>2
  <2> HIDE DEF q
  <2>3. Finds(db, memvecs, tree, q)
    BY <1>1, <2>1 DEF Finds, SearchTrue, DetailsTrue, ShowTrue, GraphTrue, GraphStages
  <2> QED BY <2>2, <2>3, BeginsFinding
<1> QED BY <1>1, <1>2, RefusedFinds, BeginsFinding

\* The outline of a file is read by the id its path still has.
LEMMA ReadOutlineFinds == ASSUME Good(db), QInv, FInv, ReadOutline PROVE FInv'
<1> DEFINE rows == SymbolKeys(db, SymbolsIn(db, {query.file}))
           self == FileKey(query.ask.path)
           places == [imports |-> 1, importers |-> 2, tests |-> 3]
           found == [k \in rows \cup {self} |-> Blank]
           parse == {k.path : k \in rows}
           reads == Reads(self, query.file, places)
           q == [query EXCEPT !.at = "locate", !.file = 0, !.found = found, !.parse = parse, !.reads = reads]
<1>1. query.at = "outline" /\ Goes(q)
  BY DEF ReadOutline
<1>2. DOMAIN query = QFields /\ query.ask.kind = "file"
  BY <1>1, QueryFields DEF QInv, QueryOK, QueryType, AskFits
<1>3. DOMAIN found = rows \cup {self} /\ \A k \in rows : k.path \in parse
  OBVIOUS
<1>4. DOMAIN places = Link
  BY DEF Link
<1>5. self.name = NoName /\ self.path = query.ask.path
  BY DEF FileKey
<1> HIDE DEF rows, self, places
<1>6. /\ \A r \in reads : r.key = self /\ r.file = query.file
      /\ \A l \in Link : \E r \in reads : r.key = self /\ r.link = l
  BY <1>4, ReadsAre
<1> HIDE DEF found, parse, reads
<1>7. /\ q.at = "locate" /\ q.ask = query.ask /\ q.found = found /\ q.parse = parse /\ q.reads = reads
      /\ q.quiet = query.quiet
  BY <1>1, <1>2 DEF QFields
<1> HIDE DEF q
<1> SUFFICES ASSUME query.quiet PROVE Finds(db, memvecs, tree, q)
  BY <1>1, <1>7, GoesFinding
<1>8. PICK f \in FileAt(db, query.ask.path) : f.id = query.file
  BY <1>1 DEF FInv, Finds, ShowTrue
<1>9. rows \cup {self} = Outline(db, query.ask.path)
  BY <1>8, OutlineRead DEF rows, self
<1>10. LinesTrue(tree, q)
  BY <1>3, <1>5, <1>7 DEF LinesTrue, TrueLine
<1>11. LinksTrue(db, q)
  <2>1. \A g \in FileAt(db, query.ask.path) : g = f
    BY GoodRows DEF FileAt
  <2>2. \A k : \A l \in Wanted(q, k) : k = self /\ l \in Link
    BY <1>2, <1>7 DEF Wanted, self
  <2> QED BY <1>5, <1>6, <1>7, <1>8, <2>1, <2>2 DEF LinksTrue
<1>12. ShowTrue(db, q)
  BY <1>2, <1>3, <1>7, <1>9 DEF ShowTrue
<1> QED BY <1>2, <1>7, <1>10, <1>11, <1>12
        DEF Finds, SearchTrue, DetailsTrue, GraphTrue, GraphStages

\* Until it is projected, a graph owes nothing but what was read for it.
LEMMA Graphing ==
    ASSUME NEW d, NEW m, NEW t, NEW q, q.at \in GraphStages, q.ask.kind = "graph", GraphTrue(d, q)
    PROVE  Finds(d, m, t, q)
BY DEF Finds, SearchTrue, DetailsTrue, ShowTrue, GraphStages

\* A graph has read nothing.
LEMMA BeginGraphFinds == ASSUME BeginGraph PROVE FInv'
<1>1. PICK a \in Asks : a.kind = "graph" /\ Begin(Asked(a, "graph"))
  BY Zenon DEF BeginGraph, AsksFor
<1> DEFINE q == Asked(a, "graph")
<1>2. q.at = "graph" /\ q.ask = a /\ q.edges = {}
  BY DEF Asked, NoQuery
<1> HIDE DEF q
<1>3. q.at \in GraphStages /\ GraphTrue(db, q)
  BY <1>2 DEF GraphTrue, GraphStages
<1>4. Finds(db, memvecs, tree, q)
  BY <1>1, <1>2, <1>3, Graphing
<1> QED BY <1>1, <1>4, BeginsFinding DEF q

\* It reads the files,
LEMMA ReadAllFilesFinds == ASSUME QInv, FInv, ReadAllFiles PROVE FInv'
<1> DEFINE q == [query EXCEPT !.at = "import", !.files = Paths(db)]
<1>1. query.at = "graph" /\ Goes(q)
  BY DEF ReadAllFiles, Paths
<1>2. DOMAIN query = QFields /\ query.ask.kind = "graph"
  BY <1>1, QueryFields DEF QInv, QueryOK, QueryType, AskFits, GraphStages
<1>3. /\ q.at = "import" /\ q.ask = query.ask /\ q.files = Paths(db) /\ q.edges = query.edges
      /\ q.quiet = query.quiet
  BY <1>1, <1>2 DEF QFields
<1> HIDE DEF q
<1> SUFFICES ASSUME query.quiet PROVE Finds(db, memvecs, tree, q)
  BY <1>1, <1>3, GoesFinding
<1>4. query.edges = {}
  BY <1>1 DEF FInv, Finds, GraphTrue
<1>5. q.at \in GraphStages /\ GraphTrue(db, q)
  BY <1>3, <1>4 DEF GraphTrue, GraphStages
<1> QED BY <1>2, <1>3, <1>5, Graphing

\* the edges between them, of one type and then of the other,
LEMMA ReadFileEdgesFinds ==
    ASSUME QInv, FInv, NEW type, NEW next,
           \/ type = "import" /\ next = "test"
           \/ type = "test" /\ next = "external",
           ReadFileEdges(type, next)
    PROVE  FInv'
<1> DEFINE q == [query EXCEPT !.at = next, !.edges = @ \cup FileEdges(db, type)]
<1>1. query.at = type /\ Goes(q)
  BY DEF ReadFileEdges
<1>2. DOMAIN query = QFields /\ query.ask.kind = "graph"
  BY <1>1, QueryFields DEF QInv, QueryOK, QueryType, AskFits, GraphStages
<1>3. /\ q.at = next /\ q.ask = query.ask /\ q.files = query.files
      /\ q.edges = query.edges \cup FileEdges(db, type) /\ q.quiet = query.quiet
  BY <1>1, <1>2 DEF QFields
<1> HIDE DEF q
<1> SUFFICES ASSUME query.quiet PROVE Finds(db, memvecs, tree, q)
  BY <1>1, <1>3, GoesFinding
<1>4. GraphTrue(db, query)
  BY <1>1 DEF FInv, Finds
<1>5. q.files = Paths(db)
  BY <1>1, <1>3, <1>4 DEF GraphTrue, GraphStages
<1>6. q.at \in GraphStages /\ GraphTrue(db, q)
  BY <1>1, <1>3, <1>4, <1>5 DEF GraphTrue, GraphStages
<1> QED BY <1>2, <1>3, <1>6, Graphing

\* and the packages; then it shows the files that the cap keeps, with all of their edges.
LEMMA ReadUnresolvedFinds == ASSUME Good(db), QInv, FInv, ReadUnresolved PROVE FInv'
<1> DEFINE graph == Project(query.files, query.edges \cup ExternalEdges(db), query.ask)
           q == [query EXCEPT !.at = "done", !.files = {}, !.edges = graph.edges, !.nodes = graph.nodes]
<1>1. query.at = "external" /\ Goes(q)
  BY Zenon DEF ReadUnresolved
<1>2. DOMAIN query = QFields /\ query.ask.kind = "graph" /\ query.ask \in Ask
  BY <1>1, QueryFields, QueryAssumption DEF QInv, QueryOK, QueryType, AskFits, GraphStages
<1> HIDE DEF graph
<1>3. /\ q.at = "done" /\ q.ask = query.ask /\ q.edges = graph.edges /\ q.nodes = graph.nodes
      /\ q.quiet = query.quiet
  BY <1>1, <1>2 DEF QFields
<1> HIDE DEF q
<1> SUFFICES ASSUME query.quiet PROVE Finds(db, memvecs, tree, q)
  BY <1>1, <1>3, GoesFinding
<1>4. query.files = Paths(db) /\ query.edges \cup ExternalEdges(db) = AllEdges(db)
  BY <1>1 DEF FInv, Finds, GraphTrue, GraphStages, AllEdges
<1>5. graph = Project(Paths(db), AllEdges(db), query.ask)
  BY <1>4 DEF graph
<1> DEFINE shown == {n.id : n \in graph.nodes} \cap Path
<1>6. /\ graph.edges = Induced(AllEdges(db), shown)
      /\ shown \in AtMost(query.ask.max, Paths(db) \cap query.ask.within)
  BY <1>2, <1>5, ProjectionShows
<1>7. GraphTrue(db, q)
  BY <1>3, <1>6 DEF GraphTrue, GraphStages
<1> QED BY <1>2, <1>3, <1>7 DEF Finds, SearchTrue, DetailsTrue, ShowTrue

-----------------------------------------------------------------------------
(* Queries and index runs *)

\* What has been answered is forgotten.
LEMMA ReturnFinds == ASSUME Return PROVE FInv'
<1>1. NoQuery.at = "idle"
  BY DEF NoQuery
<1> QED BY <1>1 DEF Return, Goes, FInv

\* Only while nothing changes does a query vouch for what it has found.
LEMMA MeanwhileFinds == ASSUME QInv, FInv, Meanwhile \/ MemoryChanges PROVE FInv'
<1> DEFINE q == [query EXCEPT !.quiet = FALSE]
<1>1. DOMAIN query = QFields
  BY QueryFields DEF QInv, QueryOK, QueryType
<1>2. ~q.quiet
  BY <1>1 DEF QFields
<1> HIDE DEF q
<1>3. CASE query.at = "idle"
  <2>1. query' = query
    BY <1>3 DEF Meanwhile, MemoryChanges, Disturbs
  <2> QED BY <1>3, <2>1 DEF FInv
<1>4. CASE Meanwhile /\ <<db, tree>>' = <<db, tree>>
  <2>1. query' = query /\ db' = db /\ tree' = tree /\ memvecs' = memvecs
    BY <1>4 DEF Meanwhile, Disturbs
  <2> QED BY <2>1 DEF FInv
<1>5. CASE query.at # "idle" /\ (MemoryChanges \/ <<db, tree>>' # <<db, tree>>)
  <2>1. query' = q
    BY <1>5 DEF Meanwhile, MemoryChanges, Disturbs, q
  <2> QED BY <1>2, <2>1 DEF FInv
<1> QED BY <1>3, <1>4, <1>5

\* Every step of a query finds what it should.
LEMMA QueryStepFinds == ASSUME Good(db), TypeOK, QInv, FInv, QueryStep PROVE FInv'
<1>1. CASE NearSymbols
  BY <1>1, FindNearFinds DEF NearSymbols
<1>2. CASE NearFiles
  BY <1>2, FindNearFinds DEF NearFiles
<1>3. CASE ReadDepEdges
  BY <1>3, ReadFileEdgesFinds DEF ReadDepEdges
<1>4. CASE ReadTestLinks
  BY <1>4, ReadFileEdgesFinds DEF ReadTestLinks
<1> QED
  BY <1>1, <1>2, <1>3, <1>4, BeginSearchFinds, TakeNearFinds, FindMatchesFinds, TakeMatchFinds,
     ListFilesFinds, GrepFinds, AttributeFinds, RankFinds, LocateFinds, LookUpFinds,
     ReadNeighboursFinds, AnswerFinds, BeginSymbolFinds, BeginFileFinds, ReadOutlineFinds,
     BeginGraphFinds, ReadAllFilesFinds, ReadUnresolvedFinds, ReturnFinds
  DEF QueryStep

\* At every place of every query, what an undisturbed one has found is what the store
\* and the working tree say (FInv).
THEOREM UndisturbedQueriesFind == QueriesSpec => [](QInv /\ FInv)
<1>1. QueriesInit => FInv
  BY DEF QueriesInit, NoQuery, FInv
<1>2. Good(db) /\ TypeOK /\ QInv /\ FInv /\ [QueriesNext]_<<vars, qvars>> => FInv'
  <2> SUFFICES ASSUME Good(db), TypeOK, QInv, FInv, [QueriesNext]_<<vars, qvars>> PROVE FInv'
    OBVIOUS
  <2>1. CASE QueryStep
    BY <2>1, QueryStepFinds
  <2>2. CASE Meanwhile \/ MemoryChanges
    BY <2>2, MeanwhileFinds
  <2>3. CASE UNCHANGED <<vars, qvars>>
    BY <2>3 DEF FInv, vars, qvars
  <2> QED BY <2>1, <2>2, <2>3 DEF QueriesNext
<1>3. QueriesSpec => [](Good(db) /\ TypeOK)
  <2>1. IInv => Good(db) /\ TypeOK
    BY IInvImplies DEF IInv
  <2> QED BY <2>1, QueriesOnlyRead, IndexRunsKeepTheirInvariant, PTL
<1> QED BY <1>1, <1>2, <1>3, QueriesKeepTheirInvariant, PTL DEF QueriesSpec

\* An undisturbed search lists exactly the candidates the caps leave, each by its own
\* vector, match and lines, at its own place and with its own neighbours
\* (SearchIsExact; search.go:87-400).
THEOREM SearchesAreExact == QueriesSpec => []SearchIsExact
<1>1. QInv /\ FInv => SearchIsExact
  <2> SUFFICES ASSUME QInv, FInv, Answered("search"), query.quiet PROVE SearchIsExact
    BY DEF SearchIsExact
  <2>1. query.at = "done" /\ query.error = "none" /\ query.ask.kind = "search"
    BY DEF Answered
  <2>2. /\ FoundTrue(db, tree, query) /\ HitsTrue(db, memvecs, tree, query)
        /\ LinesTrue(tree, query) /\ LinksTrue(db, query)
        /\ query.parse = {} /\ query.reads = {} /\ query.todo = {}
    BY <2>1 DEF FInv, Finds, SearchTrue, DetailsTrue
  <2> DEFINE found == query.found
             hits  == DOMAIN found
             all   == CandidateKeys(db, tree, query)
  <2>3. /\ hits \subseteq all
        /\ \A k \in hits : found[k].vector \subseteq VectorsFor(db, k) /\ TrueLine(tree, found, k)
    BY <2>2 DEF FoundTrue, LinesTrue
  <2>4. \A k \in hits : Wanted(query, k) = Link
    BY <2>1, <2>2 DEF Wanted
  <2>5. \A k \in hits : TrueLinks(db, found, k, Link)
    BY <2>2, <2>4 DEF LinksTrue, TrueLinks
  <2>6. /\ MatchUncut(db, query) /\ SourceUncut(db, memvecs, tree, query)
             /\ Cardinality(FoldFileHits(all)) <= query.ask.max => hits = FoldFileHits(all)
        /\ query.semantic /\ SourceUncut(db, memvecs, tree, query) =>
             \A k \in hits \cap Near(db) : found[k].vector # {}
        /\ ~query.semantic => \A k \in hits :
             /\ found[k].dense => k \in Dense(db, tree, query.ask)
             /\ SourceUncut(db, memvecs, tree, query) /\ k \in Dense(db, tree, query.ask) => found[k].dense
    BY <2>1, <2>2, Zenon DEF HitsTrue
  <2> HIDE DEF found, hits, all
  <2>7. SearchIsExact
    BY <2>3, <2>5, <2>6, Zenon DEF SearchIsExact, found, hits, all
  <2> QED BY <2>7
<1> QED BY <1>1, UndisturbedQueriesFind, PTL

\* An undisturbed show prints every definition or the whole outline, at the lines and
\* with the neighbours there are, and an undisturbed graph all edges of the files it
\* keeps (ShowIsExact; show.go:34-129, graph.go:25-187).
THEOREM ShowsAreExact == QueriesSpec => []ShowIsExact
<1>1. QInv /\ FInv => ShowIsExact
  <2> SUFFICES ASSUME QInv, FInv, query.quiet PROVE ShowIsExact
    BY DEF ShowIsExact
  <2>1. ASSUME query.at = "done", query.ask.kind # "graph"
        PROVE  /\ \A k \in DOMAIN query.found : TrueLine(tree, query.found, k)
               /\ \A k \in DOMAIN query.found : TrueLinks(db, query.found, k, Wanted(query, k))
    <3>1. LinesTrue(tree, query) /\ LinksTrue(db, query) /\ query.parse = {} /\ query.reads = {}
      BY <2>1 DEF FInv, Finds, DetailsTrue
    <3> QED BY <3>1 DEF LinesTrue, LinksTrue, TrueLinks
  <2>2. ASSUME Answered("symbol")
        PROVE  /\ DOMAIN query.found \in AtMost(BlockCap, Definitions(db, query.ask))
               /\ \A k \in DOMAIN query.found :
                    TrueLine(tree, query.found, k) /\ TrueLinks(db, query.found, k, {"tests"})
    <3>1. query.at = "done" /\ query.error = "none" /\ query.ask.kind = "symbol"
      BY <2>2 DEF Answered
    <3>2. \A k : "tests" \in Wanted(query, k)
      BY <3>1 DEF Wanted, Link
    <3>3. \A k \in DOMAIN query.found : TrueLinks(db, query.found, k, {"tests"})
      BY <2>1, <3>1, <3>2 DEF TrueLinks
    <3> QED BY <2>1, <3>1, <3>3 DEF FInv, Finds, ShowTrue
  <2>3. ASSUME Answered("file")
        PROVE  /\ DOMAIN query.found = Outline(db, query.ask.path)
               /\ TrueLinks(db, query.found, FileKey(query.ask.path), Link)
               /\ \A k \in DOMAIN query.found : TrueLine(tree, query.found, k)
    <3>1. query.at = "done" /\ query.error = "none" /\ query.ask.kind = "file"
      BY <2>3 DEF Answered
    <3>2. Wanted(query, FileKey(query.ask.path)) = Link
      BY <3>1 DEF Wanted
    <3>3. DOMAIN query.found = Outline(db, query.ask.path)
      BY <3>1 DEF FInv, Finds, ShowTrue
    <3>4. FileKey(query.ask.path) \in DOMAIN query.found
      BY <3>3 DEF Outline
    <3> QED BY <2>1, <3>1, <3>2, <3>3, <3>4
  <2>4. ASSUME Answered("graph")
        PROVE  LET shown == {n.id : n \in query.nodes} \cap Path
               IN  /\ query.edges = Induced(AllEdges(db), shown)
                   /\ shown \in AtMost(query.ask.max, Paths(db) \cap query.ask.within)
    BY <2>4 DEF Answered, FInv, Finds, GraphTrue
  <2> QED BY <2>2, <2>3, <2>4, Zenon DEF ShowIsExact, Definitions, Outline, AllEdges, Paths
<1> QED BY <1>1, UndisturbedQueriesFind, PTL
=============================================================================
