------------------------------- MODULE Queries -------------------------------
(***************************************************************************)
(* `columbus search`, `show symbol`, `show file` and `graphs` over a store  *)
(* that an index run (module Reindex) may be rewriting: internal/search,   *)
(* internal/show, internal/live and the read methods of internal/store.    *)
(*                                                                         *)
(* No query opens a transaction.  Each SQL statement reads the catalog as  *)
(* last committed, so between two reads of one query any number of index   *)
(* transactions may commit, ids found by one read may belong to other rows *)
(* at the next, and the file a row speaks of may change on disk.  One      *)
(* action is one read.  Readers share nothing and write nothing: one query *)
(* at a time is enough.                                                    *)
(*                                                                         *)
(* Not modelled: scores and the signals that are read only to compute      *)
(* them (a hit keeps the vector it was found by instead, and which hits    *)
(* the limit cuts off is left open), snippets, did-you-mean and the        *)
(* section of memories.  Of the memories there are their vectors, which    *)
(* take places among the nearest.  Nearest is any choice: the query's      *)
(* vector may lie anywhere; so are the lines grep finds first.             *)
(*                                                                         *)
(* As in Catalog, an operator named for a slip is used by no other.        *)
(***************************************************************************)
EXTENDS Reindex

CONSTANTS
    Name, NoName,  \* what symbols are called; the name part of a file's key
    NameOf,        \* identity -> (container, name)
    Mentions,      \* content -> names it contains outside of any symbol
    Package,       \* packages outside of the repository
    PackagesOf,    \* content -> the packages it imports
    Greppable,     \* paths grep looks into: ripgrep leaves out hidden and ignored files
    MemoryVec,     \* the vectors memories may have
    QueryModel,    \* the embedding model of the binary that searches
    Asks,          \* the queries that are made; names are those its words match
    VecK,          \* vecK
    ContentCap,    \* contentCap
    CandidateCap,  \* candidateCap
    RescueCap,     \* ftsRescueCap
    BlockCap,      \* maxSymbolBlocks
    MaxQueries     \* bound: queries made

\* max is --limit of a search and --max of a graph; within is what --in, --role and
\* --lang leave.
Ask ==
    [kind : {"search", "symbol", "file", "graph"}, names : SUBSET Name, path : Path,
     within : SUBSET Path, max : Nat]

ASSUME QueryAssumption ==
    /\ NoName \notin Name
    /\ NameOf \in [Ident -> Name]
    /\ \A c \in Content : IsInjective([i \in DOMAIN SymbolsOf[c] |-> NameOf[SymbolsOf[c][i].ident]])
    /\ Mentions \in [Content -> SUBSET Name]
    /\ PackagesOf \in [Content -> SUBSET Package]
    /\ Package \cap Path = {}
    /\ Greppable \subseteq Path
    /\ \A v \in MemoryVec : v.owner = "memory"
    /\ Asks \subseteq Ask
    /\ {VecK, ContentCap, CandidateCap, RescueCap, BlockCap, MaxQueries} \subseteq Nat

VARIABLES
    memvecs, \* the vectors of memories, in one table with those of db.vecs
    query,   \* the query under way or just answered
    asked    \* queries made so far

qvars == <<memvecs, query, asked>>

(***************************************************************************)
(* A key names a file or, with a name, one of its symbols: candKey.  What  *)
(* is known of it: the vector it was found by (none or one), whether grep  *)
(* found it, the line it is at in the working tree (0: not found there),   *)
(* and the neighbours of its file.                                         *)
(***************************************************************************)
Key   == [path : Path, name : Name \cup {NoName}]
FileKey(p) == [path |-> p, name |-> NoName]
SymbolKey(p, n) == [path |-> p, name |-> n]

Link  == {"tests", "imports", "importers"}
Blank == [vector |-> {}, dense |-> FALSE, line |-> 0, links |-> [l \in Link |-> {}]]

(***************************************************************************)
(* The locals of a query.  ids: owners still to be fetched; lines: grep    *)
(* hits still to be attributed; found: cands, then hits, blocks or the     *)
(* outline; parse: paths whose symbols are yet to be located live; todo:   *)
(* hits whose file is yet to be looked up; file: the id of the file to     *)
(* show; reads: neighbours still to be read; files, edges, nodes: the rows *)
(* of the graph, then its answer.  quiet is not in the code: nothing has   *)
(* changed since the query was made.                                       *)
(***************************************************************************)
NoQuery ==
    [at |-> "idle", ask |-> [kind |-> "none"], error |-> "none", semantic |-> FALSE,
     ids |-> {}, lines |-> {}, found |-> <<>>, parse |-> {}, todo |-> {},
     file |-> 0, reads |-> {}, files |-> {}, edges |-> {}, nodes |-> {}, quiet |-> FALSE]

-----------------------------------------------------------------------------
(* What one statement, or one parse of a file, returns *)

\* The keys of some symbols, each joined with its file.
SymbolKeys(d, rows) ==
    {k \in Key : \E s \in rows : \E f \in d.files :
        f.id = s.file /\ k = SymbolKey(f.path, NameOf[s.ident])}

\* SymbolByID, FileByID: the row that has the id now, if one has.
KeysAt(d, grain, i) ==
    IF grain = "file" THEN {FileKey(f.path) : f \in {g \in d.files : g.id = i}}
                      ELSE SymbolKeys(d, {s \in d.symbols : s.id = i})

\* The full-text rows the words of a query match: symbols by their names, a file by
\* its path.
Matching(d, a) ==
    {r \in d.fts :
        \/ r.grain = "symbol" /\ \E s \in d.symbols : s.id = r.ref /\ NameOf[s.ident] \in a.names
        \/ r.grain = "file" /\ r.path = a.path}

\* What a cap leaves: all, or any choice of as many as it allows.
AtMost(k, S) == IF Cardinality(S) <= k THEN {S} ELSE kSubset(k, S)

\* The k nearest vectors of any owner, memories included, of which one kind of owner
\* is kept.
Neighbours(vecs, owner) ==
    {{[grain |-> owner, id |-> v.id, vector |-> {v.of}] : v \in {w \in S : w.owner = owner}} :
        S \in AtMost(VecK, vecs)}

LinksOfSwapped(d, i, l) ==
    {f.path : f \in {g \in d.files :
        CASE l = "tests"     -> <<i, g.id, "test">> \in d.edges
          [] l = "imports"   -> <<g.id, i, "import">> \in d.edges
          [] l = "importers" -> <<i, g.id, "import">> \in d.edges}}
\* TestsOf, ImportsOf, ImportedBy of a file id.
LinksOf(d, i, l) ==
    {f.path : f \in {g \in d.files :
        CASE l = "tests"     -> <<i, g.id, "test">> \in d.edges
          [] l = "imports"   -> <<i, g.id, "import">> \in d.edges
          [] l = "importers" -> <<g.id, i, "import">> \in d.edges}}

\* Cache.Symbols: the symbols of a file as it is on disk, by line.
LiveSymbols(c) == IF c = NoFile THEN <<>> ELSE SymbolsOf[c]
LiveName(c, line) == NameOf[LiveSymbols(c)[line].ident]

\* FindSymbol: the line a symbol is at.
FindSymbol(c, n) ==
    LET lines == {i \in DOMAIN LiveSymbols(c) : LiveName(c, i) = n}
    IN  IF lines = {} THEN 0 ELSE Min(lines)

\* Enclosing: the symbol a line lies in, or else the file.
Enclosing(p, c, line) ==
    IF line \in DOMAIN LiveSymbols(c) THEN SymbolKey(p, LiveName(c, line)) ELSE FileKey(p)

\* Lines that contain one of the names; line 0 stands for what is outside of any symbol.
LinesWith(c, names) ==
    {i \in DOMAIN LiveSymbols(c) : LiveName(c, i) \in names}
        \cup (IF c # NoFile /\ Mentions[c] \cap names # {} THEN {0} ELSE {})
HitLines(t, paths, names) ==
    UNION {{<<p, i>> : i \in LinesWith(t[p], names)} : p \in paths \cap Greppable}

-----------------------------------------------------------------------------
(* How a query starts, goes on and ends *)

Asked(a, at)      == [NoQuery EXCEPT !.at = at, !.ask = a, !.quiet = TRUE]
Refused(a, error) == [Asked(a, "done") EXCEPT !.error = error]

Begin(q) ==
    /\ query.at = "idle" /\ asked < MaxQueries
    /\ query' = q
    /\ asked' = asked + 1
    /\ UNCHANGED <<vars, memvecs>>

\* One read later, and nothing anybody else can see has changed.
Goes(q) == query' = q /\ UNCHANGED <<vars, memvecs, asked>>

\* The answer is printed and the process ends.
Return == query.at = "done" /\ Goes(NoQuery)

AsksFor(kind) == {a \in Asks : a.kind = kind}

\* Something is known of the key k.
Put(found, k, what) == [j \in DOMAIN found \cup {k} |-> IF j = k THEN what ELSE found[j]]

-----------------------------------------------------------------------------
(* search: finding candidates *)

\* An index that names another model is not searched by vectors; and the query may
\* fail to be embedded.
BeginSearch ==
    \E a \in AsksFor("search") :
        \/ ~db.meta.indexed /\ Begin(Refused(a, "INDEX_MISSING"))
        \/ db.meta.indexed /\ Begin(Asked(a, "keywords"))
        \/ /\ db.meta.indexed /\ QueryModel # NoModel /\ db.meta.model = QueryModel
           /\ Begin([Asked(a, "vectors") EXCEPT !.semantic = TRUE])

\* The two kNN searches, of symbols and, when those are fetched, of files.
FindNear(at, owner, next) ==
    /\ query.at = at /\ query.ids = {}
    /\ \E near \in Neighbours(db.vecs \cup memvecs, owner) :
        Goes([query EXCEPT !.at = next, !.ids = near])

NearSymbols == FindNear("vectors", "symbol", "symbols")
NearFiles   == FindNear("symbols", "file", "files")

\* A neighbour is fetched; if its row is gone it is skipped.
TakeNear ==
    /\ query.at \in {"symbols", "files"}
    /\ \E n \in query.ids :
        LET left == [query EXCEPT !.ids = @ \ {n}]
        IN  IF KeysAt(db, n.grain, n.id) = {}
            THEN Goes(left)
            ELSE \E k \in KeysAt(db, n.grain, n.id) :
                    Goes([left EXCEPT !.found = Put(@, k, [Blank EXCEPT !.vector = n.vector])])

\* metadataCandidates: all there is on the keyword path, a rescue after the vectors.
FindMatches ==
    /\ \/ query.at = "keywords"
       \/ query.at = "files" /\ query.ids = {}
    /\ \E hits \in AtMost(IF query.semantic THEN RescueCap ELSE CandidateCap, Matching(db, query.ask)) :
        Goes([query EXCEPT !.at = "matches",
                           !.ids = {[grain |-> r.grain, id |-> r.ref, vector |-> {}] : r \in hits}])

\* What was found already is never overwritten.
TakeMatchOver ==
    /\ query.at = "matches"
    /\ \E n \in query.ids :
        Goes([query EXCEPT
                !.ids = @ \ {n},
                !.found = [k \in DOMAIN @ \cup KeysAt(db, n.grain, n.id) |->
                              IF k \in KeysAt(db, n.grain, n.id) THEN Blank ELSE @[k]]])
TakeMatch ==
    /\ query.at = "matches"
    /\ \E n \in query.ids :
        Goes([query EXCEPT
                !.ids = @ \ {n},
                !.found = [k \in DOMAIN @ \cup KeysAt(db, n.grain, n.id) |->
                              IF k \in DOMAIN @ THEN @[k] ELSE Blank]])

-----------------------------------------------------------------------------
(* search: the contents of the working tree, on the keyword path *)

ListFiles ==
    /\ query.at = "matches" /\ query.ids = {} /\ ~query.semantic
    /\ Goes([query EXCEPT !.at = "grep", !.files = {f.path : f \in db.files}])

\* One pass over the listed files, which ends when it has found contentCap lines.
Grep ==
    /\ query.at = "grep"
    /\ \E hits \in AtMost(ContentCap, HitLines(tree, query.files, query.ask.names)) :
        Goes([query EXCEPT !.at = "attribute", !.files = {}, !.lines = hits])

\* A file with hits is parsed, as it is by now, and the hits given to the symbols
\* around their lines, or to the file.
Attribute ==
    /\ query.at = "attribute"
    /\ \E p \in {l[1] : l \in query.lines} :
        LET here == {l \in query.lines : l[1] = p}
            keys == {Enclosing(p, tree[p], l[2]) : l \in here}
            known(k) == IF k \in DOMAIN query.found THEN query.found[k] ELSE Blank
        IN  Goes([query EXCEPT
                    !.lines = @ \ here,
                    !.found = [k \in DOMAIN @ \cup keys |->
                                  IF k \in keys THEN [known(k) EXCEPT !.dense = TRUE] ELSE @[k]]])

-----------------------------------------------------------------------------
(* search: ranking, line ranges and neighbours *)

\* foldFileHits: a file with a symbol among the candidates is not listed itself.
FoldFileHits(keys) ==
    {k \in keys : k.name = NoName => \A j \in keys : j.path = k.path => j.name = NoName}

\* Which hits are beyond the limit is up to the scores.
RankForgettingTheCut ==
    /\ \/ query.at = "matches" /\ query.ids = {} /\ query.semantic
       \/ query.at = "attribute" /\ query.lines = {}
    /\ \E kept \in AtMost(query.ask.max, FoldFileHits(DOMAIN query.found)) :
        Goes([query EXCEPT !.at = "locate", !.found = Restrict(@, kept),
                           !.parse = {k.path : k \in {j \in kept : j.name # NoName}},
                           !.todo = DOMAIN query.found])
RankUnfolded ==
    /\ \/ query.at = "matches" /\ query.ids = {} /\ query.semantic
       \/ query.at = "attribute" /\ query.lines = {}
    /\ \E kept \in AtMost(query.ask.max, DOMAIN query.found) :
        Goes([query EXCEPT !.at = "locate", !.found = Restrict(@, kept),
                           !.parse = {k.path : k \in {j \in kept : j.name # NoName}},
                           !.todo = kept])
Rank ==
    /\ \/ query.at = "matches" /\ query.ids = {} /\ query.semantic
       \/ query.at = "attribute" /\ query.lines = {}
    /\ \E kept \in AtMost(query.ask.max, FoldFileHits(DOMAIN query.found)) :
        Goes([query EXCEPT !.at = "locate", !.found = Restrict(@, kept),
                           !.parse = {k.path : k \in {j \in kept : j.name # NoName}},
                           !.todo = kept])

\* resolveLive and its cache: a file is parsed once, for all its symbols.
Locate ==
    /\ query.at = "locate"
    /\ \E p \in query.parse :
        Goes([query EXCEPT
                !.parse = @ \ {p},
                !.found = [k \in DOMAIN @ |->
                              IF k.path = p /\ k.name # NoName
                              THEN [@[k] EXCEPT !.line = FindSymbol(tree[p], k.name)]
                              ELSE @[k]]])

\* Neighbours of a file to be read by its id, in the order of their places.
Reads(k, i, places) ==
    {[key |-> k, file |-> i, link |-> l, place |-> places[l]] : l \in DOMAIN places}

\* enrichGraph, one hit: its file by path, then its neighbours by the file's id.  No
\* hit's reads depend on another's, and their order by score is left out.
LookUp ==
    /\ query.at = "locate" /\ query.parse = {} /\ query.reads = {} /\ query.todo # {}
    /\ LET k == CHOOSE j \in query.todo : TRUE
       IN  Goes([query EXCEPT
                    !.todo = @ \ {k},
                    !.reads = UNION {Reads(k, f.id, [tests |-> 1, imports |-> 2, importers |-> 3]) :
                                        f \in FileAt(db, k.path)}])

ReadNeighbours ==
    /\ query.at = "locate"
    /\ \E r \in query.reads :
        /\ \A x \in query.reads : r.place <= x.place
        /\ Goes([query EXCEPT !.reads = @ \ {r},
                              !.found[r.key].links[r.link] = LinksOf(db, r.file, r.link)])

Answer ==
    /\ query.at = "locate"
    /\ query.parse = {} /\ query.reads = {} /\ query.todo = {}
    /\ Goes([query EXCEPT !.at = "done"])

-----------------------------------------------------------------------------
(* show symbol, show file *)

\* The definitions are one read, by path; the live range and the tests of each follow.
BeginSymbol ==
    \E a \in AsksFor("symbol") :
        LET rows   == {s \in db.symbols : NameOf[s.ident] \in a.names}
            within == {k \in SymbolKeys(db, rows) : k.path \in a.within}
        IN  IF within = {} THEN Begin(Refused(a, "NOT_FOUND"))
            ELSE \E kept \in AtMost(BlockCap, within) :
                    /\ \A k \in kept, j \in within \ kept : k.path <= j.path
                    /\ Begin([Asked(a, "locate") EXCEPT
                                 !.found = [k \in kept |-> Blank],
                                 !.parse = {k.path : k \in kept},
                                 !.reads = UNION {Reads(x[1], x[2].id, [tests |-> x[1].path]) :
                                                     x \in {y \in kept \X db.files : y[1].path = y[2].path}}])

BeginFile ==
    \E a \in AsksFor("file") :
        IF FileAt(db, a.path) = {} THEN Begin(Refused(a, "NOT_FOUND"))
        ELSE \E f \in FileAt(db, a.path) : Begin([Asked(a, "outline") EXCEPT !.file = f.id])

\* SymbolsInFile, by the id that was read.
ReadOutline ==
    /\ query.at = "outline"
    /\ LET rows == SymbolKeys(db, SymbolsIn(db, {query.file}))
           self == FileKey(query.ask.path)
       IN  Goes([query EXCEPT
                    !.at = "locate", !.file = 0,
                    !.found = [k \in rows \cup {self} |-> Blank],
                    !.parse = {k.path : k \in rows},
                    !.reads = Reads(self, query.file, [imports |-> 1, importers |-> 2, tests |-> 3])])

-----------------------------------------------------------------------------
(* graphs *)

Edge(from, to, type) == [from |-> from, to |-> to, type |-> type]

\* AllDepEdges, AllTestLinks, UnresolvedImports.
FileEdges(d, type) ==
    UNION {{Edge(f.path, g.path, type) :
                g \in {h \in d.files : <<f.id, h.id, type>> \in d.edges}} : f \in d.files}
ExternalEdges(d) ==
    UNION {{Edge(f.path, k, "external") : k \in PackagesOf[f.hash.content]} : f \in d.files}

\* A test link is not an import: it counts for no degree.
InDegree(edges, n)  == Cardinality({e \in edges : e.to = n /\ e.type # "test"})
OutDegree(edges, n) == Cardinality({e \in edges : e.from = n /\ e.type # "test"})

\* The files that are kept: the most imported ones, by path among equals.
Central(edges, paths, max) ==
    LET before(p, q) == \/ InDegree(edges, p) > InDegree(edges, q)
                        \/ InDegree(edges, p) = InDegree(edges, q) /\ p < q
    IN  {p \in paths : Cardinality({q \in paths : before(q, p)}) < max}

\* The edges whose ends are shown; a package is shown for the sake of its edges.
Induced(edges, paths) == {e \in edges : e.from \in paths /\ (e.type = "external" \/ e.to \in paths)}

Node(edges, tested, n) ==
    [id |-> n, in |-> InDegree(edges, n), out |-> OutDegree(edges, n), tested |-> n \in tested]

ProjectCountingAll(paths, edges, a) ==
    LET selected == paths \cap a.within
        filtered == Induced(edges, selected)
        shown    == Induced(filtered, Central(filtered, selected, a.max))
    IN  [edges |-> shown,
         nodes |-> {Node(filtered, {e.from : e \in {x \in edges : x.type = "test"}}, n) :
                       n \in Central(filtered, selected, a.max) \cup {e.to : e \in {x \in shown : x.type = "external"}}}]
Project(paths, edges, a) ==
    LET selected == paths \cap a.within
        filtered == Induced(edges, selected)
        shown    == Induced(filtered, Central(filtered, selected, a.max))
    IN  [edges |-> shown,
         nodes |-> {Node(shown, {e.from : e \in {x \in edges : x.type = "test"}}, n) :
                       n \in Central(filtered, selected, a.max) \cup {e.to : e \in {x \in shown : x.type = "external"}}}]

BeginGraph == \E a \in AsksFor("graph") : Begin(Asked(a, "graph"))

ReadAllFiles ==
    /\ query.at = "graph"
    /\ Goes([query EXCEPT !.at = "import", !.files = {f.path : f \in db.files}])

ReadFileEdges(type, next) ==
    /\ query.at = type
    /\ Goes([query EXCEPT !.at = next, !.edges = @ \cup FileEdges(db, type)])

ReadDepEdges  == ReadFileEdges("import", "test")
ReadTestLinks == ReadFileEdges("test", "external")

ReadUnresolved ==
    /\ query.at = "external"
    /\ LET graph == Project(query.files, query.edges \cup ExternalEdges(db), query.ask)
       IN  Goes([query EXCEPT !.at = "done", !.files = {}, !.edges = graph.edges, !.nodes = graph.nodes])

-----------------------------------------------------------------------------
(* Queries and index runs *)

QueryStep ==
    \/ BeginSearch \/ NearSymbols \/ NearFiles \/ TakeNear \/ FindMatches \/ TakeMatch
    \/ ListFiles \/ Grep \/ Attribute \/ Rank \/ Locate \/ LookUp \/ ReadNeighbours \/ Answer
    \/ BeginSymbol \/ BeginFile \/ ReadOutline
    \/ BeginGraph \/ ReadAllFiles \/ ReadDepEdges \/ ReadTestLinks \/ ReadUnresolved
    \/ Return

\* A query notices nothing of what happens between its reads.
Disturbs(changed) ==
    query' = IF query.at = "idle" \/ ~changed THEN query ELSE [query EXCEPT !.quiet = FALSE]

Meanwhile ==
    /\ Next
    /\ Disturbs(<<db, tree>>' # <<db, tree>>)
    /\ UNCHANGED <<memvecs, asked>>

\* A memory is embedded or removed: the commands of module MemoryStore do that, and
\* the end of an index run.
MemoryChanges ==
    /\ lock = NoProc
    /\ \E v \in MemoryVec :
        \/ v \notin memvecs /\ memvecs' = memvecs \cup {v}
        \/ v \in memvecs /\ memvecs' = memvecs \ {v}
    /\ Disturbs(TRUE)
    /\ UNCHANGED <<vars, asked>>

QueriesInit == Init /\ memvecs = {} /\ query = NoQuery /\ asked = 0

QueriesNext == QueryStep \/ Meanwhile \/ MemoryChanges

QueriesSpec == QueriesInit /\ [][QueriesNext]_<<vars, qvars>>

-----------------------------------------------------------------------------
(* Properties *)

QueryLocations ==
    {"idle", "done", "vectors", "symbols", "files", "keywords", "matches", "grep", "attribute",
     "locate", "outline", "graph", "import", "test", "external"}

Evidence(e) ==
    /\ DOMAIN e = DOMAIN Blank
    /\ Cardinality(e.vector) <= 1 /\ e.dense \in BOOLEAN /\ e.line \in Nat
    /\ e.links \in [Link -> SUBSET Path]

QueryType(q) ==
    /\ DOMAIN q = DOMAIN NoQuery
    /\ q.at \in QueryLocations
    /\ q.at # "idle" => q.ask \in Asks
    /\ q.error \in {"none", "INDEX_MISSING", "NOT_FOUND"}
    /\ q.semantic \in BOOLEAN /\ q.quiet \in BOOLEAN
    /\ \A n \in q.ids : n.grain \in {"symbol", "file"} /\ n.id \in RowId /\ Cardinality(n.vector) <= 1
    /\ \A l \in q.lines : l[1] \in Path
    /\ DOMAIN q.found \subseteq Key /\ \A k \in DOMAIN q.found : Evidence(q.found[k])
    /\ q.parse \subseteq Path /\ q.files \subseteq Path
    /\ q.todo \subseteq DOMAIN q.found
    /\ \A r \in q.reads : r.key \in DOMAIN q.found /\ r.link \in Link

\* The vectors, the query and the counter have the types their comments give them.
QueryTypeOK == memvecs \subseteq MemoryVec /\ QueryType(query) /\ asked \in 0 .. MaxQueries

Answered(kind) == query.at = "done" /\ query.error = "none" /\ query.ask.kind = kind

\* However many index transactions commit between the reads of the files, the
\* edges, the test links and the imports, the graph that is printed closes: every
\* edge joins nodes that are there, every degree is the number of edges that are
\* there, no package is there without an edge, no node twice (graph.go:156-164).
GraphAnswerCloses ==
    Answered("graph") =>
        LET ids == {n.id : n \in query.nodes}
        IN  /\ \A e \in query.edges : {e.from, e.to} \subseteq ids
            /\ \A n \in query.nodes :
                /\ n.in  = Cardinality({e \in query.edges : e.to = n.id /\ e.type # "test"})
                /\ n.out = Cardinality({e \in query.edges : e.from = n.id /\ e.type # "test"})
            /\ \A n \in query.nodes : n.id \notin Path => \E e \in query.edges : e.to = n.id
            /\ \A m, n \in query.nodes : m.id = n.id => m = n

\* Whatever commits or is edited between the reads, a search lists nothing twice: a
\* file is not listed beside one of its symbols, and the limit holds
\* (search.go:212-215, 336-351).
HitsDoNotOverlap ==
    Answered("search") =>
        /\ Cardinality(DOMAIN query.found) <= query.ask.max
        /\ \A j, k \in DOMAIN query.found : j.path = k.path /\ j.name = NoName => k = j

\* What a catalog and a working tree say of a key's neighbours and line.
LinksTo(d, k, l) ==
    CASE l = "tests"     -> {e.to : e \in {x \in FileEdges(d, "test") : x.from = k.path}}
      [] l = "imports"   -> {e.to : e \in {x \in FileEdges(d, "import") : x.from = k.path}}
      [] l = "importers" -> {e.from : e \in {x \in FileEdges(d, "import") : x.to = k.path}}

TrueLinks(d, found, k, links) ==
    FileAt(d, k.path) # {} => \A l \in links : found[k].links[l] = LinksTo(d, k, l)
TrueLine(t, found, k) == k.name # NoName => found[k].line = FindSymbol(t[k.path], k.name)

OwnersOf(d, k) ==
    IF k.name = NoName THEN {<<"file", f.id>> : f \in FileAt(d, k.path)}
    ELSE {<<"symbol", s.id>> : s \in {x \in d.symbols : SymbolKeys(d, {x}) = {k}}}

\* The vectors that tell how near a key is to the query.
VectorsFor(d, k) == {v.of : v \in {w \in d.vecs : <<w.owner, w.id>> \in OwnersOf(d, k)}}

Near(d) == {k \in Key : VectorsFor(d, k) # {}}

Matched(d, a) == {k \in Key : \E r \in Matching(d, a) : <<r.grain, r.ref>> \in OwnersOf(d, k)}

\* What the lines lie in that grep can find.
Dense(d, t, a) ==
    UNION {{Enclosing(p, t[p], line) : line \in LinesWith(t[p], a.names)} :
               p \in {f.path : f \in d.files} \cap Greppable}

\* What a search has to rank, and whether a cap hides some of it.  The places among the
\* nearest are those of all vectors, the lines those of all files.
CandidateKeys(d, t, q) == Matched(d, q.ask) \cup IF q.semantic THEN Near(d) ELSE Dense(d, t, q.ask)
NearUncut(vecs) == Cardinality(vecs) <= VecK
GrepUncut(d, t, a) == Cardinality(HitLines(t, {f.path : f \in d.files}, a.names)) <= ContentCap
SourceUncut(d, m, t, q) == IF q.semantic THEN NearUncut(d.vecs \cup m) ELSE GrepUncut(d, t, q.ask)
MatchUncut(d, q) == Cardinality(Matching(d, q.ask)) <= IF q.semantic THEN RescueCap ELSE CandidateCap

\* A search during which nothing was committed and nothing edited: each hit is there
\* by its own vector, its own match or its own lines, with its own line and its own
\* neighbours.  When no cap cuts anything off, neither that of the matches nor that of
\* the nearest vectors, of memories too, or of the lines grep finds, nor the limit, the
\* hits are exactly the candidates, without the files whose symbols are among them.
\* The rescue never costs a hit its vector, and a hit has lines of its own only if
\* there are some, and whenever grep was not cut short (search.go:185-215, 243-246).
SearchIsExact ==
    Answered("search") /\ query.quiet =>
        LET found == query.found
            hits  == DOMAIN found
            all   == CandidateKeys(db, tree, query)
            uncut == SourceUncut(db, memvecs, tree, query)
        IN  /\ hits \subseteq all
            /\ \A k \in hits :
                /\ found[k].vector \subseteq VectorsFor(db, k)
                /\ TrueLine(tree, found, k) /\ TrueLinks(db, found, k, Link)
            /\ MatchUncut(db, query) /\ uncut /\ Cardinality(FoldFileHits(all)) <= query.ask.max
                 => hits = FoldFileHits(all)
            /\ query.semantic /\ uncut => \A k \in hits \cap Near(db) : found[k].vector # {}
            /\ ~query.semantic => \A k \in hits :
                /\ found[k].dense => k \in Dense(db, tree, query.ask)
                /\ uncut /\ k \in Dense(db, tree, query.ask) => found[k].dense

\* A `show` during which nothing was committed and nothing edited prints what is
\* there: every definition of the name, the file's whole outline, each at its line in
\* the working tree, the neighbours of the very file, and all the edges of as many
\* files as the cap allows (show.go:34-129, graph.go:25-187).
ShowIsExact ==
    query.quiet =>
        /\ Answered("symbol") =>
            LET rows == {k \in Key : k.name \in query.ask.names /\ k.path \in query.ask.within /\ OwnersOf(db, k) # {}}
            IN  /\ DOMAIN query.found \in AtMost(BlockCap, rows)
                /\ \A k \in DOMAIN query.found :
                    TrueLine(tree, query.found, k) /\ TrueLinks(db, query.found, k, {"tests"})
        /\ Answered("file") =>
            LET p == query.ask.path
            IN  /\ DOMAIN query.found = {FileKey(p)} \cup {k \in Key : k.path = p /\ OwnersOf(db, k) # {}}
                /\ TrueLinks(db, query.found, FileKey(p), Link)
                /\ \A k \in DOMAIN query.found : TrueLine(tree, query.found, k)
        /\ Answered("graph") =>
            LET shown == {n.id : n \in query.nodes} \cap Path
            IN  /\ query.edges = Induced(FileEdges(db, "import") \cup FileEdges(db, "test")
                                           \cup ExternalEdges(db), shown)
                /\ shown \in AtMost(query.ask.max, {f.path : f \in db.files} \cap query.ask.within)
=============================================================================
