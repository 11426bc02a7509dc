------------------------------- MODULE Catalog -------------------------------
(***************************************************************************)
(* The index tables of the store (internal/store over the schema of        *)
(* migrations/0001_init.sql and 0005_potion_vectors.sql) and the SQL each  *)
(* repository method runs against them.                                    *)
(*                                                                         *)
(* A catalog is one state of these tables.  The operators below are pure:  *)
(* they take a catalog and return the catalog a statement leaves behind.   *)
(* When a statement takes effect, inside which transaction and seen by     *)
(* whom, is the business of the modules that use them.                     *)
(*                                                                         *)
(* An operator named for a slip (DeleteFileKeepFts, ForeignKeysOff) is a    *)
(* faulty variant of the definition after it and is used by no other; the  *)
(* properties are checked to fail when it takes that definition's place.   *)
(*                                                                         *)
(* Columns no behaviour depends on (language, package, exports, todos,     *)
(* timestamps, HEAD) are left out, and so is the role, which a path has.   *)
(* Import rows are a function of the file row they cascade with, so they   *)
(* are derived (Imports).  dep_edges and test_links are cleared, filled    *)
(* and cascaded together; edges holds the rows of both, with their table.  *)
(***************************************************************************)
EXTENDS Naturals, Sequences, FiniteSets, FiniteSetsExt, Functions

CONSTANTS
    Path,       \* repository paths, numbered in the order selectFiles sorts them
    Content,    \* what a file may contain
    Ident,      \* structural identities: (container, name, signature)
    Text,       \* what is embedded for a symbol: its identity and its body
    SymbolsOf,  \* content -> the symbols the extractor returns, in source order
    Specifier,  \* the relative import specifiers
    ImportsOf,  \* content -> the specifiers it imports
    Root,       \* where an import is resolved from whose file was not listed
    Candidates, \* importer, specifier -> the paths it may mean, in the order they are tried
    ImplsOf,    \* path -> the paths it may be the test of, in order; none if it is no test
    Model,      \* embedding models
    NoModel     \* no embedding model

ASSUME CatalogAssumption ==
    /\ Path \subseteq Nat
    /\ SymbolsOf \in [Content -> Seq([ident : Ident, text : Text])]
    /\ ImportsOf \in [Content -> SUBSET Specifier]
    /\ Root \notin Path
    /\ Candidates \in [(Path \cup {Root}) \X Specifier -> Seq(Path)]
    /\ ImplsOf \in [Path -> Seq(Path)]
    /\ NoModel \notin Model

\* dedupeSymbols leaves one symbol per identity.
ASSUME DedupeAssumption ==
    \A c \in Content : IsInjective([i \in DOMAIN SymbolsOf[c] |-> SymbolsOf[c][i].ident])

RowId == Nat \ {0}

(***************************************************************************)
(* The rows.  A file's hash is the git blob oid of a tracked file and the  *)
(* SHA-256 of any other, so equal hashes mean equal content and equal      *)
(* tracking.  A symbol's text is not a column: it is the body the parser   *)
(* saw, and only properties read it.                                       *)
(***************************************************************************)
Hash      == [tracked : BOOLEAN, content : Content]
FileRow   == [id : RowId, path : Path, hash : Hash]
SymbolRow == [id : RowId, file : RowId, ident : Ident, text : Text]
FtsRow    == [path : Path, grain : {"file", "symbol"}, ref : RowId]
EdgeRow   == RowId \X RowId \X {"import", "test"}

\* A vector is known by what it encodes: one symbol's text, a file's fallback
\* text, or the mean of the slots that are set for a file's symbols.
SymbolVector(t)      == <<"symbol", t>>
FallbackVector(p, c) == <<"file", p, c>>
MeanVector(slots)    == <<"mean", slots>>

\* The singleton index_meta row.
NoMeta == [files |-> 0, symbols |-> 0, indexed |-> FALSE, model |-> NoModel]

EmptyCatalog ==
    [files |-> {}, symbols |-> {}, fts |-> {}, edges |-> {}, vecs |-> {}, meta |-> NoMeta]

-----------------------------------------------------------------------------
(* Reading *)

Ids(rows) == {r.id : r \in rows}

FileAt(d, p)       == {f \in d.files : f.path = p}
SymbolsIn(d, fids) == {s \in d.symbols : s.file \in fids}

\* SymbolIDsByFile: the ids of a file's symbols and the place of each in ORDER BY
\* id, which is the order PutFile inserted them in.
SymbolIdsFromLast(d, fids) ==
    LET ids == Ids(SymbolsIn(d, fids))
    IN  {[id |-> i, place |-> Cardinality({j \in ids : j >= i})] : i \in ids}
SymbolIdsByFile(d, fids) ==
    LET ids == Ids(SymbolsIn(d, fids))
    IN  {[id |-> i, place |-> Cardinality({j \in ids : j <= i})] : i \in ids}

\* FileSymbolChunks: the symbols of a file that have a vector under a model.
VectorsOf(d, owner, i, m) == {v \in d.vecs : v.owner = owner /\ v.id = i /\ v.model = m}

FileSymbolChunks(d, fids, m) ==
    UNION {{[ident |-> s.ident, of |-> v.of] : v \in VectorsOf(d, "symbol", s.id, m)} :
              s \in SymbolsIn(d, fids)}

\* AllImports: one row per specifier of every indexed file.
Imports(d) ==
    {i \in Ids(d.files) \X Specifier :
        \E f \in d.files : f.id = i[1] /\ i[2] \in ImportsOf[f.hash.content]}

-----------------------------------------------------------------------------
(* Writing files, symbols and their full-text rows *)

\* An INTEGER PRIMARY KEY without AUTOINCREMENT: one more than the largest id in
\* the table, so the ids of deleted rows come back.
NextIdFromZero(ids) == IF ids = {} THEN 0 ELSE Max(ids) + 1
NextId(ids) == IF ids = {} THEN 1 ELSE Max(ids) + 1

\* ON DELETE CASCADE from files to symbols and to both ends of an edge.
DeleteFilesKeepSymbols(d, fids) ==
    [d EXCEPT !.files = {f \in @ : f.id \notin fids},
              !.edges = {e \in @ : e[1] \notin fids /\ e[2] \notin fids}]
DeleteFilesKeepEdges(d, fids) ==
    [d EXCEPT !.files   = {f \in @ : f.id \notin fids},
              !.symbols = {s \in @ : s.file \notin fids}]
DeleteFiles(d, fids) ==
    [d EXCEPT !.files   = {f \in @ : f.id \notin fids},
              !.symbols = {s \in @ : s.file \notin fids},
              !.edges   = {e \in @ : e[1] \notin fids /\ e[2] \notin fids}]

DeleteFileKeepFts(d, p) == DeleteFiles(d, Ids(FileAt(d, p)))
DeleteFileByPath(d, p) ==
    [DeleteFiles(d, Ids(FileAt(d, p))) EXCEPT !.fts = {r \in @ : r.path # p}]

ClearIndex(d) ==
    [DeleteFiles(d, Ids(d.files)) EXCEPT !.fts = {}, !.meta.files = 0, !.meta.symbols = 0]

\* The rows of a file's symbols, the first of them inserted at id base.
SymbolRows(fid, base, syms) ==
    {[id |-> base + i - 1, file |-> fid, ident |-> syms[i].ident, text |-> syms[i].text] :
        i \in DOMAIN syms}

InsertFile(d, p, h) ==
    LET fid  == NextId(Ids(d.files))
        rows == SymbolRows(fid, NextId(Ids(d.symbols)), SymbolsOf[h.content])
    IN  [d EXCEPT
            !.files   = @ \cup {[id |-> fid, path |-> p, hash |-> h]},
            !.symbols = @ \cup rows,
            !.fts     = @ \cup {[path |-> p, grain |-> "file", ref |-> fid]}
                          \cup {[path |-> p, grain |-> "symbol", ref |-> s.id] : s \in rows}]

\* A file is always replaced, never updated in place.
PutFile(d, p, h) == InsertFile(DeleteFileByPath(d, p), p, h)

\* CountFiles, CountSymbols and the write of index_meta that ends a run.
SetIndexState(d) ==
    [d EXCEPT !.meta.files = Cardinality(d.files),
              !.meta.symbols = Cardinality(d.symbols),
              !.meta.indexed = TRUE]

-----------------------------------------------------------------------------
(* The graph *)

\* The id of the file at the first of some paths where there is one.
FirstAt(files, paths) ==
    {f.id : f \in {g \in files : \E k \in DOMAIN paths :
                      g.path = paths[k] /\ \A j \in 1 .. (k - 1), h \in files : h.path # paths[j]}}

\* A file that was not listed has the empty path, so its imports start at the root.
PathOf(files, i) ==
    LET paths == {f.path : f \in {g \in files : g.id = i}}
    IN  IF paths = {} THEN Root ELSE CHOOSE p \in paths : TRUE

\* resolveGraph over a list of files and a list of imports read separately.  An import
\* that means its own file has no edge; a test's own path is passed over.
Resolve(files, imports) ==
    LET target(i) == FirstAt(files, Candidates[<<PathOf(files, i[1]), i[2]>>]) \ {i[1]}
        impl(t)   == FirstAt({f \in files : f.id # t.id}, ImplsOf[t.path])
    IN  (UNION {{<<i[1], to, "import">> : to \in target(i)} : i \in imports})
          \cup (UNION {{<<from, t.id, "test">> : from \in impl(t)} : t \in files})

ReplaceGraph(d, edges) == [d EXCEPT !.edges = edges]

\* The foreign keys of dep_edges and test_links, which OR IGNORE does not waive.
ForeignKeysOff(d, edges) == TRUE
EdgesHaveFiles(d, edges) == \A e \in edges : {e[1], e[2]} \subseteq Ids(d.files)

-----------------------------------------------------------------------------
(* Vectors: chunk_meta and vec_chunks share their rowid, so one row is both.
   There is no foreign key to files or symbols. *)

InsertVectorOnly(d, owner, i, m, of) ==
    IF VectorsOf(d, owner, i, m) # {} THEN d
    ELSE [d EXCEPT !.vecs = @ \cup {[owner |-> owner, id |-> i, model |-> m, of |-> of]}]
UpsertVector(d, owner, i, m, of) ==
    [d EXCEPT !.vecs = (@ \ VectorsOf(d, owner, i, m))
                         \cup {[owner |-> owner, id |-> i, model |-> m, of |-> of]}]

DeleteVectors(d, owner, ids) ==
    [d EXCEPT !.vecs = {v \in @ : ~(v.owner = owner /\ v.id \in ids)}]

ClearVectors(d) == [d EXCEPT !.vecs = {}]

SetEmbedInfo(d, m) == [d EXCEPT !.meta.model = m]

-----------------------------------------------------------------------------
(* Types *)

CatalogType(d) ==
    /\ DOMAIN d = DOMAIN EmptyCatalog
    /\ d.files \subseteq FileRow
    /\ d.symbols \subseteq SymbolRow
    /\ d.fts \subseteq FtsRow
    /\ d.edges \subseteq EdgeRow
    /\ \A v \in d.vecs : v.owner \in {"symbol", "file"} /\ v.id \in RowId /\ v.model \in Model
    /\ d.meta \in [files : Nat, symbols : Nat, indexed : BOOLEAN, model : Model \cup {NoModel}]

-----------------------------------------------------------------------------
(* What the tables promise one another *)

UniquePaths(d) == \A f, g \in d.files : f.path = g.path => f = g
UniqueIds(rows) == \A r, s \in rows : r.id = s.id => r = s

\* Every symbol and every edge belongs to files that exist.
References(d) ==
    /\ \A s \in d.symbols : s.file \in Ids(d.files)
    /\ \A e \in d.edges : e[1] \in Ids(d.files) /\ e[2] \in Ids(d.files)

\* The full-text table holds exactly one row per file and one per symbol.
FtsRowsOf(d) ==
    {[path |-> f.path, grain |-> "file", ref |-> f.id] : f \in d.files}
      \cup UNION {{[path |-> f.path, grain |-> "symbol", ref |-> s.id] :
                       s \in SymbolsIn(d, {f.id})} : f \in d.files}

\* The rows of a file are the whole extraction of the content it was hashed
\* from, in order: never part of it, never that of another content.
WholeFile(d, f) ==
    \E base \in Ids(SymbolsIn(d, {f.id})) \cup {1} :
        SymbolsIn(d, {f.id}) = SymbolRows(f.id, base, SymbolsOf[f.hash.content])

\* One vector per owner and model.
UniqueVectors(d) ==
    \A v, w \in d.vecs : v.owner = w.owner /\ v.id = w.id /\ v.model = w.model => v = w

Consistent(d) ==
    /\ UniquePaths(d)
    /\ UniqueIds(d.files)
    /\ UniqueIds(d.symbols)
    /\ References(d)
    /\ d.fts = FtsRowsOf(d)
    /\ UniqueVectors(d)
=============================================================================
