---------------------------- MODULE CatalogProofs ----------------------------
(***************************************************************************)
(* What the statements of Catalog preserve, for tables of any size: each   *)
(* lemma is about one repository method of internal/store.  Sound gathers  *)
(* the promises between the tables and Good adds the types.  ReindexProofs *)
(* lifts them to runs of the indexer.                                      *)
(***************************************************************************)
EXTENDS Catalog, NaturalFacts

\* The id SQLite gives a new row is an id, and no row of the table has it or a
\* larger one, although it may be the id of a row deleted before.
LEMMA NextIdFresh ==
    ASSUME NEW ids \in SUBSET RowId, Bounded(ids)
    PROVE  /\ NextId(ids) \in RowId
           /\ \A i \in ids : i < NextId(ids)
<1>1. CASE ids = {}
  BY <1>1 DEF NextId, RowId
<1>2. CASE ids # {}
  <2>1. PICK n \in Nat : \A i \in ids : i <= n
    BY DEF Bounded
  <2>2. ids \in SUBSET Nat
    BY DEF RowId
  <2>3. Max(ids) \in ids /\ \A i \in ids : i <= Max(ids)
    BY <1>2, <2>1, <2>2, MaxIsMax
  <2>4. NextId(ids) = Max(ids) + 1
    BY <1>2 DEF NextId
  <2>5. PICK m \in Nat : m = Max(ids)
    BY <2>2, <2>3
  <2>6. NextId(ids) = m + 1 /\ m + 1 \in RowId
    BY <2>4, <2>5 DEF RowId
  <2>7. \A i \in ids : i < m + 1
    BY <2>2, <2>3, <2>5
  <2> QED BY <2>6, <2>7
<1> QED BY <1>1, <1>2

\* The tables of a catalog.
Tables == {"files", "symbols", "fts", "edges", "vecs", "meta"}

\* What a cascading delete of file rows leaves in each table.
LEMMA DeleteFilesTables ==
    ASSUME NEW d, DOMAIN d = Tables, NEW fids
    PROVE  LET e == DeleteFiles(d, fids)
           IN  /\ DOMAIN e = Tables
               /\ e.files = {f \in d.files : f.id \notin fids}
               /\ e.symbols = {s \in d.symbols : s.file \notin fids}
               /\ e.edges = {x \in d.edges : x[1] \notin fids /\ x[2] \notin fids}
               /\ e.fts = d.fts /\ e.vecs = d.vecs /\ e.meta = d.meta
  BY DEF DeleteFiles, Tables

\* What DeleteFileByPath leaves in each table.
LEMMA DeleteFileByPathTables ==
    ASSUME NEW d, DOMAIN d = Tables, NEW p
    PROVE  LET e == DeleteFileByPath(d, p)
               fids == Ids(FileAt(d, p))
           IN  /\ DOMAIN e = Tables
               /\ e.files = {f \in d.files : f.id \notin fids}
               /\ e.symbols = {s \in d.symbols : s.file \notin fids}
               /\ e.edges = {x \in d.edges : x[1] \notin fids /\ x[2] \notin fids}
               /\ e.fts = {r \in d.fts : r.path # p}
               /\ e.vecs = d.vecs /\ e.meta = d.meta
<1> DEFINE m == DeleteFiles(d, Ids(FileAt(d, p)))
<1>1. /\ DOMAIN m = Tables
      /\ m.files = {f \in d.files : f.id \notin Ids(FileAt(d, p))}
      /\ m.symbols = {s \in d.symbols : s.file \notin Ids(FileAt(d, p))}
      /\ m.edges = {x \in d.edges : x[1] \notin Ids(FileAt(d, p)) /\ x[2] \notin Ids(FileAt(d, p))}
      /\ m.fts = d.fts /\ m.vecs = d.vecs /\ m.meta = d.meta
  BY DeleteFilesTables
<1>2. DeleteFileByPath(d, p) = [m EXCEPT !.fts = {r \in @ : r.path # p}]
  BY DEF DeleteFileByPath
<1> HIDE DEF m
<1> QED BY <1>1, <1>2 DEF Tables

\* The columns of index_meta.
Columns == {"files", "symbols", "indexed", "model"}

\* What every statement of the index write preserves: rows of the right types with
\* bounded ids, the promises between the tables, and files that are whole.
Sound(d) ==
    /\ DOMAIN d = Tables /\ DOMAIN d.meta = Columns
    /\ d.files \subseteq FileRow /\ d.symbols \subseteq SymbolRow
    /\ Bounded(Ids(d.files)) /\ Bounded(Ids(d.symbols))
    /\ Consistent(d)
    /\ \A f \in d.files : WholeFile(d, f)

\* r is the full-text row of one of the files or of one of their symbols.
IsFtsRow(d, r) ==
    \/ \E f \in d.files : r = [path |-> f.path, grain |-> "file", ref |-> f.id]
    \/ \E f \in d.files : \E s \in SymbolsIn(d, {f.id}) :
          r = [path |-> f.path, grain |-> "symbol", ref |-> s.id]

\* FtsRowsOf holds those rows and no others: the form the proofs below use it in.
LEMMA FtsRowsOfMembers ==
    ASSUME NEW d, NEW r
    PROVE  r \in FtsRowsOf(d) <=> IsFtsRow(d, r)
<1> DEFINE A == {[path |-> f.path, grain |-> "file", ref |-> f.id] : f \in d.files}
           B(f) == {[path |-> f.path, grain |-> "symbol", ref |-> s.id] : s \in SymbolsIn(d, {f.id})}
           C == {B(f) : f \in d.files}
<1>1. FtsRowsOf(d) = A \cup UNION C
  BY DEF FtsRowsOf
<1>2. r \in UNION C <=> \E f \in d.files : r \in B(f)
  <2> HIDE DEF B
  <2> QED OBVIOUS
<1>3. \A f : r \in B(f) <=> \E s \in SymbolsIn(d, {f.id}) :
          r = [path |-> f.path, grain |-> "symbol", ref |-> s.id]
  OBVIOUS
<1>4. r \in A <=> \E f \in d.files : r = [path |-> f.path, grain |-> "file", ref |-> f.id]
  OBVIOUS
<1> HIDE DEF A, B, C
<1> QED BY <1>1, <1>2, <1>3, <1>4 DEF IsFtsRow

\* DeleteFileByPath deletes the row of its path, the rows that hang on it and no
\* other file's, and their full-text rows with them.
LEMMA DeleteFileByPathSound ==
    ASSUME NEW d, Sound(d), NEW p
    PROVE  /\ Sound(DeleteFileByPath(d, p))
           /\ FileAt(DeleteFileByPath(d, p), p) = {}
<1> DEFINE e == DeleteFileByPath(d, p)
           fids == Ids(FileAt(d, p))
<1>1. DOMAIN d = Tables
  BY DEF Sound
<1>2. /\ DOMAIN e = Tables
      /\ e.files = {f \in d.files : f.id \notin fids}
      /\ e.symbols = {s \in d.symbols : s.file \notin fids}
      /\ e.edges = {x \in d.edges : x[1] \notin fids /\ x[2] \notin fids}
      /\ e.fts = {r \in d.fts : r.path # p}
      /\ e.vecs = d.vecs /\ e.meta = d.meta
  BY <1>1, DeleteFileByPathTables
<1>3. \A f \in d.files : f.id \in fids <=> f.path = p
  BY DEF Sound, Consistent, UniqueIds, Ids, FileAt
<1> HIDE DEF e, fids
<1>4. FileAt(e, p) = {}
  BY <1>2, <1>3 DEF FileAt
<1>5. \A f \in e.files : f \in d.files /\ SymbolsIn(e, {f.id}) = SymbolsIn(d, {f.id})
  BY <1>2 DEF SymbolsIn
<1>6. Bounded(Ids(e.files)) /\ Bounded(Ids(e.symbols))
  BY <1>2 DEF Sound, Bounded, Ids
<1>7. Consistent(e)
  <2>1. UniquePaths(e) /\ UniqueIds(e.files) /\ UniqueIds(e.symbols) /\ UniqueVectors(e)
    BY <1>2 DEF Sound, Consistent, UniquePaths, UniqueIds, UniqueVectors
  <2>2. References(e)
    BY <1>2 DEF Sound, Consistent, References, Ids
  <2>3. e.fts = FtsRowsOf(e)
    <3>1. d.fts = FtsRowsOf(d)
      BY DEF Sound, Consistent
    <3>2. e.fts = {r \in FtsRowsOf(d) : r.path # p}
      BY <3>1, <1>2
    <3>3. \A r : r \in FtsRowsOf(d) <=> IsFtsRow(d, r)
      BY FtsRowsOfMembers
    <3>4. \A r : r \in FtsRowsOf(e) <=> IsFtsRow(e, r)
      BY FtsRowsOfMembers
    <3>5. \A f : f \in e.files <=> f \in d.files /\ f.path # p
      BY <1>2, <1>3
    <3>6. \A r : r \in FtsRowsOf(e) <=> r \in FtsRowsOf(d) /\ r.path # p
      <4>1. SUFFICES ASSUME NEW r PROVE IsFtsRow(e, r) <=> IsFtsRow(d, r) /\ r.path # p
        BY <3>3, <3>4
      <4>2. ASSUME IsFtsRow(e, r) PROVE IsFtsRow(d, r) /\ r.path # p
        <5>1. CASE \E f \in e.files : r = [path |-> f.path, grain |-> "file", ref |-> f.id]
          <6>1. PICK f \in e.files : r = [path |-> f.path, grain |-> "file", ref |-> f.id]
            BY <5>1
          <6>2. r.path # p /\ f \in d.files
            BY <6>1, <3>5
          <6> QED BY <6>1, <6>2 DEF IsFtsRow
        <5>2. CASE \E f \in e.files : \E s \in SymbolsIn(e, {f.id}) :
                      r = [path |-> f.path, grain |-> "symbol", ref |-> s.id]
          <6>1. PICK f \in e.files : \E s \in SymbolsIn(e, {f.id}) :
                      r = [path |-> f.path, grain |-> "symbol", ref |-> s.id]
            BY <5>2
          <6>2. r.path # p /\ f \in d.files
            BY <6>1, <3>5
          <6> QED BY <6>1, <6>2, <1>5 DEF IsFtsRow
        <5> QED BY <4>2, <5>1, <5>2 DEF IsFtsRow
      <4>3. ASSUME IsFtsRow(d, r), r.path # p PROVE IsFtsRow(e, r)
        BY <4>3, <3>5, <1>5 DEF IsFtsRow
      <4> QED BY <4>2, <4>3
    <3> QED BY <3>2, <3>6
  <2> QED BY <2>1, <2>2, <2>3 DEF Consistent
<1>8. \A f \in e.files : WholeFile(e, f)
  BY <1>5 DEF Sound, WholeFile
<1>9. e.files \subseteq FileRow /\ e.symbols \subseteq SymbolRow
  BY <1>2 DEF Sound
<1>10. Sound(e)
  BY <1>2, <1>6, <1>7, <1>8, <1>9 DEF Sound
<1> QED BY <1>4, <1>10 DEF e

\* The symbol rows inserted for a file have distinct ids from the first one on, and
\* the file's id.  A file without symbols has the same rows at every base.
LEMMA SymbolRowsFresh ==
    ASSUME NEW fid \in RowId, NEW base \in RowId, NEW c \in Content
    PROVE  LET rows == SymbolRows(fid, base, SymbolsOf[c])
           IN  /\ rows \subseteq SymbolRow
               /\ \A s \in rows : s.file = fid /\ base <= s.id
               /\ UniqueIds(rows)
               /\ Bounded(Ids(rows))
               /\ rows = {} \/ base \in Ids(rows)
               /\ rows = {} => rows = SymbolRows(fid, 1, SymbolsOf[c])
<1> DEFINE syms == SymbolsOf[c]
           rows == SymbolRows(fid, base, syms)
           row(i) == [id |-> base + i - 1, file |-> fid, ident |-> syms[i].ident, text |-> syms[i].text]
<1>1. syms \in Seq([ident : Ident, text : Text])
  BY CatalogAssumption
<1>2. PICK n \in Nat : syms \in [1 .. n -> [ident : Ident, text : Text]]
  <2> DEFINE T == [ident : Ident, text : Text]
  <2>1. syms \in Seq(T)
    BY <1>1
  <2> HIDE DEF syms, T
  <2>2. Len(syms) \in Nat /\ syms \in [1 .. Len(syms) -> T]
    BY <2>1
  <2> QED BY <2>2 DEF T
<1>3. DOMAIN syms = 1 .. n /\ \A i \in 1 .. n : syms[i] \in [ident : Ident, text : Text]
  BY <1>2
<1> HIDE DEF syms
<1>4. rows = {row(i) : i \in 1 .. n}
  BY <1>3 DEF SymbolRows
<1>5. \A i \in 1 .. n : base + i - 1 \in RowId /\ base <= base + i - 1 /\ base + i - 1 <= base + n
  BY DEF RowId
<1>6. \A i \in 1 .. n : row(i) \in SymbolRow
  BY <1>3, <1>5 DEF SymbolRow
<1>7. \A i \in 1 .. n : row(i).file = fid /\ row(i).id = base + i - 1
  OBVIOUS
<1> HIDE DEF rows, row
<1>8. rows \subseteq SymbolRow
  BY <1>4, <1>6
<1>9. \A s \in rows : s.file = fid /\ base <= s.id
  BY <1>4, <1>5, <1>7
<1>10. UniqueIds(rows)
  <2>1. SUFFICES ASSUME NEW i \in 1 .. n, NEW j \in 1 .. n, row(i).id = row(j).id
                 PROVE  row(i) = row(j)
    BY <1>4 DEF UniqueIds
  <2>2. base + i - 1 = base + j - 1
    BY <2>1, <1>7
  <2>3. i = j
    BY <2>2 DEF RowId
  <2> QED BY <2>3
<1>11. Bounded(Ids(rows))
  <2>1. base + n \in Nat
    BY DEF RowId
  <2>2. \A s \in rows : s.id <= base + n
    BY <1>4, <1>5, <1>7
  <2> QED BY <2>1, <2>2 DEF Bounded, Ids
<1>12. rows = {} \/ base \in Ids(rows)
  <2>1. CASE n = 0
    BY <2>1, <1>4
  <2>2. CASE n # 0
    <3>1. 1 \in 1 .. n
      BY <2>2
    <3>2. row(1).id = base + 1 - 1 /\ row(1) \in rows
      BY <3>1, <1>4, <1>7
    <3>3. row(1).id = base
      BY <3>2 DEF RowId
    <3> QED BY <3>2, <3>3 DEF Ids
  <2> QED BY <2>1, <2>2
<1>13. rows = {} => rows = SymbolRows(fid, 1, syms)
  BY <1>3, <1>4 DEF SymbolRows
<1> QED BY <1>8, <1>9, <1>10, <1>11, <1>12, <1>13 DEF rows, syms

\* What the inserts of PutFile add to each table.
LEMMA InsertFileTables ==
    ASSUME NEW d, DOMAIN d = Tables, NEW p, NEW h
    PROVE  LET e    == InsertFile(d, p, h)
               fid  == NextId(Ids(d.files))
               rows == SymbolRows(fid, NextId(Ids(d.symbols)), SymbolsOf[h.content])
           IN  /\ DOMAIN e = Tables
               /\ e.files = d.files \cup {[id |-> fid, path |-> p, hash |-> h]}
               /\ e.symbols = d.symbols \cup rows
               /\ e.fts = d.fts \cup {[path |-> p, grain |-> "file", ref |-> fid]}
                            \cup {[path |-> p, grain |-> "symbol", ref |-> s.id] : s \in rows}
               /\ e.edges = d.edges /\ e.vecs = d.vecs /\ e.meta = d.meta
<1> DEFINE fid  == NextId(Ids(d.files))
           rows == SymbolRows(fid, NextId(Ids(d.symbols)), SymbolsOf[h.content])
           F == d.files \cup {[id |-> fid, path |-> p, hash |-> h]}
           S == d.symbols \cup rows
           T == d.fts \cup {[path |-> p, grain |-> "file", ref |-> fid]}
                            \cup {[path |-> p, grain |-> "symbol", ref |-> s.id] : s \in rows}
<1>1. InsertFile(d, p, h) = [d EXCEPT !.files = F, !.symbols = S, !.fts = T]
  BY DEF InsertFile
<1> HIDE DEF F, S, T
<1>2. LET e == InsertFile(d, p, h)
      IN  /\ DOMAIN e = Tables /\ e.files = F /\ e.symbols = S /\ e.fts = T
          /\ e.edges = d.edges /\ e.vecs = d.vecs /\ e.meta = d.meta
  BY <1>1 DEF Tables
<1> QED BY <1>2 DEF F, S, T

\* The inserts of PutFile keep the tables sound when no row has the path: the new
\* ids clash with none, and the file is whole as its rows are all its own.
LEMMA InsertFileSound ==
    ASSUME NEW d, Sound(d), NEW p \in Path, NEW h \in Hash, FileAt(d, p) = {}
    PROVE  Sound(InsertFile(d, p, h))
<1> DEFINE e    == InsertFile(d, p, h)
           fid  == NextId(Ids(d.files))
           base == NextId(Ids(d.symbols))
           rows == SymbolRows(fid, base, SymbolsOf[h.content])
           new  == [id |-> fid, path |-> p, hash |-> h]
<1>1. DOMAIN d = Tables
  BY DEF Sound
<1>2. /\ DOMAIN e = Tables
      /\ e.files = d.files \cup {new}
      /\ e.symbols = d.symbols \cup rows
      /\ e.fts = d.fts \cup {[path |-> p, grain |-> "file", ref |-> fid]}
                   \cup {[path |-> p, grain |-> "symbol", ref |-> s.id] : s \in rows}
      /\ e.edges = d.edges /\ e.vecs = d.vecs /\ e.meta = d.meta
  BY <1>1, InsertFileTables
<1>3. fid \in RowId /\ \A f \in d.files : f.id < fid
  <2>1. Ids(d.files) \in SUBSET RowId /\ Bounded(Ids(d.files))
    BY DEF Sound, Ids, FileRow
  <2> QED BY <2>1, NextIdFresh DEF Ids
<1>4. base \in RowId /\ \A s \in d.symbols : s.id < base
  <2>1. Ids(d.symbols) \in SUBSET RowId /\ Bounded(Ids(d.symbols))
    BY DEF Sound, Ids, SymbolRow
  <2> QED BY <2>1, NextIdFresh DEF Ids
<1>5. h.content \in Content
  BY DEF Hash
<1>6. /\ rows \subseteq SymbolRow
      /\ \A s \in rows : s.file = fid /\ base <= s.id
      /\ UniqueIds(rows)
      /\ Bounded(Ids(rows))
      /\ rows = {} \/ base \in Ids(rows)
      /\ rows = {} => rows = SymbolRows(fid, 1, SymbolsOf[h.content])
  BY <1>3, <1>4, <1>5, SymbolRowsFresh
<1>7. new \in FileRow /\ new.id = fid /\ new.path = p /\ new.hash = h
  BY <1>3 DEF FileRow
<1>8. \A f \in d.files : f.id \in RowId /\ f.id # fid /\ f.path # p
  BY <1>3, FileAt(d, p) = {} DEF Sound, FileRow, FileAt, RowId
<1>9. \A s \in d.symbols : s.id \in RowId /\ s.file # fid /\ \E f \in d.files : s.file = f.id
  BY <1>8 DEF Sound, SymbolRow, Consistent, References, Ids
<1> HIDE DEF e, fid, base, rows, new
<1>10. \A f \in d.files : SymbolsIn(e, {f.id}) = SymbolsIn(d, {f.id})
  BY <1>2, <1>6, <1>8 DEF SymbolsIn
<1>11. SymbolsIn(e, {fid}) = rows
  BY <1>2, <1>6, <1>9 DEF SymbolsIn
<1>12. e.files \subseteq FileRow /\ e.symbols \subseteq SymbolRow
  BY <1>2, <1>6, <1>7 DEF Sound
<1>13. Bounded(Ids(e.files))
  BY <1>2, <1>3, <1>7, <1>8 DEF Bounded, Ids, RowId
<1>14. Bounded(Ids(e.symbols))
  <2>1. PICK n \in Nat : \A s \in rows : s.id <= n
    BY <1>6 DEF Bounded, Ids
  <2>2. CASE base <= n
    <3>1. \A s \in d.symbols : s.id <= n
      BY <1>4, <1>9, <2>1, <2>2 DEF RowId
    <3> QED BY <3>1, <2>1, <1>2 DEF Bounded, Ids
  <2>3. CASE ~(base <= n)
    <3>1. \A s \in e.symbols : s.id \in RowId
      BY <1>12 DEF SymbolRow
    <3>2. \A s \in e.symbols : s.id <= base
      BY <1>2, <1>4, <2>1, <2>3, <3>1 DEF RowId
    <3> QED BY <3>2, <1>4 DEF Bounded, Ids, RowId
  <2> QED BY <2>2, <2>3
<1>15. UniquePaths(e)
  BY <1>2, <1>7, <1>8 DEF Sound, Consistent, UniquePaths
<1>16. UniqueIds(e.files)
  BY <1>2, <1>7, <1>8 DEF Sound, Consistent, UniqueIds
<1>17. UniqueIds(e.symbols)
  <2>1. \A r \in d.symbols, s \in rows : r.id # s.id
    BY <1>4, <1>6, <1>9 DEF RowId, SymbolRow
  <2> QED BY <2>1, <1>2, <1>6 DEF Sound, Consistent, UniqueIds
<1>18. References(e)
  BY <1>2, <1>6, <1>7 DEF Sound, Consistent, References, Ids
<1>19. UniqueVectors(e)
  BY <1>2 DEF Sound, Consistent, UniqueVectors
<1>20. e.fts = FtsRowsOf(e)
  <2>1. SUFFICES ASSUME NEW r PROVE r \in e.fts <=> IsFtsRow(e, r)
    BY FtsRowsOfMembers
  <2>2. r \in d.fts <=> IsFtsRow(d, r)
    BY FtsRowsOfMembers DEF Sound, Consistent
  <2>3. r \in e.fts <=> \/ IsFtsRow(d, r)
                        \/ r = [path |-> p, grain |-> "file", ref |-> fid]
                        \/ \E s \in rows : r = [path |-> p, grain |-> "symbol", ref |-> s.id]
    BY <2>2, <1>2
  <2>4. IsFtsRow(e, r) <=> \/ IsFtsRow(d, r)
                           \/ r = [path |-> new.path, grain |-> "file", ref |-> new.id]
                           \/ \E s \in rows : r = [path |-> new.path, grain |-> "symbol", ref |-> s.id]
    BY <1>2, <1>7, <1>10, <1>11 DEF IsFtsRow
  <2> QED BY <2>3, <2>4, <1>7
<1>21. \A f \in e.files : WholeFile(e, f)
  <2>1. \A f \in d.files : WholeFile(e, f)
    BY <1>10 DEF Sound, WholeFile
  <2>2. WholeFile(e, new)
    <3>1. rows = SymbolRows(fid, base, SymbolsOf[h.content])
      BY DEF rows
    <3>2. \E b \in Ids(rows) \cup {1} : rows = SymbolRows(fid, b, SymbolsOf[h.content])
      BY <1>6, <3>1
    <3> QED BY <3>2, <1>7, <1>11 DEF WholeFile
  <2> QED BY <2>1, <2>2, <1>2
<1>22. Consistent(e)
  BY <1>15, <1>16, <1>17, <1>18, <1>19, <1>20 DEF Consistent
<1>23. Sound(e)
  BY <1>2, <1>12, <1>13, <1>14, <1>21, <1>22 DEF Sound
<1> QED BY <1>23 DEF e

\* PutFile, the delete and the inserts, keeps the tables sound.
LEMMA PutFileSound ==
    ASSUME NEW d, Sound(d), NEW p \in Path, NEW h \in Hash
    PROVE  Sound(PutFile(d, p, h))
  BY DeleteFileByPathSound, InsertFileSound DEF PutFile

\* A statement that touches neither files, symbols nor full text keeps the tables
\* sound if the edges have files and the vectors are unique.
LEMMA SameRowsSound ==
    ASSUME NEW d, Sound(d),
           NEW e, DOMAIN e = Tables, DOMAIN e.meta = Columns,
           e.files = d.files, e.symbols = d.symbols, e.fts = d.fts,
           EdgesHaveFiles(d, e.edges), UniqueVectors(e)
    PROVE  Sound(e)
<1>1. \A f : SymbolsIn(e, {f.id}) = SymbolsIn(d, {f.id})
  BY DEF SymbolsIn
<1>2. FtsRowsOf(e) = FtsRowsOf(d)
  <2>1. \A r : IsFtsRow(e, r) <=> IsFtsRow(d, r)
    BY <1>1 DEF IsFtsRow
  <2>2. \A r : r \in FtsRowsOf(e) <=> r \in FtsRowsOf(d)
    BY <2>1, FtsRowsOfMembers
  <2> QED BY <2>2
<1>3. \A f \in e.files : WholeFile(e, f)
  BY <1>1 DEF Sound, WholeFile
<1>4. References(e)
  BY DEF Sound, Consistent, References, EdgesHaveFiles
<1>5. UniquePaths(e)
  BY DEF Sound, Consistent, UniquePaths
<1>6. Consistent(e)
  BY <1>2, <1>4, <1>5 DEF Sound, Consistent
<1> QED BY <1>3, <1>6 DEF Sound

\* The edges of sound tables have files.
LEMMA EdgesKept == ASSUME NEW d, Sound(d) PROVE EdgesHaveFiles(d, d.edges)
  BY DEF Sound, Consistent, References, EdgesHaveFiles

\* index_meta counts the rows there are.
Counted(d) ==
    /\ d.meta.files = Cardinality(d.files)
    /\ d.meta.symbols = Cardinality(d.symbols)

\* SetIndexState makes the counts true.
LEMMA SetIndexStateSound ==
    ASSUME NEW d, Sound(d)
    PROVE  Sound(SetIndexState(d)) /\ Counted(SetIndexState(d))
<1> DEFINE e == SetIndexState(d)
<1>1. DOMAIN d = Tables /\ DOMAIN d.meta = Columns /\ UniqueVectors(d)
  BY DEF Sound, Consistent
<1>2. /\ DOMAIN e = Tables /\ DOMAIN e.meta = Columns
      /\ e.files = d.files /\ e.symbols = d.symbols /\ e.fts = d.fts
      /\ e.edges = d.edges /\ e.vecs = d.vecs
      /\ e.meta.files = Cardinality(d.files) /\ e.meta.symbols = Cardinality(d.symbols)
  BY <1>1 DEF SetIndexState, Tables, Columns
<1> HIDE DEF e
<1>3. UniqueVectors(e) /\ EdgesHaveFiles(d, e.edges)
  BY <1>1, <1>2, EdgesKept DEF UniqueVectors
<1>4. Sound(e) /\ Counted(e)
  BY <1>2, <1>3, SameRowsSound DEF Counted
<1> QED BY <1>4 DEF e

\* ReplaceGraph with edges that pass the foreign keys keeps the tables sound and
\* the counts true.
LEMMA ReplaceGraphSound ==
    ASSUME NEW d, Sound(d), NEW edges, EdgesHaveFiles(d, edges)
    PROVE  /\ Sound(ReplaceGraph(d, edges))
           /\ Counted(d) => Counted(ReplaceGraph(d, edges))
<1> DEFINE e == ReplaceGraph(d, edges)
<1>1. DOMAIN d = Tables /\ DOMAIN d.meta = Columns /\ UniqueVectors(d)
  BY DEF Sound, Consistent
<1>2. /\ DOMAIN e = Tables /\ e.meta = d.meta /\ e.edges = edges
      /\ e.files = d.files /\ e.symbols = d.symbols /\ e.fts = d.fts /\ e.vecs = d.vecs
  BY <1>1 DEF ReplaceGraph, Tables
<1> HIDE DEF e
<1>3. UniqueVectors(e)
  BY <1>1, <1>2 DEF UniqueVectors
<1>4. Sound(e) /\ (Counted(d) => Counted(e))
  BY <1>1, <1>2, <1>3, SameRowsSound DEF Counted
<1> QED BY <1>4 DEF e

\* So does any change to the vectors that leaves one per owner and model.
LEMMA WithVectorsSound ==
    ASSUME NEW d, Sound(d), NEW V,
           \A v, w \in V : v.owner = w.owner /\ v.id = w.id /\ v.model = w.model => v = w
    PROVE  /\ Sound([d EXCEPT !.vecs = V])
           /\ Counted(d) => Counted([d EXCEPT !.vecs = V])
<1> DEFINE e == [d EXCEPT !.vecs = V]
<1>1. DOMAIN d = Tables /\ DOMAIN d.meta = Columns
  BY DEF Sound
<1>2. /\ DOMAIN e = Tables /\ e.meta = d.meta /\ e.edges = d.edges
      /\ e.files = d.files /\ e.symbols = d.symbols /\ e.fts = d.fts /\ e.vecs = V
  BY <1>1 DEF Tables
<1> HIDE DEF e
<1>3. UniqueVectors(e)
  BY <1>2 DEF UniqueVectors
<1>4. Sound(e) /\ (Counted(d) => Counted(e))
  BY <1>1, <1>2, <1>3, EdgesKept, SameRowsSound DEF Counted
<1> QED BY <1>4 DEF e

\* UpsertVector leaves one vector per owner and model.
LEMMA UpsertVectorSound ==
    ASSUME NEW d, Sound(d), NEW owner, NEW i, NEW m, NEW of
    PROVE  /\ Sound(UpsertVector(d, owner, i, m, of))
           /\ Counted(d) => Counted(UpsertVector(d, owner, i, m, of))
<1> DEFINE new == [owner |-> owner, id |-> i, model |-> m, of |-> of]
           V == (d.vecs \ VectorsOf(d, owner, i, m)) \cup {new}
<1>1. UpsertVector(d, owner, i, m, of) = [d EXCEPT !.vecs = V]
  BY DEF UpsertVector
<1>2. new.owner = owner /\ new.id = i /\ new.model = m
  OBVIOUS
<1>3. \A v \in V \ {new} : v \in d.vecs /\ ~(v.owner = owner /\ v.id = i /\ v.model = m)
  BY DEF VectorsOf
<1>4. \A v, w \in d.vecs : v.owner = w.owner /\ v.id = w.id /\ v.model = w.model => v = w
  BY DEF Sound, Consistent, UniqueVectors
<1> HIDE DEF new, V
<1>5. \A v, w \in V : v.owner = w.owner /\ v.id = w.id /\ v.model = w.model => v = w
  BY <1>2, <1>3, <1>4
<1> QED BY <1>1, <1>5, WithVectorsSound

\* Deleting vectors leaves at most one per owner and model.
LEMMA DeleteVectorsSound ==
    ASSUME NEW d, Sound(d), NEW owner, NEW ids
    PROVE  /\ Sound(DeleteVectors(d, owner, ids))
           /\ Counted(d) => Counted(DeleteVectors(d, owner, ids))
<1> DEFINE V == {v \in d.vecs : ~(v.owner = owner /\ v.id \in ids)}
<1>1. DeleteVectors(d, owner, ids) = [d EXCEPT !.vecs = V]
  BY DEF DeleteVectors
<1>2. \A v, w \in V : v.owner = w.owner /\ v.id = w.id /\ v.model = w.model => v = w
  BY DEF Sound, Consistent, UniqueVectors
<1> HIDE DEF V
<1> QED BY <1>1, <1>2, WithVectorsSound

\* ClearVectors leaves none.
LEMMA ClearVectorsSound ==
    ASSUME NEW d, Sound(d)
    PROVE  /\ Sound(ClearVectors(d))
           /\ Counted(d) => Counted(ClearVectors(d))
  BY WithVectorsSound DEF ClearVectors

\* SetEmbedInfo touches only the model.
LEMMA SetEmbedInfoSound ==
    ASSUME NEW d, Sound(d), NEW m
    PROVE  /\ Sound(SetEmbedInfo(d, m))
           /\ Counted(d) => Counted(SetEmbedInfo(d, m))
<1> DEFINE e == SetEmbedInfo(d, m)
<1>1. DOMAIN d = Tables /\ DOMAIN d.meta = Columns /\ UniqueVectors(d)
  BY DEF Sound, Consistent
<1>2. /\ DOMAIN e = Tables /\ DOMAIN e.meta = Columns
      /\ e.files = d.files /\ e.symbols = d.symbols /\ e.fts = d.fts
      /\ e.edges = d.edges /\ e.vecs = d.vecs
      /\ e.meta.files = d.meta.files /\ e.meta.symbols = d.meta.symbols
  BY <1>1 DEF SetEmbedInfo, Tables, Columns
<1> HIDE DEF e
<1>3. UniqueVectors(e) /\ EdgesHaveFiles(d, e.edges)
  BY <1>1, <1>2, EdgesKept DEF UniqueVectors
<1>4. Sound(e) /\ (Counted(d) => Counted(e))
  BY <1>2, <1>3, SameRowsSound DEF Counted
<1> QED BY <1>4 DEF e

\* Tables without files, symbols, full text and edges are sound.
LEMMA NoFilesSound ==
    ASSUME NEW d, DOMAIN d = Tables, DOMAIN d.meta = Columns,
           d.files = {}, d.symbols = {}, d.fts = {}, d.edges = {}, UniqueVectors(d)
    PROVE  Sound(d)
<1>1. \A r : ~IsFtsRow(d, r)
  BY DEF IsFtsRow
<1>2. d.fts = FtsRowsOf(d)
  BY <1>1, FtsRowsOfMembers
<1>3. Bounded(Ids({}))
  BY DEF Bounded, Ids
<1>4. Consistent(d)
  BY <1>2 DEF Consistent, UniquePaths, UniqueIds, References
<1> QED BY <1>3, <1>4 DEF Sound

\* A new store is sound and counted.
LEMMA EmptyCatalogSound == Sound(EmptyCatalog) /\ Counted(EmptyCatalog)
<1>1. /\ DOMAIN EmptyCatalog = Tables /\ DOMAIN EmptyCatalog.meta = Columns
      /\ EmptyCatalog.files = {} /\ EmptyCatalog.symbols = {} /\ EmptyCatalog.fts = {}
      /\ EmptyCatalog.edges = {} /\ EmptyCatalog.vecs = {}
      /\ EmptyCatalog.meta.files = 0 /\ EmptyCatalog.meta.symbols = 0
  BY DEF EmptyCatalog, NoMeta, Tables, Columns
<1>2. UniqueVectors(EmptyCatalog)
  BY <1>1 DEF UniqueVectors
<1>3. Cardinality({}) = 0
  BY FS_EmptySet
<1> QED BY <1>1, <1>2, <1>3, NoFilesSound DEF Counted

\* ClearIndex leaves sound tables: the cascade takes symbols and edges along.
LEMMA ClearIndexSound ==
    ASSUME NEW d, Sound(d)
    PROVE  Sound(ClearIndex(d))
<1> DEFINE m == DeleteFiles(d, Ids(d.files))
           e == ClearIndex(d)
<1>1. /\ DOMAIN d = Tables /\ DOMAIN d.meta = Columns /\ References(d) /\ UniqueVectors(d)
  BY DEF Sound, Consistent
<1>2. /\ DOMAIN m = Tables
      /\ m.files = {f \in d.files : f.id \notin Ids(d.files)}
      /\ m.symbols = {s \in d.symbols : s.file \notin Ids(d.files)}
      /\ m.edges = {x \in d.edges : x[1] \notin Ids(d.files) /\ x[2] \notin Ids(d.files)}
      /\ m.vecs = d.vecs /\ m.meta = d.meta
  BY <1>1, DeleteFilesTables
<1>3. m.files = {} /\ m.symbols = {} /\ m.edges = {}
  BY <1>1, <1>2 DEF References, Ids
<1>4. e = [m EXCEPT !.fts = {}, !.meta.files = 0, !.meta.symbols = 0]
  BY DEF ClearIndex
<1> HIDE DEF m, e
<1>5. /\ DOMAIN e = Tables /\ DOMAIN e.meta = Columns
      /\ e.files = {} /\ e.symbols = {} /\ e.edges = {} /\ e.fts = {} /\ e.vecs = d.vecs
  BY <1>1, <1>2, <1>3, <1>4 DEF Tables, Columns
<1>6. UniqueVectors(e)
  BY <1>1, <1>5 DEF UniqueVectors
<1>7. Sound(e)
  BY <1>5, <1>6, NoFilesSound
<1> QED BY <1>7 DEF e

\* The types of what no promise between the tables is about.
Loose(d) ==
    /\ d.edges \subseteq EdgeRow
    /\ \A v \in d.vecs : v.owner \in {"symbol", "file"} /\ v.id \in RowId /\ v.model \in Model
    /\ d.meta \in [files : Nat, symbols : Nat, indexed : BOOLEAN, model : Model \cup {NoModel}]

\* What every transaction preserves.
Good(d) == Sound(d) /\ Loose(d)

\* Rows with unique, bounded ids are finitely many, so they can be counted.
LEMMA RowsFinite ==
    ASSUME NEW rows, Ids(rows) \in SUBSET Nat, Bounded(Ids(rows)), UniqueIds(rows)
    PROVE  IsFiniteSet(rows) /\ Cardinality(rows) \in Nat
<1>1. IsFiniteSet(Ids(rows))
  BY FS_BoundedSetOfNaturals DEF Bounded
<1> DEFINE f == [r \in rows |-> r.id]
<1>2. f \in Injection(rows, Ids(rows))
  BY DEF Injection, IsInjective, Ids, UniqueIds
<1>3. IsFiniteSet(rows)
  BY <1>1, <1>2, FS_Injection
<1> QED BY <1>3, FS_CardinalityType

\* The files and the symbols of sound tables can be counted.
LEMMA TablesFinite ==
    ASSUME NEW d, Sound(d)
    PROVE  Cardinality(d.files) \in Nat /\ Cardinality(d.symbols) \in Nat
<1>1. Ids(d.files) \in SUBSET Nat /\ Ids(d.symbols) \in SUBSET Nat
  BY DEF Sound, Ids, FileRow, SymbolRow, RowId
<1> QED BY <1>1, RowsFinite DEF Sound, Consistent

\* The full-text rows of sound tables have their type.
LEMMA FtsTyped ==
    ASSUME NEW d, Sound(d), d.files \subseteq FileRow, d.symbols \subseteq SymbolRow
    PROVE  d.fts \subseteq FtsRow
<1>1. SUFFICES ASSUME NEW r, IsFtsRow(d, r) PROVE r \in FtsRow
  BY FtsRowsOfMembers DEF Sound, Consistent
<1> QED BY <1>1 DEF IsFtsRow, FtsRow, FileRow, SymbolRow, SymbolsIn

\* Good tables have the types CatalogType gives them.
LEMMA GoodIsTyped == ASSUME NEW d, Good(d) PROVE CatalogType(d)
<1>1. DOMAIN d = DOMAIN EmptyCatalog
  BY DEF Good, Sound, Tables, EmptyCatalog
<1> QED BY <1>1, FtsTyped DEF Good, Sound, Loose, CatalogType

\* DeleteFileByPath preserves Good.
LEMMA DeleteFileByPathGood ==
    ASSUME NEW d, Good(d), NEW p
    PROVE  Good(DeleteFileByPath(d, p))
<1>1. DOMAIN d = Tables /\ Sound(d) /\ Loose(d)
  BY DEF Good, Sound
<1>2. Loose(DeleteFileByPath(d, p))
  BY <1>1, DeleteFileByPathTables DEF Loose
<1> QED BY <1>1, <1>2, DeleteFileByPathSound DEF Good

\* PutFile preserves Good.
LEMMA PutFileGood ==
    ASSUME NEW d, Good(d), NEW p \in Path, NEW h \in Hash
    PROVE  Good(PutFile(d, p, h))
<1> DEFINE m == DeleteFileByPath(d, p)
<1>1. Good(m)
  BY DeleteFileByPathGood
<1>2. PutFile(d, p, h) = InsertFile(m, p, h)
  BY DEF PutFile
<1>3. Sound(PutFile(d, p, h))
  BY PutFileSound DEF Good
<1> HIDE DEF m
<1>4. Loose(m) /\ DOMAIN m = Tables
  BY <1>1 DEF Good, Sound
<1>5. Loose(InsertFile(m, p, h))
  BY <1>4, InsertFileTables DEF Loose
<1> QED BY <1>2, <1>3, <1>5 DEF Good

\* A new store is good and counted.
LEMMA EmptyCatalogGood == Good(EmptyCatalog) /\ Counted(EmptyCatalog)
<1>1. Loose(EmptyCatalog)
  BY DEF Loose, EmptyCatalog, NoMeta
<1> QED BY <1>1, EmptyCatalogSound DEF Good

\* ClearIndex preserves Good.  It zeroes the counts, and other columns stay.
LEMMA ClearIndexGood == ASSUME NEW d, Good(d) PROVE Good(ClearIndex(d))
<1> DEFINE m == DeleteFiles(d, Ids(d.files))
           e == ClearIndex(d)
<1>1. DOMAIN d = Tables /\ Sound(d) /\ Loose(d)
  BY DEF Good, Sound
<1>2. /\ DOMAIN m = Tables /\ m.vecs = d.vecs /\ m.meta = d.meta
      /\ m.edges \subseteq d.edges
  BY <1>1, DeleteFilesTables
<1>3. e = [m EXCEPT !.fts = {}, !.meta.files = 0, !.meta.symbols = 0]
  BY DEF ClearIndex
<1> HIDE DEF m, e
<1>4. /\ e.edges = m.edges /\ e.vecs = m.vecs
      /\ e.meta = [m.meta EXCEPT !.files = 0, !.symbols = 0]
  BY <1>2, <1>3 DEF Tables
<1>5. e.edges \subseteq EdgeRow /\ e.vecs = d.vecs
  BY <1>1, <1>2, <1>4 DEF Loose
<1>6. e.meta \in [files : Nat, symbols : Nat, indexed : BOOLEAN, model : Model \cup {NoModel}]
  <2> DEFINE M == [files : Nat, symbols : Nat, indexed : BOOLEAN, model : Model \cup {NoModel}]
  <2>1. m.meta \in M
    BY <1>1, <1>2 DEF Loose
  <2>2. \A x \in M : [x EXCEPT !.files = 0, !.symbols = 0] \in M
    OBVIOUS
  <2> HIDE DEF M
  <2>3. e.meta \in M
    BY <1>4, <2>1, <2>2
  <2> QED BY <2>3 DEF M
<1>7. Loose(e)
  BY <1>1, <1>5, <1>6 DEF Loose
<1> QED BY <1>1, <1>7, ClearIndexSound DEF Good, e

\* SetIndexState preserves Good and makes the counts true.
LEMMA SetIndexStateGood ==
    ASSUME NEW d, Good(d)
    PROVE  Good(SetIndexState(d)) /\ Counted(SetIndexState(d))
<1> DEFINE e == SetIndexState(d)
           nf == Cardinality(d.files)
           ns == Cardinality(d.symbols)
<1>1. DOMAIN d = Tables /\ Sound(d) /\ Loose(d) /\ nf \in Nat /\ ns \in Nat
  BY TablesFinite DEF Good, Sound
<1>2. e = [d EXCEPT !.meta.files = nf, !.meta.symbols = ns, !.meta.indexed = TRUE]
  BY DEF SetIndexState
<1> HIDE DEF e, nf, ns
<1>3. /\ e.edges = d.edges /\ e.vecs = d.vecs
      /\ e.meta = [d.meta EXCEPT !.files = nf, !.symbols = ns, !.indexed = TRUE]
  BY <1>1, <1>2 DEF Tables
<1>4. Loose(e)
  BY <1>1, <1>3 DEF Loose
<1> QED BY <1>1, <1>4, SetIndexStateSound DEF Good, e

\* ReplaceGraph preserves Good and the counts.
LEMMA ReplaceGraphGood ==
    ASSUME NEW d, Good(d), Counted(d), NEW edges, edges \subseteq EdgeRow,
           EdgesHaveFiles(d, edges)
    PROVE  Good(ReplaceGraph(d, edges)) /\ Counted(ReplaceGraph(d, edges))
<1>1. DOMAIN d = Tables /\ Sound(d) /\ Loose(d)
  BY DEF Good, Sound
<1>2. Loose(ReplaceGraph(d, edges))
  BY <1>1 DEF ReplaceGraph, Loose, Tables
<1> QED BY <1>1, <1>2, ReplaceGraphSound DEF Good

\* UpsertVector preserves Good and the counts.
LEMMA UpsertVectorGood ==
    ASSUME NEW d, Good(d), Counted(d), NEW owner \in {"symbol", "file"}, NEW i \in RowId,
           NEW m \in Model, NEW of
    PROVE  Good(UpsertVector(d, owner, i, m, of)) /\ Counted(UpsertVector(d, owner, i, m, of))
<1>1. DOMAIN d = Tables /\ Sound(d) /\ Loose(d)
  BY DEF Good, Sound
<1>2. Loose(UpsertVector(d, owner, i, m, of))
  BY <1>1 DEF UpsertVector, VectorsOf, Loose, Tables
<1> QED BY <1>1, <1>2, UpsertVectorSound DEF Good

\* DeleteVectors preserves Good and the counts.
LEMMA DeleteVectorsGood ==
    ASSUME NEW d, Good(d), Counted(d), NEW owner, NEW ids
    PROVE  Good(DeleteVectors(d, owner, ids)) /\ Counted(DeleteVectors(d, owner, ids))
<1>1. DOMAIN d = Tables /\ Sound(d) /\ Loose(d)
  BY DEF Good, Sound
<1>2. Loose(DeleteVectors(d, owner, ids))
  BY <1>1 DEF DeleteVectors, Loose, Tables
<1> QED BY <1>1, <1>2, DeleteVectorsSound DEF Good

\* ClearVectors preserves Good and the counts.
LEMMA ClearVectorsGood ==
    ASSUME NEW d, Good(d), Counted(d)
    PROVE  Good(ClearVectors(d)) /\ Counted(ClearVectors(d))
<1>1. DOMAIN d = Tables /\ Sound(d) /\ Loose(d)
  BY DEF Good, Sound
<1>2. Loose(ClearVectors(d))
  BY <1>1 DEF ClearVectors, Loose, Tables
<1> QED BY <1>1, <1>2, ClearVectorsSound DEF Good

\* SetEmbedInfo preserves Good and the counts.
LEMMA SetEmbedInfoGood ==
    ASSUME NEW d, Good(d), Counted(d), NEW m \in Model
    PROVE  Good(SetEmbedInfo(d, m)) /\ Counted(SetEmbedInfo(d, m))
<1>1. DOMAIN d = Tables /\ Sound(d) /\ Loose(d)
  BY DEF Good, Sound
<1>2. Loose(SetEmbedInfo(d, m))
  BY <1>1 DEF SetEmbedInfo, Loose, Tables
<1> QED BY <1>1, <1>2, SetEmbedInfoSound DEF Good
=============================================================================
