----------------------------- MODULE MemoryStore -----------------------------
(***************************************************************************)
(* Memories (internal/memory over store/memory_*.go) and the processes     *)
(* that add, edit, remove, export, import and embed them in one store.     *)
(*                                                                         *)
(* Every transaction takes the write lock when it begins and depends only  *)
(* on what was read before, so it is one step; the reads of a command are  *)
(* steps of their own, and MemoryFull, which runs a query per table, is    *)
(* four.  Between any two steps another process may commit, the files that *)
(* evidence points at may change, and the process may be killed or meet an *)
(* error (INDEX_LOCKED among them).                                        *)
(*                                                                         *)
(* An operator named for a slip (DeleteMemoryKeepVectors, ImportLowSeq) is *)
(* a faulty variant of the definition after it; the properties are checked *)
(* to fail when it takes that definition's place.                          *)
(*                                                                         *)
(* Kind is a column like body that is not searched, and timestamps matter  *)
(* to nothing: both are left out.  Evidence rows carry their place among   *)
(* the evidence of their memory instead of a row id, as only the order of  *)
(* ids is ever used.  One embedding model.                                 *)
(***************************************************************************)
EXTENDS Naturals, Sequences, FiniteSets, FiniteSetsExt

CONSTANTS
    Proc,           \* processes that run a command
    Text, Empty,    \* titles and bodies; the empty one
    Keep,           \* a nil pointer in EditParams: unchanged
    Tag, Target,    \* tags; what links refer to
    Place,          \* evidence: a range of lines of a file of its own
    Blob, NoBlob,   \* blob oids; what blobOIDOf returns for a missing file
    Drafts,         \* the memories users add
    Changes,        \* the edits users make
    Documents,      \* export documents of other stores
    Commands,       \* the commands that are run
    MayFail,        \* whether a command may be killed or meet an error
    MaxCommands     \* bound: commands started

AllCommands == {"add", "edit", "remove", "export", "import", "restore", "embed"}

MemoryId == Nat \ {0}

Anchor == [seat : MemoryId, place : Place, blob : Blob \cup {NoBlob}]

\* A memory in an export document.
Record ==
    [id : MemoryId, title : Text, body : Text, tags : SUBSET Tag, links : SUBSET Target,
     anchors : SUBSET Anchor]

\* The parameters of Add and Edit.
Draft == [title : Text \ {Empty}, body : Text, tags : SUBSET Tag, links : SUBSET Target,
          places : Seq(Place)]
Change == [title : Text \cup {Keep}, body : Text \cup {Keep},
           addTags : SUBSET Tag, removeTags : SUBSET Tag,
           addLinks : SUBSET Target, removeLinks : SUBSET Target,
           addPlaces : Seq(Place), removePlaces : SUBSET Place]

NoChange ==
    [title |-> Keep, body |-> Keep, addTags |-> {}, removeTags |-> {},
     addLinks |-> {}, removeLinks |-> {}, addPlaces |-> <<>>, removePlaces |-> {}]

ASSUME MemoryAssumption ==
    /\ Empty \in Text
    /\ Keep \notin Text
    /\ Drafts \subseteq Draft
    /\ Changes \subseteq Change \ {NoChange}
    /\ \A doc \in Documents :
        /\ doc \subseteq Record
        /\ IsFiniteSet(doc)
        /\ \A r, s \in doc : r.id = s.id => r = s
        /\ \A r \in doc : IsFiniteSet(r.anchors)
        /\ \A r \in doc : \A a, b \in r.anchors : a.seat = b.seat => a = b
    /\ Commands \subseteq AllCommands
    /\ MayFail \in BOOLEAN
    /\ MaxCommands \in Nat

VARIABLES
    disk,      \* the blob at each place's file (external)
    file,      \* the export document last written, or one from elsewhere
    db,        \* the committed memory tables
    pc,        \* where each process is in its command
    run,       \* the locals of each process's command
    raced,     \* history: memories whose full text or vector was last written
               \* by a command that others, or its own end, had overtaken
    used,      \* history: the ids of all memories there ever were
    commands   \* commands started so far

vars == <<disk, file, db, pc, run, raced, used, commands>>

-----------------------------------------------------------------------------
(* The tables *)

NoMemories ==
    [rows |-> {}, tags |-> {}, links |-> {}, anchors |-> {}, fts |-> {}, vecs |-> {}, seq |-> 0]

Ids(rows) == {r.id : r \in rows}

Of(pairs, i) == {x[2] : x \in {y \in pairs : y[1] = i}}

AnchorsOf(d, i) ==
    {[seat |-> a.seat, place |-> a.place, blob |-> a.blob] : a \in {b \in d.anchors : b.id = i}}

\* The record exportRecordFrom makes of each memory in the table with id i.
Stored(d, i) ==
    {[id |-> i, title |-> r.title, body |-> r.body, tags |-> Of(d.tags, i),
      links |-> Of(d.links, i), anchors |-> AnchorsOf(d, i)] : r \in {s \in d.rows : s.id = i}}

FtsRow(i, title, body, tags) == [id |-> i, title |-> title, body |-> body, tags |-> tags]

\* The full-text row that a memory's tables call for.
FtsRowsOf(d, i) == {FtsRow(i, r.title, r.body, r.tags) : r \in Stored(d, i)}

\* writeRecord, once per record: the row, its satellites and its full text.
WriteRecordsUnsearched(d, recs) ==
    [d EXCEPT
        !.rows    = @ \cup {[id |-> r.id, title |-> r.title, body |-> r.body] : r \in recs},
        !.tags    = @ \cup UNION {{r.id} \X r.tags : r \in recs},
        !.links   = @ \cup UNION {{r.id} \X r.links : r \in recs},
        !.anchors = @ \cup UNION {{[id |-> r.id, seat |-> a.seat, place |-> a.place,
                                    blob |-> a.blob] : a \in r.anchors} : r \in recs}]
WriteRecords(d, recs) ==
    [WriteRecordsUnsearched(d, recs) EXCEPT
        !.fts = {f \in @ : f.id \notin Ids(recs)}
                  \cup {FtsRow(r.id, r.title, r.body, r.tags) : r \in recs}]

\* Evidence added with the blobs that are on disk now, after seat n.
Anchors(n, places, blobs) ==
    {[seat |-> n + k, place |-> places[k], blob |-> blobs[places[k]]] : k \in DOMAIN places}

UpsertMemory(d, i, title, body) ==
    [d EXCEPT !.rows = {r \in @ : r.id # i} \cup {[id |-> i, title |-> title, body |-> body]}]
UpdateMemory(d, i, title, body) ==
    [d EXCEPT !.rows = {r \in @ : r.id # i}
                         \cup {[id |-> i, title |-> title, body |-> body] :
                                  r \in {s \in @ : s.id = i}}]

\* The statements of Edit's first transaction, removals before additions.
ApplyChange(d, i, title, body, c, blobs) ==
    LET kept == {a \in d.anchors : ~(a.id = i /\ a.place \in c.removePlaces)}
        last == Max({0} \cup {a.seat : a \in {b \in kept : b.id = i}})
    IN  [UpdateMemory(d, i, title, body) EXCEPT
            !.tags    = (@ \ ({i} \X c.removeTags)) \cup ({i} \X c.addTags),
            !.links   = (@ \ ({i} \X c.removeLinks)) \cup ({i} \X c.addLinks),
            !.anchors = kept \cup {[id |-> i, seat |-> a.seat, place |-> a.place, blob |-> a.blob] :
                                      a \in Anchors(last, c.addPlaces, blobs)}]

\* The foreign keys of tags, links and evidence, which OR IGNORE does not waive.
ForeignKeysOff(d, i, c) == TRUE
HasRow(d, i, c) ==
    \/ i \in Ids(d.rows)
    \/ c.addTags = {} /\ c.addLinks = {} /\ c.addPlaces = <<>>

InsertFts(d, row) == [d EXCEPT !.fts = @ \cup {row}]
ReindexMemoryFTS(d, row) == [d EXCEPT !.fts = {f \in @ : f.id # row.id} \cup {row}]

\* Full text and vectors have no foreign key; the satellites cascade.
DeleteMemoryKeepVectors(d, i) ==
    [d EXCEPT !.rows    = {r \in @ : r.id # i},
              !.tags    = {x \in @ : x[1] # i},
              !.links   = {x \in @ : x[1] # i},
              !.anchors = {a \in @ : a.id # i},
              !.fts     = {f \in @ : f.id # i}]
DeleteMemory(d, i) ==
    [DeleteMemoryKeepVectors(d, i) EXCEPT !.vecs = {v \in @ : v.id # i}]

UpsertVector(d, i, of) ==
    [d EXCEPT !.vecs = {v \in @ : v.id # i} \cup {[id |-> i, of |-> of]}]

-----------------------------------------------------------------------------
(* Imports *)

\* recordHash: everything but the id and the blobs, in any order.
RecordHash(r) ==
    [title |-> r.title, body |-> r.body, tags |-> r.tags, links |-> r.links,
     places |-> [p \in Place |-> Cardinality({a \in r.anchors : a.place = p})]]

\* The records of a document that are neither known nor repeat an earlier one.
NewRecordsUnsieved(doc, known) == {r \in doc : RecordHash(r) \notin known}
NewRecords(doc, known) ==
    {r \in doc : /\ RecordHash(r) \notin known
                 /\ \A s \in doc : s.id < r.id => RecordHash(s) # RecordHash(r)}

\* Ids from the counter, in the order of the document, which Export sorts by id.
Renumbered(recs, seq) ==
    {[r EXCEPT !.id = seq + Cardinality({s \in recs : s.id <= r.id})] : r \in recs}

ImportFresh(d, doc, known) ==
    LET new == NewRecords(doc, known)
    IN  [WriteRecords(d, Renumbered(new, d.seq)) EXCEPT !.seq = @ + Cardinality(new)]

\* --preserve-ids: SetMemSeqAtLeast the largest id.
ImportLowSeq(d, doc) == WriteRecords(d, doc)
ImportPreserved(d, doc) ==
    [WriteRecords(d, doc) EXCEPT !.seq = Max({@} \cup Ids(doc))]

Collides(d, doc) == Ids(d.rows) \cap Ids(doc) # {}

-----------------------------------------------------------------------------
(***************************************************************************)
(* The locals of a command.  id, change and rec are those of Edit and of   *)
(* the loops over memories; todo holds the ids a loop has left, doc the    *)
(* document, known the hashes of existingHashIDs, jobs those of            *)
(* embedMemories.  written says that Edit's first transaction has          *)
(* committed.  dirty is not in the code: the memories other processes have *)
(* changed since this command started.                                     *)
(***************************************************************************)
NoRecord ==
    [id |-> 0, title |-> Empty, body |-> Empty, tags |-> {}, links |-> {}, anchors |-> {}]

NoRun ==
    [cmd |-> "none", id |-> 0, change |-> NoChange, rec |-> NoRecord, written |-> FALSE,
     todo |-> {}, doc |-> {}, known |-> {}, jobs |-> {}, dirty |-> {}]

Running(p) == pc[p] \notin {"idle", "done"}

\* What a command that was not in vain leaves behind for the properties.
Finished(r) == [NoRun EXCEPT !.cmd = r.cmd, !.doc = r.doc, !.dirty = r.dirty]

Found(rec) == IF rec.id = 0 THEN {} ELSE {rec}

\* memoryText, and whether there is any.
Words(r) == [title |-> r.title, body |-> r.body, tags |-> r.tags]
Blank(r) == r.title = Empty /\ r.body = Empty /\ r.tags = {}

\* p moves on in private.
Privately(p, r, label) ==
    /\ run' = [run EXCEPT ![p] = r]
    /\ pc' = [pc EXCEPT ![p] = label]
    /\ UNCHANGED <<disk, file, db, used>>

\* p moves on, and a transaction has left the tables d, with these memories changed.
Committing(p, d, ids, r, label) ==
    /\ db' = d
    /\ used' = used \cup Ids(d.rows)
    /\ run' = [q \in Proc |-> IF q = p THEN r
                              ELSE IF run[q].cmd = "none" THEN run[q]
                              ELSE [run[q] EXCEPT !.dirty = @ \cup ids]]
    /\ pc' = [pc EXCEPT ![p] = label]
    /\ UNCHANGED <<disk, file>>

\* The command returns; after an error, or with nothing for a property to see.
Quit(p) == Privately(p, NoRun, "idle")

\* The next memory of a loop, or what comes after it.
Ending(cmd) ==
    CASE cmd = "export"                -> "write"
      [] cmd \in {"import", "restore"} -> "import"
      [] OTHER                         -> "store"
Advance(p, r) ==
    IF r.todo = {} THEN Privately(p, r, Ending(r.cmd))
    ELSE Privately(p, [r EXCEPT !.id = Min(r.todo), !.todo = @ \ {Min(r.todo)}], "row")

-----------------------------------------------------------------------------
(* Commands begin *)

Starting(p, cmd) ==
    /\ ~Running(p)
    /\ cmd \in Commands
    /\ commands < MaxCommands
    /\ commands' = commands + 1

\* Add is one transaction; what it returns is read afterwards and changes nothing.
Add(p) ==
    /\ Starting(p, "add")
    /\ \E draft \in Drafts :
        LET i   == db.seq + 1
            rec == [id |-> i, title |-> draft.title, body |-> draft.body, tags |-> draft.tags,
                    links |-> draft.links, anchors |-> Anchors(0, draft.places, disk)]
        IN  Committing(p, [WriteRecords(db, {rec}) EXCEPT !.seq = i], {i}, NoRun, "idle")
    /\ UNCHANGED raced

\* Any id may be given; MemoryFull is the first thing that looks at it.
StartEdit(p) ==
    /\ Starting(p, "edit")
    /\ \E i \in 1..db.seq, c \in Changes :
        Privately(p, [NoRun EXCEPT !.cmd = "edit", !.id = i, !.change = c], "row")
    /\ UNCHANGED raced

\* MemoryExists.
StartRemove(p) ==
    /\ Starting(p, "remove")
    /\ \E i \in Ids(db.rows) : Privately(p, [NoRun EXCEPT !.cmd = "remove", !.id = i], "remove")
    /\ UNCHANGED raced

\* ListMemories and AllMemoryIDs.
StartLoop(p, cmd) ==
    /\ Starting(p, cmd)
    /\ Advance(p, [NoRun EXCEPT !.cmd = cmd, !.todo = Ids(db.rows),
                                !.doc = IF cmd \in {"import", "restore"} THEN file ELSE {}])
    /\ UNCHANGED raced

-----------------------------------------------------------------------------
(* MemoryFull: a query per table, and what each command does with the result *)

Taken(p, rec) ==
    LET r == [run[p] EXCEPT !.rec = rec]
    IN  \/ /\ r.cmd = "edit" /\ ~r.written /\ rec.id = 0
           /\ Quit(p)
        \/ /\ r.cmd = "edit" /\ ~r.written /\ rec.id # 0
           /\ Privately(p, r, "update")
        \/ /\ r.cmd = "edit" /\ r.written
           /\ Privately(p, r, "fts")
        \/ /\ r.cmd = "export"
           /\ Advance(p, [r EXCEPT !.rec = NoRecord, !.doc = @ \cup Found(rec)])
        \/ /\ r.cmd \in {"import", "restore"}
           /\ Advance(p, [r EXCEPT !.rec = NoRecord,
                                   !.known = @ \cup {RecordHash(x) : x \in Found(rec)}])
        \/ /\ r.cmd = "embed" /\ (rec.id = 0 \/ Blank(rec))
           /\ Advance(p, [r EXCEPT !.rec = NoRecord])
        \/ /\ r.cmd = "embed" /\ rec.id # 0 /\ ~Blank(rec)
           /\ Privately(p, r, "gate")

ReadRow(p) ==
    /\ pc[p] = "row"
    /\ \E r \in db.rows :
        /\ r.id = run[p].id
        /\ Privately(p, [run[p] EXCEPT !.rec = [NoRecord EXCEPT !.id = r.id, !.title = r.title,
                                                                !.body = r.body]], "tags")
    /\ UNCHANGED <<raced, commands>>

NoRow(p) ==
    /\ pc[p] = "row"
    /\ run[p].id \notin Ids(db.rows)
    /\ Taken(p, NoRecord)
    /\ UNCHANGED <<raced, commands>>

ReadTags(p) ==
    /\ pc[p] = "tags"
    /\ Privately(p, [run[p] EXCEPT !.rec.tags = Of(db.tags, run[p].id)], "evidence")
    /\ UNCHANGED <<raced, commands>>

ReadEvidenceUnanchored(p) ==
    /\ pc[p] = "evidence"
    /\ Privately(p, [run[p] EXCEPT !.rec.anchors =
                        {[a EXCEPT !.blob = NoBlob] : a \in AnchorsOf(db, run[p].id)}], "links")
    /\ UNCHANGED <<raced, commands>>
ReadEvidence(p) ==
    /\ pc[p] = "evidence"
    /\ Privately(p, [run[p] EXCEPT !.rec.anchors = AnchorsOf(db, run[p].id)], "links")
    /\ UNCHANGED <<raced, commands>>

ReadLinks(p) ==
    /\ pc[p] = "links"
    /\ Taken(p, [run[p].rec EXCEPT !.links = Of(db.links, run[p].id)])
    /\ UNCHANGED <<raced, commands>>

-----------------------------------------------------------------------------
(* Edit and Remove *)

\* A field the change names, or else what was read before the transaction.
MergeAlways(new, old) == new
MergeBlank(new, old) == IF new = Keep THEN Empty ELSE new
Merge(new, old) == IF new = Keep THEN old ELSE new

Update(p) ==
    /\ pc[p] = "update"
    /\ LET r == run[p]
           c == r.change
       IN  IF HasRow(db, r.id, c)
           THEN Committing(p, ApplyChange(db, r.id, Merge(c.title, r.rec.title),
                                          Merge(c.body, r.rec.body), c, disk),
                           {r.id}, [r EXCEPT !.written = TRUE, !.rec = NoRecord], "row")
           ELSE Quit(p)
    /\ UNCHANGED <<raced, commands>>

\* Edit ignores whether the second MemoryFull found the memory.
UpdateFts(p) ==
    /\ pc[p] = "fts"
    /\ LET r == run[p]
       IN  /\ Committing(p, ReindexMemoryFTS(db, FtsRow(r.id, r.rec.title, r.rec.body, r.rec.tags)),
                         {r.id}, NoRun, "idle")
           /\ raced' = IF r.id \in r.dirty THEN raced \cup {r.id} ELSE raced \ {r.id}
    /\ UNCHANGED commands

Remove(p) ==
    /\ pc[p] = "remove"
    /\ Committing(p, DeleteMemory(db, run[p].id), {run[p].id}, NoRun, "idle")
    /\ raced' = raced \ {run[p].id}
    /\ UNCHANGED commands

-----------------------------------------------------------------------------
(* Export and Import *)

\* The command line writes the document that Export returns.
WriteDocument(p) ==
    /\ pc[p] = "write"
    /\ file' = run[p].doc
    /\ run' = [run EXCEPT ![p] = Finished(@)]
    /\ pc' = [pc EXCEPT ![p] = "done"]
    /\ UNCHANGED <<disk, db, used, raced, commands>>

Import(p) ==
    /\ pc[p] = "import"
    /\ run[p].cmd = "import"
    /\ LET d == ImportFresh(db, run[p].doc, run[p].known)
       IN  Committing(p, d, Ids(d.rows) \ Ids(db.rows), NoRun, "idle")
    /\ UNCHANGED <<raced, commands>>

Restore(p) ==
    /\ pc[p] = "import"
    /\ run[p].cmd = "restore"
    /\ ~Collides(db, run[p].doc)
    /\ Committing(p, ImportPreserved(db, run[p].doc), Ids(run[p].doc), Finished(run[p]), "done")
    /\ raced' = raced \ Ids(run[p].doc)
    /\ UNCHANGED commands

RestoreCollides(p) ==
    /\ pc[p] = "import"
    /\ run[p].cmd = "restore"
    /\ Collides(db, run[p].doc)
    /\ Quit(p)
    /\ UNCHANGED <<raced, commands>>

-----------------------------------------------------------------------------
(* embedMemories, the last phase of an index run *)

\* The stored vector is of this text: ChunkSHA.
HasVector(d, rec) == \E v \in d.vecs : v.id = rec.id
Embedded(d, rec) == [id |-> rec.id, of |-> Words(rec)] \in d.vecs

Gate(p) ==
    /\ pc[p] = "gate"
    /\ LET r == run[p]
       IN  Advance(p, [r EXCEPT !.rec = NoRecord,
                                !.jobs = @ \cup IF Embedded(db, r.rec) THEN {}
                                                ELSE {[id |-> r.rec.id, of |-> Words(r.rec)]}])
    /\ UNCHANGED <<raced, commands>>

\* One transaction per vector, in the order of ids.
StoreVector(p) ==
    /\ pc[p] = "store"
    /\ \E j \in run[p].jobs :
        /\ \A k \in run[p].jobs : j.id <= k.id
        /\ db' = UpsertVector(db, j.id, j.of)
        /\ run' = [q \in Proc |->
                      IF q = p THEN [run[p] EXCEPT !.jobs = @ \ {j}]
                      ELSE IF run[q].cmd = "embed" THEN [run[q] EXCEPT !.dirty = @ \cup {j.id}]
                      ELSE run[q]]
        /\ raced' = IF j.id \in run[p].dirty THEN raced \cup {j.id} ELSE raced
    /\ UNCHANGED <<disk, file, pc, used, commands>>

EndEmbed(p) ==
    /\ pc[p] = "store"
    /\ run[p].jobs = {}
    /\ Privately(p, Finished(run[p]), "done")
    /\ UNCHANGED <<raced, commands>>

-----------------------------------------------------------------------------
(* What else may happen *)

\* The process is killed, waits in vain for the lock, or the embedder fails.
Fail(p) ==
    /\ MayFail
    /\ Running(p)
    /\ Quit(p)
    /\ raced' = IF run[p].written THEN raced \cup {run[p].id} ELSE raced
    /\ UNCHANGED commands

\* A file that evidence points at is changed, deleted or created.
Touch ==
    /\ \E b \in Blob \cup {NoBlob}, x \in Place : disk' = [disk EXCEPT ![x] = b]
    /\ UNCHANGED <<file, db, pc, run, raced, used, commands>>

-----------------------------------------------------------------------------

Init ==
    /\ disk \in [Place -> Blob]
    /\ file \in Documents
    /\ db = NoMemories
    /\ pc = [p \in Proc |-> "idle"]
    /\ run = [p \in Proc |-> NoRun]
    /\ raced = {}
    /\ used = {}
    /\ commands = 0

Step(p) ==
    \/ Add(p)
    \/ StartEdit(p)
    \/ StartRemove(p)
    \/ \E cmd \in {"export", "import", "restore", "embed"} : StartLoop(p, cmd)
    \/ ReadRow(p) \/ NoRow(p) \/ ReadTags(p) \/ ReadEvidence(p) \/ ReadLinks(p)
    \/ Update(p) \/ UpdateFts(p) \/ Remove(p)
    \/ WriteDocument(p) \/ Import(p) \/ Restore(p) \/ RestoreCollides(p)
    \/ Gate(p) \/ StoreVector(p) \/ EndEmbed(p)
    \/ Fail(p)

Next == Touch \/ \E p \in Proc : Step(p)

Spec == Init /\ [][Next]_vars

-----------------------------------------------------------------------------
(* Properties *)

\* Type correctness of the tables, the document and the locals of commands.
TypeOK ==
    /\ disk \in [Place -> Blob \cup {NoBlob}]
    /\ file \subseteq Record
    /\ DOMAIN db = DOMAIN NoMemories
    /\ db.rows \subseteq [id : MemoryId, title : Text, body : Text]
    /\ db.tags \subseteq MemoryId \X Tag
    /\ db.links \subseteq MemoryId \X Target
    /\ \A a \in db.anchors :
        /\ a.id \in MemoryId
        /\ [seat |-> a.seat, place |-> a.place, blob |-> a.blob] \in Anchor
    /\ db.fts \subseteq [id : MemoryId, title : Text, body : Text, tags : SUBSET Tag]
    /\ db.vecs \subseteq [id : MemoryId, of : [title : Text, body : Text, tags : SUBSET Tag]]
    /\ db.seq \in Nat
    /\ pc \in [Proc -> {"idle", "done", "row", "tags", "evidence", "links", "update", "fts",
                        "remove", "write", "import", "gate", "store"}]
    /\ \A p \in Proc :
        /\ DOMAIN run[p] = DOMAIN NoRun
        /\ run[p].cmd \in AllCommands \cup {"none"}
        /\ run[p].id \in Nat
        /\ run[p].change \in Changes \cup {NoChange}
        /\ run[p].written \in BOOLEAN
        /\ run[p].doc \subseteq Record
    /\ used \subseteq MemoryId
    /\ raced \subseteq MemoryId
    /\ commands \in 0..MaxCommands

\* The memory tables agree after every transaction, whoever overlaps with whom and
\* wherever commands die: ids are unique and at most the counter's, tags, links and
\* evidence belong to memories that exist, no two pieces of a memory's evidence have
\* one place in its order, and every memory has one full-text row and at most one vector.
Consistent(d) ==
    /\ \A r, s \in d.rows : r.id = s.id => r = s
    /\ \A r \in d.rows : r.id <= d.seq
    /\ \A x \in d.tags \cup d.links : x[1] \in Ids(d.rows)
    /\ \A a \in d.anchors : a.id \in Ids(d.rows)
    /\ \A a, b \in d.anchors : a.id = b.id /\ a.seat = b.seat => a = b
    /\ Ids(d.rows) \subseteq Ids(d.fts)
    /\ \A f, g \in d.fts : f.id = g.id => f = g
    /\ \A v, w \in d.vecs : v.id = w.id => v = w
MemoriesConsistent == Consistent(db)

\* A memory gets an id no memory ever had, unless it is restored under its own id by
\* --preserve-ids: what Add and a default Import allocate was never used, not even by
\* a memory that was imported and removed again (NextMemSeq, SetMemSeqAtLeast).
Restored(i) ==
    \E p \in Proc : Restore(p) /\ i \in Ids(run[p].doc)
NewIdsAreFresh ==
    [][\A i \in Ids(db'.rows) \ Ids(db.rows) : i \notin used \/ Restored(i)]_vars

\* While an edit is between its two transactions its memory's full text may lag.
MidEdit(i) == \E p \in Proc : run[p].written /\ run[p].id = i

\* What full-text search finds under a memory's id is that memory's present title, body
\* and tags, and nothing once it is removed, unless the last edit of it died half-way
\* or overlapped with another change of the same memory.
FullTextCurrent ==
    \A i \in Ids(db.rows) \cup Ids(db.fts) :
        i \in raced \/ MidEdit(i) \/ {f \in db.fts : f.id = i} = FtsRowsOf(db, i)

\* No vector outlives its memory, unless an index run stored it after it was removed.
RemovedVectorsGone == Ids(db.vecs) \subseteq Ids(db.rows) \cup raced

\* An index run that ended leaves every memory that has a text with the vector of that
\* text, apart from the memories that others changed since it started.
MemoriesEmbedded ==
    \A p \in Proc : pc[p] = "done" /\ run[p].cmd = "embed" =>
        \A r \in UNION {Stored(db, i) : i \in Ids(db.rows) \ run[p].dirty} :
            ~Blank(r) => [id |-> r.id, of |-> Words(r)] \in db.vecs

\* A document is the store it was exported from, and a store is the document restored
\* into it with --preserve-ids, down to the blobs that evidence was anchored to, apart
\* from the memories that others changed meanwhile.
DocumentsMatchStore ==
    \A p \in Proc : pc[p] = "done" =>
        /\ run[p].cmd = "export" =>
            \A i \in Ids(run[p].doc) \cup Ids(db.rows) :
                i \in run[p].dirty \/ {r \in run[p].doc : r.id = i} = Stored(db, i)
        /\ run[p].cmd = "restore" =>
            \A r \in run[p].doc : r.id \in run[p].dirty \/ Stored(db, r.id) = {r}

\* Two records say the same; where evidence was anchored does not count.
SameContent(r, s) ==
    /\ r.title = s.title /\ r.body = s.body /\ r.tags = s.tags /\ r.links = s.links
    /\ \A x \in Place : Cardinality({a \in r.anchors : a.place = x})
                          = Cardinality({a \in s.anchors : a.place = x})

\* A default import that nobody disturbs leaves every record of the document in the
\* store, and adds none that says the same as another memory.
MergedOnce(doc) ==
    LET after == UNION {Stored(db', i) : i \in Ids(db'.rows)}
        new   == {r \in after : r.id \notin Ids(db.rows)}
    IN  /\ \A r \in doc : \E s \in after : SameContent(r, s)
        /\ \A r \in new, s \in after : SameContent(r, s) => r = s
ImportMergesOnce ==
    [][\A p \in Proc : Import(p) /\ run[p].dirty = {} => MergedOnce(run[p].doc)]_vars

\* The columns an edit does not name keep their value.
UnnamedKept(p) ==
    LET c == run[p].change
    IN  \A r \in db.rows, s \in db'.rows :
            r.id = s.id => /\ r.id # run[p].id \/ c.title = Keep => r.title = s.title
                           /\ r.id # run[p].id \/ c.body = Keep => r.body = s.body

\* An edit whose memory nobody else changes meanwhile changes what it names, and no
\* column of its own or of any other memory that it does not name.
EditsKeepTheRest ==
    [][\A p \in Proc : Update(p) /\ run[p].id \notin run[p].dirty => UnnamedKept(p)]_vars

\* "nil pointers mean unchanged": an edit never changes a column it does not name.
NilMeansUnchanged == [][\A p \in Proc : Update(p) => UnnamedKept(p)]_vars

-----------------------------------------------------------------------------
(* The promise of atomic commands *)

\* All memories, each put together from its rows.
Whole(d) == UNION {Stored(d, i) : i \in Ids(d.rows)}

\* What command r, which is at label, acts upon later: an edit on the columns it read,
\* until its first transaction, an import on its document.
HeldBy(r, label) ==
    IF r.cmd = "edit" /\ ~r.written /\ label \in {"tags", "evidence", "links", "update"}
    THEN [cmd     |-> "edit",
          records |-> {[id |-> r.id, title |-> r.rec.title, body |-> r.rec.body]}]
    ELSE IF r.cmd \in {"import", "restore"} /\ label \notin {"idle", "done"}
    THEN [cmd |-> r.cmd, records |-> r.doc]
    ELSE [cmd |-> "none", records |-> {}]

Promise ==
    INSTANCE MemoryPromise WITH
        memories <- Whole(db),
        given    <- used,
        held     <- [p \in Proc |-> HeldBy(run[p], pc[p])]

\* However commands interleave and wherever they die, each acts on whole memories and in
\* one step: no memory appears, changes or vanishes without its tags, links and evidence,
\* or with those of another; ids are later than all that were given; an edit changes what
\* is there at that moment, and nothing of a memory that is gone; an import brings in its
\* new records together, each once (the transactions of ops.go and export.go).
MemoriesAreAtomic == Promise!Spec
=============================================================================
