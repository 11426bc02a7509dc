---------------------------- MODULE MemoryPromise ----------------------------
(***************************************************************************)
(* What the memory commands promise, with no tables, counters or reads.    *)
(*                                                                         *)
(* A memory is one thing: it appears, changes and vanishes whole, with its *)
(* tags, links and evidence, in one step of one command, and no step       *)
(* touches a memory the command is not about.  An id is never given twice, *)
(* except that a document restored with its own ids brings them along.     *)
(*                                                                         *)
(* A command may hold on to something it has looked at: an edit to the     *)
(* title and body its memory had, an import to its document.  What it      *)
(* makes of it later is applied to the memories of that later moment.      *)
(* Full text and vectors, which only serve to find memories, are no part   *)
(* of this; nor is what an edit's second transaction does.                 *)
(***************************************************************************)
EXTENDS Naturals, Sequences, FiniteSets, FiniteSetsExt

CONSTANTS
    Proc,       \* processes that run a command
    Keep,       \* what a change says of a column that it does not name
    Place,      \* what evidence may point at
    Drafts,     \* the memories users add
    Changes     \* the edits users make

VARIABLES
    disk,       \* the blob at each place
    file,       \* the document at hand
    memories,   \* the memories there are, each with all that belongs to it
    given,      \* the ids of all memories there ever were
    held        \* what each command holds on to

Numbers(recs) == {m.id : m \in recs}

NothingHeld == [cmd |-> "none", records |-> {}]

\* The titles and bodies of memories, which is all that an edit holds on to.
Columns(m) == [id |-> m.id, title |-> m.title, body |-> m.body]

\* Evidence of places, after seat n, with the blobs that are there now.
Anchored(n, places) ==
    {[seat |-> n + k, place |-> places[k], blob |-> disk[places[k]]] : k \in DOMAIN places}

Drafted(i, draft) ==
    [id |-> i, title |-> draft.title, body |-> draft.body, tags |-> draft.tags,
     links |-> draft.links, anchors |-> Anchored(0, draft.places)]

Named(new, old) == IF new = Keep THEN old ELSE new

\* The present memory m with the change c made by one who saw the columns s.
Edited(m, s, c) ==
    LET kept == {a \in m.anchors : a.place \notin c.removePlaces}
        last == Max({0} \cup {a.seat : a \in kept})
    IN  [id      |-> m.id,
         title   |-> Named(c.title, s.title),
         body    |-> Named(c.body, s.body),
         tags    |-> (m.tags \ c.removeTags) \cup c.addTags,
         links   |-> (m.links \ c.removeLinks) \cup c.addLinks,
         anchors |-> kept \cup Anchored(last, c.addPlaces)]

\* Two records say the same; where evidence was anchored does not count.
SayTheSame(r, s) ==
    /\ r.title = s.title /\ r.body = s.body /\ r.tags = s.tags /\ r.links = s.links
    /\ \A x \in Place : Cardinality({a \in r.anchors : a.place = x})
                          = Cardinality({a \in s.anchors : a.place = x})

\* New records of a document: each is one of the document's but for its id, no two of
\* them say the same, and their ids are later than any there ever was.
Renewed(new, doc) ==
    /\ \A m \in new : \E r \in doc : m = [r EXCEPT !.id = m.id]
    /\ \A m, n \in new : m.id = n.id \/ SayTheSame(m, n) => m = n
    /\ \A m \in new, i \in given : i < m.id

-----------------------------------------------------------------------------

Init ==
    /\ memories = {}
    /\ given = {}
    /\ held = [p \in Proc |-> NothingHeld]

Hold(p, thing) ==
    /\ held' = [held EXCEPT ![p] = thing]
    /\ UNCHANGED <<disk, file>>

Add ==
    /\ \E i \in given' \ given, draft \in Drafts :
        /\ \A j \in given : j < i
        /\ memories' = memories \cup {Drafted(i, draft)}
        /\ given' = given \cup {i}
    /\ UNCHANGED <<disk, file, held>>

Remove ==
    /\ \E m \in memories : memories' = memories \ {m}
    /\ UNCHANGED <<disk, file, given, held>>

Look(p) ==
    /\ held[p] = NothingHeld
    /\ \E m \in memories : Hold(p, [cmd |-> "edit", records |-> {Columns(m)}])
    /\ UNCHANGED <<memories, given>>

Bring(p) ==
    /\ held[p] = NothingHeld
    /\ \E cmd \in {"import", "restore"} : Hold(p, [cmd |-> cmd, records |-> file])
    /\ UNCHANGED <<memories, given>>

LetGo(p) ==
    /\ Hold(p, NothingHeld)
    /\ UNCHANGED <<memories, given>>

Edit(p) ==
    /\ held[p].cmd = "edit"
    /\ \E m \in memories, s \in held[p].records, c \in Changes :
        /\ m.id = s.id
        /\ memories' = (memories \ {m}) \cup {Edited(m, s, c)}
    /\ Hold(p, NothingHeld)
    /\ UNCHANGED given

Import(p) ==
    /\ held[p].cmd = "import"
    /\ memories \subseteq memories'
    /\ Renewed(memories' \ memories, held[p].records)
    /\ given' = given \cup Numbers(memories')
    /\ Hold(p, NothingHeld)

Restore(p) ==
    /\ held[p].cmd = "restore"
    /\ Numbers(memories) \cap Numbers(held[p].records) = {}
    /\ memories' = memories \cup held[p].records
    /\ given' = given \cup Numbers(held[p].records)
    /\ Hold(p, NothingHeld)

\* An exported document has one record for an id, and knows of no id that never was.
Export ==
    /\ \A r, s \in file' : r.id = s.id => r = s
    /\ Numbers(file') \subseteq given
    /\ UNCHANGED <<disk, memories, given, held>>

Touch ==
    /\ DOMAIN disk' = DOMAIN disk
    /\ UNCHANGED <<file, memories, given, held>>

Next ==
    \/ Touch
    \/ \E p \in Proc : Look(p) \/ Bring(p) \/ LetGo(p) \/ Edit(p) \/ Import(p) \/ Restore(p)
    \/ Add \/ Remove \/ Export

Spec == Init /\ [][Next]_<<disk, file, memories, given, held>>
=============================================================================
