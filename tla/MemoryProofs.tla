---------------------------- MODULE MemoryProofs ----------------------------
(***************************************************************************)
(* What memory commands keep, for any number of processes, any documents   *)
(* and any failures.  The first part shows what each repository method     *)
(* preserves (consistent tables) and what it leaves alone (the memories it *)
(* is not about); the second lifts it to commands.                         *)
(*                                                                         *)
(* Two inductive invariants carry the theorems.  IInv is about the tables  *)
(* and needs little of what a command has read.  KInv is about just that:  *)
(* what a command has read of a memory is what the tables still hold,      *)
(* unless another process has changed that memory since, and a loop over   *)
(* memories knows the part of the store that it has behind it.  Full text, *)
(* vectors, documents, imports and edits are right because of it.          *)
(*                                                                         *)
(* The last part shows that MemoryStore implements MemoryPromise: each of  *)
(* its steps is one of the promise or changes nothing there.               *)
(***************************************************************************)
EXTENDS MemoryStore, NaturalFacts

\* The memory tables and the counter.
Tables == {"rows", "tags", "links", "anchors", "fts", "vecs", "seq"}

\* The seats of a set of evidence have a bound, so that there is a next one.
BoundedSeats(as) == \E n \in Nat : \A a \in as : a.seat <= n

\* What every transaction preserves: consistent tables, ids and seats that are
\* positive, and room for more evidence of each memory.
Good(d) ==
    /\ DOMAIN d = Tables
    /\ d.seq \in Nat
    /\ \A r \in d.rows : r.id \in MemoryId
    /\ \A a \in d.anchors : a.seat \in MemoryId
    /\ \A i : BoundedSeats({a \in d.anchors : a.id = i})
    /\ Consistent(d)

\* The evidence of one record: one piece per seat.
GoodAnchors(as) ==
    /\ \A a \in as : a.seat \in MemoryId
    /\ \A a, b \in as : a.seat = b.seat => a = b
    /\ BoundedSeats(as)

\* A document, of ours or from elsewhere: one record per id, with good evidence.
GoodDocument(doc) ==
    /\ \A r \in doc : r.id \in MemoryId /\ GoodAnchors(r.anchors) /\ "id" \in DOMAIN r
    /\ \A r, s \in doc : r.id = s.id => r = s

\* What writeRecord adds to each table, counter included.
LEMMA WriteRecordsTables ==
    ASSUME NEW d, DOMAIN d = Tables, NEW recs, NEW n
    PROVE  LET e == [WriteRecords(d, recs) EXCEPT !.seq = n]
           IN  /\ DOMAIN e = Tables
               /\ e.seq = n
               /\ WriteRecords(d, recs).seq = d.seq
               /\ e.rows = d.rows \cup {[id |-> r.id, title |-> r.title, body |-> r.body] : r \in recs}
               /\ e.tags = d.tags \cup UNION {{r.id} \X r.tags : r \in recs}
               /\ e.links = d.links \cup UNION {{r.id} \X r.links : r \in recs}
               /\ e.anchors = d.anchors \cup
                     UNION {{[id |-> r.id, seat |-> a.seat, place |-> a.place,
                              blob |-> a.blob] : a \in r.anchors} : r \in recs}
               /\ e.fts = {f \in d.fts : f.id \notin Ids(recs)}
                             \cup {FtsRow(r.id, r.title, r.body, r.tags) : r \in recs}
               /\ e.vecs = d.vecs
<1> DEFINE m == WriteRecordsUnsearched(d, recs)
           w == [m EXCEPT
                  !.fts = {f \in @ : f.id \notin Ids(recs)}
                            \cup {FtsRow(r.id, r.title, r.body, r.tags) : r \in recs}]
<1>1. /\ DOMAIN m = Tables
      /\ m.rows = d.rows \cup {[id |-> r.id, title |-> r.title, body |-> r.body] : r \in recs}
      /\ m.tags = d.tags \cup UNION {{r.id} \X r.tags : r \in recs}
      /\ m.links = d.links \cup UNION {{r.id} \X r.links : r \in recs}
      /\ m.anchors = d.anchors \cup
             UNION {{[id |-> r.id, seat |-> a.seat, place |-> a.place,
                      blob |-> a.blob] : a \in r.anchors} : r \in recs}
      /\ m.fts = d.fts /\ m.vecs = d.vecs /\ m.seq = d.seq
  BY DEF WriteRecordsUnsearched, Tables
<1> HIDE DEF m
<1>2. /\ DOMAIN w = Tables
      /\ w.rows = m.rows /\ w.tags = m.tags /\ w.links = m.links /\ w.anchors = m.anchors
      /\ w.fts = {f \in d.fts : f.id \notin Ids(recs)}
                    \cup {FtsRow(r.id, r.title, r.body, r.tags) : r \in recs}
      /\ w.vecs = m.vecs /\ w.seq = m.seq
  BY <1>1 DEF Tables
<1>3. WriteRecords(d, recs) = w
  BY DEF WriteRecords, m
<1> HIDE DEF w
<1> DEFINE e == [w EXCEPT !.seq = n]
<1>4. /\ DOMAIN e = Tables /\ e.seq = n
      /\ e.rows = w.rows /\ e.tags = w.tags /\ e.links = w.links /\ e.anchors = w.anchors
      /\ e.fts = w.fts /\ e.vecs = w.vecs
  BY <1>2 DEF Tables
<1> HIDE DEF e
<1>5. e = [WriteRecords(d, recs) EXCEPT !.seq = n]
  BY <1>3 DEF e
<1> QED BY <1>1, <1>2, <1>3, <1>4, <1>5, Zenon

\* Records with ids of their own that no memory has keep the tables good, when the
\* counter is raised to at least the largest of them.
LEMMA WriteRecordsGood ==
    ASSUME NEW d, Good(d), NEW recs, GoodDocument(recs), Ids(recs) \cap Ids(d.rows) = {},
           NEW n \in Nat, d.seq <= n, \A r \in recs : r.id <= n
    PROVE  LET e == [WriteRecords(d, recs) EXCEPT !.seq = n]
           IN  /\ Good(e)
               /\ Ids(e.rows) = Ids(d.rows) \cup Ids(recs)
               /\ e.seq = n
<1> DEFINE e == [WriteRecords(d, recs) EXCEPT !.seq = n]
           row(r) == [id |-> r.id, title |-> r.title, body |-> r.body]
           anchor(r, a) == [id |-> r.id, seat |-> a.seat, place |-> a.place, blob |-> a.blob]
           fts(r) == FtsRow(r.id, r.title, r.body, r.tags)
<1>1. /\ DOMAIN e = Tables /\ e.seq = n
      /\ e.rows = d.rows \cup {row(r) : r \in recs}
      /\ e.tags = d.tags \cup UNION {{r.id} \X r.tags : r \in recs}
      /\ e.links = d.links \cup UNION {{r.id} \X r.links : r \in recs}
      /\ e.anchors = d.anchors \cup UNION {{anchor(r, a) : a \in r.anchors} : r \in recs}
      /\ e.fts = {f \in d.fts : f.id \notin Ids(recs)} \cup {fts(r) : r \in recs}
      /\ e.vecs = d.vecs
  <2>1. DOMAIN d = Tables
    BY DEF Good
  <2> QED BY <2>1, WriteRecordsTables
<1>2. /\ \A r : row(r).id = r.id /\ fts(r).id = r.id
      /\ \A r, a : anchor(r, a).id = r.id /\ anchor(r, a).seat = a.seat
  BY DEF FtsRow
<1>3. \A x \in e.anchors : \/ x \in d.anchors
                           \/ \E r \in recs : \E a \in r.anchors : x = anchor(r, a)
  BY <1>1
<1>4. \A x \in e.tags \cup e.links : x \in d.tags \cup d.links \/ \E r \in recs : x[1] = r.id
  BY <1>1
<1>5. \A x \in e.rows : x \in d.rows \/ \E r \in recs : x = row(r)
  BY <1>1
<1>6. \A x \in e.fts : \/ x \in d.fts /\ x.id \notin Ids(recs)
                       \/ \E r \in recs : x = fts(r)
  BY <1>1
<1>7. Ids(e.rows) = Ids(d.rows) \cup Ids(recs)
  <2>1. \A i \in Ids(recs) : \E r \in recs : i = r.id /\ row(r) \in e.rows
    BY <1>1 DEF Ids
  <2>2. \A x \in d.rows : x \in e.rows
    BY <1>1
  <2> HIDE DEF e
  <2>3. Ids(recs) \subseteq Ids(e.rows)
    <3>1. SUFFICES ASSUME NEW i \in Ids(recs) PROVE i \in Ids(e.rows)
      OBVIOUS
    <3>2. PICK r \in recs : i = r.id /\ row(r) \in e.rows
      BY <2>1
    <3>3. i = row(r).id
      BY <3>2, <1>2
    <3> HIDE DEF row
    <3> QED BY <3>2, <3>3 DEF Ids
  <2>4. Ids(d.rows) \subseteq Ids(e.rows)
    BY <2>2 DEF Ids
  <2>5. Ids(e.rows) \subseteq Ids(d.rows) \cup Ids(recs)
    BY <1>5, <1>2 DEF Ids
  <2> QED BY <2>3, <2>4, <2>5
<1> HIDE DEF e, row, anchor, fts
<1>8. \A r \in recs : r.id \in MemoryId /\ r.id \notin Ids(d.rows) /\ r.id \in Ids(recs) /\ GoodAnchors(r.anchors)
  BY DEF GoodDocument, Ids
<1>9. \A x \in e.rows : x.id \in MemoryId /\ x.id <= n
  BY <1>5, <1>2, <1>8 DEF Good, Consistent, MemoryId
<1>10. \A a \in e.anchors : a.seat \in MemoryId /\ a.id \in Ids(e.rows)
  BY <1>3, <1>2, <1>7, <1>8 DEF Good, Consistent, GoodAnchors
<1>11. \A x \in e.tags \cup e.links : x[1] \in Ids(e.rows)
  BY <1>4, <1>7, <1>8 DEF Good, Consistent
<1>12. \A x, y \in e.rows : x.id = y.id => x = y
  <2>1. SUFFICES ASSUME NEW x \in e.rows, NEW y \in e.rows, x.id = y.id PROVE x = y
    OBVIOUS
  <2>2. \A z \in d.rows : z.id \in Ids(d.rows)
    BY DEF Ids
  <2>3. CASE x \in d.rows /\ y \in d.rows
    BY <2>1, <2>3 DEF Good, Consistent
  <2>4. CASE \E r \in recs : x = row(r)
    BY <2>1, <2>2, <2>4, <1>5, <1>2, <1>8 DEF GoodDocument
  <2>5. CASE \E r \in recs : y = row(r)
    BY <2>1, <2>2, <2>5, <1>5, <1>2, <1>8 DEF GoodDocument
  <2> QED BY <2>3, <2>4, <2>5, <1>5
<1>13. \A x, y \in e.anchors : x.id = y.id /\ x.seat = y.seat => x = y
  <2>1. SUFFICES ASSUME NEW x \in e.anchors, NEW y \in e.anchors, x.id = y.id, x.seat = y.seat
                 PROVE  x = y
    OBVIOUS
  <2>2. \A z \in d.anchors : z.id \in Ids(d.rows)
    BY DEF Good, Consistent
  <2>3. CASE x \in d.anchors /\ y \in d.anchors
    BY <2>1, <2>3 DEF Good, Consistent
  <2>4. CASE \E r \in recs : \E a \in r.anchors : x = anchor(r, a)
    <3>1. PICK r \in recs : \E a \in r.anchors : x = anchor(r, a)
      BY <2>4
    <3>2. PICK a \in r.anchors : x = anchor(r, a)
      BY <3>1
    <3>3. y \notin d.anchors
      BY <2>1, <2>2, <3>2, <1>2, <1>8
    <3>4. PICK s \in recs : \E b \in s.anchors : y = anchor(s, b)
      BY <3>3, <1>3
    <3>5. PICK b \in s.anchors : y = anchor(s, b)
      BY <3>4
    <3>6. r = s
      BY <2>1, <3>2, <3>5, <1>2 DEF GoodDocument
    <3>7. a = b
      BY <2>1, <3>2, <3>5, <3>6, <1>2, <1>8 DEF GoodAnchors
    <3> QED BY <3>2, <3>5, <3>6, <3>7
  <2>5. CASE \E r \in recs : \E a \in r.anchors : y = anchor(r, a)
    <3>1. x \notin d.anchors
      BY <2>1, <2>2, <2>5, <1>2, <1>8
    <3>2. PICK r \in recs : \E a \in r.anchors : x = anchor(r, a)
      BY <3>1, <1>3
    <3>3. PICK a \in r.anchors : x = anchor(r, a)
      BY <3>2
    <3>4. PICK s \in recs : \E b \in s.anchors : y = anchor(s, b)
      BY <2>5
    <3>5. PICK b \in s.anchors : y = anchor(s, b)
      BY <3>4
    <3>6. r = s
      BY <2>1, <3>3, <3>5, <1>2 DEF GoodDocument
    <3>7. a = b
      BY <2>1, <3>3, <3>5, <3>6, <1>2, <1>8 DEF GoodAnchors
    <3> QED BY <3>3, <3>5, <3>6, <3>7
  <2> QED BY <2>3, <2>4, <2>5, <1>3
<1>14. \A i : BoundedSeats({a \in e.anchors : a.id = i})
  <2>1. SUFFICES ASSUME NEW i PROVE BoundedSeats({a \in e.anchors : a.id = i})
    OBVIOUS
  <2>2. CASE i \notin Ids(recs)
    <3>1. {a \in e.anchors : a.id = i} \subseteq {a \in d.anchors : a.id = i}
      BY <2>2, <1>3, <1>2, <1>8
    <3> QED BY <3>1 DEF Good, BoundedSeats
  <2>3. CASE i \in Ids(recs)
    <3>1. PICK r \in recs : r.id = i
      BY <2>3 DEF Ids
    <3>2. PICK m \in Nat : \A a \in r.anchors : a.seat <= m
      BY <1>8 DEF GoodAnchors, BoundedSeats
    <3>3. \A z \in d.anchors : z.id # i
      BY <3>1, <1>8 DEF Good, Consistent
    <3>4. \A x \in e.anchors : x.id = i => x.seat <= m
      <4>1. SUFFICES ASSUME NEW x \in e.anchors, x.id = i PROVE x.seat <= m
        OBVIOUS
      <4>2. PICK s \in recs : \E b \in s.anchors : x = anchor(s, b)
        BY <4>1, <3>3, <1>3
      <4>3. s = r
        BY <4>1, <4>2, <3>1, <1>2 DEF GoodDocument
      <4> QED BY <4>2, <4>3, <3>2, <1>2
    <3> QED BY <3>4 DEF BoundedSeats
  <2> QED BY <2>2, <2>3
<1>15. \A x, y \in e.fts : x.id = y.id => x = y
  <2>1. \A x, y \in d.fts : x.id = y.id => x = y
    BY DEF Good, Consistent
  <2>2. \A r, s \in recs : r.id = s.id => r = s
    BY DEF GoodDocument
  <2> QED BY <2>1, <2>2, <1>6, <1>2, <1>8
<1>16. Ids(e.rows) \subseteq Ids(e.fts)
  <2>1. \A r \in recs : fts(r) \in e.fts
    BY <1>1
  <2>2. Ids(recs) \subseteq Ids(e.fts)
    <3>1. SUFFICES ASSUME NEW r \in recs PROVE r.id \in Ids(e.fts)
      BY DEF Ids
    <3>2. fts(r) \in e.fts /\ fts(r).id = r.id
      BY <2>1, <1>2
    <3> QED BY <3>2 DEF Ids
  <2>3. \A i \in Ids(d.rows) : i \in Ids(d.fts) /\ i \notin Ids(recs)
    BY DEF Good, Consistent
  <2>4. \A f \in d.fts : f.id \notin Ids(recs) => f \in e.fts
    BY <1>1
  <2>5. Ids(d.rows) \subseteq Ids(e.fts)
    BY <2>3, <2>4 DEF Ids
  <2> QED BY <2>2, <2>5, <1>7
<1>17. \A v, w \in e.vecs : v.id = w.id => v = w
  BY <1>1 DEF Good, Consistent
<1>18. Consistent(e)
  BY <1>1, <1>9, <1>10, <1>11, <1>12, <1>13, <1>15, <1>16, <1>17 DEF Consistent
<1>19. Good(e)
  BY <1>1, <1>9, <1>10, <1>14, <1>18 DEF Good
<1> QED BY <1>1, <1>7, <1>19 DEF e

\* Edit's first transaction touches one memory, adds rows only to one that exists, and
\* seats new evidence after the old.
LEMMA ApplyChangeGood ==
    ASSUME NEW d, Good(d), NEW i, NEW title, NEW body, NEW c \in Change, NEW blobs,
           HasRow(d, i, c)
    PROVE  LET e == ApplyChange(d, i, title, body, c, blobs)
           IN  Good(e) /\ Ids(e.rows) = Ids(d.rows) /\ e.seq = d.seq
<1> DEFINE e == ApplyChange(d, i, title, body, c, blobs)
           u == UpdateMemory(d, i, title, body)
           kept == {a \in d.anchors : ~(a.id = i /\ a.place \in c.removePlaces)}
           seats == {0} \cup {a.seat : a \in {b \in kept : b.id = i}}
           last == Max(seats)
           new == {[id |-> i, seat |-> a.seat, place |-> a.place, blob |-> a.blob] :
                      a \in Anchors(last, c.addPlaces, blobs)}
           changed(r) == [id |-> i, title |-> title, body |-> body]
<1>0. DOMAIN d = Tables
  BY DEF Good
<1>1. /\ DOMAIN u = Tables
      /\ u.rows = {r \in d.rows : r.id # i} \cup {changed(r) : r \in {s \in d.rows : s.id = i}}
      /\ u.tags = d.tags /\ u.links = d.links /\ u.anchors = d.anchors
      /\ u.fts = d.fts /\ u.vecs = d.vecs /\ u.seq = d.seq
  BY <1>0 DEF UpdateMemory, Tables
<1> HIDE DEF u
<1>2. /\ DOMAIN e = Tables
      /\ e.rows = u.rows
      /\ e.tags = (d.tags \ ({i} \X c.removeTags)) \cup ({i} \X c.addTags)
      /\ e.links = (d.links \ ({i} \X c.removeLinks)) \cup ({i} \X c.addLinks)
      /\ e.anchors = kept \cup new
      /\ e.fts = d.fts /\ e.vecs = d.vecs /\ e.seq = d.seq
  BY <1>1 DEF ApplyChange, Tables, u
<1>3. PICK n \in Nat : \A a \in d.anchors : a.id = i => a.seat <= n
  <2>1. BoundedSeats({a \in d.anchors : a.id = i})
    BY DEF Good
  <2> QED BY <2>1 DEF BoundedSeats
<1>4. \A a \in kept : a \in d.anchors
  OBVIOUS
<1>5. seats \subseteq Nat /\ seats # {} /\ \A s \in seats : s <= n
  <2>1. \A a \in kept : a.id = i => a.seat \in Nat /\ a.seat <= n
    BY <1>3, <1>4 DEF Good, MemoryId
  <2> HIDE DEF kept
  <2> QED BY <2>1
<1>6. last \in Nat /\ \A a \in kept : a.id = i => a.seat <= last
  <2>1. last \in seats /\ \A s \in seats : s <= last
    <3> HIDE DEF seats
    <3> QED BY <1>5, MaxIsMax
  <2> QED BY <2>1, <1>5
<1>7. PICK len \in Nat : DOMAIN c.addPlaces = 1 .. len
  <2>1. c.addPlaces \in Seq(Place)
    BY DEF Change
  <2> QED BY <2>1
<1> HIDE DEF e, last, seats
<1>8. \A x \in new : \E k \in 1 .. len : x = [id |-> i, seat |-> last + k, place |-> c.addPlaces[k],
                                            blob |-> blobs[c.addPlaces[k]]]
  BY <1>7 DEF Anchors
<1>9. \A x \in new : /\ x.id = i /\ x.seat \in MemoryId
                     /\ last < x.seat /\ x.seat <= last + len
                     /\ \A y \in new : x.seat = y.seat => x = y
  <2>1. SUFFICES ASSUME NEW x \in new
                 PROVE /\ x.id = i /\ x.seat \in MemoryId
                       /\ last < x.seat /\ x.seat <= last + len
                       /\ \A y \in new : x.seat = y.seat => x = y
    OBVIOUS
  <2>2. PICK k \in 1 .. len : x = [id |-> i, seat |-> last + k, place |-> c.addPlaces[k],
                                   blob |-> blobs[c.addPlaces[k]]]
    BY <1>8
  <2> HIDE DEF new
  <2>3. x.id = i /\ x.seat = last + k
    BY <2>2
  <2>4. x.seat \in MemoryId /\ last < x.seat /\ x.seat <= last + len
    BY <2>3, <1>6 DEF MemoryId
  <2>5. ASSUME NEW y \in new, x.seat = y.seat PROVE x = y
    <3>1. PICK m \in 1 .. len : y = [id |-> i, seat |-> last + m, place |-> c.addPlaces[m],
                                     blob |-> blobs[c.addPlaces[m]]]
      BY <1>8
    <3>2. last + k = last + m
      BY <2>3, <2>5, <3>1
    <3>3. k = m
      BY <3>2, <1>6
    <3> QED BY <2>2, <3>1, <3>3
  <2> QED BY <2>3, <2>4, <2>5
<1>10. new = {} \/ i \in Ids(d.rows)
  <2>1. c.addPlaces = <<>> => DOMAIN c.addPlaces = {}
    OBVIOUS
  <2>2. DOMAIN c.addPlaces = {} => Anchors(last, c.addPlaces, blobs) = {}
    BY DEF Anchors
  <2> QED BY <2>1, <2>2 DEF HasRow
<1> HIDE DEF new, kept
<1>11. \A r : changed(r).id = i
  OBVIOUS
<1>12. Ids(e.rows) = Ids(d.rows)
  <2>1. \A r \in d.rows : IF r.id = i THEN changed(r) \in e.rows ELSE r \in e.rows
    BY <1>1, <1>2
  <2>2. \A x \in e.rows : \E r \in d.rows : x.id = r.id
    BY <1>1, <1>2, <1>11
  <2>3. \A r \in d.rows : \E x \in e.rows : x.id = r.id
    BY <2>1, <1>11
  <2> HIDE DEF changed
  <2> QED BY <2>2, <2>3 DEF Ids
<1>13. \A x, y \in e.rows : x.id = y.id => x = y
  <2>1. \A r, s \in d.rows : r.id = s.id => r = s
    BY DEF Good, Consistent
  <2>2. \A x \in e.rows : \/ x \in d.rows /\ x.id # i
                          \/ \E r \in d.rows : r.id = i /\ x = changed(r)
    BY <1>1, <1>2
  <2> HIDE DEF changed
  <2> QED BY <2>1, <2>2, <1>11
<1>14. \A r \in e.rows : r.id \in MemoryId /\ r.id <= e.seq
  <2>1. \A j \in Ids(d.rows) : j \in MemoryId /\ j <= d.seq
    BY DEF Good, Consistent, Ids
  <2> QED BY <2>1, <1>2, <1>12 DEF Ids
<1>15. \A x \in e.tags \cup e.links : x[1] \in Ids(e.rows)
  <2>1. \A x \in d.tags \cup d.links : x[1] \in Ids(d.rows)
    BY DEF Good, Consistent
  <2>2. \A x \in e.tags \cup e.links : x \in d.tags \cup d.links \/ (x[1] = i /\ i \in Ids(d.rows))
    BY <1>2 DEF HasRow
  <2> QED BY <2>1, <2>2, <1>12
<1>16. \A a \in e.anchors : a.id \in Ids(e.rows) /\ a.seat \in MemoryId
  <2>1. \A a \in d.anchors : a.id \in Ids(d.rows) /\ a.seat \in MemoryId
    BY DEF Good, Consistent
  <2> QED BY <2>1, <1>2, <1>4, <1>9, <1>10, <1>12
<1>17. \A a, b \in e.anchors : a.id = b.id /\ a.seat = b.seat => a = b
  <2>1. \A a, b \in d.anchors : a.id = b.id /\ a.seat = b.seat => a = b
    BY DEF Good, Consistent
  <2>2. \A a \in kept, b \in new : ~(a.id = b.id /\ a.seat = b.seat)
    <3>1. SUFFICES ASSUME NEW a \in kept, NEW b \in new, a.id = b.id, a.seat = b.seat PROVE FALSE
      OBVIOUS
    <3>2. a.seat <= last /\ last < b.seat /\ b.seat \in Nat
      BY <3>1, <1>6, <1>9 DEF MemoryId
    <3> QED BY <3>1, <3>2, <1>6
  <2> QED BY <2>1, <2>2, <1>2, <1>4, <1>9
<1>18. \A j : BoundedSeats({a \in e.anchors : a.id = j})
  <2>1. SUFFICES ASSUME NEW j PROVE BoundedSeats({a \in e.anchors : a.id = j})
    OBVIOUS
  <2>2. CASE j = i
    <3>1. \A a \in e.anchors : a.id = i => a.seat <= last + len
      <4>1. \A a \in kept : a.id = i => a.seat <= last + len
        <5>1. \A a \in kept : a.seat \in Nat
          BY <1>4 DEF Good, MemoryId
        <5> QED BY <5>1, <1>6
      <4> QED BY <4>1, <1>2, <1>9
    <3> QED BY <2>2, <3>1, <1>6 DEF BoundedSeats
  <2>3. CASE j # i
    <3>1. {a \in e.anchors : a.id = j} \subseteq {a \in d.anchors : a.id = j}
      BY <2>3, <1>2, <1>4, <1>9
    <3> QED BY <3>1 DEF Good, BoundedSeats
  <2> QED BY <2>2, <2>3
<1>19. Consistent(e)
  BY <1>2, <1>12, <1>13, <1>14, <1>15, <1>16, <1>17 DEF Good, Consistent
<1>20. Good(e)
  BY <1>2, <1>14, <1>16, <1>18, <1>19 DEF Good
<1> QED BY <1>2, <1>12, <1>20 DEF e

\* ReindexMemoryFTS leaves one row for its id and the rows of all others.
LEMMA ReindexGood ==
    ASSUME NEW d, Good(d), NEW row
    PROVE  LET e == ReindexMemoryFTS(d, row)
           IN  Good(e) /\ e.rows = d.rows /\ e.seq = d.seq
<1> DEFINE e == ReindexMemoryFTS(d, row)
<1>1. /\ DOMAIN e = Tables
      /\ e.fts = {f \in d.fts : f.id # row.id} \cup {row}
      /\ e.rows = d.rows /\ e.tags = d.tags /\ e.links = d.links /\ e.anchors = d.anchors
      /\ e.vecs = d.vecs /\ e.seq = d.seq
  BY DEF ReindexMemoryFTS, Good, Tables
<1> HIDE DEF e
<1>2. Ids(d.fts) \subseteq Ids(e.fts)
  BY <1>1 DEF Ids
<1>3. Consistent(e)
  BY <1>1, <1>2 DEF Good, Consistent
<1> QED BY <1>1, <1>3 DEF Good, e

\* DeleteMemory takes everything of its memory and nothing of any other.
LEMMA DeleteMemoryGood ==
    ASSUME NEW d, Good(d), NEW i
    PROVE  LET e == DeleteMemory(d, i)
           IN  Good(e) /\ Ids(e.rows) \subseteq Ids(d.rows) /\ e.seq = d.seq
<1> DEFINE e == DeleteMemory(d, i)
           m == DeleteMemoryKeepVectors(d, i)
<1>1. /\ DOMAIN m = Tables
      /\ m.rows = {r \in d.rows : r.id # i}
      /\ m.tags = {x \in d.tags : x[1] # i} /\ m.links = {x \in d.links : x[1] # i}
      /\ m.anchors = {a \in d.anchors : a.id # i}
      /\ m.fts = {f \in d.fts : f.id # i}
      /\ m.vecs = d.vecs /\ m.seq = d.seq
  BY DEF DeleteMemoryKeepVectors, Good, Tables
<1> HIDE DEF m
<1>2. /\ DOMAIN e = Tables
      /\ e.rows = m.rows /\ e.tags = m.tags /\ e.links = m.links /\ e.anchors = m.anchors
      /\ e.fts = m.fts /\ e.vecs = {v \in d.vecs : v.id # i} /\ e.seq = d.seq
  BY <1>1 DEF DeleteMemory, Tables, m
<1> HIDE DEF e
<1>3. \A j : j \in Ids(e.rows) <=> j \in Ids(d.rows) /\ j # i
  BY <1>1, <1>2 DEF Ids
<1>4. \A j : j \in Ids(e.fts) <=> j \in Ids(d.fts) /\ j # i
  BY <1>1, <1>2 DEF Ids
<1>5. Consistent(e)
  BY <1>1, <1>2, <1>3, <1>4 DEF Good, Consistent
<1>6. \A j : BoundedSeats({a \in e.anchors : a.id = j})
  <2>1. \A j : {a \in e.anchors : a.id = j} \subseteq {a \in d.anchors : a.id = j}
    BY <1>1, <1>2
  <2> QED BY <2>1 DEF Good, BoundedSeats
<1> QED BY <1>1, <1>2, <1>3, <1>5, <1>6 DEF Good, e

\* UpsertVector leaves one vector for its id and the vectors of all others.
LEMMA UpsertVectorGood ==
    ASSUME NEW d, Good(d), NEW i, NEW of
    PROVE  LET e == UpsertVector(d, i, of)
           IN  Good(e) /\ e.rows = d.rows /\ e.seq = d.seq
<1> DEFINE e == UpsertVector(d, i, of)
<1>1. /\ DOMAIN e = Tables
      /\ e.vecs = {v \in d.vecs : v.id # i} \cup {[id |-> i, of |-> of]}
      /\ e.rows = d.rows /\ e.tags = d.tags /\ e.links = d.links /\ e.anchors = d.anchors
      /\ e.fts = d.fts /\ e.seq = d.seq
  BY DEF UpsertVector, Good, Tables
<1> HIDE DEF e
<1>2. \A v, w \in e.vecs : v.id = w.id => v = w
  <2>1. \A v \in e.vecs : (v \in d.vecs /\ v.id # i) \/ v = [id |-> i, of |-> of]
    BY <1>1
  <2> QED BY <2>1 DEF Good, Consistent
<1>3. Consistent(e)
  BY <1>1, <1>2 DEF Good, Consistent
<1> QED BY <1>1, <1>3 DEF Good, e

\* The ids a default import allocates: each record gets one of its own, all above
\* the counter and none above where the counter is left.
LEMMA RenumberedFresh ==
    ASSUME NEW recs, IsFiniteSet(recs), GoodDocument(recs), NEW seq \in Nat
    PROVE  LET new == Renumbered(recs, seq)
           IN  /\ GoodDocument(new)
               /\ \A r \in new : seq < r.id /\ r.id <= seq + Cardinality(recs)
<1> DEFINE upto(r) == {s \in recs : s.id <= r.id}
           rank(r) == Cardinality(upto(r))
           named(r) == [r EXCEPT !.id = seq + rank(r)]
           new == Renumbered(recs, seq)
<1>1. new = {named(r) : r \in recs}
  BY DEF Renumbered
<1>2. \A r \in recs : /\ named(r).id = seq + rank(r) /\ named(r).anchors = r.anchors
                      /\ "id" \in DOMAIN named(r)
  BY DEF GoodDocument
<1>3. Cardinality(recs) \in Nat
  BY FS_CardinalityType
<1>4. \A r \in recs : r.id \in Nat
  BY DEF GoodDocument, MemoryId
<1>5. \A r \in recs : rank(r) \in Nat /\ rank(r) # 0 /\ rank(r) <= Cardinality(recs)
  <2>1. SUFFICES ASSUME NEW r \in recs
                 PROVE rank(r) \in Nat /\ rank(r) # 0 /\ rank(r) <= Cardinality(recs)
    OBVIOUS
  <2>2. upto(r) \in SUBSET recs /\ r \in upto(r)
    BY <1>4
  <2> HIDE DEF upto
  <2>3. IsFiniteSet(upto(r)) /\ Cardinality(upto(r)) <= Cardinality(recs)
    BY <2>2, FS_Subset
  <2>4. Cardinality(upto(r)) \in Nat /\ Cardinality(upto(r)) # 0
    BY <2>2, <2>3, FS_CardinalityType, FS_EmptySet
  <2> QED BY <2>3, <2>4
<1>6. \A r, s \in recs : r.id < s.id => rank(r) # rank(s)
  <2>1. SUFFICES ASSUME NEW r \in recs, NEW s \in recs, r.id < s.id, rank(r) = rank(s) PROVE FALSE
    OBVIOUS
  <2>2. upto(r) \in SUBSET upto(s) /\ s \in upto(s) /\ s \notin upto(r) /\ upto(s) \in SUBSET recs
    BY <2>1, <1>4
  <2> HIDE DEF upto
  <2>3. IsFiniteSet(upto(s))
    BY <2>2, FS_Subset
  <2>4. upto(r) = upto(s)
    BY <2>1, <2>2, <2>3, FS_Subset
  <2> QED BY <2>2, <2>4
<1>7. \A r, s \in recs : rank(r) = rank(s) => r = s
  <2>1. \A r, s \in recs : rank(r) = rank(s) => r.id = s.id
    <3> HIDE DEF rank
    <3> QED BY <1>4, <1>6
  <2> QED BY <2>1 DEF GoodDocument
<1> HIDE DEF rank, upto, new
<1>8. \A r \in new : \E s \in recs : r = named(s) /\ r.id = seq + rank(s) /\ r.anchors = s.anchors
                               /\ "id" \in DOMAIN r
  BY <1>1, <1>2
<1> HIDE DEF named
<1>9. \A r \in new : r.id \in MemoryId /\ seq < r.id /\ r.id <= seq + Cardinality(recs)
  BY <1>3, <1>5, <1>8 DEF MemoryId
<1>10. \A r, s \in new : r.id = s.id => r = s
  <2>1. SUFFICES ASSUME NEW r \in new, NEW s \in new, r.id = s.id PROVE r = s
    OBVIOUS
  <2>2. PICK t \in recs : r = named(t) /\ r.id = seq + rank(t)
    BY <1>8
  <2>3. PICK v \in recs : s = named(v) /\ s.id = seq + rank(v)
    BY <1>8
  <2>4. rank(t) = rank(v)
    BY <2>1, <2>2, <2>3, <1>5
  <2> QED BY <2>2, <2>3, <2>4, <1>7
<1>11. \A r \in new : GoodAnchors(r.anchors) /\ "id" \in DOMAIN r
  BY <1>8 DEF GoodDocument
<1> QED BY <1>9, <1>10, <1>11 DEF GoodDocument, new

\* A default import keeps the tables good and numbers its memories above the counter.
LEMMA ImportFreshGood ==
    ASSUME NEW d, Good(d), NEW doc, IsFiniteSet(doc), GoodDocument(doc), NEW known
    PROVE  LET e == ImportFresh(d, doc, known)
           IN  /\ Good(e) /\ d.seq <= e.seq
               /\ \A i \in Ids(e.rows) : i \in Ids(d.rows) \/ (d.seq < i /\ i <= e.seq)
<1> DEFINE new == NewRecords(doc, known)
           recs == Renumbered(new, d.seq)
           n == d.seq + Cardinality(new)
           e == [WriteRecords(d, recs) EXCEPT !.seq = n]
<1>1. new \in SUBSET doc
  BY DEF NewRecords
<1> HIDE DEF new
<1>2. IsFiniteSet(new) /\ Cardinality(new) \in Nat
  BY <1>1, FS_Subset, FS_CardinalityType
<1>3. GoodDocument(new)
  BY <1>1 DEF GoodDocument
<1>4. d.seq \in Nat
  BY DEF Good
<1>5. /\ GoodDocument(recs)
      /\ \A r \in recs : d.seq < r.id /\ r.id <= n
  BY <1>2, <1>3, <1>4, RenumberedFresh
<1> HIDE DEF recs
<1>6. n \in Nat /\ d.seq <= n
  BY <1>2, <1>4
<1> HIDE DEF n
<1>7. Ids(recs) \cap Ids(d.rows) = {}
  <2>1. \A i \in Ids(recs) : d.seq < i /\ i \in Nat
    BY <1>5 DEF Ids, GoodDocument, MemoryId
  <2>2. \A i \in Ids(d.rows) : i <= d.seq /\ i \in Nat
    BY DEF Ids, Good, Consistent, MemoryId
  <2>3. \A i : ~(i \in Ids(recs) /\ i \in Ids(d.rows))
    BY <2>1, <2>2, <1>4
  <2> QED BY <2>3
<1>8. Good(e) /\ Ids(e.rows) = Ids(d.rows) \cup Ids(recs) /\ e.seq = n
  BY <1>5, <1>6, <1>7, WriteRecordsGood
<1>9. ImportFresh(d, doc, known) = e
  <2>1. WriteRecords(d, recs).seq = d.seq
    BY WriteRecordsTables DEF Good
  <2> QED BY <2>1 DEF ImportFresh, new, recs, n
<1> HIDE DEF e
<1>10. \A i \in Ids(recs) : d.seq < i /\ i <= n
  BY <1>5 DEF Ids
<1> QED BY <1>6, <1>8, <1>9, <1>10

\* A restore whose ids are all free keeps the tables good, and the counter ends up
\* above every id it restored.
LEMMA ImportPreservedGood ==
    ASSUME NEW d, Good(d), NEW doc, IsFiniteSet(doc), GoodDocument(doc), ~Collides(d, doc)
    PROVE  LET e == ImportPreserved(d, doc)
           IN  /\ Good(e) /\ d.seq <= e.seq
               /\ Ids(e.rows) = Ids(d.rows) \cup Ids(doc)
<1> DEFINE ids == {d.seq} \cup Ids(doc)
           n == Max(ids)
           e == [WriteRecords(d, doc) EXCEPT !.seq = n]
<1>1. d.seq \in Nat
  BY DEF Good
<1>2. Ids(doc) \in SUBSET Nat
  BY DEF Ids, GoodDocument, MemoryId
<1>3. IsFiniteSet(Ids(doc))
  <2> DEFINE f == [r \in doc |-> r.id]
  <2>1. Ids(doc) = {f[r] : r \in doc}
    BY DEF Ids
  <2>2. f \in Surjection(doc, Ids(doc))
    BY <2>1 DEF Surjection
  <2> QED BY <2>2, FS_Surjection
<1>4. PICK b \in Nat : \A i \in Ids(doc) : i <= b
  BY <1>2, <1>3, FiniteIsBounded DEF Bounded
<1>5. ids \in SUBSET Nat /\ ids # {} /\ \A i \in ids : i <= b + d.seq
  <2>1. \A i \in Ids(doc) : i \in Nat /\ i <= b
    BY <1>2, <1>4
  <2> QED BY <1>1, <1>2, <2>1
<1>6. n \in Nat /\ \A i \in ids : i <= n
  <2>1. b + d.seq \in Nat
    BY <1>1
  <2> HIDE DEF ids
  <2>2. Max(ids) \in ids /\ \A i \in ids : i <= Max(ids)
    BY <1>5, <2>1, MaxIsMax
  <2> QED BY <2>2, <1>5
<1>7. d.seq <= n /\ \A r \in doc : r.id <= n
  BY <1>6 DEF Ids
<1> HIDE DEF n
<1>8. Good(e) /\ Ids(e.rows) = Ids(d.rows) \cup Ids(doc) /\ e.seq = n
  BY <1>6, <1>7, WriteRecordsGood DEF Collides
<1>9. ImportPreserved(d, doc) = e
  <2>1. WriteRecords(d, doc).seq = d.seq
    BY WriteRecordsTables DEF Good
  <2> QED BY <2>1 DEF ImportPreserved, n, ids
<1> HIDE DEF e
<1> QED BY <1>7, <1>8, <1>9

\* The evidence of a new memory: seats from one to the number of places.
LEMMA NewAnchorsGood ==
    ASSUME NEW places \in Seq(Place), NEW blobs
    PROVE  GoodAnchors(Anchors(0, places, blobs))
<1> DEFINE as == Anchors(0, places, blobs)
           anchor(k) == [seat |-> 0 + k, place |-> places[k], blob |-> blobs[places[k]]]
<1>1. PICK len \in Nat : DOMAIN places = 1 .. len
  OBVIOUS
<1>2. \A x \in as : \E k \in 1 .. len : x = anchor(k)
  <2>1. as = {anchor(k) : k \in DOMAIN places}
    BY Zenon DEF Anchors
  <2> HIDE DEF as, anchor
  <2>2. \A x \in as : \E k \in DOMAIN places : x = anchor(k)
    BY <2>1, Zenon
  <2> QED BY <1>1, <2>2, Zenon
<1>3. \A k \in 1 .. len : anchor(k).seat = 0 + k
  OBVIOUS
<1> HIDE DEF as, anchor
<1>4. \A x \in as : x.seat \in MemoryId /\ x.seat <= len
  <2>1. \A k \in 1 .. len : 0 + k \in MemoryId /\ 0 + k <= len
    BY DEF MemoryId
  <2> QED BY <2>1, <1>2, <1>3, Zenon
<1>5. \A x, y \in as : x.seat = y.seat => x = y
  <2>1. SUFFICES ASSUME NEW x \in as, NEW y \in as, x.seat = y.seat PROVE x = y
    OBVIOUS
  <2>2. PICK k \in 1 .. len : x = anchor(k)
    BY <1>2
  <2>3. PICK m \in 1 .. len : y = anchor(m)
    BY <1>2
  <2>4. 0 + k = 0 + m
    BY <2>1, <2>2, <2>3, <1>3
  <2>5. k = m
    BY <2>4
  <2> QED BY <2>2, <2>3, <2>5
<1>6. GoodAnchors(as)
  BY <1>4, <1>5 DEF GoodAnchors, BoundedSeats
<1> QED BY <1>6 DEF as

\* One memory with an id above the counter: Add.
LEMMA AddGood ==
    ASSUME NEW d, Good(d), NEW rec, GoodDocument({rec}), rec.id = d.seq + 1
    PROVE  LET e == [WriteRecords(d, {rec}) EXCEPT !.seq = d.seq + 1]
           IN  /\ Good(e) /\ e.seq = d.seq + 1
               /\ Ids(e.rows) = Ids(d.rows) \cup {d.seq + 1}
<1>1. d.seq \in Nat
  BY DEF Good
<1> DEFINE i == d.seq + 1
<1>2. i \in Nat /\ d.seq <= i /\ i <= i /\ ~(i <= d.seq)
  BY <1>1
<1> HIDE DEF i
<1>3. rec.id = i
  BY DEF i
<1>4. Ids({rec}) = {i}
  BY <1>3 DEF Ids
<1>5. i \notin Ids(d.rows)
  <2>1. \A j \in Ids(d.rows) : j <= d.seq
    BY DEF Ids, Good, Consistent
  <2> QED BY <2>1, <1>2
<1>6. \A r \in {rec} : r.id <= i
  BY <1>2, <1>3
<1>7. Ids({rec}) \cap Ids(d.rows) = {}
  BY <1>4, <1>5
<1> DEFINE e == [WriteRecords(d, {rec}) EXCEPT !.seq = i]
<1>8. Good(e) /\ Ids(e.rows) = Ids(d.rows) \cup {i} /\ e.seq = i
  <2>1. Good(e) /\ Ids(e.rows) = Ids(d.rows) \cup Ids({rec}) /\ e.seq = i
    BY <1>2, <1>6, <1>7, WriteRecordsGood
  <2> HIDE DEF e
  <2> QED BY <2>1, <1>4
<1> QED BY <1>8 DEF i

\* Documents of other stores are good.
LEMMA DocumentsGood ==
    ASSUME NEW doc \in Documents
    PROVE  IsFiniteSet(doc) /\ GoodDocument(doc)
<1>1. /\ doc \subseteq Record /\ IsFiniteSet(doc)
      /\ \A r, s \in doc : r.id = s.id => r = s
      /\ \A r \in doc : IsFiniteSet(r.anchors)
      /\ \A r \in doc : \A a, b \in r.anchors : a.seat = b.seat => a = b
  BY MemoryAssumption
<1>2. \A r \in doc : r.id \in MemoryId /\ "id" \in DOMAIN r /\ \A a \in r.anchors : a.seat \in MemoryId
  BY <1>1 DEF Record, Anchor
<1>3. ASSUME NEW r \in doc PROVE BoundedSeats(r.anchors)
  <2> DEFINE f == [a \in r.anchors |-> a.seat]
             S == {f[a] : a \in r.anchors}
  <2>1. f \in Surjection(r.anchors, S)
    BY DEF Surjection
  <2>2. IsFiniteSet(S)
    BY <1>1, <2>1, FS_Surjection
  <2>3. S \in SUBSET Nat
    BY <1>2 DEF MemoryId
  <2>4. PICK n \in Nat : \A i \in S : i <= n
    BY <2>2, <2>3, FiniteIsBounded DEF Bounded
  <2>5. \A a \in r.anchors : a.seat \in S
    OBVIOUS
  <2> QED BY <2>4, <2>5 DEF BoundedSeats
<1> QED BY <1>1, <1>2, <1>3 DEF GoodDocument, GoodAnchors

\* The evidence read of a memory of good tables is good.
LEMMA AnchorsOfGood ==
    ASSUME NEW d, Good(d), NEW i
    PROVE  GoodAnchors(AnchorsOf(d, i))
<1>1. \A x \in AnchorsOf(d, i) : \E a \in d.anchors :
          a.id = i /\ x = [seat |-> a.seat, place |-> a.place, blob |-> a.blob]
  BY DEF AnchorsOf
<1>2. \A x, y \in AnchorsOf(d, i) : x.seat = y.seat => x = y
  BY <1>1 DEF Good, Consistent
<1>3. PICK n \in Nat : \A a \in d.anchors : a.id = i => a.seat <= n
  <2>1. BoundedSeats({a \in d.anchors : a.id = i})
    BY DEF Good
  <2> QED BY <2>1 DEF BoundedSeats
<1>4. \A x \in AnchorsOf(d, i) : x.seat \in MemoryId /\ x.seat <= n
  BY <1>1, <1>3 DEF Good
<1> QED BY <1>2, <1>4 DEF GoodAnchors, BoundedSeats

-----------------------------------------------------------------------------
(* What the tables say of one memory, and which of it a statement leaves alone *)

\* The types of the tables.
TablesTyped(d) ==
    /\ DOMAIN d = DOMAIN NoMemories
    /\ d.rows \subseteq [id : MemoryId, title : Text, body : Text]
    /\ d.tags \subseteq MemoryId \X Tag
    /\ d.links \subseteq MemoryId \X Target
    /\ \A a \in d.anchors :
        /\ a.id \in MemoryId
        /\ [seat |-> a.seat, place |-> a.place, blob |-> a.blob] \in Anchor
    /\ d.fts \subseteq [id : MemoryId, title : Text, body : Text, tags : SUBSET Tag]
    /\ d.vecs \subseteq [id : MemoryId, of : [title : Text, body : Text, tags : SUBSET Tag]]
    /\ d.seq \in Nat

\* Two states of the tables hold the same memory under an id, the same full text, the
\* same vector.
SameMemory(d, e, i) ==
    /\ {r \in d.rows : r.id = i} = {r \in e.rows : r.id = i}
    /\ Of(d.tags, i) = Of(e.tags, i)
    /\ Of(d.links, i) = Of(e.links, i)
    /\ AnchorsOf(d, i) = AnchorsOf(e, i)
SameFts(d, e, i) == {f \in d.fts : f.id = i} = {f \in e.fts : f.id = i}
SameVectors(d, e, i) == {v \in d.vecs : v.id = i} = {v \in e.vecs : v.id = i}

\* A statement about the memories in ids changes nothing of any other.
ChangesOnly(d, e, ids) ==
    \A i : i \notin ids => SameMemory(d, e, i) /\ SameFts(d, e, i) /\ SameVectors(d, e, i)

\* The full text under an id is that of its memory.
FtsFits(d, i) == {f \in d.fts : f.id = i} = FtsRowsOf(d, i)

\* The tables hold these records, with their full text.
Hold(d, recs) == \A r \in recs : Stored(d, r.id) = {r} /\ FtsFits(d, r.id)

\* A memory's part of a table of pairs.
LEMMA OfPairs ==
    ASSUME NEW P, NEW i
    PROVE  /\ \A t : t \in Of(P, i) <=> \E x \in P : x[1] = i /\ x[2] = t
           /\ \A A, B : P \subseteq A \X B => Of(P, i) \subseteq B
BY DEF Of

\* It depends on the pairs of that memory only.
LEMMA OfSame ==
    ASSUME NEW P, NEW Q, NEW i, \A x : x[1] = i => (x \in P <=> x \in Q)
    PROVE  Of(P, i) = Of(Q, i)
<1>1. {x \in P : x[1] = i} = {x \in Q : x[1] = i}
  OBVIOUS
<1> QED BY <1>1 DEF Of

\* It is what the pairs of that memory list.
LEMMA OfIs ==
    ASSUME NEW P, NEW i, NEW T, \A x \in P : x[1] = i => x[2] \in T, \A t \in T : <<i, t>> \in P
    PROVE  Of(P, i) = T
<1>1. \A t \in T : <<i, t>> \in {x \in P : x[1] = i} /\ <<i, t>>[2] = t
  OBVIOUS
<1>2. T \subseteq Of(P, i)
  BY <1>1 DEF Of
<1>3. Of(P, i) \subseteq T
  BY DEF Of
<1> QED BY <1>2, <1>3

\* The same memory is the same record of an export, or none in both.
LEMMA SameStored ==
    ASSUME NEW d, NEW e, NEW i, SameMemory(d, e, i)
    PROVE  /\ Stored(d, i) = Stored(e, i)
           /\ i \in Ids(d.rows) <=> i \in Ids(e.rows)
<1>1. i \in Ids(d.rows) <=> {r \in d.rows : r.id = i} # {}
  BY DEF Ids
<1>2. i \in Ids(e.rows) <=> {r \in e.rows : r.id = i} # {}
  BY DEF Ids
<1>3. Stored(d, i) = Stored(e, i)
  BY DEF SameMemory, Stored
<1> QED BY <1>1, <1>2, <1>3 DEF SameMemory

\* A memory that is there is one record, one that is not is none.
LEMMA StoredIsOne ==
    ASSUME NEW d, Good(d), NEW i
    PROVE  /\ \A row \in d.rows : row.id = i =>
                Stored(d, i) = {[id |-> i, title |-> row.title, body |-> row.body,
                                 tags |-> Of(d.tags, i), links |-> Of(d.links, i),
                                 anchors |-> AnchorsOf(d, i)]}
           /\ i \notin Ids(d.rows) => Stored(d, i) = {}
           /\ \A x \in Stored(d, i) : x.id = i
<1>1. ASSUME NEW row \in d.rows, row.id = i
      PROVE  {s \in d.rows : s.id = i} = {row}
  BY <1>1 DEF Good, Consistent
<1>2. i \notin Ids(d.rows) => {s \in d.rows : s.id = i} = {}
  BY DEF Ids
<1> QED BY <1>1, <1>2 DEF Stored

\* What a memory is stored as has the type of a record in a document.
LEMMA StoredTyped ==
    ASSUME NEW d, Good(d), TablesTyped(d), NEW i
    PROVE  Stored(d, i) \subseteq Record
<1>1. SUFFICES ASSUME NEW row \in d.rows, row.id = i PROVE Stored(d, i) \subseteq Record
  BY StoredIsOne DEF Ids
<1>2. Of(d.tags, i) \subseteq Tag /\ Of(d.links, i) \subseteq Target
  BY OfPairs DEF TablesTyped
<1>3. AnchorsOf(d, i) \subseteq Anchor
  BY DEF AnchorsOf, TablesTyped
<1>4. row.title \in Text /\ row.body \in Text /\ i \in MemoryId
  BY <1>1 DEF TablesTyped
<1>5. Stored(d, i) = {[id |-> i, title |-> row.title, body |-> row.body,
                       tags |-> Of(d.tags, i), links |-> Of(d.links, i),
                       anchors |-> AnchorsOf(d, i)]}
  BY <1>1, StoredIsOne
<1> QED BY <1>2, <1>3, <1>4, <1>5 DEF Record

\* Full text fits its memory as long as neither changes.
LEMMA FitsStays ==
    ASSUME NEW d, NEW e, NEW i, SameMemory(d, e, i), SameFts(d, e, i), FtsFits(d, i)
    PROVE  FtsFits(e, i)
BY SameStored DEF FtsFits, SameFts, FtsRowsOf

\* writeRecord stores exactly the record under its id, searchable, and changes no other
\* memory: nothing of a removed memory is left where a new one gets its id.
LEMMA WriteRecordsStore ==
    ASSUME NEW d, Good(d), TablesTyped(d), NEW recs \in SUBSET Record, GoodDocument(recs),
           Ids(recs) \cap Ids(d.rows) = {}, NEW n \in Nat,
           Good([WriteRecords(d, recs) EXCEPT !.seq = n])
    PROVE  LET e == [WriteRecords(d, recs) EXCEPT !.seq = n]
           IN  /\ ChangesOnly(d, e, Ids(recs))
               /\ Hold(e, recs)
               /\ TablesTyped(e)
               /\ e.vecs = d.vecs
<1> DEFINE e == [WriteRecords(d, recs) EXCEPT !.seq = n]
           row(r) == [id |-> r.id, title |-> r.title, body |-> r.body]
           anchor(r, a) == [id |-> r.id, seat |-> a.seat, place |-> a.place, blob |-> a.blob]
           fts(r) == FtsRow(r.id, r.title, r.body, r.tags)
           short(a) == [seat |-> a.seat, place |-> a.place, blob |-> a.blob]
<1>1. /\ DOMAIN e = Tables /\ e.seq = n
      /\ e.rows = d.rows \cup {row(r) : r \in recs}
      /\ e.tags = d.tags \cup UNION {{r.id} \X r.tags : r \in recs}
      /\ e.links = d.links \cup UNION {{r.id} \X r.links : r \in recs}
      /\ e.anchors = d.anchors \cup UNION {{anchor(r, a) : a \in r.anchors} : r \in recs}
      /\ e.fts = {f \in d.fts : f.id \notin Ids(recs)} \cup {fts(r) : r \in recs}
      /\ e.vecs = d.vecs
  <2>1. DOMAIN d = Tables
    BY DEF Good
  <2> QED BY <2>1, WriteRecordsTables
<1>2. Good(e)
  OBVIOUS
<1> HIDE DEF e
<1>3. /\ \A r : row(r).id = r.id /\ fts(r).id = r.id
      /\ \A r, a : /\ anchor(r, a).id = r.id
                   /\ short(anchor(r, a)) = short(a)
  BY DEF FtsRow
<1>4. \A r \in recs : /\ r.id \in MemoryId /\ r.title \in Text /\ r.body \in Text
                      /\ r.tags \subseteq Tag /\ r.links \subseteq Target
                      /\ r.anchors \subseteq Anchor
                      /\ r.id \in Ids(recs) /\ r.id \notin Ids(d.rows)
                      /\ r = [id |-> r.id, title |-> r.title, body |-> r.body,
                              tags |-> r.tags, links |-> r.links, anchors |-> r.anchors]
  BY DEF Record, Ids
<1>5. \A r, s \in recs : r.id = s.id => r = s
  BY DEF GoodDocument
<1>6. \A r \in recs : \A a \in r.anchors : short(a) = a /\ short(a) \in Anchor
  BY <1>4 DEF Anchor
<1>7. \A i \in Ids(recs) : \E r \in recs : r.id = i
  BY DEF Ids
<1> HIDE DEF row, anchor, fts, short
<1>8. /\ \A x \in e.rows : x \in d.rows \/ \E r \in recs : x = row(r)
      /\ \A x \in e.tags : x \in d.tags \/ \E r \in recs : x[1] = r.id /\ x[2] \in r.tags /\ x \in {r.id} \X r.tags
      /\ \A x \in e.links : x \in d.links \/ \E r \in recs : x[1] = r.id /\ x[2] \in r.links /\ x \in {r.id} \X r.links
      /\ \A x \in e.anchors : x \in d.anchors \/ \E r \in recs : \E a \in r.anchors : x = anchor(r, a)
      /\ \A x \in e.fts : (x \in d.fts /\ x.id \notin Ids(recs)) \/ \E r \in recs : x = fts(r)
  BY <1>1
<1>9. /\ d.rows \subseteq e.rows /\ d.tags \subseteq e.tags /\ d.links \subseteq e.links
      /\ d.anchors \subseteq e.anchors
      /\ \A x \in d.fts : x.id \notin Ids(recs) => x \in e.fts
  BY <1>1
<1>10. /\ \A r \in recs : row(r) \in e.rows /\ fts(r) \in e.fts
       /\ \A r \in recs : \A t \in r.tags : <<r.id, t>> \in e.tags
       /\ \A r \in recs : \A t \in r.links : <<r.id, t>> \in e.links
       /\ \A r \in recs : \A a \in r.anchors : anchor(r, a) \in e.anchors
  BY <1>1
<1>11. ASSUME NEW i, i \notin Ids(recs)
       PROVE  SameMemory(d, e, i) /\ SameFts(d, e, i) /\ SameVectors(d, e, i)
  <2>1. {x \in d.rows : x.id = i} = {x \in e.rows : x.id = i}
    BY <1>11, <1>3, <1>4, <1>8, <1>9
  <2>2. Of(d.tags, i) = Of(e.tags, i)
    <3>1. \A x : x[1] = i => (x \in d.tags <=> x \in e.tags)
      BY <1>11, <1>4, <1>8, <1>9
    <3> QED BY <3>1, OfSame
  <2>3. Of(d.links, i) = Of(e.links, i)
    <3>1. \A x : x[1] = i => (x \in d.links <=> x \in e.links)
      BY <1>11, <1>4, <1>8, <1>9
    <3> QED BY <3>1, OfSame
  <2>4. {a \in d.anchors : a.id = i} = {a \in e.anchors : a.id = i}
    BY <1>11, <1>3, <1>4, <1>8, <1>9
  <2>5. {x \in d.fts : x.id = i} = {x \in e.fts : x.id = i}
    BY <1>11, <1>3, <1>4, <1>8, <1>9
  <2>6. AnchorsOf(d, i) = AnchorsOf(e, i)
    BY <2>4 DEF AnchorsOf
  <2> QED BY <2>1, <2>2, <2>3, <2>5, <2>6, <1>1 DEF SameMemory, SameFts, SameVectors
<1>12. ASSUME NEW r \in recs PROVE Stored(e, r.id) = {r} /\ FtsFits(e, r.id)
  <2>1. row(r) \in e.rows /\ row(r).id = r.id /\ row(r).title = r.title /\ row(r).body = r.body
    BY <1>10, <1>3 DEF row
  <2>2. Of(e.tags, r.id) = r.tags
    <3>1. \A x \in e.tags : x[1] = r.id => x[2] \in r.tags
      BY <1>4, <1>5, <1>8 DEF Good, Consistent
    <3>2. \A t \in r.tags : <<r.id, t>> \in e.tags
      BY <1>10
    <3> QED BY <3>1, <3>2, OfIs
  <2>3. Of(e.links, r.id) = r.links
    <3>1. \A x \in e.links : x[1] = r.id => x[2] \in r.links
      BY <1>4, <1>5, <1>8 DEF Good, Consistent
    <3>2. \A t \in r.links : <<r.id, t>> \in e.links
      BY <1>10
    <3> QED BY <3>1, <3>2, OfIs
  <2>4. AnchorsOf(e, r.id) = r.anchors
    <3>1. AnchorsOf(e, r.id) = {short(x) : x \in {y \in e.anchors : y.id = r.id}}
      BY DEF AnchorsOf, short
    <3>2. ASSUME NEW x \in e.anchors, x.id = r.id PROVE \E a \in r.anchors : x = anchor(r, a)
      <4>1. x \notin d.anchors
        BY <1>4, <3>2 DEF Good, Consistent
      <4>2. PICK s \in recs : \E a \in s.anchors : x = anchor(s, a)
        BY <1>8, <4>1
      <4>3. s = r
        BY <4>2, <1>3, <1>5, <3>2
      <4> QED BY <4>2, <4>3
    <3>3. \A x \in e.anchors : x.id = r.id => short(x) \in r.anchors
      BY <3>2, <1>3, <1>6
    <3>4. \A a \in r.anchors : /\ anchor(r, a) \in {y \in e.anchors : y.id = r.id}
                               /\ short(anchor(r, a)) = a
      BY <1>3, <1>6, <1>10
    <3> QED BY <3>1, <3>3, <3>4
  <2>5. Stored(e, r.id) = {r}
    <3>1. Stored(e, r.id) = {[id |-> r.id, title |-> r.title, body |-> r.body,
                              tags |-> r.tags, links |-> r.links, anchors |-> r.anchors]}
      BY <2>1, <2>2, <2>3, <2>4, <1>2, StoredIsOne
    <3> QED BY <3>1, <1>4
  <2>6. {f \in e.fts : f.id = r.id} = {fts(r)}
    BY <1>3, <1>4, <1>5, <1>8, <1>10
  <2>7. FtsRowsOf(e, r.id) = {fts(r)}
    BY <2>5 DEF FtsRowsOf, fts
  <2> QED BY <2>5, <2>6, <2>7 DEF FtsFits
<1>13. TablesTyped(e)
  <2>1. \A r \in recs : row(r) \in [id : MemoryId, title : Text, body : Text]
    BY <1>4 DEF row
  <2>2. \A r \in recs : fts(r) \in [id : MemoryId, title : Text, body : Text, tags : SUBSET Tag]
    BY <1>4 DEF fts, FtsRow
  <2>3. \A r \in recs : \A a \in r.anchors :
           anchor(r, a).id \in MemoryId /\ short(anchor(r, a)) \in Anchor
    BY <1>4, <1>3, <1>6
  <2>4. e.rows \subseteq [id : MemoryId, title : Text, body : Text]
    BY <1>8, <2>1 DEF TablesTyped
  <2>5. e.tags \subseteq MemoryId \X Tag
    <3>1. \A r \in recs : {r.id} \X r.tags \subseteq MemoryId \X Tag
      BY <1>4
    <3> QED BY <3>1, <1>8 DEF TablesTyped
  <2>6. e.links \subseteq MemoryId \X Target
    <3>1. \A r \in recs : {r.id} \X r.links \subseteq MemoryId \X Target
      BY <1>4
    <3> QED BY <3>1, <1>8 DEF TablesTyped
  <2>7. e.fts \subseteq [id : MemoryId, title : Text, body : Text, tags : SUBSET Tag]
    BY <1>8, <2>2 DEF TablesTyped
  <2>8. \A a \in e.anchors : a.id \in MemoryId /\ short(a) \in Anchor
    <3>1. \A a \in d.anchors : a.id \in MemoryId /\ short(a) \in Anchor
      BY DEF TablesTyped, short
    <3> QED BY <1>8, <2>3, <3>1
  <2>9. DOMAIN e = DOMAIN NoMemories
    BY <1>1 DEF NoMemories, Tables
  <2> QED BY <1>1, <2>4, <2>5, <2>6, <2>7, <2>8, <2>9 DEF TablesTyped, short
<1>14. Hold(e, recs)
  BY <1>12 DEF Hold
<1> QED BY <1>1, <1>11, <1>13, <1>14 DEF ChangesOnly, e

\* Edit's first transaction changes its own memory only, and of that the title and the
\* body to what it was given.
LEMMA ApplyChangeStore ==
    ASSUME NEW d, Good(d), TablesTyped(d), NEW i \in MemoryId, NEW title \in Text,
           NEW body \in Text, NEW c \in Change, NEW blobs \in [Place -> Blob \cup {NoBlob}],
           HasRow(d, i, c)
    PROVE  LET e == ApplyChange(d, i, title, body, c, blobs)
           IN  /\ ChangesOnly(d, e, {i})
               /\ TablesTyped(e)
               /\ Ids(e.rows) = Ids(d.rows)
               /\ e.vecs = d.vecs
               /\ \A r \in e.rows : r.id = i => r.title = title /\ r.body = body
<1> DEFINE e == ApplyChange(d, i, title, body, c, blobs)
           u == UpdateMemory(d, i, title, body)
           kept == {a \in d.anchors : ~(a.id = i /\ a.place \in c.removePlaces)}
           last == Max({0} \cup {a.seat : a \in {b \in kept : b.id = i}})
           new == {[id |-> i, seat |-> a.seat, place |-> a.place, blob |-> a.blob] :
                      a \in Anchors(last, c.addPlaces, blobs)}
           changed == [id |-> i, title |-> title, body |-> body]
<1>0. DOMAIN d = Tables
  BY DEF Good
<1>1. /\ DOMAIN u = Tables
      /\ u.rows = {r \in d.rows : r.id # i} \cup {changed : r \in {s \in d.rows : s.id = i}}
      /\ u.tags = d.tags /\ u.links = d.links /\ u.anchors = d.anchors
      /\ u.fts = d.fts /\ u.vecs = d.vecs /\ u.seq = d.seq
  BY <1>0 DEF UpdateMemory, Tables
<1> HIDE DEF u
<1>2. /\ DOMAIN e = Tables
      /\ e.rows = u.rows
      /\ e.tags = (d.tags \ ({i} \X c.removeTags)) \cup ({i} \X c.addTags)
      /\ e.links = (d.links \ ({i} \X c.removeLinks)) \cup ({i} \X c.addLinks)
      /\ e.anchors = kept \cup new
      /\ e.fts = d.fts /\ e.vecs = d.vecs /\ e.seq = d.seq
  BY <1>1 DEF ApplyChange, Tables, u
<1>3. Good(e) /\ Ids(e.rows) = Ids(d.rows)
  BY ApplyChangeGood
<1> HIDE DEF e, last
<1>4. \A x \in new : x.id = i /\ x.place \in Place /\ x.blob \in Blob \cup {NoBlob}
  <2>1. c.addPlaces \in Seq(Place)
    BY DEF Change
  <2>2. \A k \in DOMAIN c.addPlaces : c.addPlaces[k] \in Place
    BY <2>1
  <2>3. \A a \in Anchors(last, c.addPlaces, blobs) : a.place \in Place /\ a.blob \in Blob \cup {NoBlob}
    BY <2>2 DEF Anchors
  <2> QED BY <2>3
<1>5. c.addTags \subseteq Tag /\ c.addLinks \subseteq Target
  BY DEF Change
<1> HIDE DEF new
<1>6. \A x \in e.rows : (x \in d.rows /\ x.id # i) \/ x = changed
  BY <1>1, <1>2
<1>7. \A x \in d.rows : x.id # i => x \in e.rows
  BY <1>1, <1>2
<1>8. changed.id = i /\ changed.title = title /\ changed.body = body
      /\ changed \in [id : MemoryId, title : Text, body : Text]
  OBVIOUS
<1> HIDE DEF changed
<1>9. ASSUME NEW j, j # i PROVE SameMemory(d, e, j) /\ SameFts(d, e, j) /\ SameVectors(d, e, j)
  <2>1. {x \in d.rows : x.id = j} = {x \in e.rows : x.id = j}
    BY <1>9, <1>6, <1>7, <1>8
  <2>2. Of(d.tags, j) = Of(e.tags, j)
    <3>1. \A x : x[1] = j => (x \in d.tags <=> x \in e.tags)
      BY <1>9, <1>2
    <3> QED BY <3>1, OfSame
  <2>3. Of(d.links, j) = Of(e.links, j)
    <3>1. \A x : x[1] = j => (x \in d.links <=> x \in e.links)
      BY <1>9, <1>2
    <3> QED BY <3>1, OfSame
  <2>4. {a \in d.anchors : a.id = j} = {a \in e.anchors : a.id = j}
    BY <1>9, <1>2, <1>4
  <2>5. AnchorsOf(d, j) = AnchorsOf(e, j)
    BY <2>4 DEF AnchorsOf
  <2> QED BY <2>1, <2>2, <2>3, <2>5, <1>2 DEF SameMemory, SameFts, SameVectors
<1>10. TablesTyped(e)
  <2>1. e.rows \subseteq [id : MemoryId, title : Text, body : Text]
    BY <1>6, <1>8 DEF TablesTyped
  <2>2. e.tags \subseteq MemoryId \X Tag /\ e.links \subseteq MemoryId \X Target
    BY <1>2, <1>5 DEF TablesTyped
  <2>3. \A a \in e.anchors : /\ a.id \in MemoryId
                             /\ [seat |-> a.seat, place |-> a.place, blob |-> a.blob] \in Anchor
    <3>1. \A a \in e.anchors : a.seat \in MemoryId
      BY <1>3 DEF Good
    <3>2. \A a \in e.anchors : a.id \in MemoryId /\ a.place \in Place /\ a.blob \in Blob \cup {NoBlob}
      <4>1. \A a \in d.anchors : a.id \in MemoryId /\ a.place \in Place /\ a.blob \in Blob \cup {NoBlob}
        BY DEF TablesTyped, Anchor
      <4> QED BY <4>1, <1>2, <1>4
    <3> QED BY <3>1, <3>2 DEF Anchor
  <2>4. DOMAIN e = DOMAIN NoMemories
    BY <1>2 DEF NoMemories, Tables
  <2> QED BY <2>1, <2>2, <2>3, <2>4, <1>2 DEF TablesTyped
<1>11. \A r \in e.rows : r.id = i => r.title = title /\ r.body = body
  BY <1>6, <1>8
<1> QED BY <1>2, <1>3, <1>9, <1>10, <1>11 DEF ChangesOnly, e

\* ReindexMemoryFTS changes one row of full text.
LEMMA ReindexStore ==
    ASSUME NEW d, Good(d), TablesTyped(d), NEW i \in MemoryId, NEW title \in Text,
           NEW body \in Text, NEW tags \in SUBSET Tag
    PROVE  LET row == FtsRow(i, title, body, tags)
               e == ReindexMemoryFTS(d, row)
           IN  /\ \A j : SameMemory(d, e, j) /\ SameVectors(d, e, j)
               /\ ChangesOnly(d, e, {i})
               /\ TablesTyped(e)
               /\ {f \in e.fts : f.id = i} = {row}
<1> DEFINE row == FtsRow(i, title, body, tags)
           e == ReindexMemoryFTS(d, row)
<1>1. row.id = i /\ row \in [id : MemoryId, title : Text, body : Text, tags : SUBSET Tag]
  BY DEF FtsRow
<1> HIDE DEF row
<1>2. /\ DOMAIN e = Tables
      /\ e.fts = {f \in d.fts : f.id # row.id} \cup {row}
      /\ e.rows = d.rows /\ e.tags = d.tags /\ e.links = d.links /\ e.anchors = d.anchors
      /\ e.vecs = d.vecs /\ e.seq = d.seq
  BY DEF ReindexMemoryFTS, Good, Tables
<1> HIDE DEF e
<1>3. \A j : SameMemory(d, e, j) /\ SameVectors(d, e, j)
  BY <1>2 DEF SameMemory, SameVectors, AnchorsOf
<1>4. \A j : j # i => SameFts(d, e, j)
  BY <1>1, <1>2 DEF SameFts
<1>5. TablesTyped(e)
  BY <1>1, <1>2 DEF TablesTyped, NoMemories, Tables
<1>6. {f \in e.fts : f.id = i} = {row}
  BY <1>1, <1>2
<1> QED BY <1>3, <1>4, <1>5, <1>6 DEF ChangesOnly, e, row

\* DeleteMemory leaves nothing under the id and changes no other memory.
LEMMA DeleteMemoryStore ==
    ASSUME NEW d, Good(d), TablesTyped(d), NEW i
    PROVE  LET e == DeleteMemory(d, i)
           IN  /\ ChangesOnly(d, e, {i})
               /\ TablesTyped(e)
               /\ i \notin Ids(e.rows) /\ i \notin Ids(e.vecs) /\ i \notin Ids(e.fts)
<1> DEFINE e == DeleteMemory(d, i)
           m == DeleteMemoryKeepVectors(d, i)
<1>1. /\ DOMAIN m = Tables
      /\ m.rows = {r \in d.rows : r.id # i}
      /\ m.tags = {x \in d.tags : x[1] # i} /\ m.links = {x \in d.links : x[1] # i}
      /\ m.anchors = {a \in d.anchors : a.id # i}
      /\ m.fts = {f \in d.fts : f.id # i}
      /\ m.vecs = d.vecs /\ m.seq = d.seq
  BY DEF DeleteMemoryKeepVectors, Good, Tables
<1> HIDE DEF m
<1>2. /\ DOMAIN e = Tables
      /\ e.rows = m.rows /\ e.tags = m.tags /\ e.links = m.links /\ e.anchors = m.anchors
      /\ e.fts = m.fts /\ e.vecs = {v \in d.vecs : v.id # i} /\ e.seq = d.seq
  BY <1>1 DEF DeleteMemory, Tables, m
<1> HIDE DEF e
<1>3. ASSUME NEW j, j # i PROVE SameMemory(d, e, j) /\ SameFts(d, e, j) /\ SameVectors(d, e, j)
  <2>1. {x \in d.rows : x.id = j} = {x \in e.rows : x.id = j}
    BY <1>1, <1>2, <1>3
  <2>2. Of(d.tags, j) = Of(e.tags, j)
    <3>1. \A x : x[1] = j => (x \in d.tags <=> x \in e.tags)
      BY <1>1, <1>2, <1>3
    <3> QED BY <3>1, OfSame
  <2>3. Of(d.links, j) = Of(e.links, j)
    <3>1. \A x : x[1] = j => (x \in d.links <=> x \in e.links)
      BY <1>1, <1>2, <1>3
    <3> QED BY <3>1, OfSame
  <2>4. {a \in d.anchors : a.id = j} = {a \in e.anchors : a.id = j}
    BY <1>1, <1>2, <1>3
  <2>5. AnchorsOf(d, j) = AnchorsOf(e, j)
    BY <2>4 DEF AnchorsOf
  <2>6. SameFts(d, e, j) /\ SameVectors(d, e, j)
    BY <1>1, <1>2, <1>3 DEF SameFts, SameVectors
  <2> QED BY <2>1, <2>2, <2>3, <2>5, <2>6 DEF SameMemory
<1>4. TablesTyped(e)
  BY <1>1, <1>2 DEF TablesTyped, NoMemories, Tables
<1>5. i \notin Ids(e.rows) /\ i \notin Ids(e.vecs) /\ i \notin Ids(e.fts)
  BY <1>1, <1>2 DEF Ids
<1> QED BY <1>3, <1>4, <1>5 DEF ChangesOnly, e

\* UpsertVector changes one vector.
LEMMA UpsertVectorStore ==
    ASSUME NEW d, Good(d), TablesTyped(d), NEW i \in MemoryId,
           NEW of \in [title : Text, body : Text, tags : SUBSET Tag]
    PROVE  LET e == UpsertVector(d, i, of)
           IN  /\ \A j : SameMemory(d, e, j) /\ SameFts(d, e, j)
               /\ \A j : j # i => SameVectors(d, e, j)
               /\ TablesTyped(e)
               /\ [id |-> i, of |-> of] \in e.vecs
               /\ \A v \in e.vecs : v \in d.vecs \/ v.id = i
<1> DEFINE e == UpsertVector(d, i, of)
           vec == [id |-> i, of |-> of]
<1>1. /\ DOMAIN e = Tables
      /\ e.vecs = {v \in d.vecs : v.id # i} \cup {vec}
      /\ e.rows = d.rows /\ e.tags = d.tags /\ e.links = d.links /\ e.anchors = d.anchors
      /\ e.fts = d.fts /\ e.seq = d.seq
  BY DEF UpsertVector, Good, Tables
<1> HIDE DEF e
<1>2. vec.id = i /\ vec \in [id : MemoryId, of : [title : Text, body : Text, tags : SUBSET Tag]]
  OBVIOUS
<1> HIDE DEF vec
<1>3. \A j : SameMemory(d, e, j) /\ SameFts(d, e, j)
  BY <1>1 DEF SameMemory, SameFts, AnchorsOf
<1>4. \A j : j # i => SameVectors(d, e, j)
  BY <1>1, <1>2 DEF SameVectors
<1>5. TablesTyped(e)
  BY <1>1, <1>2 DEF TablesTyped, NoMemories, Tables
<1>6. vec \in e.vecs /\ \A v \in e.vecs : v \in d.vecs \/ v.id = i
  BY <1>1, <1>2
<1> QED BY <1>3, <1>4, <1>5, <1>6 DEF e, vec

\* Two records say the same but for their ids.
SameButId(r, s) ==
    /\ r.title = s.title /\ r.body = s.body /\ r.tags = s.tags /\ r.links = s.links
    /\ r.anchors = s.anchors

\* A default import stores the records it has not seen, renumbered, and touches nothing
\* else.
LEMMA ImportFreshStore ==
    ASSUME NEW d, Good(d), TablesTyped(d), NEW doc \in SUBSET Record, IsFiniteSet(doc),
           GoodDocument(doc), NEW known
    PROVE  LET e == ImportFresh(d, doc, known)
               new == NewRecords(doc, known)
               recs == Renumbered(new, d.seq)
           IN  /\ ChangesOnly(d, e, Ids(e.rows) \ Ids(d.rows))
               /\ Ids(e.rows) \ Ids(d.rows) = Ids(recs)
               /\ Ids(d.rows) \subseteq Ids(e.rows)
               /\ Hold(e, recs)
               /\ \A x \in recs : \E r \in new : SameButId(x, r)
               /\ \A r \in new : \E x \in recs : SameButId(x, r)
               /\ \A x, y \in recs : x # y =>
                     \E r, s \in new : r # s /\ SameButId(x, r) /\ SameButId(y, s)
               /\ TablesTyped(e)
               /\ e.vecs = d.vecs
<1> DEFINE new == NewRecords(doc, known)
           recs == Renumbered(new, d.seq)
           n == d.seq + Cardinality(new)
           e == [WriteRecords(d, recs) EXCEPT !.seq = n]
           rank(r) == d.seq + Cardinality({s \in new : s.id <= r.id})
           named(r) == [r EXCEPT !.id = rank(r)]
<1>1. new \in SUBSET doc
  BY DEF NewRecords
<1> HIDE DEF new
<1>2. IsFiniteSet(new) /\ Cardinality(new) \in Nat
  BY <1>1, FS_Subset, FS_CardinalityType
<1>3. GoodDocument(new)
  BY <1>1 DEF GoodDocument
<1>4. d.seq \in Nat
  BY DEF Good
<1>5. /\ GoodDocument(recs)
      /\ \A r \in recs : d.seq < r.id /\ r.id <= n
  BY <1>2, <1>3, <1>4, RenumberedFresh
<1>6. recs = {named(r) : r \in new}
  BY DEF Renumbered
<1> HIDE DEF recs, rank
<1>7. \A r \in new : /\ SameButId(named(r), r)
                     /\ named(r) = [id |-> rank(r), title |-> r.title, body |-> r.body,
                                    tags |-> r.tags, links |-> r.links, anchors |-> r.anchors]
  BY <1>1 DEF SameButId, Record
<1>8. \A r \in new : named(r) \in Record
  <2>1. \A r \in new : named(r).id \in MemoryId
    BY <1>5, <1>6 DEF GoodDocument
  <2>2. \A r \in new : rank(r) \in MemoryId
    BY <2>1, <1>7
  <2> QED BY <2>2, <1>1, <1>7 DEF Record
<1>9. n \in Nat /\ d.seq <= n
  BY <1>2, <1>4
<1> HIDE DEF n, named
<1>10. recs \in SUBSET Record
  BY <1>6, <1>8
<1>11. Ids(recs) \cap Ids(d.rows) = {}
  <2>1. \A i \in Ids(recs) : d.seq < i /\ i \in Nat
    BY <1>5 DEF Ids, GoodDocument, MemoryId
  <2>2. \A i \in Ids(d.rows) : i <= d.seq /\ i \in Nat
    BY DEF Ids, Good, Consistent, MemoryId
  <2>3. \A i : ~(i \in Ids(recs) /\ i \in Ids(d.rows))
    BY <2>1, <2>2, <1>4
  <2> QED BY <2>3
<1>12. Good(e) /\ Ids(e.rows) = Ids(d.rows) \cup Ids(recs)
  BY <1>5, <1>9, <1>11, WriteRecordsGood
<1>13. /\ ChangesOnly(d, e, Ids(recs))
       /\ Hold(e, recs)
       /\ TablesTyped(e)
       /\ e.vecs = d.vecs
  BY <1>5, <1>9, <1>10, <1>11, <1>12, WriteRecordsStore
<1>14. ImportFresh(d, doc, known) = e
  <2>1. WriteRecords(d, recs).seq = d.seq
    BY WriteRecordsTables DEF Good
  <2> QED BY <2>1 DEF ImportFresh, new, recs, n
<1> HIDE DEF e
<1>15. Ids(e.rows) \ Ids(d.rows) = Ids(recs) /\ Ids(d.rows) \subseteq Ids(e.rows)
  BY <1>11, <1>12
<1>16. /\ \A x \in recs : \E r \in new : SameButId(x, r)
       /\ \A r \in new : \E x \in recs : SameButId(x, r)
  BY <1>6, <1>7
<1>17. \A x, y \in recs : x # y => \E r, s \in new : r # s /\ SameButId(x, r) /\ SameButId(y, s)
  <2>1. SUFFICES ASSUME NEW x \in recs, NEW y \in recs, x # y
                 PROVE  \E r, s \in new : r # s /\ SameButId(x, r) /\ SameButId(y, s)
    OBVIOUS
  <2>2. PICK r \in new : x = named(r)
    BY <1>6
  <2>3. PICK s \in new : y = named(s)
    BY <1>6
  <2> QED BY <2>1, <2>2, <2>3, <1>7
<1> QED BY <1>13, <1>14, <1>15, <1>16, <1>17 DEF new, recs

\* A restore stores the document as it is, and touches nothing else.
LEMMA ImportPreservedStore ==
    ASSUME NEW d, Good(d), TablesTyped(d), NEW doc \in SUBSET Record, IsFiniteSet(doc),
           GoodDocument(doc), ~Collides(d, doc)
    PROVE  LET e == ImportPreserved(d, doc)
           IN  /\ ChangesOnly(d, e, Ids(doc))
               /\ Hold(e, doc)
               /\ TablesTyped(e)
               /\ e.vecs = d.vecs
<1> DEFINE n == Max({d.seq} \cup Ids(doc))
           e == [WriteRecords(d, doc) EXCEPT !.seq = n]
<1>1. ImportPreserved(d, doc) = e
  <2>1. WriteRecords(d, doc).seq = d.seq
    BY WriteRecordsTables DEF Good
  <2> QED BY <2>1 DEF ImportPreserved
<1>2. Good(e)
  BY <1>1, ImportPreservedGood
<1>3. e.seq = n
  BY WriteRecordsTables DEF Good
<1> HIDE DEF n
<1>4. n \in Nat
  BY <1>2, <1>3 DEF Good
<1>5. Ids(doc) \cap Ids(d.rows) = {}
  BY DEF Collides
<1>6. /\ ChangesOnly(d, e, Ids(doc))
      /\ Hold(e, doc)
      /\ TablesTyped(e)
      /\ e.vecs = d.vecs
  BY <1>2, <1>4, <1>5, WriteRecordsStore
<1> QED BY <1>1, <1>6

-----------------------------------------------------------------------------
(* Commands *)

\* Where a process may be.
Labels == {"idle", "done", "row", "tags", "evidence", "links", "update", "fts",
           "remove", "write", "import", "gate", "store"}

\* Where MemoryFull is between two of its queries.
Reading == {"tags", "evidence", "links"}

\* What a command carries from step to step: a document fit to be written or imported,
\* a change a user may ask for, the memory that MemoryFull is at, and, for an export,
\* that the memories still to come are not in the document yet.
GoodRun(r, label) ==
    /\ DOMAIN r = DOMAIN NoRun
    /\ DOMAIN r.rec = DOMAIN NoRecord
    /\ r.change \in Change
    /\ r.todo \subseteq MemoryId
    /\ IsFiniteSet(r.doc) /\ GoodDocument(r.doc)
    /\ r.cmd = "export" => r.todo \cap Ids(r.doc) = {}
    /\ r.cmd = "export" /\ label \in {"row"} \cup Reading => r.id \notin r.todo \cup Ids(r.doc)
    /\ label \in Reading => r.rec.id = r.id /\ r.id \in MemoryId
    /\ label = "links" => GoodAnchors(r.rec.anchors)
    /\ label = "update" => r.cmd = "edit"

\* The inductive invariant: good tables, no id above the counter was ever used, and
\* good documents in the file and in every command under way.
IInv ==
    /\ Good(db)
    /\ used \subseteq MemoryId
    /\ \A i \in used : i <= db.seq
    /\ IsFiniteSet(file) /\ GoodDocument(file)
    /\ DOMAIN run = Proc
    /\ pc \in [Proc -> Labels]
    /\ \A p \in Proc : GoodRun(run[p], pc[p])

\* What a step promises of the ids that are new after it.
NewFresh == \A i \in Ids(db'.rows) \ Ids(db.rows) : i \notin used \/ Restored(i)

\* The locals a command starts with and a returned one leaves are good.
LEMMA NoRunGood ==
    ASSUME NEW label \in {"idle", "done"}
    PROVE  GoodRun(NoRun, label)
<1>1. NoChange \in Change
  BY DEF NoChange, Change
<1>2. IsFiniteSet({}) /\ GoodDocument({}) /\ Ids({}) = {}
  BY FS_EmptySet DEF GoodDocument, Ids
<1> QED BY <1>1, <1>2 DEF GoodRun, NoRun, Reading

\* What is left of a command that ended is good.
LEMMA FinishedGood ==
    ASSUME NEW r, NEW label, GoodRun(r, label)
    PROVE  GoodRun(Finished(r), "done")
<1>1. NoChange \in Change
  BY DEF NoChange, Change
<1>2. /\ Finished(r).change = NoChange /\ Finished(r).rec = NoRecord /\ Finished(r).todo = {}
      /\ Finished(r).doc = r.doc /\ DOMAIN Finished(r) = DOMAIN NoRun
  BY DEF Finished, NoRun
<1> QED BY <1>1, <1>2 DEF GoodRun, Reading

\* A good run stays good when others mark memories as changed.
LEMMA DirtyGood ==
    ASSUME NEW r, NEW label, GoodRun(r, label), NEW ids
    PROVE  GoodRun([r EXCEPT !.dirty = ids], label)
<1> DEFINE e == [r EXCEPT !.dirty = ids]
<1>1. /\ DOMAIN e = DOMAIN r /\ e.rec = r.rec /\ e.change = r.change /\ e.todo = r.todo
      /\ e.doc = r.doc /\ e.cmd = r.cmd /\ e.id = r.id
  BY DEF GoodRun, NoRun
<1> HIDE DEF e
<1>2. GoodRun(e, label)
  BY <1>1 DEF GoodRun
<1> QED BY <1>2 DEF e

\* A step in private keeps the invariant when it leaves good locals.
LEMMA PrivateStep ==
    ASSUME IInv, NEW p \in Proc, NEW r, NEW label \in Labels, Privately(p, r, label),
           GoodRun(r, label)
    PROVE  IInv' /\ NewFresh
<1>1. /\ run' = [run EXCEPT ![p] = r] /\ pc' = [pc EXCEPT ![p] = label]
      /\ file' = file /\ db' = db /\ used' = used
  BY DEF Privately
<1>2. DOMAIN run' = Proc /\ pc' \in [Proc -> Labels]
  BY <1>1 DEF IInv
<1>3. \A q \in Proc : GoodRun(run[q], pc[q]) /\ DOMAIN run = Proc /\ DOMAIN pc = Proc
  BY DEF IInv
<1>4. ASSUME NEW q \in Proc PROVE GoodRun(run'[q], pc'[q])
  <2>1. IF q = p THEN run'[q] = r /\ pc'[q] = label ELSE run'[q] = run[q] /\ pc'[q] = pc[q]
    BY <1>1, <1>3
  <2> QED BY <2>1, <1>3
<1>5. NewFresh
  BY <1>1 DEF NewFresh
<1> QED BY <1>1, <1>2, <1>4, <1>5 DEF IInv

\* A command that returns empty-handed keeps the invariant.
LEMMA QuitStep ==
    ASSUME IInv, NEW p \in Proc, Quit(p)
    PROVE  IInv' /\ NewFresh
<1>1. "idle" \in Labels /\ GoodRun(NoRun, "idle") /\ Privately(p, NoRun, "idle")
  BY NoRunGood DEF Labels, Quit
<1> QED BY <1>1, PrivateStep

\* A transaction keeps the invariant when it leaves good tables and good locals and
\* does not lower the counter.
LEMMA CommittingStep ==
    ASSUME IInv, NEW p \in Proc, NEW d, NEW ids, NEW r, NEW label \in Labels,
           Committing(p, d, ids, r, label),
           Good(d), db.seq <= d.seq, GoodRun(r, label)
    PROVE  IInv'
<1>1. /\ db' = d /\ file' = file /\ used' = used \cup Ids(d.rows)
      /\ run' = [q \in Proc |-> IF q = p THEN r
                                ELSE IF run[q].cmd = "none" THEN run[q]
                                ELSE [run[q] EXCEPT !.dirty = @ \cup ids]]
      /\ pc' = [pc EXCEPT ![p] = label]
  BY DEF Committing
<1>2. DOMAIN run' = Proc /\ pc' \in [Proc -> Labels]
  BY <1>1 DEF IInv
<1>3. \A q \in Proc : GoodRun(run[q], pc[q]) /\ DOMAIN pc = Proc
  BY DEF IInv
<1>4. ASSUME NEW q \in Proc PROVE GoodRun(run'[q], pc'[q])
  <2>1. CASE q = p
    BY <1>1, <1>3, <2>1
  <2>2. CASE q # p
    <3>1. GoodRun([run[q] EXCEPT !.dirty = run[q].dirty \cup ids], pc[q])
      BY <1>3, DirtyGood
    <3>2. run'[q] = IF run[q].cmd = "none" THEN run[q]
                    ELSE [run[q] EXCEPT !.dirty = run[q].dirty \cup ids]
      BY <1>1, <2>2
    <3>3. pc'[q] = pc[q]
      BY <1>1, <1>3, <2>2
    <3> QED BY <1>3, <3>1, <3>2, <3>3
  <2> QED BY <2>1, <2>2
<1>5. used' \subseteq MemoryId /\ \A i \in used' : i <= db'.seq
  <2>1. db.seq \in Nat /\ d.seq \in Nat
    BY DEF IInv, Good
  <2>2. \A i \in Ids(d.rows) : i \in MemoryId /\ i <= d.seq
    BY DEF Ids, Good, Consistent
  <2>3. \A i \in used : i \in MemoryId /\ i <= d.seq
    <3>1. \A i \in used : i \in MemoryId /\ i <= db.seq
      BY DEF IInv
    <3> QED BY <2>1, <3>1 DEF MemoryId
  <2> QED BY <1>1, <2>2, <2>3
<1> QED BY <1>1, <1>2, <1>4, <1>5 DEF IInv

\* A loop goes on with a memory that it then has no longer to come, or ends.
LEMMA AdvanceStep ==
    ASSUME IInv, NEW p \in Proc, NEW r, Advance(p, r), GoodRun(r, "idle")
    PROVE  IInv' /\ NewFresh
<1>1. CASE r.todo = {}
  <2> DEFINE label == Ending(r.cmd)
  <2>1. Privately(p, r, label)
    BY <1>1 DEF Advance
  <2>2. label \in {"write", "import", "store"}
    BY DEF Ending
  <2> HIDE DEF label
  <2>3. label \in Labels /\ GoodRun(r, label)
    BY <2>2 DEF GoodRun, Labels, Reading
  <2> QED BY <2>1, <2>3, PrivateStep
<1>2. CASE r.todo # {}
  <2> DEFINE i == Min(r.todo)
             e == [r EXCEPT !.id = i, !.todo = @ \ {i}]
  <2>1. Privately(p, e, "row")
    BY <1>2 DEF Advance
  <2>2. r.todo \subseteq MemoryId
    BY DEF GoodRun
  <2>3. i \in r.todo
    BY <1>2, <2>2, MinIsLeast DEF MemoryId
  <2> HIDE DEF i
  <2>4. /\ DOMAIN e = DOMAIN r /\ e.rec = r.rec /\ e.change = r.change /\ e.doc = r.doc
        /\ e.cmd = r.cmd /\ e.id = i /\ e.todo = r.todo \ {i}
    BY DEF GoodRun, NoRun
  <2> HIDE DEF e
  <2>5. r.cmd = "export" => e.todo \cap Ids(e.doc) = {} /\ i \notin e.todo \cup Ids(e.doc)
    BY <2>3, <2>4 DEF GoodRun
  <2>6. "row" \in Labels /\ GoodRun(e, "row")
    BY <2>2, <2>4, <2>5 DEF GoodRun, Labels, Reading
  <2> QED BY <2>1, <2>6, PrivateStep
<1> QED BY <1>1, <1>2

\* The empty record, by its fields.
LEMMA NoRecordFields ==
    /\ DOMAIN NoRecord = {"id", "title", "body", "tags", "links", "anchors"}
    /\ NoRecord.id = 0
BY DEF NoRecord

\* Locals with another record, document and hashes.
LEMMA LocalsSet ==
    ASSUME NEW r, DOMAIN r = DOMAIN NoRun, NEW rec, NEW doc, NEW known
    PROVE  LET s == [r EXCEPT !.rec = rec]
               e == [s EXCEPT !.rec = NoRecord]
               x == [s EXCEPT !.rec = NoRecord, !.doc = doc]
               m == [s EXCEPT !.rec = NoRecord, !.known = known]
           IN  /\ DOMAIN s = DOMAIN NoRun /\ s.rec = rec /\ s.id = r.id /\ s.cmd = r.cmd
               /\ s.change = r.change /\ s.todo = r.todo /\ s.doc = r.doc
               /\ s.known = r.known /\ s.jobs = r.jobs
               /\ DOMAIN e = DOMAIN NoRun /\ e.rec = NoRecord /\ e.cmd = r.cmd
               /\ e.change = r.change /\ e.todo = r.todo /\ e.doc = r.doc
               /\ DOMAIN x = DOMAIN NoRun /\ x.rec = NoRecord /\ x.cmd = r.cmd
               /\ x.change = r.change /\ x.todo = r.todo /\ x.doc = doc
               /\ DOMAIN m = DOMAIN NoRun /\ m.rec = NoRecord /\ m.cmd = r.cmd
               /\ m.change = r.change /\ m.todo = r.todo /\ m.doc = r.doc
BY DEF NoRun

\* What MemoryFull returns is used as the command wants it: an export adds it to a
\* document that did not have it.
LEMMA TakenStep ==
    ASSUME IInv, NEW p \in Proc, pc[p] \in {"row", "links"}, NEW rec, Taken(p, rec),
           DOMAIN rec = DOMAIN NoRecord,
           \/ rec.id = 0
           \/ rec.id = run[p].id /\ rec.id \in MemoryId /\ GoodAnchors(rec.anchors)
    PROVE  IInv' /\ NewFresh
<1> DEFINE r == run[p]
           s == [r EXCEPT !.rec = rec]
           known == r.known \cup {RecordHash(x) : x \in Found(rec)}
           doc == r.doc \cup Found(rec)
           e == [s EXCEPT !.rec = NoRecord]
           x == [s EXCEPT !.rec = NoRecord, !.doc = doc]
           m == [s EXCEPT !.rec = NoRecord, !.known = known]
<1>1. GoodRun(r, pc[p])
  BY DEF IInv
<1>2. DOMAIN r = DOMAIN NoRun
  BY <1>1 DEF GoodRun
<1> HIDE DEF r, doc, known
<1>3. /\ DOMAIN s = DOMAIN NoRun /\ s.rec = rec /\ s.id = r.id /\ s.cmd = r.cmd
      /\ s.change = r.change /\ s.todo = r.todo /\ s.doc = r.doc
      /\ s.known = r.known /\ s.jobs = r.jobs
      /\ DOMAIN e = DOMAIN NoRun /\ e.rec = NoRecord /\ e.cmd = r.cmd
      /\ e.change = r.change /\ e.todo = r.todo /\ e.doc = r.doc
      /\ DOMAIN x = DOMAIN NoRun /\ x.rec = NoRecord /\ x.cmd = r.cmd
      /\ x.change = r.change /\ x.todo = r.todo /\ x.doc = doc
      /\ DOMAIN m = DOMAIN NoRun /\ m.rec = NoRecord /\ m.cmd = r.cmd
      /\ m.change = r.change /\ m.todo = r.todo /\ m.doc = r.doc
  BY <1>2, LocalsSet
<1>4. \/ Quit(p)
      \/ s.cmd = "edit" /\ Privately(p, s, "update")
      \/ Privately(p, s, "fts") \/ Privately(p, s, "gate")
      \/ s.cmd = "export" /\ Advance(p, [s EXCEPT !.rec = NoRecord, !.doc = s.doc \cup Found(rec)])
      \/ Advance(p, [s EXCEPT !.rec = NoRecord,
                              !.known = s.known \cup {RecordHash(y) : y \in Found(rec)}])
      \/ s.cmd = "embed" /\ Advance(p, e)
  BY DEF Taken, r
<1>5. \/ Quit(p)
      \/ s.cmd = "edit" /\ Privately(p, s, "update")
      \/ Privately(p, s, "fts") \/ Privately(p, s, "gate")
      \/ s.cmd = "export" /\ Advance(p, x)
      \/ Advance(p, m)
      \/ s.cmd = "embed" /\ Advance(p, e)
  BY <1>3, <1>4, Zenon DEF doc, known
<1> HIDE DEF s, e, x, m
<1>6. ASSUME NEW label \in {"update", "fts", "gate"}, Privately(p, s, label),
             label = "update" => s.cmd = "edit"
      PROVE  IInv' /\ NewFresh
  <2>1. GoodRun(s, label) /\ label \in Labels
    BY <1>1, <1>3, <1>6 DEF GoodRun, Labels, Reading
  <2> QED BY <1>6, <2>1, PrivateStep
<1>7. ASSUME Advance(p, e) PROVE IInv' /\ NewFresh
  <2>1. GoodRun(e, "idle")
    BY <1>1, <1>3 DEF GoodRun, Reading
  <2> QED BY <1>7, <2>1, AdvanceStep
<1>8. ASSUME Advance(p, m) PROVE IInv' /\ NewFresh
  <2>1. GoodRun(m, "idle")
    BY <1>1, <1>3 DEF GoodRun, Reading
  <2> QED BY <1>8, <2>1, AdvanceStep
<1>9. ASSUME s.cmd = "export", Advance(p, x) PROVE IInv' /\ NewFresh
  <2>1. IsFiniteSet(r.doc) /\ GoodDocument(r.doc) /\ r.todo \cap Ids(r.doc) = {}
        /\ r.id \notin r.todo \cup Ids(r.doc)
    BY <1>1, <1>3, <1>9 DEF GoodRun, Reading
  <2>2. IsFiniteSet(doc) /\ GoodDocument(doc) /\ r.todo \cap Ids(doc) = {}
    <3>1. CASE rec.id = 0
      <4>1. doc = r.doc
        BY <3>1 DEF doc, Found
      <4> QED BY <2>1, <4>1
    <3>2. CASE rec.id # 0
      <4>1. rec.id = r.id /\ rec.id \in MemoryId /\ GoodAnchors(rec.anchors) /\ "id" \in DOMAIN rec
        BY <3>2, NoRecordFields DEF r
      <4>2. doc = r.doc \cup {rec}
        BY <3>2 DEF doc, Found
      <4>3. IsFiniteSet(doc)
        BY <2>1, <4>2, FS_AddElement
      <4>4. \A y \in r.doc : y.id # rec.id
        BY <2>1, <4>1 DEF Ids
      <4>5. GoodDocument(doc)
        BY <2>1, <4>1, <4>2, <4>4 DEF GoodDocument
      <4>6. Ids(doc) = Ids(r.doc) \cup {rec.id}
        BY <4>2 DEF Ids
      <4> QED BY <2>1, <4>1, <4>3, <4>5, <4>6
    <3> QED BY <3>1, <3>2
  <2>3. GoodRun(x, "idle")
    BY <1>1, <1>3, <2>2 DEF GoodRun, Reading
  <2> QED BY <1>9, <2>3, AdvanceStep
<1> QED BY <1>5, <1>6, <1>7, <1>8, <1>9, QuitStep

\* Add takes the id after the counter, which no memory ever had.
LEMMA AddStep ==
    ASSUME IInv, NEW p \in Proc, Add(p)
    PROVE  IInv' /\ NewFresh
<1>1. PICK draft \in Drafts :
          Committing(p, [WriteRecords(db, {[id |-> db.seq + 1, title |-> draft.title,
                                            body |-> draft.body, tags |-> draft.tags,
                                            links |-> draft.links,
                                            anchors |-> Anchors(0, draft.places, disk)]})
                            EXCEPT !.seq = db.seq + 1], {db.seq + 1}, NoRun, "idle")
  BY DEF Add
<1> DEFINE as == Anchors(0, draft.places, disk)
           rec == [id |-> db.seq + 1, title |-> draft.title, body |-> draft.body,
                   tags |-> draft.tags, links |-> draft.links, anchors |-> as]
           d == [WriteRecords(db, {rec}) EXCEPT !.seq = db.seq + 1]
<1>2. Good(db) /\ db.seq \in Nat /\ \A i \in used : i \in Nat /\ i <= db.seq
  BY DEF IInv, Good, MemoryId
<1>3. GoodAnchors(as)
  <2>1. draft.places \in Seq(Place)
    BY MemoryAssumption DEF Draft
  <2> QED BY <2>1, NewAnchorsGood
<1> HIDE DEF as
<1>4. GoodDocument({rec}) /\ rec.id = db.seq + 1
  <2>1. rec.id = db.seq + 1 /\ rec.anchors = as /\ "id" \in DOMAIN rec
    OBVIOUS
  <2>2. db.seq + 1 \in MemoryId
    BY <1>2 DEF MemoryId
  <2> HIDE DEF rec
  <2> QED BY <2>1, <2>2, <1>3 DEF GoodDocument
<1>5. Committing(p, d, {db.seq + 1}, NoRun, "idle")
  BY <1>1 DEF as
<1> HIDE DEF rec
<1>6. /\ Good(d) /\ d.seq = db.seq + 1
      /\ Ids(d.rows) = Ids(db.rows) \cup {db.seq + 1}
  BY <1>2, <1>4, AddGood
<1> HIDE DEF d
<1>7. db.seq <= d.seq /\ db.seq + 1 \notin used
  BY <1>2, <1>6
<1>8. IInv'
  <2>1. GoodRun(NoRun, "idle") /\ "idle" \in Labels
    BY NoRunGood DEF Labels
  <2> QED BY <2>1, <1>5, <1>6, <1>7, CommittingStep
<1>9. NewFresh
  BY <1>5, <1>6, <1>7 DEF Committing, NewFresh
<1> QED BY <1>8, <1>9

\* StartEdit knows nothing of the memory yet.
LEMMA StartEditStep ==
    ASSUME IInv, NEW p \in Proc, StartEdit(p)
    PROVE  IInv' /\ NewFresh
<1>1. PICK i \in 1..db.seq, c \in Changes :
          Privately(p, [NoRun EXCEPT !.cmd = "edit", !.id = i, !.change = c], "row")
  BY DEF StartEdit
<1> DEFINE r == [NoRun EXCEPT !.cmd = "edit", !.id = i, !.change = c]
<1>2. /\ DOMAIN r = DOMAIN NoRun /\ r.rec = NoRun.rec /\ r.change = c /\ r.todo = NoRun.todo
      /\ r.doc = NoRun.doc /\ r.cmd = "edit"
  BY DEF NoRun
<1>3. c \in Change
  BY MemoryAssumption
<1> HIDE DEF r
<1>4. GoodRun(r, "row") /\ "row" \in Labels
  BY <1>2, <1>3, NoRunGood DEF GoodRun, Labels, Reading
<1> QED BY <1>1, <1>4, PrivateStep DEF r

\* StartRemove likewise.
LEMMA StartRemoveStep ==
    ASSUME IInv, NEW p \in Proc, StartRemove(p)
    PROVE  IInv' /\ NewFresh
<1>1. PICK i \in Ids(db.rows) : Privately(p, [NoRun EXCEPT !.cmd = "remove", !.id = i], "remove")
  BY DEF StartRemove
<1> DEFINE r == [NoRun EXCEPT !.cmd = "remove", !.id = i]
<1>2. /\ DOMAIN r = DOMAIN NoRun /\ r.rec = NoRun.rec /\ r.change = NoRun.change
      /\ r.todo = NoRun.todo /\ r.doc = NoRun.doc /\ r.cmd = "remove"
  BY DEF NoRun
<1> HIDE DEF r
<1>3. GoodRun(r, "remove") /\ "remove" \in Labels
  BY <1>2, NoRunGood DEF GoodRun, Labels, Reading
<1> QED BY <1>1, <1>3, PrivateStep DEF r

\* A loop starts with the ids in the table, an import with the document in the file.
LEMMA StartLoopStep ==
    ASSUME IInv, NEW p \in Proc, NEW cmd, StartLoop(p, cmd)
    PROVE  IInv' /\ NewFresh
<1> DEFINE doc == IF cmd \in {"import", "restore"} THEN file ELSE {}
           r == [NoRun EXCEPT !.cmd = cmd, !.todo = Ids(db.rows), !.doc = doc]
<1>1. Advance(p, r)
  BY DEF StartLoop
<1>2. IsFiniteSet(doc) /\ GoodDocument(doc) /\ (cmd = "export" => doc = {})
  BY FS_EmptySet DEF IInv, GoodDocument
<1> HIDE DEF doc
<1>3. /\ DOMAIN r = DOMAIN NoRun /\ r.rec = NoRun.rec /\ r.change = NoRun.change
      /\ r.todo = Ids(db.rows) /\ r.doc = doc /\ r.cmd = cmd
  BY DEF NoRun
<1> HIDE DEF r
<1>4. Ids(db.rows) \subseteq MemoryId /\ Ids({}) = {}
  BY DEF Ids, IInv, Good
<1>5. GoodRun(r, "idle")
  <2>1. GoodRun(NoRun, "idle")
    BY NoRunGood
  <2>2. r.cmd = "export" => r.todo \cap Ids(r.doc) = {}
    BY <1>2, <1>3, <1>4
  <2> QED BY <2>1, <2>2, <1>2, <1>3, <1>4 DEF GoodRun, Reading
<1> QED BY <1>1, <1>5, AdvanceStep

\* The query for the row finds a memory with the id that was asked for.
LEMMA ReadRowStep ==
    ASSUME IInv, NEW p \in Proc, ReadRow(p)
    PROVE  IInv' /\ NewFresh
<1>1. PICK row \in db.rows :
          /\ row.id = run[p].id
          /\ Privately(p, [run[p] EXCEPT !.rec = [NoRecord EXCEPT !.id = row.id, !.title = row.title,
                                                                  !.body = row.body]], "tags")
  BY DEF ReadRow
<1> DEFINE rec == [NoRecord EXCEPT !.id = row.id, !.title = row.title, !.body = row.body]
           r == run[p]
           s == [r EXCEPT !.rec = rec]
<1>2. DOMAIN rec = DOMAIN NoRecord /\ rec.id = row.id
  BY DEF NoRecord
<1>3. GoodRun(r, "row") /\ row.id \in MemoryId
  BY DEF IInv, Good, ReadRow
<1> HIDE DEF rec
<1>4. /\ DOMAIN s = DOMAIN NoRun /\ s.rec = rec /\ s.id = r.id /\ s.cmd = r.cmd
      /\ s.change = r.change /\ s.todo = r.todo /\ s.doc = r.doc
  <2>1. DOMAIN r = DOMAIN NoRun
    BY <1>3 DEF GoodRun
  <2> HIDE DEF r
  <2> QED BY <2>1, LocalsSet
<1>5. Privately(p, s, "tags")
  BY <1>1 DEF rec
<1> HIDE DEF s
<1>6. GoodRun(s, "tags") /\ "tags" \in Labels
  BY <1>1, <1>2, <1>3, <1>4 DEF GoodRun, Labels, Reading
<1> QED BY <1>5, <1>6, PrivateStep

\* A memory that is gone is handed on as the empty record.
LEMMA NoRowStep ==
    ASSUME IInv, NEW p \in Proc, NoRow(p)
    PROVE  IInv' /\ NewFresh
<1>1. Taken(p, NoRecord) /\ pc[p] \in {"row", "links"} /\ NoRecord.id = 0
  BY NoRecordFields DEF NoRow
<1> QED BY <1>1, TakenStep

\* The query for the tags changes nothing the invariant tells.
LEMMA ReadTagsStep ==
    ASSUME IInv, NEW p \in Proc, ReadTags(p)
    PROVE  IInv' /\ NewFresh
<1> DEFINE r == run[p]
           ts == Of(db.tags, r.id)
           s == [r EXCEPT !.rec.tags = ts]
<1>1. Privately(p, s, "evidence") /\ GoodRun(r, "tags")
  BY DEF ReadTags, IInv
<1> HIDE DEF ts, r
<1>2. /\ DOMAIN s = DOMAIN r /\ DOMAIN s.rec = DOMAIN r.rec /\ s.rec.id = r.rec.id
      /\ s.id = r.id /\ s.cmd = r.cmd /\ s.change = r.change /\ s.todo = r.todo /\ s.doc = r.doc
  BY <1>1, NoRecordFields DEF GoodRun, NoRun
<1> HIDE DEF s
<1>3. GoodRun(s, "evidence") /\ "evidence" \in Labels
  BY <1>1, <1>2 DEF GoodRun, Labels, Reading
<1> QED BY <1>1, <1>3, PrivateStep

\* The query for the evidence finds what the tables hold of one memory.
LEMMA ReadEvidenceStep ==
    ASSUME IInv, NEW p \in Proc, ReadEvidence(p)
    PROVE  IInv' /\ NewFresh
<1> DEFINE r == run[p]
           as == AnchorsOf(db, r.id)
           s == [r EXCEPT !.rec.anchors = as]
<1>1. Privately(p, s, "links") /\ GoodRun(r, "evidence")
  BY DEF ReadEvidence, IInv
<1>2. GoodAnchors(as)
  BY AnchorsOfGood DEF IInv
<1> HIDE DEF as, r
<1>3. /\ DOMAIN s = DOMAIN r /\ DOMAIN s.rec = DOMAIN r.rec /\ s.rec.id = r.rec.id
      /\ s.rec.anchors = as
      /\ s.id = r.id /\ s.cmd = r.cmd /\ s.change = r.change /\ s.todo = r.todo /\ s.doc = r.doc
  BY <1>1, NoRecordFields DEF GoodRun, NoRun
<1> HIDE DEF s
<1>4. GoodRun(s, "links") /\ "links" \in Labels
  BY <1>1, <1>2, <1>3 DEF GoodRun, Labels, Reading
<1> QED BY <1>1, <1>4, PrivateStep

\* The last query of MemoryFull completes the record.
LEMMA ReadLinksStep ==
    ASSUME IInv, NEW p \in Proc, ReadLinks(p)
    PROVE  IInv' /\ NewFresh
<1> DEFINE r == run[p]
           ls == Of(db.links, r.id)
           rec == [r.rec EXCEPT !.links = ls]
<1>1. Taken(p, rec) /\ pc[p] = "links" /\ GoodRun(r, "links")
  BY DEF ReadLinks, IInv
<1> HIDE DEF ls
<1>2. /\ DOMAIN rec = DOMAIN NoRecord /\ rec.id = r.rec.id /\ rec.anchors = r.rec.anchors
  <2>1. DOMAIN r.rec = DOMAIN NoRecord
    BY <1>1 DEF GoodRun
  <2> HIDE DEF r
  <2> QED BY <2>1, NoRecordFields
<1> HIDE DEF rec
<1>3. rec.id = run[p].id /\ rec.id \in MemoryId /\ GoodAnchors(rec.anchors)
  BY <1>1, <1>2 DEF GoodRun, Reading
<1> QED BY <1>1, <1>2, <1>3, TakenStep

\* Edit's first transaction adds no memory, and no satellites of one that is gone.
LEMMA UpdateStep ==
    ASSUME IInv, NEW p \in Proc, Update(p)
    PROVE  IInv' /\ NewFresh
<1> DEFINE r == run[p]
           c == r.change
           title == Merge(c.title, r.rec.title)
           body == Merge(c.body, r.rec.body)
           d == ApplyChange(db, r.id, title, body, c, disk)
           s == [r EXCEPT !.written = TRUE, !.rec = NoRecord]
<1>1. CASE ~HasRow(db, r.id, c)
  BY <1>1, QuitStep DEF Update
<1>2. CASE HasRow(db, r.id, c)
  <2>1. Committing(p, d, {r.id}, s, "row")
    BY <1>2 DEF Update
  <2>2. GoodRun(r, "update") /\ Good(db)
    BY DEF Update, IInv
  <2> HIDE DEF title, body
  <2>3. c \in Change
    BY <2>2 DEF GoodRun
  <2> HIDE DEF c
  <2>4. Good(d) /\ Ids(d.rows) = Ids(db.rows) /\ d.seq = db.seq
    BY <1>2, <2>2, <2>3, ApplyChangeGood
  <2> HIDE DEF d
  <2>5. db.seq <= d.seq
    BY <2>4 DEF Good
  <2>6. GoodRun(s, "row")
    <3> HIDE DEF r
    <3>1. /\ DOMAIN s = DOMAIN NoRun /\ s.rec = NoRecord /\ s.cmd = r.cmd /\ s.id = r.id
          /\ s.change = r.change /\ s.todo = r.todo /\ s.doc = r.doc
      BY <2>2 DEF GoodRun, NoRun
    <3> HIDE DEF s
    <3>2. r.cmd # "export"
      BY <2>2 DEF GoodRun
    <3> QED BY <2>2, <3>1, <3>2 DEF GoodRun, Reading
  <2>7. IInv'
    BY <2>1, <2>4, <2>5, <2>6, CommittingStep DEF Labels
  <2>8. NewFresh
    BY <2>1, <2>4 DEF Committing, NewFresh
  <2> QED BY <2>7, <2>8
<1> QED BY <1>1, <1>2

\* Edit's second transaction touches full text only.
LEMMA UpdateFtsStep ==
    ASSUME IInv, NEW p \in Proc, UpdateFts(p)
    PROVE  IInv' /\ NewFresh
<1> DEFINE r == run[p]
           row == FtsRow(r.id, r.rec.title, r.rec.body, r.rec.tags)
           d == ReindexMemoryFTS(db, row)
<1>1. Committing(p, d, {r.id}, NoRun, "idle")
  BY DEF UpdateFts
<1> HIDE DEF row
<1>2. Good(db)
  BY DEF IInv
<1>3. Good(d) /\ d.rows = db.rows /\ d.seq = db.seq
  BY <1>2, ReindexGood
<1> HIDE DEF d
<1>4. db.seq <= d.seq
  BY <1>3 DEF Good
<1>5. GoodRun(NoRun, "idle") /\ "idle" \in Labels
  BY NoRunGood DEF Labels
<1>6. IInv'
  BY <1>1, <1>3, <1>4, <1>5, CommittingStep
<1>7. NewFresh
  BY <1>1, <1>3 DEF Committing, NewFresh
<1> QED BY <1>6, <1>7

\* Remove takes a memory and leaves the counter alone.
LEMMA RemoveStep ==
    ASSUME IInv, NEW p \in Proc, Remove(p)
    PROVE  IInv' /\ NewFresh
<1> DEFINE r == run[p]
           d == DeleteMemory(db, r.id)
<1>1. Committing(p, d, {r.id}, NoRun, "idle")
  BY DEF Remove
<1>2. Good(db)
  BY DEF IInv
<1>3. Good(d) /\ Ids(d.rows) \subseteq Ids(db.rows) /\ d.seq = db.seq
  BY <1>2, DeleteMemoryGood
<1> HIDE DEF d
<1>4. db.seq <= d.seq
  BY <1>3 DEF Good
<1>5. GoodRun(NoRun, "idle") /\ "idle" \in Labels
  BY NoRunGood DEF Labels
<1>6. IInv'
  BY <1>1, <1>3, <1>4, <1>5, CommittingStep
<1>7. NewFresh
  BY <1>1, <1>3 DEF Committing, NewFresh
<1> QED BY <1>6, <1>7

\* An export leaves its document in the file.
LEMMA WriteDocumentStep ==
    ASSUME IInv, NEW p \in Proc, WriteDocument(p)
    PROVE  IInv' /\ NewFresh
<1>1. /\ file' = run[p].doc /\ db' = db /\ used' = used
      /\ run' = [run EXCEPT ![p] = Finished(run[p])] /\ pc' = [pc EXCEPT ![p] = "done"]
  BY DEF WriteDocument
<1>2. \A q \in Proc : GoodRun(run[q], pc[q]) /\ DOMAIN run = Proc /\ DOMAIN pc = Proc
  BY DEF IInv
<1>3. GoodRun(Finished(run[p]), "done")
  BY <1>2, FinishedGood
<1>4. IsFiniteSet(run[p].doc) /\ GoodDocument(run[p].doc)
  BY <1>2 DEF GoodRun
<1>5. DOMAIN run' = Proc /\ pc' \in [Proc -> Labels]
  BY <1>1, <1>2 DEF IInv, Labels
<1>6. ASSUME NEW q \in Proc PROVE GoodRun(run'[q], pc'[q])
  <2>1. IF q = p THEN run'[q] = Finished(run[p]) /\ pc'[q] = "done"
        ELSE run'[q] = run[q] /\ pc'[q] = pc[q]
    BY <1>1, <1>2
  <2> QED BY <2>1, <1>2, <1>3
<1>7. NewFresh
  BY <1>1 DEF NewFresh
<1> QED BY <1>1, <1>4, <1>5, <1>6, <1>7 DEF IInv

\* A default import numbers its memories above the counter, where no id was used.
LEMMA ImportStep ==
    ASSUME IInv, NEW p \in Proc, Import(p)
    PROVE  IInv' /\ NewFresh
<1> DEFINE r == run[p]
           d == ImportFresh(db, r.doc, r.known)
<1>1. Committing(p, d, Ids(d.rows) \ Ids(db.rows), NoRun, "idle")
  BY DEF Import
<1>2. Good(db) /\ GoodRun(r, "import") /\ \A i \in used : i \in Nat /\ i <= db.seq
  BY DEF IInv, Import, MemoryId
<1> HIDE DEF r
<1>3. /\ Good(d) /\ db.seq <= d.seq
      /\ \A i \in Ids(d.rows) : i \in Ids(db.rows) \/ (db.seq < i /\ i <= d.seq)
  BY <1>2, ImportFreshGood DEF GoodRun
<1> HIDE DEF d
<1>4. GoodRun(NoRun, "idle") /\ "idle" \in Labels
  BY NoRunGood DEF Labels
<1>5. IInv'
  BY <1>1, <1>3, <1>4, CommittingStep
<1>6. NewFresh
  <2>1. \A i \in Ids(d.rows) \ Ids(db.rows) : i \notin used
    <3>1. SUFFICES ASSUME NEW i \in Ids(d.rows) \ Ids(db.rows), i \in used PROVE FALSE
      OBVIOUS
    <3>2. db.seq < i /\ i <= db.seq /\ i \in Nat /\ db.seq \in Nat
      BY <3>1, <1>2, <1>3 DEF Good
    <3> QED BY <3>2
  <2> QED BY <2>1, <1>1 DEF Committing, NewFresh
<1> QED BY <1>5, <1>6

\* --preserve-ids brings ids that are free, and raises the counter above them.
LEMMA RestoreStep ==
    ASSUME IInv, NEW p \in Proc, Restore(p)
    PROVE  IInv' /\ NewFresh
<1> DEFINE r == run[p]
           d == ImportPreserved(db, r.doc)
<1>1. Committing(p, d, Ids(r.doc), Finished(r), "done") /\ ~Collides(db, r.doc)
  BY DEF Restore
<1>2. Good(db) /\ GoodRun(r, pc[p])
  BY DEF IInv
<1> HIDE DEF r
<1>3. /\ Good(d) /\ db.seq <= d.seq
      /\ Ids(d.rows) = Ids(db.rows) \cup Ids(r.doc)
  BY <1>1, <1>2, ImportPreservedGood DEF GoodRun
<1> HIDE DEF d
<1>4. GoodRun(Finished(r), "done") /\ "done" \in Labels
  BY <1>2, FinishedGood DEF Labels
<1>5. IInv'
  BY <1>1, <1>3, <1>4, CommittingStep
<1>6. NewFresh
  <2>1. \A i \in Ids(r.doc) : Restored(i)
    BY DEF Restored, r
  <2> QED BY <2>1, <1>1, <1>3 DEF Committing, NewFresh
<1> QED BY <1>5, <1>6

\* The gate adds a job or none and goes on.
LEMMA GateStep ==
    ASSUME IInv, NEW p \in Proc, Gate(p)
    PROVE  IInv' /\ NewFresh
<1> DEFINE r == run[p]
           jobs == r.jobs \cup IF Embedded(db, r.rec) THEN {}
                               ELSE {[id |-> r.rec.id, of |-> Words(r.rec)]}
           s == [r EXCEPT !.rec = NoRecord, !.jobs = jobs]
<1>1. Advance(p, s)
  BY DEF Gate
<1>2. GoodRun(r, "gate")
  BY DEF Gate, IInv
<1> HIDE DEF r, jobs
<1>3. /\ DOMAIN s = DOMAIN NoRun /\ s.rec = NoRecord /\ s.cmd = r.cmd
      /\ s.change = r.change /\ s.todo = r.todo /\ s.doc = r.doc
  BY <1>2 DEF GoodRun, NoRun
<1> HIDE DEF s
<1>4. GoodRun(s, "idle")
  BY <1>2, <1>3 DEF GoodRun, Reading
<1> QED BY <1>1, <1>4, AdvanceStep

\* A vector is replaced in a table of its own.
LEMMA StoreVectorStep ==
    ASSUME IInv, NEW p \in Proc, StoreVector(p)
    PROVE  IInv' /\ NewFresh
<1>1. PICK j \in run[p].jobs :
          /\ db' = UpsertVector(db, j.id, j.of)
          /\ run' = [q \in Proc |->
                        IF q = p THEN [run[p] EXCEPT !.jobs = run[p].jobs \ {j}]
                        ELSE IF run[q].cmd = "embed"
                             THEN [run[q] EXCEPT !.dirty = run[q].dirty \cup {j.id}]
                        ELSE run[q]]
  BY DEF StoreVector
<1>2. file' = file /\ pc' = pc /\ used' = used /\ pc[p] = "store"
  BY DEF StoreVector
<1>3. \A q \in Proc : GoodRun(run[q], pc[q])
  BY DEF IInv
<1>4. Good(db') /\ db'.rows = db.rows /\ db'.seq = db.seq
  BY <1>1, UpsertVectorGood DEF IInv
<1>5. ASSUME NEW q \in Proc PROVE GoodRun(run'[q], pc'[q])
  <2>1. CASE q = p
    <3> DEFINE r == run[p]
               s == [r EXCEPT !.jobs = r.jobs \ {j}]
    <3>1. run'[q] = s /\ pc'[q] = "store" /\ GoodRun(r, "store")
      BY <2>1, <1>1, <1>2, <1>3
    <3> HIDE DEF r
    <3>2. /\ DOMAIN s = DOMAIN NoRun /\ s.rec = r.rec /\ s.cmd = r.cmd
          /\ s.change = r.change /\ s.todo = r.todo /\ s.doc = r.doc
      BY <3>1 DEF GoodRun, NoRun
    <3> HIDE DEF s
    <3>3. GoodRun(s, "store")
      BY <3>1, <3>2 DEF GoodRun, Reading
    <3> QED BY <3>1, <3>3
  <2>2. CASE q # p
    <3>1. GoodRun([run[q] EXCEPT !.dirty = run[q].dirty \cup {j.id}], pc[q])
      BY <1>3, DirtyGood
    <3> QED BY <2>2, <3>1, <1>1, <1>2, <1>3
  <2> QED BY <2>1, <2>2
<1>6. DOMAIN run' = Proc
  BY <1>1
<1>7. NewFresh
  BY <1>4 DEF NewFresh
<1> QED BY <1>2, <1>4, <1>5, <1>6, <1>7 DEF IInv

\* An index run returns.
LEMMA EndEmbedStep ==
    ASSUME IInv, NEW p \in Proc, EndEmbed(p)
    PROVE  IInv' /\ NewFresh
<1>1. Privately(p, Finished(run[p]), "done")
  BY DEF EndEmbed
<1>2. GoodRun(Finished(run[p]), "done") /\ "done" \in Labels
  BY FinishedGood DEF IInv, Labels
<1> QED BY <1>1, <1>2, PrivateStep

-----------------------------------------------------------------------------
(* What a command knows of the tables it has read *)

\* A record as MemoryFull fills it in: empty until the row is found.
ReadRecord ==
    [id : Nat, title : Text, body : Text, tags : SUBSET Tag, links : SUBSET Target,
     anchors : SUBSET Anchor]

\* The locals of a command have their types; only an edit has written, and only after its
\* first transaction.
RunTyped(r, label) ==
    /\ r.cmd \in AllCommands \cup {"none"}
    /\ r.id \in Nat
    /\ r.cmd = "edit" => r.id \in MemoryId
    /\ r.change \in Changes \cup {NoChange}
    /\ r.rec \in ReadRecord
    /\ r.written \in BOOLEAN
    /\ r.written => r.cmd = "edit" /\ label \in {"row", "fts"} \cup Reading
    /\ r.doc \subseteq Record
    /\ r.jobs \subseteq [id : MemoryId, of : [title : Text, body : Text, tags : SUBSET Tag]]
    /\ label = "gate" => r.rec.id = r.id /\ r.id \in MemoryId

\* Which command is where, and that a loop has no memories left when it is over.
InPhase(r, label) ==
    /\ r.cmd = "none" => label = "idle"
    /\ label \in {"update", "fts"} => r.cmd = "edit"
    /\ label \in {"gate", "store"} => r.cmd = "embed"
    /\ label = "write" => r.cmd = "export"
    /\ label \in {"write", "import", "store", "done"} => r.todo = {}
    /\ label = "done" => r.jobs = {}

\* What MemoryFull has read of its memory so far is what the tables hold, and an edit
\* that has written still has its memory.
Seen(d, r, label) ==
    /\ label \in Reading \cup {"update", "fts", "gate"} =>
          /\ r.rec.id = r.id
          /\ \E row \in d.rows :
                row.id = r.id /\ row.title = r.rec.title /\ row.body = r.rec.body
    /\ label \in {"evidence", "links", "update", "fts", "gate"} =>
          r.rec.tags = Of(d.tags, r.id)
    /\ label \in {"links", "update", "fts", "gate"} => r.rec.anchors = AnchorsOf(d, r.id)
    /\ label \in {"update", "fts", "gate"} => r.rec.links = Of(d.links, r.id)
    /\ r.written => r.id \in Ids(d.rows)

\* A loop has yet to deal with a memory, is at it, or others have changed it.
Pending(r, label, i) ==
    i \in r.dirty \cup r.todo \/ (i = r.id /\ label \in {"row", "gate"} \cup Reading)

\* The rest of the store is in the document, and nothing else is.
Exported(d, r, label) ==
    \A i \in Ids(r.doc) \cup Ids(d.rows) :
        Pending(r, label, i) \/ {x \in r.doc : x.id = i} = Stored(d, i)

\* The hashes of an import are those of the rest of the store.
Hashed(d, r, label) ==
    /\ \A i \in Ids(d.rows) :
        Pending(r, label, i) \/ \A x \in Stored(d, i) : RecordHash(x) \in r.known
    /\ r.dirty = {} =>
        \A h \in r.known : \E i \in Ids(d.rows) : \E x \in Stored(d, i) : RecordHash(x) = h

\* The rest of the store has its vectors or is going to get them, and no job is for a text
\* that its memory does not have.
Embeds(d, r, label) ==
    /\ \A i \in Ids(d.rows) :
        \/ Pending(r, label, i)
        \/ \A x \in Stored(d, i) : Blank(x) \/ [id |-> i, of |-> Words(x)] \in d.vecs \cup r.jobs
    /\ \A j \in r.jobs : j.id \in r.dirty \/ \E x \in Stored(d, j.id) : j.of = Words(x)

\* A document that was restored is in the store.
IsRestored(d, r) == \A x \in r.doc : x.id \in r.dirty \/ Stored(d, x.id) = {x}

Tracks(d, r, label) ==
    /\ r.id \notin r.dirty => Seen(d, r, label)
    /\ r.cmd = "export" => Exported(d, r, label)
    /\ r.cmd = "import" => Hashed(d, r, label)
    /\ r.cmd = "embed" => Embeds(d, r, label)
    /\ r.cmd = "restore" /\ label = "done" => IsRestored(d, r)

\* All that is known of one command.
Knows(d, r, label) == RunTyped(r, label) /\ InPhase(r, label) /\ Tracks(d, r, label)

\* The types of what is shared.
StoreTyped ==
    /\ disk \in [Place -> Blob \cup {NoBlob}]
    /\ file \subseteq Record
    /\ TablesTyped(db)
    /\ raced \subseteq MemoryId
    /\ commands \in 0 .. MaxCommands

\* The invariant beside IInv: types, what every command knows, and the full text and the
\* vectors it is responsible for.
KInv ==
    /\ StoreTyped
    /\ \A p \in Proc : Knows(db, run[p], pc[p])
    /\ FullTextCurrent
    /\ RemovedVectorsGone

\* A record of the right type is given by its fields.
LEMMA RecordFields ==
    ASSUME NEW x \in ReadRecord
    PROVE  x = [id |-> x.id, title |-> x.title, body |-> x.body, tags |-> x.tags,
                links |-> x.links, anchors |-> x.anchors]
BY DEF ReadRecord

\* A memory that was read to the end is stored just so.
LEMMA SeenIsStored ==
    ASSUME NEW d, Good(d), NEW r, NEW label \in {"update", "fts", "gate"}, Seen(d, r, label),
           r.rec \in ReadRecord
    PROVE  Stored(d, r.id) = {r.rec}
<1>1. PICK row \in d.rows : row.id = r.id /\ row.title = r.rec.title /\ row.body = r.rec.body
  BY DEF Seen
<1>2. /\ r.rec.id = r.id /\ r.rec.tags = Of(d.tags, r.id) /\ r.rec.links = Of(d.links, r.id)
      /\ r.rec.anchors = AnchorsOf(d, r.id)
  BY DEF Seen
<1>3. Stored(d, r.id) = {[id |-> r.id, title |-> row.title, body |-> row.body,
                          tags |-> Of(d.tags, r.id), links |-> Of(d.links, r.id),
                          anchors |-> AnchorsOf(d, r.id)]}
  BY <1>1, StoredIsOne
<1> QED BY <1>1, <1>2, <1>3, RecordFields

\* And the other way round.
LEMMA StoredIsSeen ==
    ASSUME NEW d, Good(d), NEW r, NEW label, Stored(d, r.id) = {r.rec}
    PROVE  Seen(d, r, label) /\ r.id \in Ids(d.rows)
<1>1. r.id \in Ids(d.rows)
  BY StoredIsOne
<1>2. PICK row \in d.rows : row.id = r.id
  BY <1>1 DEF Ids
<1>3. Stored(d, r.id) = {[id |-> r.id, title |-> row.title, body |-> row.body,
                          tags |-> Of(d.tags, r.id), links |-> Of(d.links, r.id),
                          anchors |-> AnchorsOf(d, r.id)]}
  BY <1>2, StoredIsOne
<1>4. r.rec = [id |-> r.id, title |-> row.title, body |-> row.body,
               tags |-> Of(d.tags, r.id), links |-> Of(d.links, r.id),
               anchors |-> AnchorsOf(d, r.id)]
  BY <1>3
<1> QED BY <1>1, <1>2, <1>4 DEF Seen

\* What a command knows survives what others do to memories that it marks as changed.
LEMMA KnowsAfterOthers ==
    ASSUME NEW d, NEW e, NEW ids, NEW label, NEW r, Knows(d, r, label),
           \A i : i \notin ids => SameMemory(d, e, i),
           r.cmd = "embed" => \A i : i \notin ids => SameVectors(d, e, i),
           NEW s, DOMAIN s = DOMAIN r, s.dirty = r.dirty \cup ids,
           s.cmd = r.cmd, s.id = r.id, s.change = r.change, s.rec = r.rec, s.written = r.written,
           s.todo = r.todo, s.doc = r.doc, s.known = r.known, s.jobs = r.jobs
    PROVE  Knows(e, s, label)
<1>1. RunTyped(s, label) /\ InPhase(s, label)
  BY DEF Knows, RunTyped, InPhase
<1>2. \A i : i \notin s.dirty => /\ i \notin r.dirty /\ SameMemory(d, e, i)
                                 /\ Stored(d, i) = Stored(e, i)
                                 /\ (i \in Ids(d.rows) <=> i \in Ids(e.rows))
                                 /\ Pending(s, label, i) <=> Pending(r, label, i)
  BY SameStored DEF Pending
<1>3. \A i : i \in s.dirty => Pending(s, label, i)
  BY DEF Pending
<1>4. s.id \notin s.dirty => Seen(e, s, label)
  <2>1. SUFFICES ASSUME s.id \notin s.dirty PROVE Seen(e, s, label)
    OBVIOUS
  <2>2. Seen(d, r, label) /\ SameMemory(d, e, s.id) /\ (s.id \in Ids(d.rows) => s.id \in Ids(e.rows))
    BY <2>1, <1>2 DEF Knows, Tracks
  <2>3. \A row \in d.rows : row.id = s.id => row \in e.rows
    BY <2>2 DEF SameMemory
  <2> QED BY <2>2, <2>3 DEF Seen, SameMemory
<1>5. s.cmd = "export" => Exported(e, s, label)
  BY <1>2, <1>3 DEF Knows, Tracks, Exported
<1>6. s.cmd = "import" => Hashed(e, s, label)
  <2>1. SUFFICES ASSUME s.cmd = "import" PROVE Hashed(e, s, label)
    OBVIOUS
  <2>2. Hashed(d, r, label)
    BY <2>1 DEF Knows, Tracks
  <2>3. s.dirty = {} => r.dirty = {} /\ \A i : i \notin s.dirty
    OBVIOUS
  <2> QED BY <2>2, <2>3, <1>2, <1>3 DEF Hashed
<1>7. s.cmd = "embed" => Embeds(e, s, label)
  <2>1. SUFFICES ASSUME s.cmd = "embed" PROVE Embeds(e, s, label)
    OBVIOUS
  <2>2. Embeds(d, r, label)
    BY <2>1 DEF Knows, Tracks
  <2>3. \A i : i \notin s.dirty => \A of : [id |-> i, of |-> of] \in d.vecs => [id |-> i, of |-> of] \in e.vecs
    <3>1. SUFFICES ASSUME NEW i, i \notin s.dirty, NEW of, [id |-> i, of |-> of] \in d.vecs
                   PROVE  [id |-> i, of |-> of] \in e.vecs
      OBVIOUS
    <3>2. SameVectors(d, e, i) /\ [id |-> i, of |-> of].id = i
      BY <2>1, <3>1
    <3> QED BY <3>1, <3>2 DEF SameVectors
  <2>4. ASSUME NEW i \in Ids(e.rows), ~Pending(s, label, i), NEW x \in Stored(e, i), ~Blank(x)
        PROVE  [id |-> i, of |-> Words(x)] \in e.vecs \cup s.jobs
    <3>1. i \notin s.dirty
      BY <1>3, <2>4
    <3>2. i \in Ids(d.rows) /\ ~Pending(r, label, i) /\ x \in Stored(d, i)
      BY <3>1, <1>2, <2>4
    <3>3. [id |-> i, of |-> Words(x)] \in d.vecs \cup r.jobs
      BY <2>2, <2>4, <3>2 DEF Embeds
    <3> QED BY <2>3, <3>1, <3>3
  <2>5. ASSUME NEW j \in s.jobs, j.id \notin s.dirty PROVE \E x \in Stored(e, j.id) : j.of = Words(x)
    BY <2>2, <2>5, <1>2 DEF Embeds
  <2> QED BY <2>4, <2>5 DEF Embeds
<1>8. s.cmd = "restore" /\ label = "done" => IsRestored(e, s)
  BY <1>2 DEF Knows, Tracks, IsRestored
<1> QED BY <1>1, <1>4, <1>5, <1>6, <1>7, <1>8 DEF Knows, Tracks

-----------------------------------------------------------------------------
(* How steps keep it *)

\* The variables of a process that a step leaves alone, and of the one that takes it.
LEMMA StepOf ==
    ASSUME IInv, NEW p \in Proc, NEW r, NEW label,
           run' = [run EXCEPT ![p] = r], pc' = [pc EXCEPT ![p] = label]
    PROVE  /\ run'[p] = r /\ pc'[p] = label
           /\ \A q \in Proc : q # p => run'[q] = run[q] /\ pc'[q] = pc[q]
BY DEF IInv

\* A step in private keeps the knowledge when its own locals are right and an edit that
\* has written is either still at it or marked as overtaken.
LEMMA PrivateKnows ==
    ASSUME IInv, KInv, NEW p \in Proc, NEW r, NEW label, Privately(p, r, label),
           Knows(db, r, label),
           raced' \subseteq MemoryId, raced \subseteq raced', commands' \in 0 .. MaxCommands,
           run[p].written => \/ r.written /\ r.id = run[p].id
                             \/ run[p].id \in raced'
    PROVE  KInv'
<1>1. /\ run' = [run EXCEPT ![p] = r] /\ pc' = [pc EXCEPT ![p] = label]
      /\ disk' = disk /\ file' = file /\ db' = db
  BY DEF Privately
<1>2. /\ run'[p] = r /\ pc'[p] = label
      /\ \A q \in Proc : q # p => run'[q] = run[q] /\ pc'[q] = pc[q]
  BY <1>1, StepOf
<1>3. \A q \in Proc : Knows(db', run'[q], pc'[q])
  <2>1. \A q \in Proc : Knows(db, run'[q], pc'[q])
    BY <1>2 DEF KInv
  <2> QED BY <2>1, <1>1
<1>4. StoreTyped'
  BY <1>1 DEF KInv, StoreTyped
<1>5. \A i : MidEdit(i) => MidEdit(i)' \/ i \in raced'
  BY <1>2 DEF MidEdit
<1>6. FullTextCurrent'
  <2>1. FullTextCurrent
    BY DEF KInv
  <2>2. \A i : FtsRowsOf(db', i) = FtsRowsOf(db, i) /\ db'.fts = db.fts /\ db'.rows = db.rows
    BY <1>1
  <2> QED BY <2>1, <2>2, <1>5 DEF FullTextCurrent
<1>7. RemovedVectorsGone'
  BY <1>1 DEF KInv, RemovedVectorsGone
<1> QED BY <1>3, <1>4, <1>6, <1>7 DEF KInv

\* A transaction keeps it when it changes only the memories it says, and leaves each of
\* these with its full text, or marked, or in the middle of the edit; and no vector behind.
LEMMA CommittingKnows ==
    ASSUME IInv, KInv, NEW p \in Proc, NEW d, NEW ids, NEW r, NEW label,
           Committing(p, d, ids, r, label),
           ChangesOnly(db, d, ids), TablesTyped(d), Knows(d, r, label),
           raced' \subseteq MemoryId, raced \ ids \subseteq raced', commands' \in 0 .. MaxCommands,
           run[p].written => run[p].id \in ids,
           \A i \in ids : FtsFits(d, i) \/ i \in raced' \/ (r.written /\ r.id = i),
           \A i \in ids : i \in Ids(d.vecs) => i \in Ids(d.rows) \cup raced'
    PROVE  KInv'
<1>1. /\ db' = d /\ disk' = disk /\ file' = file
      /\ run' = [q \in Proc |-> IF q = p THEN r
                                ELSE IF run[q].cmd = "none" THEN run[q]
                                ELSE [run[q] EXCEPT !.dirty = run[q].dirty \cup ids]]
      /\ pc' = [pc EXCEPT ![p] = label]
  BY DEF Committing
<1>2. /\ run'[p] = r /\ pc'[p] = label
      /\ \A q \in Proc : q # p =>
            /\ pc'[q] = pc[q]
            /\ run'[q] = IF run[q].cmd = "none" THEN run[q]
                         ELSE [run[q] EXCEPT !.dirty = run[q].dirty \cup ids]
  BY <1>1 DEF IInv
<1>3. ASSUME NEW q \in Proc, q # p
      PROVE  /\ Knows(d, run'[q], pc'[q])
             /\ run'[q].written = run[q].written /\ run'[q].id = run[q].id
  <2> DEFINE o == run[q]
             s == [o EXCEPT !.dirty = o.dirty \cup ids]
  <2>1. DOMAIN o = DOMAIN NoRun /\ Knows(db, o, pc[q])
    BY DEF IInv, GoodRun, KInv
  <2>2. CASE o.cmd = "none"
    <3>1. pc[q] = "idle" /\ ~o.written
      BY <2>1, <2>2 DEF Knows, RunTyped, InPhase
    <3>2. Knows(d, o, pc[q])
      BY <2>1, <2>2, <3>1 DEF Knows, Tracks, Seen, Reading
    <3> QED BY <3>2, <2>2, <1>2, <1>3
  <2>3. CASE o.cmd # "none"
    <3>1. run'[q] = s /\ pc'[q] = pc[q]
      BY <2>3, <1>2, <1>3
    <3> HIDE DEF o
    <3>2. /\ DOMAIN s = DOMAIN o /\ s.dirty = o.dirty \cup ids /\ s.cmd = o.cmd /\ s.id = o.id
          /\ s.change = o.change /\ s.rec = o.rec /\ s.written = o.written /\ s.todo = o.todo
          /\ s.doc = o.doc /\ s.known = o.known /\ s.jobs = o.jobs
      BY <2>1 DEF NoRun
    <3> HIDE DEF s
    <3>3. \A i : i \notin ids => SameMemory(db, d, i) /\ SameVectors(db, d, i)
      BY DEF ChangesOnly
    <3>4. Knows(d, s, pc[q])
      BY <2>1, <3>2, <3>3, KnowsAfterOthers
    <3> QED BY <3>1, <3>2, <3>4 DEF o
  <2> QED BY <2>2, <2>3
<1>4. \A q \in Proc : Knows(db', run'[q], pc'[q])
  <2>1. \A q \in Proc : Knows(d, run'[q], pc'[q])
    BY <1>2, <1>3
  <2> QED BY <2>1, <1>1
<1>5. StoreTyped'
  BY <1>1 DEF KInv, StoreTyped
<1>6. \A i : MidEdit(i) => MidEdit(i)' \/ i \in ids
  BY <1>2, <1>3 DEF MidEdit
<1>7. \A i \in Ids(d.rows) \cup Ids(d.fts) : i \in raced' \/ MidEdit(i)' \/ FtsFits(d, i)
  <2>1. ASSUME NEW i \in Ids(d.rows) \cup Ids(d.fts), i \notin ids
        PROVE  i \in raced' \/ MidEdit(i)' \/ FtsFits(d, i)
    <3>1. SameMemory(db, d, i) /\ SameFts(db, d, i)
      BY <2>1 DEF ChangesOnly
    <3>2. i \in Ids(d.fts) => i \in Ids(db.fts)
      BY <3>1 DEF SameFts, Ids
    <3>3. i \in Ids(db.rows) \cup Ids(db.fts)
      BY <2>1, <3>1, <3>2, SameStored
    <3>4. i \in raced \/ MidEdit(i) \/ FtsFits(db, i)
      BY <3>3 DEF KInv, FullTextCurrent, FtsFits
    <3> QED BY <2>1, <3>1, <3>4, <1>6, FitsStays
  <2>2. ASSUME NEW i \in ids PROVE i \in raced' \/ MidEdit(i)' \/ FtsFits(d, i)
    BY <1>2 DEF MidEdit
  <2> QED BY <2>1, <2>2
<1>8. FullTextCurrent'
  BY <1>1, <1>7 DEF FullTextCurrent, FtsFits
<1>9. \A i \in Ids(d.vecs) : i \in Ids(d.rows) \cup raced'
  <2>1. ASSUME NEW i \in Ids(d.vecs), i \notin ids PROVE i \in Ids(d.rows) \cup raced'
    <3>1. SameMemory(db, d, i) /\ SameVectors(db, d, i)
      BY <2>1 DEF ChangesOnly
    <3>2. i \in Ids(db.vecs)
      BY <3>1 DEF SameVectors, Ids
    <3>3. i \in Ids(db.rows) \cup raced
      BY <3>2 DEF KInv, RemovedVectorsGone
    <3> QED BY <2>1, <3>1, <3>3, SameStored
  <2> QED BY <2>1
<1>10. RemovedVectorsGone'
  BY <1>1, <1>9 DEF RemovedVectorsGone
<1> QED BY <1>4, <1>5, <1>8, <1>10 DEF KInv

\* A loop that knows all but the memories to come knows as much when it takes up the next
\* of them, or is over.
LEMMA AdvanceKnows ==
    ASSUME IInv, KInv, NEW p \in Proc, NEW r, Advance(p, r),
           DOMAIN r = DOMAIN NoRun, r.todo \subseteq MemoryId,
           r.cmd \in {"export", "import", "restore", "embed"},
           RunTyped(r, "idle"), Tracks(db, r, "idle"),
           ~run[p].written, raced' = raced, commands' \in 0 .. MaxCommands
    PROVE  KInv'
<1>1. ~r.written /\ raced' \subseteq MemoryId
  BY DEF RunTyped, KInv, StoreTyped
<1>2. CASE r.todo = {}
  <2> DEFINE label == Ending(r.cmd)
  <2>1. Privately(p, r, label)
    BY <1>2 DEF Advance
  <2>2. /\ label \in {"write", "import", "store"}
        /\ label = "write" => r.cmd = "export"
        /\ label = "store" => r.cmd = "embed"
    BY DEF Ending
  <2> HIDE DEF label
  <2>3. \A i : Pending(r, "idle", i) <=> Pending(r, label, i)
    BY <2>2 DEF Pending, Reading
  <2>4. Tracks(db, r, label)
    BY <2>2, <2>3, <1>1 DEF Tracks, Exported, Hashed, Embeds, Seen, Reading
  <2>5. Knows(db, r, label)
    BY <1>1, <1>2, <2>2, <2>4 DEF Knows, RunTyped, InPhase
  <2> QED BY <2>1, <2>5, <1>1, PrivateKnows
<1>3. CASE r.todo # {}
  <2> DEFINE i == Min(r.todo)
             e == [r EXCEPT !.id = i, !.todo = @ \ {i}]
  <2>1. Privately(p, e, "row")
    BY <1>3 DEF Advance
  <2>2. i \in r.todo
    BY <1>3, MinIsLeast DEF MemoryId
  <2> HIDE DEF i
  <2>3. /\ e.rec = r.rec /\ e.change = r.change /\ e.doc = r.doc /\ e.cmd = r.cmd /\ e.id = i
        /\ e.todo = r.todo \ {i} /\ e.written = r.written /\ e.known = r.known
        /\ e.jobs = r.jobs /\ e.dirty = r.dirty
    BY DEF NoRun
  <2> HIDE DEF e
  <2>4. i \in Nat
    BY <2>2 DEF MemoryId
  <2>5. \A j : Pending(r, "idle", j) => Pending(e, "row", j)
    BY <2>3 DEF Pending, Reading
  <2>6. Tracks(db, e, "row")
    BY <2>3, <2>5, <1>1 DEF Tracks, Exported, Hashed, Embeds, Seen, Reading
  <2>7. Knows(db, e, "row")
    BY <2>3, <2>4, <2>6, <1>1 DEF Knows, RunTyped, InPhase, Reading
  <2> QED BY <2>1, <2>3, <2>7, <1>1, PrivateKnows
<1> QED BY <1>2, <1>3

\* A command that has returned knows nothing and owes nothing.
LEMMA NothingKnown ==
    ASSUME NEW d
    PROVE  Knows(d, NoRun, "idle")
<1>1. NoRecord \in ReadRecord
  BY MemoryAssumption DEF NoRecord, ReadRecord
<1>2. /\ NoRun.cmd = "none" /\ NoRun.id = 0 /\ NoRun.change = NoChange /\ NoRun.rec = NoRecord
      /\ ~NoRun.written /\ NoRun.written \in BOOLEAN /\ NoRun.todo = {} /\ NoRun.doc = {} /\ NoRun.jobs = {}
  BY DEF NoRun
<1>3. RunTyped(NoRun, "idle")
  <2>1. NoRun.doc \subseteq Record /\ NoRun.jobs \subseteq [id : MemoryId, of : [title : Text, body : Text, tags : SUBSET Tag]]
    BY <1>2
  <2>2. NoRun.id \in Nat /\ NoRun.cmd # "edit"
    BY <1>2
  <2> QED BY <1>1, <1>2, <2>1, <2>2 DEF RunTyped
<1>4. InPhase(NoRun, "idle")
  BY <1>2 DEF InPhase
<1>5. Tracks(d, NoRun, "idle")
  BY <1>2 DEF Tracks, Seen, Reading
<1> QED BY <1>3, <1>4, <1>5 DEF Knows

\* A command may return at any time, if an edit that has written marks its memory.
LEMMA QuitKnows ==
    ASSUME IInv, KInv, NEW p \in Proc, Quit(p),
           raced' \subseteq MemoryId, raced \subseteq raced', commands' \in 0 .. MaxCommands,
           run[p].written => run[p].id \in raced'
    PROVE  KInv'
BY NothingKnown, PrivateKnows DEF Quit

\* Locals with another record, document and hashes keep what is not named.
LEMMA LocalsKept ==
    ASSUME NEW r, DOMAIN r = DOMAIN NoRun, NEW rec, NEW doc, NEW known
    PROVE  LET s == [r EXCEPT !.rec = rec]
               e == [s EXCEPT !.rec = NoRecord]
               x == [s EXCEPT !.rec = NoRecord, !.doc = doc]
               m == [s EXCEPT !.rec = NoRecord, !.known = known]
           IN  /\ s.written = r.written /\ s.dirty = r.dirty /\ s.jobs = r.jobs
               /\ e.written = r.written /\ e.dirty = r.dirty /\ e.jobs = r.jobs
               /\ x.written = r.written /\ x.dirty = r.dirty /\ x.jobs = r.jobs
               /\ m.written = r.written /\ m.dirty = r.dirty /\ m.jobs = r.jobs
               /\ e.id = r.id /\ x.id = r.id /\ m.id = r.id
               /\ e.known = r.known /\ m.known = known
BY DEF NoRun

\* What MemoryFull returns is what the store holds of its memory, or nothing if that is
\* gone; so every command goes on knowing what it did about the memories before.
LEMMA TakenKnows ==
    ASSUME IInv, KInv, NEW p \in Proc, pc[p] \in {"row", "links"}, NEW rec \in ReadRecord,
           Taken(p, rec), raced' = raced, commands' = commands,
           \/ rec = NoRecord /\ run[p].id \notin Ids(db.rows)
           \/ /\ rec.id = run[p].id /\ rec.id \in MemoryId
              /\ run[p].id \notin run[p].dirty => Stored(db, rec.id) = {rec}
    PROVE  KInv'
<1> DEFINE r == run[p]
           s == [r EXCEPT !.rec = rec]
           known == r.known \cup {RecordHash(x) : x \in Found(rec)}
           doc == r.doc \cup Found(rec)
           e == [s EXCEPT !.rec = NoRecord]
           x == [s EXCEPT !.rec = NoRecord, !.doc = doc]
           m == [s EXCEPT !.rec = NoRecord, !.known = known]
<1>1. GoodRun(r, pc[p]) /\ Knows(db, r, pc[p])
  BY DEF IInv, KInv
<1>2. DOMAIN r = DOMAIN NoRun
  BY <1>1 DEF GoodRun
<1>0. \/ rec = NoRecord /\ rec.id = 0 /\ r.id \notin Ids(db.rows)
      \/ /\ rec.id = r.id /\ rec.id \in MemoryId /\ rec.id # 0
         /\ r.id \notin r.dirty => Stored(db, r.id) = {rec}
  BY NoRecordFields DEF MemoryId
<1>3. /\ raced' \subseteq MemoryId /\ raced \subseteq raced' /\ commands' \in 0 .. MaxCommands
  BY DEF KInv, StoreTyped
<1>4. \/ r.cmd = "edit" /\ ~r.written /\ Quit(p)
      \/ r.cmd = "edit" /\ ~r.written /\ rec.id # 0 /\ Privately(p, s, "update")
      \/ r.cmd = "edit" /\ r.written /\ Privately(p, s, "fts")
      \/ r.cmd = "export" /\ Advance(p, x)
      \/ r.cmd \in {"import", "restore"} /\ Advance(p, m)
      \/ r.cmd = "embed" /\ (rec.id = 0 \/ Blank(rec)) /\ Advance(p, e)
      \/ r.cmd = "embed" /\ rec.id # 0 /\ Privately(p, s, "gate")
  <2>1. \/ s.cmd = "edit" /\ ~s.written /\ Quit(p)
        \/ s.cmd = "edit" /\ ~s.written /\ rec.id # 0 /\ Privately(p, s, "update")
        \/ s.cmd = "edit" /\ s.written /\ Privately(p, s, "fts")
        \/ s.cmd = "export" /\ Advance(p, [s EXCEPT !.rec = NoRecord, !.doc = s.doc \cup Found(rec)])
        \/ s.cmd \in {"import", "restore"}
             /\ Advance(p, [s EXCEPT !.rec = NoRecord,
                                     !.known = s.known \cup {RecordHash(y) : y \in Found(rec)}])
        \/ s.cmd = "embed" /\ (rec.id = 0 \/ Blank(rec)) /\ Advance(p, e)
        \/ s.cmd = "embed" /\ rec.id # 0 /\ Privately(p, s, "gate")
    BY DEF Taken
  <2> HIDE DEF r
  <2>2. s.cmd = r.cmd /\ s.written = r.written /\ s.doc = r.doc /\ s.known = r.known
    BY <1>2, LocalsSet, LocalsKept
  <2> HIDE DEF s, e
  <2> QED BY <2>1, <2>2, Zenon
<1>5. r.written => r.cmd = "edit"
  BY <1>1 DEF Knows, RunTyped
<1>6. ASSUME r.cmd = "edit", ~r.written, Quit(p) PROVE KInv'
  BY <1>6, <1>3, QuitKnows
<1> HIDE DEF r, doc, known
<1>7. /\ DOMAIN s = DOMAIN NoRun /\ s.rec = rec /\ s.id = r.id /\ s.cmd = r.cmd
      /\ s.change = r.change /\ s.todo = r.todo /\ s.doc = r.doc
      /\ s.known = r.known /\ s.jobs = r.jobs
      /\ DOMAIN e = DOMAIN NoRun /\ e.rec = NoRecord /\ e.cmd = r.cmd
      /\ e.change = r.change /\ e.todo = r.todo /\ e.doc = r.doc
      /\ DOMAIN x = DOMAIN NoRun /\ x.rec = NoRecord /\ x.cmd = r.cmd
      /\ x.change = r.change /\ x.todo = r.todo /\ x.doc = doc
      /\ DOMAIN m = DOMAIN NoRun /\ m.rec = NoRecord /\ m.cmd = r.cmd
      /\ m.change = r.change /\ m.todo = r.todo /\ m.doc = r.doc
  BY <1>2, LocalsSet
<1>8. /\ s.written = r.written /\ s.dirty = r.dirty
      /\ e.written = r.written /\ e.dirty = r.dirty /\ e.jobs = r.jobs
      /\ x.written = r.written /\ x.dirty = r.dirty /\ x.jobs = r.jobs
      /\ m.written = r.written /\ m.dirty = r.dirty /\ m.jobs = r.jobs
      /\ e.id = r.id /\ x.id = r.id /\ m.id = r.id
      /\ e.known = r.known /\ m.known = known
  BY <1>2, LocalsKept
<1> HIDE DEF s, e, x, m
<1>9. NoRecord \in ReadRecord
  BY MemoryAssumption DEF NoRecord, ReadRecord
<1>10. /\ RunTyped(r, pc[p]) /\ InPhase(r, pc[p]) /\ Tracks(db, r, pc[p])
       /\ r.todo \subseteq MemoryId
       /\ r.cmd = "export" => r.id \notin Ids(r.doc)
  BY <1>1 DEF Knows, GoodRun, Reading
<1>11. \A i : Pending(r, pc[p], i) => i \in r.dirty \cup r.todo \/ i = r.id
  BY DEF Pending
<1>12. Good(db)
  BY DEF IInv
<1>13. rec.id # 0 /\ r.id \notin r.dirty =>
          /\ r.id \in Ids(db.rows)
          /\ \A label : Seen(db, s, label)
  <2>1. SUFFICES ASSUME rec.id # 0, r.id \notin r.dirty
                 PROVE  r.id \in Ids(db.rows) /\ \A label : Seen(db, s, label)
    OBVIOUS
  <2>2. Stored(db, s.id) = {s.rec}
    BY <2>1, <1>0, <1>7
  <2> QED BY <2>2, <1>7, <1>12, StoredIsSeen
<1>14. ASSUME r.cmd = "edit", ~r.written, rec.id # 0, Privately(p, s, "update") PROVE KInv'
  <2>1. RunTyped(s, "update") /\ InPhase(s, "update")
    BY <1>7, <1>8, <1>10, <1>14 DEF RunTyped, InPhase
  <2>2. Tracks(db, s, "update")
    BY <1>7, <1>8, <1>13, <1>14 DEF Tracks
  <2> QED BY <2>1, <2>2, <1>3, <1>14, PrivateKnows DEF Knows, r
<1>15. ASSUME r.cmd = "edit", r.written, Privately(p, s, "fts") PROVE KInv'
  <2>1. RunTyped(s, "fts") /\ InPhase(s, "fts")
    BY <1>7, <1>8, <1>10, <1>15 DEF RunTyped, InPhase
  <2>2. r.id \notin r.dirty => rec.id # 0
    <3>1. r.id \notin r.dirty => r.id \in Ids(db.rows)
      BY <1>10, <1>15 DEF Tracks, Seen
    <3> QED BY <3>1, <1>0
  <2>3. Tracks(db, s, "fts")
    BY <1>7, <1>8, <1>13, <1>15, <2>2 DEF Tracks
  <2> QED BY <2>1, <2>3, <1>3, <1>7, <1>8, <1>15, PrivateKnows DEF Knows, r
<1>16. ASSUME r.cmd = "export", Advance(p, x) PROVE KInv'
  <2>1. doc = IF rec.id = 0 THEN r.doc ELSE r.doc \cup {rec}
    BY DEF doc, Found
  <2>2. doc \subseteq Record
    <3>1. rec.id # 0 => rec \in Record
      BY <1>0 DEF ReadRecord, Record
    <3> QED BY <2>1, <3>1, <1>10 DEF RunTyped
  <2>3. RunTyped(x, "idle")
    BY <1>5, <1>7, <1>8, <1>9, <1>10, <1>16, <2>2 DEF RunTyped
  <2>4. ASSUME NEW i \in Ids(doc) \cup Ids(db.rows), i \notin r.dirty \cup r.todo
        PROVE  {y \in doc : y.id = i} = Stored(db, i)
    <3>1. CASE i = r.id
      <4>1. \A y \in r.doc : y.id # i
        BY <3>1, <1>10, <1>16 DEF Ids
      <4>2. rec.id # 0
        <5>1. rec.id = 0 => i \in Ids(r.doc) \cup Ids(db.rows)
          BY <2>1, <2>4
        <5> QED BY <5>1, <1>0, <1>10, <1>16, <3>1
      <4>3. rec.id = i /\ Stored(db, i) = {rec} /\ doc = r.doc \cup {rec}
        BY <4>2, <1>0, <2>1, <2>4, <3>1
      <4> QED BY <4>1, <4>3
    <3>2. CASE i # r.id
      <4>1. rec.id # 0 => rec.id # i
        BY <3>2, <1>0
      <4>2. {y \in doc : y.id = i} = {y \in r.doc : y.id = i}
        BY <4>1, <2>1
      <4>3. i \in Ids(r.doc) \cup Ids(db.rows)
        BY <4>1, <2>1, <2>4 DEF Ids
      <4>4. ~Pending(r, pc[p], i)
        BY <3>2, <2>4, <1>11
      <4>5. {y \in r.doc : y.id = i} = Stored(db, i)
        BY <4>3, <4>4, <1>10, <1>16 DEF Tracks, Exported
      <4> QED BY <4>2, <4>5
    <3> QED BY <3>1, <3>2
  <2>5. Exported(db, x, "idle")
    BY <2>4, <1>7, <1>8 DEF Exported, Pending
  <2>6. Tracks(db, x, "idle")
    BY <2>5, <1>5, <1>7, <1>8, <1>16 DEF Tracks, Seen, Reading
  <2> QED BY <2>3, <2>6, <1>3, <1>5, <1>7, <1>10, <1>16, AdvanceKnows DEF r
<1>17. ASSUME r.cmd \in {"import", "restore"}, Advance(p, m) PROVE KInv'
  <2>1. known = IF rec.id = 0 THEN r.known ELSE r.known \cup {RecordHash(rec)}
    BY DEF known, Found
  <2>2. RunTyped(m, "idle")
    BY <1>5, <1>7, <1>8, <1>9, <1>10, <1>17 DEF RunTyped
  <2>3. ASSUME r.cmd = "import" PROVE Hashed(db, m, "idle")
    <3>1. Hashed(db, r, pc[p])
      BY <2>3, <1>10 DEF Tracks
    <3>2. ASSUME NEW i \in Ids(db.rows), i \notin r.dirty \cup r.todo, NEW y \in Stored(db, i)
          PROVE  RecordHash(y) \in known
      <4>1. CASE i = r.id
        <5>1. rec.id # 0 /\ y = rec
          BY <4>1, <3>2, <1>0
        <5> QED BY <5>1, <2>1
      <4>2. CASE i # r.id
        <5>1. ~Pending(r, pc[p], i)
          BY <4>2, <3>2, <1>11
        <5>2. RecordHash(y) \in r.known
          BY <5>1, <3>1, <3>2 DEF Hashed
        <5> QED BY <5>2, <2>1
      <4> QED BY <4>1, <4>2
    <3>3. ASSUME r.dirty = {}, NEW h \in known
          PROVE  \E i \in Ids(db.rows) : \E y \in Stored(db, i) : RecordHash(y) = h
      <4>1. CASE h \in r.known
        BY <4>1, <3>1, <3>3 DEF Hashed
      <4>2. CASE h \notin r.known
        <5>1. rec.id # 0 /\ h = RecordHash(rec)
          BY <4>2, <2>1, <3>3
        <5>2. r.id \in Ids(db.rows) /\ Stored(db, r.id) = {rec}
          BY <5>1, <3>3, <1>0, <1>13
        <5> QED BY <5>1, <5>2
      <4> QED BY <4>1, <4>2
    <3> QED BY <3>2, <3>3, <1>7, <1>8 DEF Hashed, Pending
  <2>4. Tracks(db, m, "idle")
    BY <2>3, <1>5, <1>7, <1>8, <1>17 DEF Tracks, Seen, Reading
  <2> QED BY <2>2, <2>4, <1>3, <1>5, <1>7, <1>10, <1>17, AdvanceKnows DEF r
<1>18. ASSUME r.cmd = "embed", rec.id = 0 \/ Blank(rec), Advance(p, e) PROVE KInv'
  <2>1. RunTyped(e, "idle")
    BY <1>5, <1>7, <1>8, <1>9, <1>10, <1>18 DEF RunTyped
  <2>2. Embeds(db, r, pc[p])
    BY <1>10, <1>18 DEF Tracks
  <2>3. ASSUME NEW i \in Ids(db.rows), i \notin r.dirty \cup r.todo, NEW y \in Stored(db, i), ~Blank(y)
        PROVE  [id |-> i, of |-> Words(y)] \in db.vecs \cup r.jobs
    <3>1. i # r.id
      BY <2>3, <1>0, <1>18
    <3>2. ~Pending(r, pc[p], i)
      BY <3>1, <2>3, <1>11
    <3> QED BY <3>2, <2>2, <2>3 DEF Embeds
  <2>4. Embeds(db, e, "idle")
    BY <2>2, <2>3, <1>7, <1>8 DEF Embeds, Pending
  <2>5. Tracks(db, e, "idle")
    BY <2>4, <1>5, <1>7, <1>8, <1>18 DEF Tracks, Seen, Reading
  <2> QED BY <2>1, <2>5, <1>3, <1>5, <1>7, <1>10, <1>18, AdvanceKnows DEF r
<1>19. ASSUME r.cmd = "embed", rec.id # 0, Privately(p, s, "gate") PROVE KInv'
  <2>1. RunTyped(s, "gate") /\ InPhase(s, "gate")
    BY <1>0, <1>5, <1>7, <1>8, <1>10, <1>19 DEF RunTyped, InPhase
  <2>2. Embeds(db, r, pc[p])
    BY <1>10, <1>19 DEF Tracks
  <2>3. \A i : Pending(r, pc[p], i) => Pending(s, "gate", i)
    BY <1>7, <1>8, <1>11 DEF Pending
  <2>4. Embeds(db, s, "gate")
    BY <2>2, <2>3, <1>7, <1>8 DEF Embeds
  <2>5. Tracks(db, s, "gate")
    BY <2>4, <1>7, <1>8, <1>13, <1>19 DEF Tracks
  <2> QED BY <2>1, <2>5, <1>3, <1>5, <1>19, PrivateKnows DEF Knows, r
<1> QED BY <1>4, <1>6, <1>14, <1>15, <1>16, <1>17, <1>18, <1>19

\* What a command that ended in success leaves is what it knew.
LEMMA FinishedKnows ==
    ASSUME NEW d, NEW r, DOMAIN r = DOMAIN NoRun, NEW label \in {"write", "store", "import"},
           RunTyped(r, label), r.todo = {}, r.cmd \in {"export", "embed", "restore"},
           r.cmd = "export" => Exported(d, r, label),
           r.cmd = "embed" => Embeds(d, r, label) /\ r.jobs = {},
           r.cmd = "restore" => IsRestored(d, r)
    PROVE  Knows(d, Finished(r), "done")
<1> DEFINE s == Finished(r)
<1>1. /\ s.cmd = r.cmd /\ s.doc = r.doc /\ s.dirty = r.dirty /\ s.id = 0 /\ s.change = NoChange
      /\ s.rec = NoRecord /\ ~s.written /\ s.written \in BOOLEAN /\ s.todo = {} /\ s.jobs = {}
  BY DEF Finished, NoRun
<1> HIDE DEF s
<1>2. \A i : (Pending(r, label, i) => i \in r.dirty) /\ (i \in r.dirty => Pending(s, "done", i))
  BY <1>1 DEF Pending, Reading
<1>3. NoRecord \in ReadRecord
  BY MemoryAssumption DEF NoRecord, ReadRecord
<1>4. RunTyped(s, "done")
  <2>1. s.jobs \subseteq [id : MemoryId, of : [title : Text, body : Text, tags : SUBSET Tag]]
    BY <1>1
  <2>2. s.id \in Nat /\ s.cmd # "edit"
    BY <1>1
  <2> QED BY <1>1, <1>3, <2>1, <2>2 DEF RunTyped
<1>5. InPhase(s, "done")
  BY <1>1 DEF InPhase
<1>6. Seen(d, s, "done")
  BY <1>1 DEF Seen, Reading
<1>7. r.cmd = "export" => Exported(d, s, "done")
  BY <1>1, <1>2 DEF Exported
<1>8. r.cmd = "embed" => Embeds(d, s, "done")
  BY <1>1, <1>2 DEF Embeds
<1>9. r.cmd = "restore" => IsRestored(d, s)
  BY <1>1 DEF IsRestored
<1>10. Tracks(d, s, "done")
  BY <1>1, <1>6, <1>7, <1>8, <1>9 DEF Tracks
<1> QED BY <1>4, <1>5, <1>10 DEF Knows, s

\* Evidence added with the blobs on disk has the type of evidence.
LEMMA AnchorsTyped ==
    ASSUME NEW n \in Nat, NEW places \in Seq(Place), NEW blobs \in [Place -> Blob \cup {NoBlob}]
    PROVE  Anchors(n, places, blobs) \subseteq Anchor
<1>1. SUFFICES ASSUME NEW k \in DOMAIN places
               PROVE  [seat |-> n + k, place |-> places[k], blob |-> blobs[places[k]]] \in Anchor
  BY DEF Anchors
<1>2. places[k] \in Place /\ n + k \in MemoryId
  BY <1>1 DEF MemoryId
<1> QED BY <1>2 DEF Anchor

\* A command that is not under way has written nothing that it owes full text for.
LEMMA NotRunning ==
    ASSUME KInv, NEW p \in Proc, pc[p] \notin {"row", "fts"} \cup Reading
    PROVE  ~run[p].written
BY DEF KInv, Knows, RunTyped

\* What each step of a command has to leave alone or keep in its type.
LEMMA SharedTyped ==
    ASSUME KInv, raced' = raced
    PROVE  raced' \subseteq MemoryId /\ raced \subseteq raced' /\ \A ids : raced \ ids \subseteq raced'
BY DEF KInv, StoreTyped

\* Add brings its full text along.
LEMMA AddKnows ==
    ASSUME IInv, KInv, NEW p \in Proc, Add(p)
    PROVE  KInv'
<1>1. PICK draft \in Drafts :
          Committing(p, [WriteRecords(db, {[id |-> db.seq + 1, title |-> draft.title,
                                            body |-> draft.body, tags |-> draft.tags,
                                            links |-> draft.links,
                                            anchors |-> Anchors(0, draft.places, disk)]})
                            EXCEPT !.seq = db.seq + 1], {db.seq + 1}, NoRun, "idle")
  BY DEF Add
<1> DEFINE as == Anchors(0, draft.places, disk)
           i == db.seq + 1
           rec == [id |-> i, title |-> draft.title, body |-> draft.body, tags |-> draft.tags,
                   links |-> draft.links, anchors |-> as]
           d == [WriteRecords(db, {rec}) EXCEPT !.seq = i]
<1>2. Good(db) /\ TablesTyped(db) /\ db.seq \in Nat
  BY DEF IInv, Good, KInv, StoreTyped
<1>3. draft \in Draft /\ draft.places \in Seq(Place)
  BY MemoryAssumption DEF Draft
<1>4. GoodAnchors(as) /\ as \subseteq Anchor
  BY <1>3, NewAnchorsGood, AnchorsTyped DEF KInv, StoreTyped
<1>5. Committing(p, d, {i}, NoRun, "idle")
  BY <1>1
<1> HIDE DEF as
<1>6. i \in MemoryId /\ i \in Nat /\ ~(i <= db.seq)
  BY <1>2 DEF MemoryId
<1>7. rec \in Record /\ rec.id = i /\ GoodDocument({rec})
  <2> HIDE DEF i
  <2>1. rec \in Record
    BY <1>3, <1>4, <1>6 DEF Record, Draft
  <2>2. rec.id = i /\ rec.anchors = as /\ "id" \in DOMAIN rec
    OBVIOUS
  <2> HIDE DEF rec
  <2> QED BY <2>1, <2>2, <1>4, <1>6 DEF GoodDocument
<1> HIDE DEF rec
<1>8. Good(d) /\ Ids(d.rows) = Ids(db.rows) \cup {i}
  BY <1>2, <1>7, AddGood
<1>9. Ids({rec}) = {i} /\ Ids({rec}) \cap Ids(db.rows) = {}
  <2>1. Ids({rec}) = {i}
    BY <1>7 DEF Ids
  <2>2. \A j \in Ids(db.rows) : j <= db.seq
    BY <1>2 DEF Ids, Good, Consistent
  <2> QED BY <2>1, <2>2, <1>6
<1>10. {rec} \in SUBSET Record
  BY <1>7
<1> HIDE DEF i
<1>11. ChangesOnly(db, d, {i}) /\ FtsFits(d, i) /\ TablesTyped(d)
  <2> DEFINE recs == {rec}
  <2>1. recs \in SUBSET Record /\ GoodDocument(recs) /\ Ids(recs) = {i} /\ rec \in recs
        /\ Ids(recs) \cap Ids(db.rows) = {} /\ Good([WriteRecords(db, recs) EXCEPT !.seq = i])
        /\ d = [WriteRecords(db, recs) EXCEPT !.seq = i]
    BY <1>7, <1>8, <1>9, <1>10
  <2> HIDE DEF recs, d
  <2>2. ChangesOnly(db, d, Ids(recs)) /\ Hold(d, recs) /\ TablesTyped(d)
    BY <2>1, <1>2, <1>6, WriteRecordsStore
  <2> QED BY <2>1, <2>2, <1>7 DEF Hold
<1> HIDE DEF d
<1>12. raced' = raced /\ commands' \in 0 .. MaxCommands /\ ~Running(p)
  BY MemoryAssumption DEF Add, Starting, KInv, StoreTyped
<1>13. ~run[p].written
  BY <1>12, NotRunning DEF Running, Reading
<1>14. Knows(d, NoRun, "idle")
  BY NothingKnown
<1> QED BY <1>5, <1>8, <1>11, <1>12, <1>13, <1>14, CommittingKnows, SharedTyped

\* Edit and Remove start out knowing nothing of their memory.
LEMMA StartEditKnows ==
    ASSUME IInv, KInv, NEW p \in Proc, StartEdit(p) \/ StartRemove(p)
    PROVE  KInv'
<1>1. PICK r : \E label \in {"row", "remove"} :
          /\ Privately(p, r, label)
          /\ r.cmd \in {"edit", "remove"} /\ r.id \in MemoryId /\ r.change \in Changes \cup {NoChange}
          /\ r.rec = NoRecord /\ ~r.written /\ r.written \in BOOLEAN /\ r.todo = {} /\ r.doc = {}
          /\ r.jobs = {}
  <2>1. CASE StartEdit(p)
    <3>1. PICK i \in 1 .. db.seq, c \in Changes :
              Privately(p, [NoRun EXCEPT !.cmd = "edit", !.id = i, !.change = c], "row")
      BY <2>1 DEF StartEdit
    <3>2. i \in MemoryId
      BY DEF MemoryId, IInv, Good
    <3> DEFINE r == [NoRun EXCEPT !.cmd = "edit", !.id = i, !.change = c]
    <3>3. /\ r.cmd = "edit" /\ r.id = i /\ r.change = c /\ r.rec = NoRecord /\ ~r.written
          /\ r.written \in BOOLEAN /\ r.todo = {} /\ r.doc = {} /\ r.jobs = {}
      BY DEF NoRun
    <3>4. Privately(p, r, "row")
      BY <3>1
    <3> HIDE DEF r
    <3> QED BY <3>2, <3>3, <3>4
  <2>2. CASE StartRemove(p)
    <3>1. PICK i \in Ids(db.rows) : Privately(p, [NoRun EXCEPT !.cmd = "remove", !.id = i], "remove")
      BY <2>2 DEF StartRemove
    <3>2. i \in MemoryId
      BY DEF Ids, IInv, Good
    <3> DEFINE r == [NoRun EXCEPT !.cmd = "remove", !.id = i]
    <3>3. /\ r.cmd = "remove" /\ r.id = i /\ r.change = NoChange /\ r.rec = NoRecord /\ ~r.written
          /\ r.written \in BOOLEAN /\ r.todo = {} /\ r.doc = {} /\ r.jobs = {}
      BY DEF NoRun
    <3>4. Privately(p, r, "remove")
      BY <3>1
    <3> HIDE DEF r
    <3> QED BY <3>2, <3>3, <3>4
  <2> QED BY <2>1, <2>2
<1>0. PICK label \in {"row", "remove"} : Privately(p, r, label)
  BY <1>1
<1>2. r.cmd # "none" /\ r.id \in Nat
  BY <1>1 DEF MemoryId
<1>3. NoRecord \in ReadRecord
  BY MemoryAssumption DEF NoRecord, ReadRecord
<1>4. RunTyped(r, label)
  <2>1. /\ r.jobs \subseteq [id : MemoryId, of : [title : Text, body : Text, tags : SUBSET Tag]]
        /\ r.doc \subseteq Record /\ r.id \in Nat
    BY <1>1, <1>2
  <2>2. r.cmd \in AllCommands
    BY <1>1 DEF AllCommands
  <2> QED BY <1>1, <1>2, <1>3, <2>1, <2>2 DEF RunTyped
<1>5. InPhase(r, label) /\ Tracks(db, r, label)
  BY <1>1, <1>2 DEF InPhase, Tracks, Seen, Reading
<1>6. raced' = raced /\ commands' \in 0 .. MaxCommands /\ ~Running(p)
  <2>1. \E cmd : Starting(p, cmd) /\ raced' = raced
    BY DEF StartEdit, StartRemove
  <2> QED BY <2>1, MemoryAssumption DEF Starting, KInv, StoreTyped
<1>7. ~run[p].written
  BY <1>6, NotRunning DEF Running, Reading
<1> QED BY <1>0, <1>4, <1>5, <1>6, <1>7, PrivateKnows, SharedTyped DEF Knows

\* A loop has all memories of the store to come.
LEMMA StartLoopKnows ==
    ASSUME IInv, KInv, NEW p \in Proc, NEW cmd \in {"export", "import", "restore", "embed"},
           StartLoop(p, cmd)
    PROVE  KInv'
<1> DEFINE doc == IF cmd \in {"import", "restore"} THEN file ELSE {}
           r == [NoRun EXCEPT !.cmd = cmd, !.todo = Ids(db.rows), !.doc = doc]
<1>1. Advance(p, r)
  BY DEF StartLoop
<1>2. doc \subseteq Record /\ (cmd \notin {"import", "restore"} => doc = {})
  BY DEF KInv, StoreTyped
<1> HIDE DEF doc
<1>3. /\ r.cmd = cmd /\ r.todo = Ids(db.rows) /\ r.doc = doc /\ r.id = 0 /\ r.change = NoChange
      /\ r.rec = NoRecord /\ ~r.written /\ r.written \in BOOLEAN /\ r.jobs = {} /\ r.known = {}
      /\ DOMAIN r = DOMAIN NoRun
  BY DEF NoRun
<1> HIDE DEF r
<1>4. NoRecord \in ReadRecord
  BY MemoryAssumption DEF NoRecord, ReadRecord
<1>5. RunTyped(r, "idle")
  <2>1. /\ r.jobs \subseteq [id : MemoryId, of : [title : Text, body : Text, tags : SUBSET Tag]]
        /\ r.id \in Nat
    BY <1>3
  <2>2. r.cmd \in AllCommands /\ r.cmd # "edit"
    BY <1>3 DEF AllCommands
  <2> QED BY <1>2, <1>3, <1>4, <2>1, <2>2 DEF RunTyped
<1>6. \A i \in Ids(db.rows) : Pending(r, "idle", i)
  BY <1>3 DEF Pending
<1>7. cmd = "export" => Exported(db, r, "idle")
  <2>1. cmd = "export" => Ids(r.doc) = {}
    BY <1>2, <1>3 DEF Ids
  <2> QED BY <2>1, <1>6 DEF Exported
<1>8. Hashed(db, r, "idle") /\ Embeds(db, r, "idle")
  BY <1>3, <1>6 DEF Hashed, Embeds
<1>9. Tracks(db, r, "idle")
  BY <1>3, <1>7, <1>8 DEF Tracks, Seen, Reading
<1>10. Ids(db.rows) \subseteq MemoryId
  BY DEF Ids, IInv, Good
<1>11. raced' = raced /\ commands' \in 0 .. MaxCommands /\ ~Running(p)
  BY MemoryAssumption DEF StartLoop, Starting, KInv, StoreTyped
<1>12. ~run[p].written
  BY <1>11, NotRunning DEF Running, Reading
<1> QED BY <1>1, <1>3, <1>5, <1>9, <1>10, <1>11, <1>12, AdvanceKnows

\* Between its queries MemoryFull changes nothing but the record it fills in.
LEMMA ReadingKnows ==
    ASSUME IInv, KInv, NEW p \in Proc, pc[p] \in {"row"} \cup Reading, NEW rec \in ReadRecord,
           NEW label \in Reading, Privately(p, [run[p] EXCEPT !.rec = rec], label),
           run[p].id \notin run[p].dirty => Seen(db, [run[p] EXCEPT !.rec = rec], label),
           raced' = raced, commands' = commands
    PROVE  KInv'
<1> DEFINE r == run[p]
           s == [r EXCEPT !.rec = rec]
<1>1. GoodRun(r, pc[p]) /\ RunTyped(r, pc[p]) /\ InPhase(r, pc[p]) /\ Tracks(db, r, pc[p])
  BY DEF IInv, KInv, Knows
<1>2. DOMAIN r = DOMAIN NoRun
  BY <1>1 DEF GoodRun
<1>3. commands' \in 0 .. MaxCommands
  BY DEF KInv, StoreTyped
<1>4. Privately(p, s, label) /\ (r.id \notin r.dirty => Seen(db, s, label))
  OBVIOUS
<1> HIDE DEF r
<1>5. /\ s.rec = rec /\ s.id = r.id /\ s.cmd = r.cmd /\ s.change = r.change /\ s.todo = r.todo
      /\ s.doc = r.doc /\ s.known = r.known /\ s.jobs = r.jobs
      /\ s.written = r.written /\ s.dirty = r.dirty
  BY <1>2, LocalsSet, LocalsKept
<1> HIDE DEF s
<1>6. RunTyped(s, label) /\ InPhase(s, label)
  BY <1>1, <1>5 DEF RunTyped, InPhase, Reading
<1>7. \A i : Pending(r, pc[p], i) => Pending(s, label, i)
  BY <1>5 DEF Pending
<1>8. r.cmd = "export" => Exported(db, s, label)
  BY <1>1, <1>5, <1>7 DEF Tracks, Exported
<1>9. r.cmd = "import" => Hashed(db, s, label)
  BY <1>1, <1>5, <1>7 DEF Tracks, Hashed
<1>10. r.cmd = "embed" => Embeds(db, s, label)
  BY <1>1, <1>5, <1>7 DEF Tracks, Embeds
<1>11. Tracks(db, s, label)
  BY <1>4, <1>5, <1>8, <1>9, <1>10 DEF Tracks, Reading
<1> QED BY <1>3, <1>4, <1>5, <1>6, <1>11, PrivateKnows, SharedTyped DEF Knows, r

\* The first query finds the row.
LEMMA ReadRowKnows ==
    ASSUME IInv, KInv, NEW p \in Proc, ReadRow(p)
    PROVE  KInv'
<1> DEFINE r == run[p]
<1>1. PICK row \in db.rows :
          /\ row.id = r.id
          /\ Privately(p, [r EXCEPT !.rec = [NoRecord EXCEPT !.id = row.id, !.title = row.title,
                                                             !.body = row.body]], "tags")
  BY DEF ReadRow
<1> DEFINE rec == [NoRecord EXCEPT !.id = row.id, !.title = row.title, !.body = row.body]
           s == [r EXCEPT !.rec = rec]
<1>3. row.id \in MemoryId /\ row.title \in Text /\ row.body \in Text
  BY DEF KInv, StoreTyped, TablesTyped
<1>4. rec \in ReadRecord
  <2>1. NoRecord \in ReadRecord
    BY MemoryAssumption DEF NoRecord, ReadRecord
  <2> QED BY <2>1, <1>3 DEF ReadRecord, MemoryId
<1>2. rec.id = row.id /\ rec.title = row.title /\ rec.body = row.body
  BY DEF NoRecord
<1> HIDE DEF rec
<1>5. DOMAIN r = DOMAIN NoRun
  BY DEF IInv, GoodRun
<1>6. Seen(db, s, "tags")
  <2> HIDE DEF r
  <2>1. s.rec = rec /\ s.id = r.id
    BY <1>5, LocalsSet
  <2> HIDE DEF s
  <2>2. r.id \in Ids(db.rows)
    BY <1>1 DEF Ids
  <2> QED BY <2>1, <2>2, <1>1, <1>2 DEF Seen, Reading
<1>7. pc[p] = "row" /\ raced' = raced /\ commands' = commands
  BY DEF ReadRow
<1>8. Privately(p, s, "tags")
  BY <1>1 DEF rec
<1> QED BY <1>4, <1>6, <1>7, <1>8, ReadingKnows DEF Reading

\* A memory that is gone is no record.
LEMMA NoRowKnows ==
    ASSUME IInv, KInv, NEW p \in Proc, NoRow(p)
    PROVE  KInv'
<1>1. NoRecord \in ReadRecord
  BY MemoryAssumption DEF NoRecord, ReadRecord
<1>2. /\ pc[p] \in {"row", "links"} /\ Taken(p, NoRecord) /\ run[p].id \notin Ids(db.rows)
      /\ raced' = raced /\ commands' = commands
  BY DEF NoRow
<1> QED BY <1>1, <1>2, TakenKnows

\* The query for the tags finds those of the row, if nobody came between.
LEMMA ReadTagsKnows ==
    ASSUME IInv, KInv, NEW p \in Proc, ReadTags(p)
    PROVE  KInv'
<1> DEFINE r == run[p]
           ts == Of(db.tags, r.id)
           rec == [r.rec EXCEPT !.tags = ts]
           s == [r EXCEPT !.rec = rec]
<1>1. /\ pc[p] = "tags" /\ raced' = raced /\ commands' = commands
      /\ Privately(p, [r EXCEPT !.rec.tags = ts], "evidence")
  BY DEF ReadTags
<1>2. GoodRun(r, "tags") /\ RunTyped(r, "tags") /\ Tracks(db, r, "tags")
  BY <1>1 DEF IInv, KInv, Knows
<1>3. DOMAIN r = DOMAIN NoRun /\ r.rec \in ReadRecord /\ r.rec.id = r.id
  BY <1>2 DEF GoodRun, RunTyped, Reading
<1>4. ts \subseteq Tag
  BY OfPairs DEF KInv, StoreTyped, TablesTyped
<1> HIDE DEF ts, r
<1>5. [r EXCEPT !.rec.tags = ts] = s
  BY <1>3 DEF NoRun
<1>6. rec \in ReadRecord /\ rec.id = r.rec.id /\ rec.title = r.rec.title /\ rec.body = r.rec.body
      /\ rec.tags = ts
  BY <1>3, <1>4 DEF ReadRecord
<1>7. s.rec = rec /\ s.id = r.id /\ s.written = r.written
  BY <1>3, LocalsSet, LocalsKept
<1> HIDE DEF s, rec
<1>8. ASSUME r.id \notin r.dirty PROVE Seen(db, s, "evidence")
  <2>1. Seen(db, r, "tags")
    BY <1>2, <1>8 DEF Tracks
  <2> QED BY <2>1, <1>6, <1>7 DEF Seen, Reading, ts
<1>9. Privately(p, s, "evidence")
  BY <1>1, <1>5
<1> QED BY <1>1, <1>6, <1>8, <1>9, ReadingKnows DEF Reading, s, r

\* The query for the evidence likewise, blobs included.
LEMMA ReadEvidenceKnows ==
    ASSUME IInv, KInv, NEW p \in Proc, ReadEvidence(p)
    PROVE  KInv'
<1> DEFINE r == run[p]
           as == AnchorsOf(db, r.id)
           rec == [r.rec EXCEPT !.anchors = as]
           s == [r EXCEPT !.rec = rec]
<1>1. /\ pc[p] = "evidence" /\ raced' = raced /\ commands' = commands
      /\ Privately(p, [r EXCEPT !.rec.anchors = as], "links")
  BY DEF ReadEvidence
<1>2. GoodRun(r, "evidence") /\ RunTyped(r, "evidence") /\ Tracks(db, r, "evidence")
  BY <1>1 DEF IInv, KInv, Knows
<1>3. DOMAIN r = DOMAIN NoRun /\ r.rec \in ReadRecord /\ r.rec.id = r.id
  BY <1>2 DEF GoodRun, RunTyped, Reading
<1>4. as \subseteq Anchor
  BY DEF AnchorsOf, KInv, StoreTyped, TablesTyped
<1> HIDE DEF as, r
<1>5. [r EXCEPT !.rec.anchors = as] = s
  BY <1>3 DEF NoRun
<1>6. rec \in ReadRecord /\ rec.id = r.rec.id /\ rec.title = r.rec.title /\ rec.body = r.rec.body
      /\ rec.tags = r.rec.tags /\ rec.anchors = as
  BY <1>3, <1>4 DEF ReadRecord
<1>7. s.rec = rec /\ s.id = r.id /\ s.written = r.written
  BY <1>3, LocalsSet, LocalsKept
<1> HIDE DEF s, rec
<1>8. ASSUME r.id \notin r.dirty PROVE Seen(db, s, "links")
  <2>1. Seen(db, r, "evidence")
    BY <1>2, <1>8 DEF Tracks
  <2> QED BY <2>1, <1>6, <1>7 DEF Seen, Reading, as
<1>9. Privately(p, s, "links")
  BY <1>1, <1>5
<1> QED BY <1>1, <1>6, <1>8, <1>9, ReadingKnows DEF Reading, s, r

\* The last query completes what the store holds of the memory.
LEMMA ReadLinksKnows ==
    ASSUME IInv, KInv, NEW p \in Proc, ReadLinks(p)
    PROVE  KInv'
<1> DEFINE r == run[p]
           ls == Of(db.links, r.id)
           rec == [r.rec EXCEPT !.links = ls]
           s == [r EXCEPT !.rec = rec]
<1>1. pc[p] = "links" /\ raced' = raced /\ commands' = commands /\ Taken(p, rec)
  BY DEF ReadLinks
<1>2. GoodRun(r, "links") /\ RunTyped(r, "links") /\ Tracks(db, r, "links") /\ Good(db)
  BY <1>1 DEF IInv, KInv, Knows
<1>3. DOMAIN r = DOMAIN NoRun /\ r.rec \in ReadRecord /\ r.rec.id = r.id /\ r.id \in MemoryId
  BY <1>2 DEF GoodRun, RunTyped, Reading
<1>4. ls \subseteq Target
  BY OfPairs DEF KInv, StoreTyped, TablesTyped
<1> HIDE DEF ls, r
<1>6. rec \in ReadRecord /\ rec.id = r.rec.id /\ rec.title = r.rec.title /\ rec.body = r.rec.body
      /\ rec.tags = r.rec.tags /\ rec.anchors = r.rec.anchors /\ rec.links = ls
  BY <1>3, <1>4 DEF ReadRecord
<1>7. s.rec = rec /\ s.id = r.id /\ s.written = r.written
  BY <1>3, LocalsSet, LocalsKept
<1> HIDE DEF s, rec
<1>8. ASSUME r.id \notin r.dirty PROVE Stored(db, r.id) = {rec}
  <2>1. Seen(db, r, "links")
    BY <1>2, <1>8 DEF Tracks
  <2>2. Seen(db, s, "update")
    BY <2>1, <1>6, <1>7 DEF Seen, Reading, ls
  <2>3. Stored(db, s.id) = {s.rec}
    BY <2>2, <1>2, <1>6, <1>7, SeenIsStored
  <2> QED BY <2>3, <1>7
<1> QED BY <1>1, <1>3, <1>6, <1>8, TakenKnows DEF r

\* Edit's first transaction leaves its memory there, and full text for the second to bring
\* up to date.
LEMMA UpdateKnows ==
    ASSUME IInv, KInv, NEW p \in Proc, Update(p)
    PROVE  KInv'
<1> DEFINE r == run[p]
           c == r.change
           title == Merge(c.title, r.rec.title)
           body == Merge(c.body, r.rec.body)
           d == ApplyChange(db, r.id, title, body, c, disk)
           s == [r EXCEPT !.written = TRUE, !.rec = NoRecord]
<1>1. pc[p] = "update" /\ raced' = raced /\ commands' \in 0 .. MaxCommands
  BY DEF Update, KInv, StoreTyped
<1>2. ~r.written
  BY <1>1, NotRunning DEF Reading
<1>3. CASE ~HasRow(db, r.id, c)
  <2>1. Quit(p)
    BY <1>3 DEF Update
  <2> QED BY <2>1, <1>1, <1>2, QuitKnows, SharedTyped
<1>4. CASE HasRow(db, r.id, c)
  <2>1. Committing(p, d, {r.id}, s, "row")
    BY <1>4 DEF Update
  <2>2. /\ GoodRun(r, "update") /\ RunTyped(r, "update") /\ InPhase(r, "update")
        /\ Tracks(db, r, "update") /\ Good(db) /\ TablesTyped(db)
        /\ disk \in [Place -> Blob \cup {NoBlob}]
    BY <1>1 DEF IInv, KInv, Knows, StoreTyped
  <2>3. c \in Change /\ r.rec \in ReadRecord /\ r.cmd = "edit" /\ r.id \in MemoryId
        /\ DOMAIN r = DOMAIN NoRun
    BY <2>2 DEF GoodRun, RunTyped, InPhase
  <2>4. title \in Text /\ body \in Text
    <3> HIDE DEF r
    <3>1. c.title \in Text \cup {Keep} /\ c.body \in Text \cup {Keep}
      BY <2>3 DEF Change
    <3>2. r.rec.title \in Text /\ r.rec.body \in Text
      BY <2>3 DEF ReadRecord
    <3> QED BY <3>1, <3>2 DEF Merge
  <2> HIDE DEF title, body, c
  <2>5. Good(d)
    BY <1>4, <2>2, <2>3, ApplyChangeGood
  <2>6. /\ ChangesOnly(db, d, {r.id}) /\ TablesTyped(d) /\ Ids(d.rows) = Ids(db.rows)
        /\ d.vecs = db.vecs
    <3> DEFINE i == r.id
    <3>1. Good(db) /\ TablesTyped(db) /\ i \in MemoryId /\ title \in Text /\ body \in Text
          /\ c \in Change /\ disk \in [Place -> Blob \cup {NoBlob}] /\ HasRow(db, i, c)
          /\ d = ApplyChange(db, i, title, body, c, disk)
      BY <1>4, <2>2, <2>3, <2>4
    <3> HIDE DEF i, d, r
    <3>2. /\ ChangesOnly(db, d, {i}) /\ TablesTyped(d) /\ Ids(d.rows) = Ids(db.rows)
          /\ d.vecs = db.vecs
      <4> DEFINE e == ApplyChange(db, i, title, body, c, disk)
      <4>1. ChangesOnly(db, e, {i}) /\ TablesTyped(e)
        BY <3>1, ApplyChangeStore
      <4>2. Ids(e.rows) = Ids(db.rows)
        BY <3>1, ApplyChangeGood
      <4>3. e.vecs = db.vecs
        <5>1. DOMAIN db = Tables
          BY <3>1 DEF Good
        <5> DEFINE u == UpdateMemory(db, i, title, body)
        <5>2. DOMAIN u = Tables /\ u.vecs = db.vecs
          BY <5>1 DEF UpdateMemory, Tables
        <5> HIDE DEF u
        <5> QED BY <5>2 DEF ApplyChange, Tables, u
      <4> QED BY <3>1, <4>1, <4>2, <4>3, Zenon
    <3> QED BY <3>2 DEF i
  <2> HIDE DEF d, r
  <2>7. /\ s.rec = NoRecord /\ s.cmd = r.cmd /\ s.id = r.id /\ s.change = r.change
        /\ s.written /\ s.written \in BOOLEAN /\ s.todo = r.todo /\ s.doc = r.doc
        /\ s.jobs = r.jobs /\ s.dirty = r.dirty
    BY <2>3 DEF NoRun
  <2> HIDE DEF s
  <2>8. NoRecord \in ReadRecord
    BY MemoryAssumption DEF NoRecord, ReadRecord
  <2>9. RunTyped(s, "row") /\ InPhase(s, "row")
    BY <2>2, <2>3, <2>7, <2>8 DEF RunTyped, InPhase
  <2>10. r.id \notin r.dirty => r.id \in Ids(d.rows)
    BY <2>2, <2>6 DEF Tracks, Seen, Ids
  <2>11. Tracks(d, s, "row")
    BY <2>3, <2>7, <2>10 DEF Tracks, Seen, Reading
  <2>12. Ids(d.vecs) \subseteq Ids(d.rows) \cup raced'
    BY <1>1, <2>6 DEF KInv, RemovedVectorsGone
  <2> QED BY <1>1, <1>2, <2>1, <2>6, <2>7, <2>9, <2>11, <2>12, CommittingKnows, SharedTyped
             DEF Knows, r
<1> QED BY <1>3, <1>4

\* Edit's second transaction writes the full text of the memory as it is, unless others
\* have come between.
LEMMA UpdateFtsKnows ==
    ASSUME IInv, KInv, NEW p \in Proc, UpdateFts(p)
    PROVE  KInv'
<1> DEFINE r == run[p]
           row == FtsRow(r.id, r.rec.title, r.rec.body, r.rec.tags)
           d == ReindexMemoryFTS(db, row)
<1>1. /\ pc[p] = "fts" /\ Committing(p, d, {r.id}, NoRun, "idle")
      /\ raced' = IF r.id \in r.dirty THEN raced \cup {r.id} ELSE raced \ {r.id}
      /\ commands' \in 0 .. MaxCommands
  BY DEF UpdateFts, KInv, StoreTyped
<1>2. /\ RunTyped(r, "fts") /\ InPhase(r, "fts") /\ Tracks(db, r, "fts")
      /\ Good(db) /\ TablesTyped(db) /\ raced \subseteq MemoryId
  BY <1>1 DEF IInv, KInv, Knows, StoreTyped
<1>3. r.rec \in ReadRecord /\ r.id \in MemoryId
  BY <1>2 DEF RunTyped, InPhase
<1>4. r.rec.title \in Text /\ r.rec.body \in Text /\ r.rec.tags \in SUBSET Tag
  BY <1>3 DEF ReadRecord
<1> HIDE DEF r
<1>5. Good(d) /\ d.rows = db.rows
  BY <1>2, ReindexGood
<1>6. /\ \A j : SameMemory(db, d, j) /\ SameVectors(db, d, j)
      /\ ChangesOnly(db, d, {r.id}) /\ TablesTyped(d)
      /\ {f \in d.fts : f.id = r.id} = {row}
  <2> DEFINE i == r.id
             title == r.rec.title
             body == r.rec.body
             tags == r.rec.tags
  <2>1. Good(db) /\ TablesTyped(db) /\ i \in MemoryId /\ title \in Text /\ body \in Text
        /\ tags \in SUBSET Tag /\ row = FtsRow(i, title, body, tags)
        /\ d = ReindexMemoryFTS(db, FtsRow(i, title, body, tags))
    BY <1>2, <1>3, <1>4
  <2> HIDE DEF i, title, body, tags, d, row
  <2>2. /\ \A j : SameMemory(db, d, j) /\ SameVectors(db, d, j)
        /\ ChangesOnly(db, d, {i}) /\ TablesTyped(d)
        /\ {f \in d.fts : f.id = i} = {FtsRow(i, title, body, tags)}
    <3> DEFINE e == ReindexMemoryFTS(db, FtsRow(i, title, body, tags))
    <3>1. \A j : SameMemory(db, e, j) /\ SameVectors(db, e, j)
      BY <2>1, ReindexStore
    <3>2. ChangesOnly(db, e, {i}) /\ TablesTyped(e)
      BY <2>1, ReindexStore
    <3>3. {f \in e.fts : f.id = i} = {FtsRow(i, title, body, tags)}
      <4>1. FtsRow(i, title, body, tags).id = i
        BY DEF FtsRow
      <4>2. e.fts = {f \in db.fts : f.id # i} \cup {FtsRow(i, title, body, tags)}
        <5>1. DOMAIN db = Tables
          BY <2>1 DEF Good
        <5> QED BY <5>1, <4>1 DEF ReindexMemoryFTS, Tables
      <4> HIDE DEF e
      <4> QED BY <4>1, <4>2
    <3> QED BY <2>1, <3>1, <3>2, <3>3, Zenon
  <2> QED BY <2>1, <2>2 DEF i
<1> HIDE DEF d
<1>7. r.id \notin r.dirty => Stored(db, r.id) = {r.rec}
  <2>1. SUFFICES ASSUME r.id \notin r.dirty PROVE Stored(db, r.id) = {r.rec}
    OBVIOUS
  <2>2. Seen(db, r, "fts")
    BY <2>1, <1>2 DEF Tracks
  <2> QED BY <2>2, <1>2, <1>3, SeenIsStored
<1>8. FtsFits(d, r.id) \/ r.id \in raced'
  <2>1. CASE r.id \in r.dirty
    BY <2>1, <1>1
  <2>2. CASE r.id \notin r.dirty
    <3>1. Stored(d, r.id) = {r.rec}
      <4>1. SameMemory(db, d, r.id)
        BY <1>6
      <4>2. Stored(db, r.id) = Stored(d, r.id)
        BY <4>1, SameStored, Zenon
      <4> QED BY <2>2, <1>7, <4>2
    <3>2. FtsRowsOf(d, r.id) = {row}
      BY <3>1 DEF FtsRowsOf
    <3> QED BY <3>2, <1>6 DEF FtsFits
  <2> QED BY <2>1, <2>2
<1>9. r.id \in Ids(d.vecs) => r.id \in Ids(d.rows) \cup raced'
  <2>1. CASE r.id \in r.dirty
    BY <2>1, <1>1
  <2>2. CASE r.id \notin r.dirty
    <3>1. r.id \in Ids(db.rows)
      BY <2>2, <1>2, <1>7, StoredIsOne
    <3> QED BY <3>1, <1>5
  <2> QED BY <2>1, <2>2
<1>10. Knows(d, NoRun, "idle")
  BY NothingKnown
<1>11. raced' \subseteq MemoryId /\ raced \ {r.id} \subseteq raced'
  BY <1>1, <1>2, <1>3
<1> QED BY <1>1, <1>6, <1>8, <1>9, <1>10, <1>11, CommittingKnows DEF r

\* Remove takes full text and vector along.
LEMMA RemoveKnows ==
    ASSUME IInv, KInv, NEW p \in Proc, Remove(p)
    PROVE  KInv'
<1> DEFINE i == run[p].id
           d == DeleteMemory(db, i)
<1>1. /\ pc[p] = "remove" /\ Committing(p, d, {i}, NoRun, "idle")
      /\ raced' = raced \ {i} /\ commands' \in 0 .. MaxCommands
  BY DEF Remove, KInv, StoreTyped
<1>2. Good(db) /\ TablesTyped(db) /\ raced \subseteq MemoryId
  BY DEF IInv, KInv, StoreTyped
<1>3. ~run[p].written
  BY <1>1, NotRunning DEF Reading
<1> HIDE DEF i
<1>4. Good(d)
  BY <1>2, DeleteMemoryGood
<1>5. /\ ChangesOnly(db, d, {i}) /\ TablesTyped(d)
      /\ i \notin Ids(d.rows) /\ i \notin Ids(d.vecs) /\ i \notin Ids(d.fts)
  BY <1>2, DeleteMemoryStore
<1> HIDE DEF d
<1>6. FtsFits(d, i)
  <2>1. {f \in d.fts : f.id = i} = {}
    BY <1>5 DEF Ids
  <2>2. Stored(d, i) = {}
    BY <1>4, <1>5, StoredIsOne
  <2> QED BY <2>1, <2>2 DEF FtsFits, FtsRowsOf
<1>7. Knows(d, NoRun, "idle")
  BY NothingKnown
<1> QED BY <1>1, <1>2, <1>3, <1>5, <1>6, <1>7, CommittingKnows DEF i

\* The document that is written is the one the export knows to be the store.
LEMMA WriteDocumentKnows ==
    ASSUME IInv, KInv, NEW p \in Proc, WriteDocument(p)
    PROVE  KInv'
<1> DEFINE r == run[p]
           s == Finished(r)
<1>1. /\ pc[p] = "write" /\ file' = r.doc /\ run' = [run EXCEPT ![p] = s]
      /\ pc' = [pc EXCEPT ![p] = "done"]
      /\ disk' = disk /\ db' = db /\ raced' = raced /\ commands' = commands
  BY DEF WriteDocument
<1>2. GoodRun(r, "write") /\ RunTyped(r, "write") /\ InPhase(r, "write") /\ Tracks(db, r, "write")
  BY <1>1 DEF IInv, KInv, Knows
<1>3. r.cmd = "export" /\ r.todo = {} /\ DOMAIN r = DOMAIN NoRun /\ r.doc \subseteq Record /\ ~r.written
  BY <1>2 DEF GoodRun, RunTyped, InPhase, Reading
<1>4. Knows(db, s, "done")
  <2>1. Exported(db, r, "write")
    BY <1>2, <1>3 DEF Tracks
  <2> HIDE DEF r
  <2> QED BY <2>1, <1>2, <1>3, FinishedKnows
<1>5. ~s.written
  BY DEF Finished, NoRun
<1> HIDE DEF s
<1>6. /\ run'[p] = s /\ pc'[p] = "done"
      /\ \A q \in Proc : q # p => run'[q] = run[q] /\ pc'[q] = pc[q]
  BY <1>1, StepOf
<1>7. \A q \in Proc : Knows(db', run'[q], pc'[q])
  <2>1. \A q \in Proc : Knows(db, run'[q], pc'[q])
    BY <1>4, <1>6 DEF KInv
  <2> QED BY <2>1, <1>1
<1>8. StoreTyped'
  BY <1>1, <1>3 DEF KInv, StoreTyped
<1>9. \A i : MidEdit(i) => MidEdit(i)'
  BY <1>3, <1>6 DEF MidEdit
<1>10. FullTextCurrent'
  <2>1. FullTextCurrent
    BY DEF KInv
  <2>2. \A i : FtsRowsOf(db', i) = FtsRowsOf(db, i) /\ db'.fts = db.fts /\ db'.rows = db.rows
    BY <1>1
  <2> QED BY <2>1, <2>2, <1>1, <1>9 DEF FullTextCurrent
<1>11. RemovedVectorsGone'
  BY <1>1 DEF KInv, RemovedVectorsGone
<1> QED BY <1>7, <1>8, <1>10, <1>11 DEF KInv

\* A default import writes its memories with their full text.
LEMMA ImportKnows ==
    ASSUME IInv, KInv, NEW p \in Proc, Import(p)
    PROVE  KInv'
<1> DEFINE r == run[p]
           new == NewRecords(r.doc, r.known)
           recs == Renumbered(new, db.seq)
           d == ImportFresh(db, r.doc, r.known)
           ids == Ids(d.rows) \ Ids(db.rows)
<1>1. /\ pc[p] = "import" /\ Committing(p, d, ids, NoRun, "idle")
      /\ raced' = raced /\ commands' \in 0 .. MaxCommands
  BY DEF Import, KInv, StoreTyped
<1>2. /\ GoodRun(r, "import") /\ RunTyped(r, "import") /\ Good(db) /\ TablesTyped(db)
  BY <1>1 DEF IInv, KInv, Knows, StoreTyped
<1>3. IsFiniteSet(r.doc) /\ GoodDocument(r.doc) /\ r.doc \in SUBSET Record
  BY <1>2 DEF GoodRun, RunTyped
<1>4. ~r.written
  BY <1>1, NotRunning DEF Reading
<1> HIDE DEF r
<1>5. /\ ChangesOnly(db, d, ids) /\ ids = Ids(recs) /\ TablesTyped(d)
      /\ Hold(d, recs)
  <2>1. /\ ChangesOnly(db, d, ids)
        /\ ids = Ids(recs)
        /\ Ids(db.rows) \subseteq Ids(d.rows)
        /\ Hold(d, recs)
        /\ \A x \in recs : \E t \in new : SameButId(x, t)
        /\ \A t \in new : \E x \in recs : SameButId(x, t)
        /\ \A x, y \in recs : x # y => \E t, u \in new : t # u /\ SameButId(x, t) /\ SameButId(y, u)
        /\ TablesTyped(d) /\ d.vecs = db.vecs
    BY <1>2, <1>3, ImportFreshStore, Zenon
  <2> QED BY <2>1, Zenon
<1> HIDE DEF d, recs
<1>6. \A i \in ids : FtsFits(d, i)
  BY <1>5 DEF Ids, Hold
<1>7. Knows(d, NoRun, "idle")
  BY NothingKnown
<1> QED BY <1>1, <1>4, <1>5, <1>6, <1>7, CommittingKnows, SharedTyped DEF r

\* A restore writes its document with its full text, and knows that it did.
LEMMA RestoreKnows ==
    ASSUME IInv, KInv, NEW p \in Proc, Restore(p)
    PROVE  KInv'
<1> DEFINE r == run[p]
           d == ImportPreserved(db, r.doc)
           ids == Ids(r.doc)
<1>1. /\ pc[p] = "import" /\ r.cmd = "restore" /\ ~Collides(db, r.doc)
      /\ Committing(p, d, ids, Finished(r), "done")
      /\ raced' = raced \ ids /\ commands' \in 0 .. MaxCommands
  BY DEF Restore, KInv, StoreTyped
<1>2. /\ GoodRun(r, "import") /\ RunTyped(r, "import") /\ InPhase(r, "import")
      /\ Good(db) /\ TablesTyped(db) /\ raced \subseteq MemoryId
  BY <1>1 DEF IInv, KInv, Knows, StoreTyped
<1>3. /\ IsFiniteSet(r.doc) /\ GoodDocument(r.doc) /\ r.doc \in SUBSET Record
      /\ r.todo = {} /\ DOMAIN r = DOMAIN NoRun
  BY <1>2 DEF GoodRun, RunTyped, InPhase
<1>4. ~r.written
  BY <1>1, NotRunning DEF Reading
<1> HIDE DEF r
<1>5. Good(d)
  BY <1>1, <1>2, <1>3, ImportPreservedGood
<1>6. /\ ChangesOnly(db, d, ids) /\ TablesTyped(d)
      /\ Hold(d, r.doc)
  BY <1>1, <1>2, <1>3, ImportPreservedStore
<1> HIDE DEF d
<1>7. \A i \in ids : FtsFits(d, i) /\ i \in Ids(d.rows)
  <2>1. ASSUME NEW x \in r.doc PROVE x.id \in Ids(d.rows)
    BY <1>5, <1>6, StoredIsOne DEF Hold
  <2> QED BY <2>1, <1>6 DEF Ids, Hold
<1>8. Knows(d, Finished(r), "done")
  <2>1. IsRestored(d, r)
    BY <1>6 DEF IsRestored, Hold
  <2> QED BY <2>1, <1>1, <1>2, <1>3, FinishedKnows
<1>9. raced' \subseteq MemoryId /\ raced \ ids \subseteq raced'
  BY <1>1, <1>2
<1> QED BY <1>1, <1>4, <1>6, <1>7, <1>8, <1>9, CommittingKnows DEF r

\* The gate finds the vector of the memory's text or makes a job for it.
LEMMA GateKnows ==
    ASSUME IInv, KInv, NEW p \in Proc, Gate(p)
    PROVE  KInv'
<1> DEFINE r == run[p]
           jobs == r.jobs \cup IF Embedded(db, r.rec) THEN {}
                               ELSE {[id |-> r.rec.id, of |-> Words(r.rec)]}
           s == [r EXCEPT !.rec = NoRecord, !.jobs = jobs]
<1>1. pc[p] = "gate" /\ Advance(p, s) /\ raced' = raced /\ commands' \in 0 .. MaxCommands
  BY DEF Gate, KInv, StoreTyped
<1>2. /\ GoodRun(r, "gate") /\ RunTyped(r, "gate") /\ InPhase(r, "gate") /\ Tracks(db, r, "gate")
      /\ Good(db)
  BY <1>1 DEF IInv, KInv, Knows
<1>3. /\ DOMAIN r = DOMAIN NoRun /\ r.todo \subseteq MemoryId /\ r.cmd = "embed"
      /\ r.rec \in ReadRecord /\ r.rec.id = r.id /\ r.id \in MemoryId /\ ~r.written
  BY <1>2 DEF GoodRun, RunTyped, InPhase, Reading
<1>4. Embeds(db, r, "gate") /\ (r.id \notin r.dirty => Seen(db, r, "gate"))
  BY <1>2, <1>3 DEF Tracks
<1> DEFINE job == [id |-> r.id, of |-> Words(r.rec)]
<1>5. /\ \A j \in jobs : j \in r.jobs \/ j = job
      /\ r.jobs \subseteq jobs
      /\ job \in db.vecs \cup jobs
  BY <1>3 DEF Embedded
<1>6. ~run[p].written
  BY <1>3
<1> HIDE DEF r, jobs
<1>7. /\ DOMAIN s = DOMAIN NoRun /\ s.rec = NoRecord /\ s.cmd = r.cmd /\ s.id = r.id
      /\ s.change = r.change /\ s.todo = r.todo /\ s.doc = r.doc /\ s.written = r.written
      /\ s.dirty = r.dirty /\ s.jobs = jobs
  BY <1>3 DEF NoRun
<1> HIDE DEF s
<1>8. job.id = r.id /\ job.of = Words(r.rec)
      /\ job \in [id : MemoryId, of : [title : Text, body : Text, tags : SUBSET Tag]]
  BY <1>3 DEF Words, ReadRecord
<1>9. r.id \notin r.dirty => Stored(db, r.id) = {r.rec}
  BY <1>2, <1>3, <1>4, SeenIsStored
<1> HIDE DEF job
<1>10. RunTyped(s, "idle")
  <2>1. s.jobs \subseteq [id : MemoryId, of : [title : Text, body : Text, tags : SUBSET Tag]]
    <3>1. r.jobs \subseteq [id : MemoryId, of : [title : Text, body : Text, tags : SUBSET Tag]]
      BY <1>2 DEF RunTyped
    <3> HIDE DEF Embeds
    <3> QED BY <3>1, <1>5, <1>7, <1>8
  <2>2. NoRecord \in ReadRecord
    BY MemoryAssumption DEF NoRecord, ReadRecord
  <2> QED BY <2>1, <2>2, <1>2, <1>3, <1>7 DEF RunTyped
<1>11. \A i : Pending(r, "gate", i) => Pending(s, "idle", i) \/ i = r.id
  BY <1>7 DEF Pending, Reading
<1>12. ASSUME NEW i \in Ids(db.rows), ~Pending(s, "idle", i), NEW x \in Stored(db, i), ~Blank(x)
       PROVE  [id |-> i, of |-> Words(x)] \in db.vecs \cup s.jobs
  <2>1. i \notin r.dirty
    BY <1>12, <1>7 DEF Pending
  <2>2. CASE i = r.id
    <3>1. x = r.rec
      BY <2>1, <2>2, <1>9, <1>12
    <3>2. job = [id |-> i, of |-> Words(x)]
      BY <2>2, <3>1 DEF job
    <3> QED BY <3>2, <1>5, <1>7
  <2>3. CASE i # r.id
    <3>1. ~Pending(r, "gate", i)
      BY <2>3, <1>11, <1>12
    <3>2. [id |-> i, of |-> Words(x)] \in db.vecs \cup r.jobs
      BY <3>1, <1>4, <1>12 DEF Embeds
    <3> QED BY <3>2, <1>5, <1>7
  <2> QED BY <2>2, <2>3
<1>13. ASSUME NEW j \in s.jobs, j.id \notin s.dirty PROVE \E x \in Stored(db, j.id) : j.of = Words(x)
  <2>1. CASE j \in r.jobs
    BY <2>1, <1>4, <1>7, <1>13 DEF Embeds
  <2>2. CASE j = job
    BY <2>2, <1>7, <1>8, <1>9, <1>13
  <2> QED BY <2>1, <2>2, <1>5, <1>7
<1>14. Embeds(db, s, "idle")
  BY <1>12, <1>13 DEF Embeds
<1>15. Tracks(db, s, "idle")
  BY <1>3, <1>7, <1>14 DEF Tracks, Seen, Reading
<1> QED BY <1>1, <1>3, <1>6, <1>7, <1>10, <1>15, AdvanceKnows

\* A vector that is stored is its memory's, unless others have changed the memory.
LEMMA StoreVectorKnows ==
    ASSUME IInv, KInv, NEW p \in Proc, StoreVector(p)
    PROVE  KInv'
<1> DEFINE r == run[p]
<1>1. PICK j \in r.jobs :
          /\ db' = UpsertVector(db, j.id, j.of)
          /\ run' = [q \in Proc |->
                        IF q = p THEN [r EXCEPT !.jobs = r.jobs \ {j}]
                        ELSE IF run[q].cmd = "embed"
                             THEN [run[q] EXCEPT !.dirty = run[q].dirty \cup {j.id}]
                        ELSE run[q]]
          /\ raced' = IF j.id \in r.dirty THEN raced \cup {j.id} ELSE raced
  BY DEF StoreVector
<1>2. /\ pc[p] = "store" /\ disk' = disk /\ file' = file /\ pc' = pc /\ commands' = commands
  BY DEF StoreVector
<1>3. /\ GoodRun(r, "store") /\ RunTyped(r, "store") /\ InPhase(r, "store") /\ Tracks(db, r, "store")
      /\ Good(db) /\ TablesTyped(db) /\ raced \subseteq MemoryId
  BY <1>2 DEF IInv, KInv, Knows, StoreTyped
<1>4. r.cmd = "embed" /\ Embeds(db, r, "store") /\ ~r.written /\ DOMAIN r = DOMAIN NoRun
  BY <1>3 DEF InPhase, RunTyped, Tracks, GoodRun, Reading
<1> DEFINE s == [r EXCEPT !.jobs = r.jobs \ {j}]
           i == j.id
<1>5. /\ i \in MemoryId /\ j.of \in [title : Text, body : Text, tags : SUBSET Tag]
      /\ j = [id |-> i, of |-> j.of]
  BY <1>3 DEF RunTyped
<1>6. /\ run'[p] = s
      /\ \A q \in Proc : q # p =>
            run'[q] = IF run[q].cmd = "embed" THEN [run[q] EXCEPT !.dirty = run[q].dirty \cup {i}]
                      ELSE run[q]
  BY <1>1
<1> HIDE DEF r
<1>7. /\ DOMAIN s = DOMAIN NoRun /\ s.rec = r.rec /\ s.cmd = r.cmd /\ s.id = r.id
      /\ s.change = r.change /\ s.todo = r.todo /\ s.doc = r.doc /\ s.written = r.written
      /\ s.dirty = r.dirty /\ s.jobs = r.jobs \ {j}
  BY <1>4 DEF NoRun
<1> HIDE DEF s
<1>8. /\ \A k : SameMemory(db, db', k) /\ SameFts(db, db', k)
      /\ \A k : k # i => SameVectors(db, db', k)
      /\ TablesTyped(db') /\ j \in db'.vecs
      /\ \A v \in db'.vecs : v \in db.vecs \/ v.id = i
  <2> HIDE DEF i
  <2>1. [id |-> i, of |-> j.of] \in db'.vecs
    BY <1>1, <1>3, <1>5, UpsertVectorStore DEF i
  <2> QED BY <2>1, <1>1, <1>3, <1>5, UpsertVectorStore DEF i
<1>9. \A k : Stored(db', k) = Stored(db, k) /\ (k \in Ids(db'.rows) <=> k \in Ids(db.rows))
  BY <1>8, SameStored
<1> HIDE DEF i
<1>10. i \notin r.dirty => \E x \in Stored(db, i) : j.of = Words(x)
  BY <1>4 DEF Embeds, i
<1>11. \A k : Pending(s, "store", k) <=> k \in r.dirty \cup r.todo
  BY <1>7 DEF Pending, Reading
<1>12. ASSUME NEW k \in Ids(db'.rows), ~Pending(s, "store", k), NEW x \in Stored(db', k), ~Blank(x)
       PROVE  [id |-> k, of |-> Words(x)] \in db'.vecs \cup s.jobs
  <2>1. k \notin r.dirty \cup r.todo /\ k \in Ids(db.rows) /\ x \in Stored(db, k)
    BY <1>9, <1>11, <1>12
  <2>2. CASE k = i
    <3>1. PICK y \in Stored(db, i) : j.of = Words(y)
      BY <2>1, <2>2, <1>10
    <3>2. y = x
      BY <2>1, <2>2, <3>1, <1>3, StoredIsOne DEF Ids
    <3> QED BY <2>2, <3>1, <3>2, <1>5, <1>8
  <2>3. CASE k # i
    <3> DEFINE v == [id |-> k, of |-> Words(x)]
    <3>1. v.id = k /\ j.id = i
      BY DEF i
    <3>2. v \in db.vecs \cup r.jobs
      <4>1. ~Pending(r, "store", k)
        BY <2>1 DEF Pending, Reading
      <4> QED BY <2>1, <4>1, <1>4, <1>12 DEF Embeds
    <3> HIDE DEF v
    <3>3. CASE v \in db.vecs
      <4>1. v \in {w \in db.vecs : w.id = k}
        BY <3>1, <3>3
      <4>2. v \in db'.vecs
        BY <4>1, <2>3, <1>8 DEF SameVectors
      <4> QED BY <4>2 DEF v
    <3>4. CASE v \in r.jobs
      <4>1. v \in s.jobs
        BY <3>1, <3>4, <2>3, <1>7
      <4> QED BY <4>1 DEF v
    <3> QED BY <3>2, <3>3, <3>4
  <2> QED BY <2>2, <2>3
<1>13. ASSUME NEW k \in s.jobs, k.id \notin s.dirty PROVE \E x \in Stored(db', k.id) : k.of = Words(x)
  <2>1. k \in r.jobs /\ k.id \notin r.dirty
    BY <1>7, <1>13
  <2> QED BY <2>1, <1>4, <1>9 DEF Embeds
<1>14. Knows(db', s, "store")
  <2>1. RunTyped(s, "store") /\ InPhase(s, "store")
    BY <1>3, <1>7 DEF RunTyped, InPhase
  <2>2. Embeds(db', s, "store")
    BY <1>12, <1>13 DEF Embeds
  <2>3. Tracks(db', s, "store")
    BY <2>2, <1>4, <1>7 DEF Tracks, Seen, Reading
  <2> QED BY <2>1, <2>3 DEF Knows
<1>15. ASSUME NEW q \in Proc, q # p
       PROVE  /\ Knows(db', run'[q], pc[q])
              /\ run'[q].written = run[q].written /\ run'[q].id = run[q].id
  <2> DEFINE o == run[q]
             t == [o EXCEPT !.dirty = o.dirty \cup {i}]
  <2>1. DOMAIN o = DOMAIN NoRun /\ Knows(db, o, pc[q])
    BY DEF IInv, GoodRun, KInv
  <2>2. CASE o.cmd = "embed"
    <3>1. run'[q] = t
      BY <2>2, <1>6, <1>15
    <3> HIDE DEF o
    <3>2. /\ DOMAIN t = DOMAIN o /\ t.dirty = o.dirty \cup {i} /\ t.cmd = o.cmd /\ t.id = o.id
          /\ t.change = o.change /\ t.rec = o.rec /\ t.written = o.written /\ t.todo = o.todo
          /\ t.doc = o.doc /\ t.known = o.known /\ t.jobs = o.jobs
      BY <2>1 DEF NoRun
    <3> HIDE DEF t
    <3>3. Knows(db', t, pc[q])
      <4>1. \A k : k \notin {i} => SameMemory(db, db', k) /\ SameVectors(db, db', k)
        BY <1>8
      <4> QED BY <2>1, <3>2, <4>1, KnowsAfterOthers
    <3> QED BY <3>1, <3>2, <3>3 DEF o
  <2>3. CASE o.cmd # "embed"
    <3>1. run'[q] = o
      BY <2>3, <1>6, <1>15
    <3> HIDE DEF o
    <3>2. o.dirty = o.dirty \cup {}
      OBVIOUS
    <3>3. Knows(db', o, pc[q])
      BY <2>1, <2>3, <3>2, <1>8, KnowsAfterOthers
    <3> QED BY <3>1, <3>3 DEF o
  <2> QED BY <2>2, <2>3
<1>16. \A q \in Proc : Knows(db', run'[q], pc'[q])
  BY <1>2, <1>6, <1>14, <1>15
<1>17. StoreTyped'
  BY <1>1, <1>2, <1>3, <1>5, <1>8 DEF KInv, StoreTyped, i
<1>18. \A k : MidEdit(k) => MidEdit(k)'
  BY <1>4, <1>15 DEF MidEdit, r
<1>19. FullTextCurrent'
  <2>1. SUFFICES ASSUME NEW k \in Ids(db'.rows) \cup Ids(db'.fts)
                 PROVE  k \in raced' \/ MidEdit(k)' \/ FtsFits(db', k)
    BY DEF FullTextCurrent, FtsFits
  <2>2. SameMemory(db, db', k) /\ SameFts(db, db', k)
    BY <1>8
  <2>3. k \in Ids(db'.fts) => k \in Ids(db.fts)
    BY <2>2 DEF SameFts, Ids
  <2>4. k \in raced \/ MidEdit(k) \/ FtsFits(db, k)
    BY <2>1, <2>3, <1>9 DEF KInv, FullTextCurrent, FtsFits
  <2> QED BY <2>2, <2>4, <1>1, <1>18, FitsStays
<1>20. RemovedVectorsGone'
  <2>1. SUFFICES ASSUME NEW v \in db'.vecs PROVE v.id \in Ids(db'.rows) \cup raced'
    BY DEF RemovedVectorsGone, Ids
  <2>2. CASE v \in db.vecs
    <3>1. v.id \in Ids(db.rows) \cup raced
      BY <2>2 DEF KInv, RemovedVectorsGone, Ids
    <3> QED BY <3>1, <1>1, <1>9
  <2>3. CASE v.id = i
    <3>1. i \in r.dirty => i \in raced'
      BY <1>1 DEF i
    <3>2. i \notin r.dirty => i \in Ids(db.rows)
      BY <1>3, <1>10, StoredIsOne
    <3> QED BY <2>3, <3>1, <3>2, <1>9
  <2> QED BY <2>2, <2>3, <1>8
<1> QED BY <1>16, <1>17, <1>19, <1>20 DEF KInv

\* An index run whose jobs are done knows that the memories have their vectors.
LEMMA EndEmbedKnows ==
    ASSUME IInv, KInv, NEW p \in Proc, EndEmbed(p)
    PROVE  KInv'
<1> DEFINE r == run[p]
<1>1. /\ pc[p] = "store" /\ r.jobs = {} /\ Privately(p, Finished(r), "done")
      /\ raced' = raced /\ commands' \in 0 .. MaxCommands
  BY DEF EndEmbed, KInv, StoreTyped
<1>2. GoodRun(r, "store") /\ RunTyped(r, "store") /\ InPhase(r, "store") /\ Tracks(db, r, "store")
  BY <1>1 DEF IInv, KInv, Knows
<1>3. /\ r.cmd = "embed" /\ r.todo = {} /\ DOMAIN r = DOMAIN NoRun /\ ~r.written
      /\ Embeds(db, r, "store")
  BY <1>2 DEF GoodRun, RunTyped, InPhase, Tracks, Reading
<1> HIDE DEF r
<1>4. Knows(db, Finished(r), "done")
  BY <1>1, <1>2, <1>3, FinishedKnows
<1> QED BY <1>1, <1>3, <1>4, PrivateKnows, SharedTyped DEF r

\* A command that gives up, an edit that has written half of what it should among them,
\* leaves its mark.
LEMMA QuitsKnow ==
    ASSUME IInv, KInv, NEW p \in Proc, RestoreCollides(p) \/ Fail(p)
    PROVE  KInv'
<1>1. Quit(p) /\ commands' \in 0 .. MaxCommands /\ raced \subseteq MemoryId
  BY DEF RestoreCollides, Fail, KInv, StoreTyped
<1>2. CASE RestoreCollides(p)
  <2>1. pc[p] = "import" /\ raced' = raced
    BY <1>2 DEF RestoreCollides
  <2>2. ~run[p].written
    BY <2>1, NotRunning DEF Reading
  <2> QED BY <2>1, <2>2, <1>1, QuitKnows
<1>3. CASE Fail(p)
  <2>1. raced' = IF run[p].written THEN raced \cup {run[p].id} ELSE raced
    BY <1>3 DEF Fail
  <2>2. run[p].written => run[p].id \in MemoryId
    BY DEF KInv, Knows, RunTyped
  <2> QED BY <2>1, <2>2, <1>1, QuitKnows
<1> QED BY <1>2, <1>3

\* A file that is touched is none of the store's.
LEMMA TouchKnows ==
    ASSUME KInv, Touch
    PROVE  KInv'
<1>1. /\ file' = file /\ db' = db /\ pc' = pc /\ run' = run /\ raced' = raced
      /\ commands' = commands
  BY DEF Touch
<1>2. disk' \in [Place -> Blob \cup {NoBlob}]
  BY DEF Touch, KInv, StoreTyped
<1>3. \A p \in Proc : Knows(db', run'[p], pc'[p])
  <2>1. \A p \in Proc : Knows(db, run[p], pc[p])
    BY DEF KInv
  <2> QED BY <2>1, <1>1
<1>4. StoreTyped'
  BY <1>1, <1>2 DEF KInv, StoreTyped
<1>5. \A i : MidEdit(i) <=> MidEdit(i)'
  BY <1>1 DEF MidEdit
<1>6. FullTextCurrent'
  <2>1. FullTextCurrent
    BY DEF KInv
  <2>2. \A i : FtsRowsOf(db', i) = FtsRowsOf(db, i) /\ db'.fts = db.fts /\ db'.rows = db.rows
    BY <1>1
  <2> QED BY <2>1, <2>2, <1>1, <1>5 DEF FullTextCurrent
<1>7. RemovedVectorsGone'
  BY <1>1 DEF KInv, RemovedVectorsGone
<1> QED BY <1>3, <1>4, <1>6, <1>7 DEF KInv

-----------------------------------------------------------------------------
(* Theorems *)

\* The store starts empty and with a document that could be imported.
LEMMA InitGood == Init => IInv
<1>1. SUFFICES ASSUME Init PROVE IInv
  OBVIOUS
<1>2. Good(db)
  <2>1. /\ DOMAIN db = Tables /\ db.seq = 0 /\ db.rows = {} /\ db.tags = {} /\ db.links = {}
        /\ db.anchors = {} /\ db.fts = {} /\ db.vecs = {}
    BY <1>1 DEF Init, NoMemories, Tables
  <2>2. Consistent(db)
    BY <2>1 DEF Consistent, Ids
  <2>3. \A i : BoundedSeats({a \in db.anchors : a.id = i})
    BY <2>1 DEF BoundedSeats
  <2> QED BY <2>1, <2>2, <2>3 DEF Good
<1>3. IsFiniteSet(file) /\ GoodDocument(file)
  BY <1>1, DocumentsGood DEF Init
<1>4. pc \in [Proc -> Labels] /\ DOMAIN run = Proc /\ \A p \in Proc : GoodRun(run[p], pc[p])
  BY <1>1, NoRunGood DEF Init, Labels
<1> QED BY <1>1, <1>2, <1>3, <1>4 DEF IInv, Init

\* Every step of every command, whatever it overlaps with, keeps the invariant and
\* gives only fresh ids away.
LEMMA NextGood == IInv /\ [Next]_vars => IInv' /\ (NewFresh \/ UNCHANGED vars)
<1>1. SUFFICES ASSUME IInv, [Next]_vars PROVE IInv' /\ (NewFresh \/ UNCHANGED vars)
  OBVIOUS
<1>2. CASE UNCHANGED vars
  BY <1>1, <1>2 DEF IInv, vars
<1>3. CASE Touch
  <2>1. IInv'
    BY <1>1, <1>3 DEF Touch, IInv
  <2>2. NewFresh
    BY <1>3 DEF Touch, NewFresh
  <2> QED BY <2>1, <2>2
<1>4. ASSUME NEW p \in Proc, Step(p) PROVE IInv' /\ NewFresh
  <2>1. CASE Add(p) \/ StartEdit(p) \/ StartRemove(p)
    BY <1>1, <2>1, AddStep, StartEditStep, StartRemoveStep
  <2>2. CASE \E cmd \in {"export", "import", "restore", "embed"} : StartLoop(p, cmd)
    BY <1>1, <2>2, StartLoopStep
  <2>3. CASE ReadRow(p) \/ NoRow(p) \/ ReadTags(p) \/ ReadEvidence(p) \/ ReadLinks(p)
    BY <1>1, <2>3, ReadRowStep, NoRowStep, ReadTagsStep, ReadEvidenceStep, ReadLinksStep
  <2>4. CASE Update(p) \/ UpdateFts(p) \/ Remove(p)
    BY <1>1, <2>4, UpdateStep, UpdateFtsStep, RemoveStep
  <2>5. CASE WriteDocument(p) \/ Import(p) \/ Restore(p)
    BY <1>1, <2>5, WriteDocumentStep, ImportStep, RestoreStep
  <2>6. CASE RestoreCollides(p) \/ Fail(p)
    <3>1. Quit(p)
      BY <2>6 DEF RestoreCollides, Fail
    <3> QED BY <1>1, <3>1, QuitStep
  <2>7. CASE Gate(p) \/ StoreVector(p) \/ EndEmbed(p)
    BY <1>1, <2>7, GateStep, StoreVectorStep, EndEmbedStep
  <2> QED BY <1>4, <2>1, <2>2, <2>3, <2>4, <2>5, <2>6, <2>7 DEF Step
<1> QED BY <1>1, <1>2, <1>3, <1>4 DEF Next

\* The inductive invariant holds for any commands, any number of processes and any
\* failures.
THEOREM MemoryCommandsKeepTheirInvariant == Spec => []IInv
<1>1. IInv /\ [Next]_vars => IInv'
  BY NextGood
<1> QED BY <1>1, InitGood, PTL DEF Spec

\* The memory tables agree after every transaction: no row without full text, no two
\* rows with one id, no satellite without its memory, no id above the counter.
THEOREM MemoriesStayConsistent == Spec => []MemoriesConsistent
<1>1. IInv => MemoriesConsistent
  BY DEF IInv, Good, MemoriesConsistent
<1> QED BY <1>1, MemoryCommandsKeepTheirInvariant, PTL

\* No id is allocated twice, not even after its memory is removed; only --preserve-ids
\* brings one back.
THEOREM MemoryIdsAreNeverReused == Spec => NewIdsAreFresh
<1>1. IInv /\ [Next]_vars => [NewFresh]_vars
  BY NextGood
<1>2. [NewFresh]_vars
        => [\A i \in Ids(db'.rows) \ Ids(db.rows) : i \notin used \/ Restored(i)]_vars
  BY DEF NewFresh
<1> QED BY <1>1, <1>2, MemoryCommandsKeepTheirInvariant, PTL DEF Spec, NewIdsAreFresh

-----------------------------------------------------------------------------
(* What it says of types, full text, vectors, documents, imports and edits *)

\* At first nothing is stored and nothing is known.
LEMMA InitKnows == Init => KInv
<1>1. SUFFICES ASSUME Init PROVE KInv
  OBVIOUS
<1>2. /\ DOMAIN db = DOMAIN NoMemories /\ db.seq = 0 /\ db.rows = {} /\ db.tags = {} /\ db.links = {}
      /\ db.anchors = {} /\ db.fts = {} /\ db.vecs = {} /\ db = NoMemories
  BY <1>1 DEF Init, NoMemories
<1>3. StoreTyped
  <2>1. TablesTyped(db)
    BY <1>2 DEF TablesTyped
  <2>2. file \subseteq Record
    BY <1>1, MemoryAssumption DEF Init
  <2>3. disk \in [Place -> Blob \cup {NoBlob}]
    BY <1>1 DEF Init
  <2> QED BY <1>1, <2>1, <2>2, <2>3, MemoryAssumption DEF StoreTyped, Init
<1>4. \A p \in Proc : Knows(db, run[p], pc[p])
  <2>1. \A p \in Proc : run[p] = NoRun /\ pc[p] = "idle"
    BY <1>1 DEF Init
  <2> QED BY <2>1, NothingKnown
<1>5. FullTextCurrent /\ RemovedVectorsGone
  BY <1>2 DEF FullTextCurrent, RemovedVectorsGone, Ids
<1> QED BY <1>3, <1>4, <1>5 DEF KInv

\* Every step keeps what commands know, and the full text and vectors that follow from it.
LEMMA NextKnows == IInv /\ KInv /\ [Next]_vars => KInv'
<1>1. SUFFICES ASSUME IInv, KInv, [Next]_vars PROVE KInv'
  OBVIOUS
<1>2. CASE UNCHANGED vars
  <2>1. /\ disk' = disk /\ file' = file /\ db' = db /\ pc' = pc /\ run' = run /\ raced' = raced
        /\ commands' = commands
    BY <1>2 DEF vars
  <2>2. StoreTyped' /\ FullTextCurrent' /\ RemovedVectorsGone'
    BY <1>1, <2>1 DEF KInv, StoreTyped, FullTextCurrent, RemovedVectorsGone, MidEdit
  <2>3. \A p \in Proc : Knows(db', run'[p], pc'[p])
    <3>1. \A p \in Proc : Knows(db, run[p], pc[p])
      BY <1>1 DEF KInv
    <3> QED BY <3>1, <2>1
  <2> QED BY <2>2, <2>3 DEF KInv
<1>3. CASE Touch
  BY <1>1, <1>3, TouchKnows
<1>4. ASSUME NEW p \in Proc, Step(p) PROVE KInv'
  <2>1. CASE Add(p) \/ StartEdit(p) \/ StartRemove(p)
    BY <1>1, <2>1, AddKnows, StartEditKnows
  <2>2. CASE \E cmd \in {"export", "import", "restore", "embed"} : StartLoop(p, cmd)
    BY <1>1, <2>2, StartLoopKnows
  <2>3. CASE ReadRow(p) \/ NoRow(p) \/ ReadTags(p) \/ ReadEvidence(p) \/ ReadLinks(p)
    BY <1>1, <2>3, ReadRowKnows, NoRowKnows, ReadTagsKnows, ReadEvidenceKnows, ReadLinksKnows
  <2>4. CASE Update(p) \/ UpdateFts(p) \/ Remove(p)
    BY <1>1, <2>4, UpdateKnows, UpdateFtsKnows, RemoveKnows
  <2>5. CASE WriteDocument(p) \/ Import(p) \/ Restore(p)
    BY <1>1, <2>5, WriteDocumentKnows, ImportKnows, RestoreKnows
  <2>6. CASE RestoreCollides(p) \/ Fail(p)
    BY <1>1, <2>6, QuitsKnow
  <2>7. CASE Gate(p) \/ StoreVector(p) \/ EndEmbed(p)
    BY <1>1, <2>7, GateKnows, StoreVectorKnows, EndEmbedKnows
  <2> QED BY <1>4, <2>1, <2>2, <2>3, <2>4, <2>5, <2>6, <2>7 DEF Step
<1> QED BY <1>1, <1>2, <1>3, <1>4 DEF Next

\* Commands know what they have read, whatever overlaps with them.
THEOREM MemoryCommandsKnowTheStore == Spec => [](IInv /\ KInv)
<1>1. Init => IInv /\ KInv
  BY InitGood, InitKnows
<1>2. IInv /\ KInv /\ [Next]_vars => IInv' /\ KInv'
  BY NextGood, NextKnows
<1> QED BY <1>1, <1>2, PTL DEF Spec

\* Tables, documents and the locals of commands have their types.
THEOREM MemoryTypesHold == Spec => []TypeOK
<1>1. IInv /\ KInv => TypeOK
  <2>1. SUFFICES ASSUME IInv, KInv PROVE TypeOK
    OBVIOUS
  <2>2. StoreTyped /\ TablesTyped(db) /\ used \subseteq MemoryId
    BY <2>1 DEF IInv, KInv, StoreTyped
  <2>3. pc \in [Proc -> {"idle", "done", "row", "tags", "evidence", "links", "update", "fts",
                         "remove", "write", "import", "gate", "store"}]
    BY <2>1 DEF IInv, Labels
  <2>4. \A p \in Proc :
          /\ DOMAIN run[p] = DOMAIN NoRun
          /\ run[p].cmd \in AllCommands \cup {"none"}
          /\ run[p].id \in Nat
          /\ run[p].change \in Changes \cup {NoChange}
          /\ run[p].written \in BOOLEAN
          /\ run[p].doc \subseteq Record
    BY <2>1 DEF IInv, GoodRun, KInv, Knows, RunTyped
  <2> QED BY <2>2, <2>3, <2>4 DEF TypeOK, StoreTyped, TablesTyped
<1> QED BY <1>1, MemoryCommandsKnowTheStore, PTL

\* Full text is that of the memory as it is, but for edits that died half-way or raced.
THEOREM FullTextStaysCurrent == Spec => []FullTextCurrent
<1>1. KInv => FullTextCurrent
  BY DEF KInv
<1> QED BY <1>1, MemoryCommandsKnowTheStore, PTL

\* No vector outlives its memory, but for one stored late by an index run.
THEOREM VectorsGoWithMemories == Spec => []RemovedVectorsGone
<1>1. KInv => RemovedVectorsGone
  BY DEF KInv
<1> QED BY <1>1, MemoryCommandsKnowTheStore, PTL

\* An index run that ended leaves every memory nobody touched with the vector of its text.
THEOREM IndexRunsEmbedMemories == Spec => []MemoriesEmbedded
<1>1. IInv /\ KInv => MemoriesEmbedded
  <2>1. SUFFICES ASSUME IInv, KInv, NEW p \in Proc, pc[p] = "done", run[p].cmd = "embed",
                        NEW i \in Ids(db.rows) \ run[p].dirty, NEW x \in Stored(db, i), ~Blank(x)
                 PROVE  [id |-> x.id, of |-> Words(x)] \in db.vecs
    BY DEF MemoriesEmbedded
  <2>2. /\ Embeds(db, run[p], "done") /\ run[p].todo = {} /\ run[p].jobs = {}
    BY <2>1 DEF KInv, Knows, Tracks, InPhase
  <2>3. ~Pending(run[p], "done", i)
    BY <2>1, <2>2 DEF Pending, Reading
  <2>4. [id |-> i, of |-> Words(x)] \in db.vecs
    BY <2>1, <2>2, <2>3 DEF Embeds
  <2>5. x.id = i
    BY <2>1, StoredIsOne DEF IInv
  <2> QED BY <2>4, <2>5
<1> QED BY <1>1, MemoryCommandsKnowTheStore, PTL

\* A document is the store it was exported from, and a store the document restored to it,
\* but for memories that others changed meanwhile.
THEOREM DocumentsAreTheStore == Spec => []DocumentsMatchStore
<1>1. KInv => DocumentsMatchStore
  <2>1. SUFFICES ASSUME KInv, NEW p \in Proc, pc[p] = "done"
                 PROVE  /\ run[p].cmd = "export" =>
                             \A i \in Ids(run[p].doc) \cup Ids(db.rows) :
                                i \in run[p].dirty \/ {r \in run[p].doc : r.id = i} = Stored(db, i)
                        /\ run[p].cmd = "restore" =>
                             \A r \in run[p].doc : r.id \in run[p].dirty \/ Stored(db, r.id) = {r}
    BY DEF DocumentsMatchStore
  <2>2. Tracks(db, run[p], "done") /\ run[p].todo = {}
    BY <2>1 DEF KInv, Knows, InPhase
  <2>3. \A i : Pending(run[p], "done", i) => i \in run[p].dirty
    BY <2>2 DEF Pending, Reading
  <2> QED BY <2>2, <2>3 DEF Tracks, Exported, IsRestored
<1> QED BY <1>1, MemoryCommandsKnowTheStore, PTL

\* An edit that nobody disturbs changes no title or body that it does not name.
LEMMA UpdateKeeps ==
    ASSUME IInv, KInv, NEW p \in Proc, Update(p), run[p].id \notin run[p].dirty
    PROVE  UnnamedKept(p)
<1> DEFINE r == run[p]
           c == r.change
           title == Merge(c.title, r.rec.title)
           body == Merge(c.body, r.rec.body)
           d == ApplyChange(db, r.id, title, body, c, disk)
<1>1. Good(db) /\ \A x, y \in db.rows : x.id = y.id => x = y
  BY DEF IInv, Good, Consistent
<1>2. CASE ~HasRow(db, r.id, c)
  <2>1. db' = db
    BY <1>2 DEF Update, Quit, Privately
  <2> QED BY <1>1, <2>1 DEF UnnamedKept
<1>3. CASE HasRow(db, r.id, c)
  <2>1. db' = d /\ pc[p] = "update"
    BY <1>3 DEF Update, Committing
  <2>2. /\ GoodRun(r, "update") /\ RunTyped(r, "update") /\ InPhase(r, "update")
        /\ Tracks(db, r, "update") /\ TablesTyped(db)
        /\ disk \in [Place -> Blob \cup {NoBlob}]
    BY <2>1 DEF IInv, KInv, Knows, StoreTyped
  <2>3. c \in Change /\ r.rec \in ReadRecord /\ r.cmd = "edit" /\ r.id \in MemoryId
    BY <2>2 DEF GoodRun, RunTyped, InPhase
  <2>4. title \in Text /\ body \in Text
    <3> HIDE DEF r
    <3>1. c.title \in Text \cup {Keep} /\ c.body \in Text \cup {Keep}
      BY <2>3 DEF Change
    <3>2. r.rec.title \in Text /\ r.rec.body \in Text
      BY <2>3 DEF ReadRecord
    <3> QED BY <3>1, <3>2 DEF Merge
  <2> HIDE DEF title, body
  <2>5. /\ \A j : j # r.id => SameMemory(db, d, j)
        /\ \A x \in d.rows : x.id = r.id => x.title = title /\ x.body = body
    <3> DEFINE i == r.id
               cc == c
    <3>1. Good(db) /\ TablesTyped(db) /\ i \in MemoryId /\ title \in Text /\ body \in Text
          /\ cc \in Change /\ disk \in [Place -> Blob \cup {NoBlob}] /\ HasRow(db, i, cc)
          /\ d = ApplyChange(db, i, title, body, cc, disk)
      BY <1>1, <1>3, <2>2, <2>3, <2>4
    <3> HIDE DEF i, cc, d, r
    <3> DEFINE e == ApplyChange(db, i, title, body, cc, disk)
    <3>2. ChangesOnly(db, e, {i})
      BY <3>1, ApplyChangeStore
    <3>3. \A x \in e.rows : x.id = i => x.title = title /\ x.body = body
      <4> DEFINE u == UpdateMemory(db, i, title, body)
                 changed == [id |-> i, title |-> title, body |-> body]
      <4>1. DOMAIN db = Tables
        BY <3>1 DEF Good
      <4>2. DOMAIN u = Tables /\ \A x \in u.rows : x.id # i \/ x = changed
        BY <4>1 DEF UpdateMemory, Tables
      <4>3. changed.title = title /\ changed.body = body
        OBVIOUS
      <4> HIDE DEF u, changed
      <4>4. e.rows = u.rows
        BY <4>2 DEF ApplyChange, Tables, u
      <4> QED BY <4>2, <4>3, <4>4
    <3> HIDE DEF e
    <3>4. d = e
      BY <3>1 DEF e
    <3> QED BY <3>2, <3>3, <3>4 DEF ChangesOnly, i
  <2> HIDE DEF d
  <2>6. Seen(db, r, "update")
    BY <2>2 DEF Tracks
  <2>7. PICK row \in db.rows : row.id = r.id /\ row.title = r.rec.title /\ row.body = r.rec.body
    BY <2>6 DEF Seen
  <2>8. SUFFICES ASSUME NEW x \in db.rows, NEW y \in db'.rows, x.id = y.id
                 PROVE  /\ x.id # r.id \/ c.title = Keep => x.title = y.title
                        /\ x.id # r.id \/ c.body = Keep => x.body = y.body
    BY DEF UnnamedKept
  <2>9. CASE x.id = r.id
    <3>1. x = row
      BY <2>7, <2>8, <2>9, <1>1
    <3>2. y.title = title /\ y.body = body
      BY <2>1, <2>5, <2>8, <2>9
    <3> QED BY <3>1, <3>2, <2>7, <2>9 DEF Merge, title, body
  <2>10. CASE x.id # r.id
    <3>1. SameMemory(db, d, y.id)
      BY <2>5, <2>8, <2>10
    <3>2. y \in db.rows
      BY <3>1, <2>1, <2>8 DEF SameMemory
    <3> QED BY <3>2, <2>8, <1>1
  <2> QED BY <2>9, <2>10
<1> QED BY <1>2, <1>3

\* nil pointers mean unchanged, as long as edits of one memory do not overlap.
THEOREM UndisturbedEditsKeepTheRest == Spec => EditsKeepTheRest
<1>1. IInv /\ KInv =>
        [\A p \in Proc : Update(p) /\ run[p].id \notin run[p].dirty => UnnamedKept(p)]_vars
  BY UpdateKeeps
<1> QED BY <1>1, MemoryCommandsKnowTheStore, PTL DEF EditsKeepTheRest

\* Equal hashes mean equal content, and the other way round: the evidence is counted by
\* place, in any order and whatever its blobs.
LEMMA HashIsContent ==
    ASSUME NEW r, NEW s
    PROVE  RecordHash(r) = RecordHash(s) <=> SameContent(r, s)
<1> DEFINE f(x) == [p \in Place |-> Cardinality({a \in x.anchors : a.place = p})]
<1>1. ASSUME NEW x
      PROVE  /\ RecordHash(x).title = x.title /\ RecordHash(x).body = x.body
             /\ RecordHash(x).tags = x.tags /\ RecordHash(x).links = x.links
             /\ RecordHash(x).places = f(x)
             /\ RecordHash(x) = [title |-> x.title, body |-> x.body, tags |-> x.tags,
                                 links |-> x.links, places |-> f(x)]
  BY DEF RecordHash
<1>2. f(r) = f(s) <=> \A p \in Place : Cardinality({a \in r.anchors : a.place = p})
                                         = Cardinality({a \in s.anchors : a.place = p})
  <2> DEFINE n(x, p) == Cardinality({a \in x.anchors : a.place = p})
  <2>1. \A p \in Place : f(r)[p] = n(r, p) /\ f(s)[p] = n(s, p)
    OBVIOUS
  <2>2. f(r) = [p \in Place |-> n(r, p)] /\ f(s) = [p \in Place |-> n(s, p)]
    OBVIOUS
  <2>3. f(r) = f(s) => \A p \in Place : n(r, p) = n(s, p)
    <3> HIDE DEF n, f
    <3> QED BY <2>1
  <2>4. (\A p \in Place : n(r, p) = n(s, p)) => f(r) = f(s)
    <3> HIDE DEF n, f
    <3> QED BY <2>2
  <2> QED BY <2>3, <2>4, Zenon
<1> HIDE DEF f
<1>3. ASSUME RecordHash(r) = RecordHash(s) PROVE SameContent(r, s)
  <2>1. f(r) = f(s) /\ r.title = s.title /\ r.body = s.body /\ r.tags = s.tags /\ r.links = s.links
    BY <1>1, <1>3
  <2> QED BY <2>1, <1>2 DEF SameContent
<1>4. ASSUME SameContent(r, s) PROVE RecordHash(r) = RecordHash(s)
  <2>1. f(r) = f(s) /\ r.title = s.title /\ r.body = s.body /\ r.tags = s.tags /\ r.links = s.links
    BY <1>2, <1>4 DEF SameContent
  <2> QED BY <2>1, <1>1
<1> QED BY <1>3, <1>4

\* The id is no part of the hash.
LEMMA HashIgnoresId ==
    ASSUME NEW r, NEW s, SameButId(r, s)
    PROVE  RecordHash(r) = RecordHash(s)
BY DEF SameButId, RecordHash

\* Of the records of a document that say the same, the one with the least id is imported,
\* if none of them is known.
LEMMA OneOfEachIsNew ==
    ASSUME NEW doc, GoodDocument(doc), NEW known, NEW r \in doc, RecordHash(r) \notin known
    PROVE  \E t \in NewRecords(doc, known) : RecordHash(t) = RecordHash(r)
<1> DEFINE alike == {s \in doc : RecordHash(s) = RecordHash(r)}
           i == Min(Ids(alike))
<1>1. \A s \in doc : s.id \in Nat
  BY DEF GoodDocument, MemoryId
<1>2. Ids(alike) \in SUBSET Nat /\ Ids(alike) # {}
  BY <1>1 DEF Ids
<1>3. i \in Ids(alike) /\ \A j \in Ids(alike) : ~(j < i)
  <2>1. Min(Ids(alike)) \in Ids(alike) /\ \A j \in Ids(alike) : Min(Ids(alike)) =< j
    <3> HIDE DEF alike
    <3> QED BY <1>2, MinIsLeast
  <2>2. \A j \in Ids(alike) : j \in Nat
    BY <1>2
  <2> HIDE DEF alike
  <2> QED BY <2>1, <2>2
<1> HIDE DEF i
<1>4. PICK t \in alike : t.id = i
  BY <1>3 DEF Ids
<1>5. ASSUME NEW s \in doc, s.id < t.id PROVE RecordHash(s) # RecordHash(t)
  <2>1. SUFFICES ASSUME RecordHash(s) = RecordHash(t) PROVE FALSE
    OBVIOUS
  <2>2. s \in alike
    BY <2>1, <1>4
  <2>3. s.id \in Ids(alike)
    BY <2>2 DEF Ids
  <2> QED BY <2>3, <1>3, <1>4, <1>5
<1>6. t \in NewRecords(doc, known)
  BY <1>4, <1>5 DEF NewRecords
<1> QED BY <1>4, <1>6

\* And no two that say the same are.
LEMMA NewRecordsDiffer ==
    ASSUME NEW doc, GoodDocument(doc), NEW known, NEW r \in NewRecords(doc, known),
           NEW s \in NewRecords(doc, known), RecordHash(r) = RecordHash(s)
    PROVE  r = s
<1>1. r \in doc /\ s \in doc /\ r.id \in Nat /\ s.id \in Nat
  BY DEF NewRecords, GoodDocument, MemoryId
<1>2. ~(r.id < s.id) /\ ~(s.id < r.id)
  BY <1>1 DEF NewRecords
<1>3. r.id = s.id
  BY <1>1, <1>2
<1> QED BY <1>1, <1>3 DEF GoodDocument

\* An import that nobody disturbs knows the hash of every memory, so what it adds is all
\* and only what the store does not say yet.
LEMMA ImportMerges ==
    ASSUME IInv, KInv, NEW p \in Proc, Import(p), run[p].dirty = {}
    PROVE  MergedOnce(run[p].doc)
<1> DEFINE r == run[p]
           doc == r.doc
           known == r.known
           new == NewRecords(doc, known)
           recs == Renumbered(new, db.seq)
           d == ImportFresh(db, doc, known)
<1>1. pc[p] = "import" /\ r.cmd = "import" /\ db' = d
  BY DEF Import, Committing
<1>2. /\ GoodRun(r, "import") /\ RunTyped(r, "import") /\ InPhase(r, "import")
      /\ Tracks(db, r, "import") /\ Good(db) /\ TablesTyped(db)
  BY <1>1 DEF IInv, KInv, Knows, StoreTyped
<1>3. IsFiniteSet(doc) /\ GoodDocument(doc) /\ doc \in SUBSET Record /\ r.todo = {}
  BY <1>2 DEF GoodRun, RunTyped, InPhase
<1>4. Hashed(db, r, "import")
  BY <1>1, <1>2 DEF Tracks
<1>5. /\ \A i \in Ids(db.rows) : \A x \in Stored(db, i) : RecordHash(x) \in known
      /\ \A h \in known : \E i \in Ids(db.rows) : \E x \in Stored(db, i) : RecordHash(x) = h
  <2>1. \A i : ~Pending(r, "import", i)
    BY <1>3 DEF Pending, Reading
  <2> QED BY <2>1, <1>4 DEF Hashed
<1> HIDE DEF doc, known, r
<1>6. Good(d)
  BY <1>2, <1>3, ImportFreshGood
<1>7. /\ ChangesOnly(db, d, Ids(d.rows) \ Ids(db.rows))
      /\ Ids(d.rows) \ Ids(db.rows) = Ids(recs)
      /\ Ids(db.rows) \subseteq Ids(d.rows)
      /\ \A x \in recs : Stored(d, x.id) = {x}
      /\ \A x \in recs : \E t \in new : SameButId(x, t)
      /\ \A t \in new : \E x \in recs : SameButId(x, t)
      /\ \A x, y \in recs : x # y => \E t, u \in new : t # u /\ SameButId(x, t) /\ SameButId(y, u)
  <2>1. /\ ChangesOnly(db, d, Ids(d.rows) \ Ids(db.rows))
        /\ Ids(d.rows) \ Ids(db.rows) = Ids(recs)
        /\ Ids(db.rows) \subseteq Ids(d.rows)
        /\ Hold(d, recs)
        /\ \A x \in recs : \E t \in new : SameButId(x, t)
        /\ \A t \in new : \E x \in recs : SameButId(x, t)
        /\ \A x, y \in recs : x # y => \E t, u \in new : t # u /\ SameButId(x, t) /\ SameButId(y, u)
        /\ TablesTyped(d) /\ d.vecs = db.vecs
    BY <1>2, <1>3, ImportFreshStore, Zenon
  <2> HIDE DEF recs, d
  <2>2. \A x \in recs : Stored(d, x.id) = {x}
    BY <2>1 DEF Hold
  <2> QED BY <2>1, <2>2
<1> HIDE DEF recs, d
<1>8. \A i \in Ids(db.rows) : Stored(d, i) = Stored(db, i)
  BY <1>7, SameStored DEF ChangesOnly
<1> DEFINE after == UNION {Stored(d, i) : i \in Ids(d.rows)}
<1>9. ASSUME NEW t \in doc PROVE \E s \in after : SameContent(t, s)
  <2>1. CASE RecordHash(t) \in known
    <3>1. PICK i \in Ids(db.rows) : \E x \in Stored(db, i) : RecordHash(x) = RecordHash(t)
      BY <2>1, <1>5
    <3>2. PICK x \in Stored(db, i) : RecordHash(x) = RecordHash(t)
      BY <3>1
    <3>3. x \in after
      BY <3>1, <3>2, <1>7, <1>8
    <3> QED BY <3>2, <3>3, HashIsContent
  <2>2. CASE RecordHash(t) \notin known
    <3>1. PICK u \in new : RecordHash(u) = RecordHash(t)
      BY <2>2, <1>3, OneOfEachIsNew
    <3>2. PICK x \in recs : SameButId(x, u)
      BY <1>7
    <3>3. x \in after
      <4>1. x.id \in Ids(d.rows) /\ x \in Stored(d, x.id)
        BY <1>7 DEF Ids
      <4> QED BY <4>1
    <3>4. RecordHash(t) = RecordHash(x)
      BY <3>1, <3>2, HashIgnoresId
    <3> QED BY <3>3, <3>4, HashIsContent
  <2> QED BY <2>1, <2>2
<1>10. ASSUME NEW x \in after, x.id \notin Ids(db.rows) PROVE x \in recs
  <2>1. PICK i \in Ids(d.rows) : x \in Stored(d, i)
    OBVIOUS
  <2>2. i = x.id
    BY <2>1, <1>6, StoredIsOne
  <2>3. i \in Ids(recs)
    BY <2>1, <2>2, <1>7, <1>10
  <2>4. PICK y \in recs : y.id = i
    BY <2>3 DEF Ids
  <2>5. Stored(d, i) = {y}
    BY <2>4, <1>7
  <2> QED BY <2>1, <2>4, <2>5
<1>11. ASSUME NEW x \in recs, NEW s \in after, SameContent(x, s) PROVE x = s
  <2>1. RecordHash(x) = RecordHash(s)
    BY <1>11, HashIsContent
  <2>2. PICK t \in new : SameButId(x, t)
    BY <1>7
  <2>3. RecordHash(t) = RecordHash(s) /\ RecordHash(t) \notin known
    BY <2>1, <2>2, HashIgnoresId DEF NewRecords
  <2>4. s \in recs
    <3>1. PICK i \in Ids(d.rows) : s \in Stored(d, i)
      OBVIOUS
    <3>2. i \notin Ids(db.rows)
      BY <3>1, <2>3, <1>5, <1>8
    <3>3. s.id = i
      BY <3>1, <1>6, StoredIsOne
    <3> QED BY <3>2, <3>3, <1>10
  <2>5. SUFFICES ASSUME x # s PROVE FALSE
    OBVIOUS
  <2>6. PICK u \in new, v \in new : u # v /\ SameButId(x, u) /\ SameButId(s, v)
    BY <2>4, <2>5, <1>7
  <2>7. RecordHash(u) = RecordHash(v)
    BY <2>1, <2>6, HashIgnoresId
  <2> QED BY <2>6, <2>7, <1>3, NewRecordsDiffer
<1>12. MergedOnce(doc)
  <2>1. after = UNION {Stored(db', i) : i \in Ids(db'.rows)}
    BY <1>1
  <2> HIDE DEF after
  <2> QED BY <2>1, <1>9, <1>10, <1>11, Zenon DEF MergedOnce
<1> QED BY <1>12 DEF doc, r

\* A default import brings each thing a document says into the store once.
THEOREM ImportsMergeOnce == Spec => ImportMergesOnce
<1>1. IInv /\ KInv =>
        [\A p \in Proc : Import(p) /\ run[p].dirty = {} => MergedOnce(run[p].doc)]_vars
  BY ImportMerges
<1> QED BY <1>1, MemoryCommandsKnowTheStore, PTL DEF ImportMergesOnce

-----------------------------------------------------------------------------
(* That memory commands are atomic *)

Held == [p \in Proc |-> HeldBy(run[p], pc[p])]
Nothing == [cmd |-> "none", records |-> {}]

\* A step of the promise, or none.
PromisedStep == [Promise!Next]_<<disk, file, Whole(db), used, Held>>

\* What the refinement needs to know beside IInv and KInv: the ids in the table and
\* those that an export has in hand were given, an edit makes a change users make, and
\* only a removal removes.
PastRun(r, label, ids) ==
    /\ label = "remove" => r.cmd = "remove"
    /\ r.cmd = "edit" => r.change \in Changes
    /\ r.cmd = "export" =>
          /\ Ids(r.doc) \cup r.todo \subseteq ids
          /\ label \in {"row"} \cup Reading => r.id \in ids

PInv ==
    /\ Ids(db.rows) \subseteq used
    /\ \A p \in Proc : PastRun(run[p], pc[p], used)

\* A memory is whole if it is all that is stored under its id.
LEMMA WholeIs ==
    ASSUME NEW d, Good(d)
    PROVE  /\ \A x : x \in Whole(d) <=> x.id \in Ids(d.rows) /\ Stored(d, x.id) = {x}
           /\ \A i \in Ids(d.rows) : \E x \in Whole(d) : x.id = i
           /\ Ids(Whole(d)) = Ids(d.rows)
<1>1. ASSUME NEW i \in Ids(d.rows) PROVE \E x : x.id = i /\ Stored(d, i) = {x}
  <2>1. PICK row \in d.rows : row.id = i
    BY DEF Ids
  <2> DEFINE x == [id |-> i, title |-> row.title, body |-> row.body,
                   tags |-> Of(d.tags, i), links |-> Of(d.links, i),
                   anchors |-> AnchorsOf(d, i)]
  <2>2. Stored(d, i) = {x} /\ x.id = i
    BY <2>1, StoredIsOne
  <2> HIDE DEF x
  <2> QED BY <2>2
<1>2. ASSUME NEW x \in Whole(d) PROVE x.id \in Ids(d.rows) /\ Stored(d, x.id) = {x}
  <2>1. PICK i \in Ids(d.rows) : x \in Stored(d, i)
    BY DEF Whole
  <2>2. x.id = i
    BY <2>1, StoredIsOne
  <2> QED BY <2>1, <2>2, <1>1
<1>3. ASSUME NEW x, x.id \in Ids(d.rows), Stored(d, x.id) = {x} PROVE x \in Whole(d)
  BY <1>3 DEF Whole
<1>4. ASSUME NEW i \in Ids(d.rows) PROVE \E x \in Whole(d) : x.id = i
  <2>1. PICK x : x.id = i /\ Stored(d, i) = {x}
    BY <1>1
  <2> QED BY <2>1, <1>3
<1>5. Ids(Whole(d)) = Ids(d.rows)
  <2>1. \A i : i \in Ids(Whole(d)) <=> \E x \in Whole(d) : x.id = i
    BY DEF Ids
  <2> QED BY <2>1, <1>2, <1>4
<1> QED BY <1>2, <1>3, <1>4, <1>5

\* Where a statement leaves memories alone they are the same.
LEMMA WholeSame ==
    ASSUME NEW d, NEW e, Good(d), Good(e), NEW ids, \A i : i \notin ids => SameMemory(d, e, i)
    PROVE  \A x : x.id \notin ids => (x \in Whole(d) <=> x \in Whole(e))
<1>1. SUFFICES ASSUME NEW x, x.id \notin ids PROVE x \in Whole(d) <=> x \in Whole(e)
  OBVIOUS
<1>2. /\ Stored(d, x.id) = Stored(e, x.id)
      /\ x.id \in Ids(d.rows) <=> x.id \in Ids(e.rows)
  BY <1>1, SameStored
<1> QED BY <1>2, WholeIs

\* Where it leaves all of them alone they are all the same.
LEMMA WholeUnchanged ==
    ASSUME NEW d, NEW e, Good(d), Good(e), \A i : SameMemory(d, e, i)
    PROVE  Whole(e) = Whole(d)
<1>1. \A x : Stored(d, x.id) = Stored(e, x.id) /\ (x.id \in Ids(d.rows) <=> x.id \in Ids(e.rows))
  BY SameStored
<1>2. \A x : x \in Whole(d) <=> x \in Whole(e)
  BY <1>1, WholeIs
<1> QED BY <1>2

\* What commands hold on to.
LEMMA HeldByIs ==
    ASSUME NEW r, NEW label
    PROVE  /\ r.cmd \in {"import", "restore"} /\ label \notin {"idle", "done"} =>
                HeldBy(r, label) = [cmd |-> r.cmd, records |-> r.doc]
           /\ r.cmd \notin {"edit", "import", "restore"} => HeldBy(r, label) = Nothing
           /\ label \in {"idle", "done", "row", "fts"} /\ r.cmd \notin {"import", "restore"} =>
                HeldBy(r, label) = Nothing
           /\ label \in {"idle", "done"} => HeldBy(r, label) = Nothing
           /\ r.cmd = "edit" /\ r.written => HeldBy(r, label) = Nothing
           /\ r.cmd = "edit" /\ ~r.written /\ label \in {"tags", "evidence", "links", "update"} =>
                HeldBy(r, label) =
                    [cmd     |-> "edit",
                     records |-> {[id |-> r.id, title |-> r.rec.title, body |-> r.rec.body]}]
BY DEF HeldBy, Nothing

\* Which does not depend on what others have changed.
LEMMA HeldByDirty ==
    ASSUME NEW r, DOMAIN r = DOMAIN NoRun, NEW label, NEW ids, NEW past
    PROVE  /\ HeldBy([r EXCEPT !.dirty = @ \cup ids], label) = HeldBy(r, label)
           /\ PastRun(r, label, past) => PastRun([r EXCEPT !.dirty = @ \cup ids], label, past)
<1> DEFINE s == [r EXCEPT !.dirty = @ \cup ids]
<1>1. /\ s.cmd = r.cmd /\ s.written = r.written /\ s.id = r.id /\ s.rec = r.rec
      /\ s.doc = r.doc /\ s.todo = r.todo /\ s.change = r.change
  BY DEF NoRun
<1> HIDE DEF s
<1>2. HeldBy(s, label) = HeldBy(r, label)
  BY <1>1 DEF HeldBy
<1>3. PastRun(r, label, past) => PastRun(s, label, past)
  BY <1>1 DEF PastRun
<1> QED BY <1>2, <1>3 DEF s

\* A private step, by what the command holds on to after it.
LEMMA PrivateHolds ==
    ASSUME IInv, PInv, NEW p \in Proc, NEW r, NEW label, Privately(p, r, label),
           PastRun(r, label, used)
    PROVE  /\ PInv'
           /\ UNCHANGED <<disk, file, Whole(db), used>>
           /\ Held' = [Held EXCEPT ![p] = HeldBy(r, label)]
<1>1. /\ run' = [run EXCEPT ![p] = r] /\ pc' = [pc EXCEPT ![p] = label]
      /\ db' = db /\ used' = used /\ file' = file /\ disk' = disk
  BY DEF Privately
<1>2. DOMAIN run = Proc /\ DOMAIN pc = Proc
  BY DEF IInv
<1>3. \A q \in Proc : IF q = p THEN run'[q] = r /\ pc'[q] = label
                      ELSE run'[q] = run[q] /\ pc'[q] = pc[q]
  BY <1>1, <1>2
<1>4. \A q \in Proc : PastRun(run'[q], pc'[q], used')
  BY <1>1, <1>3 DEF PInv
<1>5. Held' = [Held EXCEPT ![p] = HeldBy(r, label)]
  BY <1>3 DEF Held
<1> QED BY <1>1, <1>4, <1>5 DEF PInv

\* A transaction, likewise.
LEMMA CommittingHolds ==
    ASSUME IInv, PInv, NEW p \in Proc, NEW d, NEW ids, NEW r, NEW label,
           Committing(p, d, ids, r, label), PastRun(r, label, used \cup Ids(d.rows))
    PROVE  /\ PInv'
           /\ UNCHANGED <<disk, file>> /\ db' = d /\ used' = used \cup Ids(d.rows)
           /\ Held' = [Held EXCEPT ![p] = HeldBy(r, label)]
<1>1. /\ db' = d /\ file' = file /\ disk' = disk /\ used' = used \cup Ids(d.rows)
      /\ run' = [q \in Proc |-> IF q = p THEN r
                                ELSE IF run[q].cmd = "none" THEN run[q]
                                ELSE [run[q] EXCEPT !.dirty = @ \cup ids]]
      /\ pc' = [pc EXCEPT ![p] = label]
  BY DEF Committing
<1>2. DOMAIN pc = Proc /\ \A q \in Proc : DOMAIN run[q] = DOMAIN NoRun
  BY DEF IInv, GoodRun
<1>3. ASSUME NEW q \in Proc, q # p
      PROVE  /\ pc'[q] = pc[q] /\ HeldBy(run'[q], pc[q]) = HeldBy(run[q], pc[q])
             /\ PastRun(run'[q], pc[q], used')
  <2> DEFINE s == [run[q] EXCEPT !.dirty = @ \cup ids]
  <2>1. pc'[q] = pc[q] /\ run'[q] \in {run[q], s}
    BY <1>1, <1>2, <1>3
  <2>2. PastRun(run[q], pc[q], used')
    BY <1>1 DEF PInv, PastRun
  <2>3. HeldBy(s, pc[q]) = HeldBy(run[q], pc[q]) /\ PastRun(s, pc[q], used')
    BY <2>2, <1>2, HeldByDirty
  <2> HIDE DEF s
  <2> QED BY <2>1, <2>2, <2>3
<1>4. run'[p] = r /\ pc'[p] = label
  BY <1>1, <1>2
<1>5. \A q \in Proc : PastRun(run'[q], pc'[q], used')
  BY <1>1, <1>3, <1>4
<1>6. Held' = [Held EXCEPT ![p] = HeldBy(r, label)]
  BY <1>3, <1>4 DEF Held
<1> QED BY <1>1, <1>5, <1>6 DEF PInv

\* A transaction of a command that holds on to nothing.
LEMMA QuietCommit ==
    ASSUME IInv, PInv, NEW p \in Proc, HeldBy(run[p], pc[p]) = Nothing, NEW d, NEW ids,
           Committing(p, d, ids, NoRun, "idle")
    PROVE  /\ PInv'
           /\ UNCHANGED <<disk, file, Held>> /\ db' = d /\ used' = used \cup Ids(d.rows)
<1>1. HeldBy(NoRun, "idle") = Nothing /\ PastRun(NoRun, "idle", used \cup Ids(d.rows))
  BY HeldByIs DEF PastRun, NoRun
<1>2. /\ PInv'
      /\ UNCHANGED <<disk, file>> /\ db' = d /\ used' = used \cup Ids(d.rows)
      /\ Held' = [Held EXCEPT ![p] = HeldBy(NoRun, "idle")]
  <2> DEFINE r == NoRun
             label == "idle"
  <2>1. Committing(p, d, ids, r, label) /\ PastRun(r, label, used \cup Ids(d.rows))
    BY <1>1
  <2> HIDE DEF r, label
  <2>2. /\ PInv'
        /\ UNCHANGED <<disk, file>> /\ db' = d /\ used' = used \cup Ids(d.rows)
        /\ Held' = [Held EXCEPT ![p] = HeldBy(r, label)]
    BY <2>1, CommittingHolds
  <2> QED BY <2>2 DEF r, label
<1>3. Held' = Held
  <2>1. Held[p] = Nothing
    BY DEF Held
  <2> QED BY <2>1, <1>1, <1>2 DEF Held
<1> QED BY <1>2, <1>3

\* Private steps that keep the promise: those of a command that holds on to the same or
\* to nothing any more, that has looked at a memory, or that has brought the document.
LEMMA PrivatePromise ==
    ASSUME IInv, PInv, NEW p \in Proc, NEW r, NEW label, Privately(p, r, label),
           PastRun(r, label, used),
           \/ HeldBy(r, label) = HeldBy(run[p], pc[p])
           \/ HeldBy(r, label) = Nothing
           \/ /\ HeldBy(run[p], pc[p]) = Nothing
              /\ \E m \in Whole(db) : HeldBy(r, label) = [cmd |-> "edit", records |-> {Promise!Columns(m)}]
           \/ /\ HeldBy(run[p], pc[p]) = Nothing
              /\ \E cmd \in {"import", "restore"} : HeldBy(r, label) = [cmd |-> cmd, records |-> file]
    PROVE  PInv' /\ PromisedStep
<1>1. /\ PInv' /\ disk' = disk /\ file' = file /\ Whole(db)' = Whole(db) /\ used' = used
      /\ Held' = [Held EXCEPT ![p] = HeldBy(r, label)]
  BY PrivateHolds
<1>2. Held[p] = HeldBy(run[p], pc[p]) /\ DOMAIN Held = Proc
  BY DEF Held
<1>3. CASE HeldBy(r, label) = HeldBy(run[p], pc[p])
  <2>1. Held' = Held
    BY <1>1, <1>2, <1>3 DEF Held
  <2> QED BY <1>1, <2>1 DEF PromisedStep
<1>4. CASE HeldBy(r, label) = Nothing
  <2>1. Promise!LetGo(p)
    BY <1>1, <1>4 DEF Promise!LetGo, Promise!Hold, Promise!NothingHeld, Nothing, Held
  <2> QED BY <1>1, <2>1 DEF PromisedStep, Promise!Next
<1>5. CASE /\ HeldBy(run[p], pc[p]) = Nothing
           /\ \E m \in Whole(db) : HeldBy(r, label) = [cmd |-> "edit", records |-> {Promise!Columns(m)}]
  <2>1. Promise!Look(p)
    BY <1>1, <1>2, <1>5 DEF Promise!Look, Promise!Hold, Promise!NothingHeld, Nothing, Held
  <2> QED BY <1>1, <2>1 DEF PromisedStep, Promise!Next
<1>6. CASE /\ HeldBy(run[p], pc[p]) = Nothing
           /\ \E cmd \in {"import", "restore"} : HeldBy(r, label) = [cmd |-> cmd, records |-> file]
  <2>1. Promise!Bring(p)
    BY <1>1, <1>2, <1>6 DEF Promise!Bring, Promise!Hold, Promise!NothingHeld, Nothing, Held
  <2> QED BY <1>1, <2>1 DEF PromisedStep, Promise!Next
<1> QED BY <1>1, <1>3, <1>4, <1>5, <1>6

\* A command that returns lets go.
LEMMA QuitPromise ==
    ASSUME IInv, PInv, NEW p \in Proc, Quit(p)
    PROVE  PInv' /\ PromisedStep
<1>1. Privately(p, NoRun, "idle") /\ HeldBy(NoRun, "idle") = Nothing
  BY HeldByIs DEF Quit
<1>2. PastRun(NoRun, "idle", used)
  BY DEF PastRun, NoRun
<1> QED BY <1>1, <1>2, PrivatePromise

\* A loop goes on holding its document, or has just brought it.
LEMMA AdvancePromise ==
    ASSUME IInv, PInv, NEW p \in Proc, NEW r, Advance(p, r), DOMAIN r = DOMAIN NoRun,
           r.cmd \in {"export", "import", "restore", "embed"}, r.todo \subseteq MemoryId,
           r.cmd = "export" => Ids(r.doc) \cup r.todo \subseteq used,
           r.cmd \in {"import", "restore"} =>
              \/ HeldBy(run[p], pc[p]) = [cmd |-> r.cmd, records |-> r.doc]
              \/ HeldBy(run[p], pc[p]) = Nothing /\ r.doc = file
    PROVE  PInv' /\ PromisedStep
<1>1. ASSUME NEW e, NEW label \in {"row", "write", "import", "store"}, Privately(p, e, label),
             e.cmd = r.cmd, e.doc = r.doc, PastRun(e, label, used)
      PROVE  PInv' /\ PromisedStep
  <2>1. CASE r.cmd \in {"import", "restore"}
    <3>1. HeldBy(e, label) = [cmd |-> r.cmd, records |-> r.doc]
      BY <1>1, <2>1, HeldByIs
    <3> QED BY <1>1, <2>1, <3>1, PrivatePromise
  <2>2. CASE r.cmd \notin {"import", "restore"}
    <3>1. HeldBy(e, label) = Nothing
      BY <1>1, <2>2, HeldByIs
    <3> QED BY <1>1, <3>1, PrivatePromise
  <2> QED BY <2>1, <2>2
<1>2. CASE r.todo = {}
  <2>1. Privately(p, r, Ending(r.cmd)) /\ Ending(r.cmd) \in {"write", "import", "store"}
    BY <1>2 DEF Advance, Ending
  <2>2. PastRun(r, Ending(r.cmd), used)
    BY <2>1 DEF PastRun, Reading
  <2> QED BY <1>1, <2>1, <2>2
<1>3. CASE r.todo # {}
  <2> DEFINE i == Min(r.todo)
             e == [r EXCEPT !.id = i, !.todo = @ \ {i}]
  <2>1. Privately(p, e, "row")
    BY <1>3 DEF Advance
  <2>2. i \in r.todo
    BY <1>3, MinIsLeast DEF MemoryId
  <2> HIDE DEF i
  <2>3. e.cmd = r.cmd /\ e.doc = r.doc /\ e.id = i /\ e.todo = r.todo \ {i}
    BY DEF NoRun
  <2> HIDE DEF e
  <2>4. PastRun(e, "row", used)
    BY <2>2, <2>3 DEF PastRun
  <2> QED BY <1>1, <2>1, <2>3, <2>4
<1> QED BY <1>2, <1>3

\* Who does not run holds on to nothing.
LEMMA IdleHoldsNothing ==
    ASSUME IInv, NEW p \in Proc, ~Running(p)
    PROVE  HeldBy(run[p], pc[p]) = Nothing
BY HeldByIs DEF Running

\* A command that starts brings its document or nothing.
LEMMA StartsPromise ==
    ASSUME IInv, PInv, NEW p \in Proc,
           \/ StartEdit(p) \/ StartRemove(p)
           \/ \E cmd \in {"export", "import", "restore", "embed"} : StartLoop(p, cmd)
    PROVE  PInv' /\ PromisedStep
<1>1. CASE StartEdit(p)
  <2>1. PICK i \in 1..db.seq, c \in Changes :
            Privately(p, [NoRun EXCEPT !.cmd = "edit", !.id = i, !.change = c], "row")
    BY <1>1 DEF StartEdit
  <2> DEFINE r == [NoRun EXCEPT !.cmd = "edit", !.id = i, !.change = c]
  <2>2. r.cmd = "edit" /\ r.change = c
    BY DEF NoRun
  <2> HIDE DEF r
  <2>3. PastRun(r, "row", used) /\ HeldBy(r, "row") = Nothing
    BY <2>2, HeldByIs DEF PastRun
  <2>4. Privately(p, r, "row")
    BY <2>1 DEF r
  <2> QED BY <2>3, <2>4, PrivatePromise
<1>2. CASE StartRemove(p)
  <2>1. PICK i : Privately(p, [NoRun EXCEPT !.cmd = "remove", !.id = i], "remove")
    BY <1>2 DEF StartRemove
  <2> DEFINE r == [NoRun EXCEPT !.cmd = "remove", !.id = i]
  <2>2. r.cmd = "remove"
    BY DEF NoRun
  <2> HIDE DEF r
  <2>3. PastRun(r, "remove", used) /\ HeldBy(r, "remove") = Nothing
    BY <2>2, HeldByIs DEF PastRun
  <2>4. Privately(p, r, "remove")
    BY <2>1 DEF r
  <2> QED BY <2>3, <2>4, PrivatePromise
<1>3. ASSUME NEW cmd \in {"export", "import", "restore", "embed"}, StartLoop(p, cmd)
      PROVE  PInv' /\ PromisedStep
  <2> DEFINE doc == IF cmd \in {"import", "restore"} THEN file ELSE {}
             r == [NoRun EXCEPT !.cmd = cmd, !.todo = Ids(db.rows), !.doc = doc]
  <2>1. Advance(p, r) /\ HeldBy(run[p], pc[p]) = Nothing
    BY <1>3, IdleHoldsNothing DEF StartLoop, Starting
  <2>2. /\ cmd \in {"import", "restore"} => doc = file
        /\ cmd = "export" => Ids(doc) = {}
    BY DEF Ids
  <2> HIDE DEF doc
  <2>3. /\ DOMAIN r = DOMAIN NoRun /\ r.todo = Ids(db.rows) /\ r.doc = doc /\ r.cmd = cmd
    BY DEF NoRun
  <2> HIDE DEF r
  <2>4. Ids(db.rows) \subseteq MemoryId /\ Ids(db.rows) \subseteq used
    BY DEF Ids, IInv, Good, PInv
  <2> QED BY <1>3, <2>1, <2>2, <2>3, <2>4, AdvancePromise
<1> QED BY <1>1, <1>2, <1>3

\* An edit that finds its memory sees the columns of a whole memory.
LEMMA ReadRowPromise ==
    ASSUME IInv, KInv, PInv, NEW p \in Proc, ReadRow(p)
    PROVE  PInv' /\ PromisedStep
<1>1. PICK row \in db.rows :
          /\ row.id = run[p].id
          /\ Privately(p, [run[p] EXCEPT !.rec = [NoRecord EXCEPT !.id = row.id, !.title = row.title,
                                                                  !.body = row.body]], "tags")
  BY DEF ReadRow
<1> DEFINE rec == [NoRecord EXCEPT !.id = row.id, !.title = row.title, !.body = row.body]
           r == run[p]
           s == [r EXCEPT !.rec = rec]
<1>2. rec.title = row.title /\ rec.body = row.body
  BY DEF NoRecord
<1>3. pc[p] = "row" /\ DOMAIN r = DOMAIN NoRun /\ PastRun(r, "row", used) /\ Good(db)
  BY DEF ReadRow, IInv, GoodRun, PInv
<1> HIDE DEF rec, r
<1>4. /\ s.rec = rec /\ s.id = r.id /\ s.cmd = r.cmd /\ s.change = r.change
      /\ s.todo = r.todo /\ s.doc = r.doc /\ s.written = r.written
  BY <1>3 DEF NoRun
<1>5. Privately(p, s, "tags")
  BY <1>1 DEF rec, r
<1> HIDE DEF s
<1>6. PastRun(s, "tags", used)
  BY <1>3, <1>4 DEF PastRun, Reading
<1>7. CASE r.cmd = "edit" /\ ~r.written
  <2>1. /\ HeldBy(r, pc[p]) = Nothing
        /\ HeldBy(s, "tags") = [cmd |-> "edit",
                                records |-> {[id |-> s.id, title |-> s.rec.title, body |-> s.rec.body]}]
    BY <1>3, <1>4, <1>7, HeldByIs
  <2>2. PICK m \in Whole(db) : m.id = row.id
    BY <1>3, WholeIs DEF Ids
  <2>3. Stored(db, row.id) = {m} /\ \E t : Stored(db, row.id) = {[id |-> row.id, title |-> row.title,
            body |-> row.body, tags |-> t.tags, links |-> t.links, anchors |-> t.anchors]}
    <3>1. Stored(db, row.id) = {m}
      BY <2>2, <1>3, WholeIs
    <3> DEFINE t == [tags |-> Of(db.tags, row.id), links |-> Of(db.links, row.id),
                     anchors |-> AnchorsOf(db, row.id)]
    <3>2. Stored(db, row.id) = {[id |-> row.id, title |-> row.title,
            body |-> row.body, tags |-> t.tags, links |-> t.links, anchors |-> t.anchors]}
      BY <1>3, StoredIsOne
    <3> QED BY <3>1, <3>2
  <2>4. m.id = row.id /\ m.title = row.title /\ m.body = row.body
    BY <2>3
  <2>5. HeldBy(s, "tags") = [cmd |-> "edit", records |-> {Promise!Columns(m)}]
    BY <2>1, <2>4, <1>1, <1>2, <1>4 DEF Promise!Columns, r
  <2> QED BY <2>1, <2>5, <1>5, <1>6, PrivatePromise DEF r
<1>8. CASE r.cmd \in {"import", "restore"}
  <2>1. HeldBy(s, "tags") = HeldBy(r, pc[p])
    BY <1>3, <1>4, <1>8, HeldByIs
  <2> QED BY <2>1, <1>5, <1>6, PrivatePromise DEF r
<1>9. CASE ~(r.cmd = "edit" /\ ~r.written) /\ r.cmd \notin {"import", "restore"}
  <2>1. HeldBy(s, "tags") = Nothing
    BY <1>4, <1>9, HeldByIs
  <2> QED BY <2>1, <1>5, <1>6, PrivatePromise
<1> QED BY <1>7, <1>8, <1>9

\* The later reads of a memory change nothing that its command holds on to.
LEMMA ReadRestPromise ==
    ASSUME IInv, KInv, PInv, NEW p \in Proc, ReadTags(p) \/ ReadEvidence(p)
    PROVE  PInv' /\ PromisedStep
<1> DEFINE r == run[p]
           t == [r EXCEPT !.rec.tags = Of(db.tags, r.id)]
           a == [r EXCEPT !.rec.anchors = AnchorsOf(db, r.id)]
<1>1. \/ Privately(p, t, "evidence") /\ pc[p] = "tags"
      \/ Privately(p, a, "links") /\ pc[p] = "evidence"
  BY DEF ReadTags, ReadEvidence
<1>2. DOMAIN r = DOMAIN NoRun /\ DOMAIN r.rec = DOMAIN NoRecord /\ PastRun(r, pc[p], used)
  BY DEF IInv, GoodRun, PInv
<1> HIDE DEF r
<1>3. ASSUME NEW s \in {t, a}
      PROVE  /\ s.id = r.id /\ s.cmd = r.cmd /\ s.change = r.change /\ s.todo = r.todo
             /\ s.doc = r.doc /\ s.written = r.written
             /\ s.rec.title = r.rec.title /\ s.rec.body = r.rec.body
  BY <1>2 DEF NoRun, NoRecord
<1> HIDE DEF t, a
<1>4. ASSUME NEW s \in {t, a}, NEW label \in {"evidence", "links"}, pc[p] \in {"tags", "evidence"}
      PROVE  PastRun(s, label, used) /\ HeldBy(s, label) = HeldBy(r, pc[p])
  <2>1. PastRun(s, label, used)
    BY <1>2, <1>3, <1>4 DEF PastRun, Reading
  <2>2. HeldBy(s, label) = HeldBy(r, pc[p])
    BY <1>3, <1>4 DEF HeldBy
  <2> QED BY <2>1, <2>2
<1> QED BY <1>1, <1>4, PrivatePromise DEF r

\* What MemoryFull returns makes nobody let go of what it holds, but an edit whose memory
\* is not there.
LEMMA TakenPromise ==
    ASSUME IInv, KInv, PInv, NEW p \in Proc, pc[p] \in {"row", "links"}, NEW rec, Taken(p, rec),
           \/ rec.id = 0
           \/ /\ rec.id = run[p].id /\ pc[p] = "links"
              /\ rec.title = run[p].rec.title /\ rec.body = run[p].rec.body
    PROVE  PInv' /\ PromisedStep
<1> DEFINE r == run[p]
           s == [r EXCEPT !.rec = rec]
           known == r.known \cup {RecordHash(x) : x \in Found(rec)}
           doc == r.doc \cup Found(rec)
           e == [s EXCEPT !.rec = NoRecord]
           x == [s EXCEPT !.rec = NoRecord, !.doc = doc]
           m == [s EXCEPT !.rec = NoRecord, !.known = known]
<1>1. /\ DOMAIN r = DOMAIN NoRun /\ r.todo \subseteq MemoryId /\ PastRun(r, pc[p], used)
  BY DEF IInv, GoodRun, PInv
<1>2. /\ DOMAIN s = DOMAIN NoRun /\ s.rec = rec /\ s.id = r.id /\ s.cmd = r.cmd
      /\ s.change = r.change /\ s.todo = r.todo /\ s.doc = r.doc
      /\ s.written = r.written /\ s.known = r.known
  <2> HIDE DEF r
  <2> QED BY <1>1 DEF NoRun
<1>3. /\ DOMAIN e = DOMAIN NoRun /\ e.cmd = r.cmd /\ e.todo = r.todo /\ e.doc = r.doc
      /\ DOMAIN x = DOMAIN NoRun /\ x.cmd = r.cmd /\ x.todo = r.todo /\ x.doc = doc
      /\ DOMAIN m = DOMAIN NoRun /\ m.cmd = r.cmd /\ m.todo = r.todo /\ m.doc = r.doc
  <2> HIDE DEF r, known, doc, s
  <2> QED BY <1>2 DEF NoRun
<1>4. \/ r.cmd = "edit" /\ ~r.written /\ rec.id = 0 /\ Quit(p)
      \/ r.cmd = "edit" /\ ~r.written /\ rec.id # 0 /\ Privately(p, s, "update")
      \/ r.cmd = "edit" /\ r.written /\ Privately(p, s, "fts")
      \/ r.cmd = "export" /\ Advance(p, x)
      \/ r.cmd \in {"import", "restore"} /\ Advance(p, m)
      \/ r.cmd = "embed" /\ Advance(p, e)
      \/ r.cmd = "embed" /\ Privately(p, s, "gate")
  BY <1>2 DEF Taken
<1>5. Ids(Found(rec)) \subseteq {rec.id} /\ (rec.id = 0 => Found(rec) = {})
  BY DEF Found, Ids
<1>6. Ids(doc) \subseteq Ids(r.doc) \cup (IF rec.id = 0 THEN {} ELSE {r.id})
  BY <1>5 DEF Ids
<1> HIDE DEF r, known, doc, s, e, x, m
<1>7. CASE r.cmd = "edit" /\ ~r.written /\ rec.id = 0 /\ Quit(p)
  BY <1>7, QuitPromise
<1>8. CASE r.cmd = "edit" /\ ~r.written /\ rec.id # 0 /\ Privately(p, s, "update")
  <2>1. rec.title = r.rec.title /\ rec.body = r.rec.body /\ pc[p] = "links"
    BY <1>8 DEF r
  <2> DEFINE thing == [cmd     |-> "edit",
                       records |-> {[id |-> r.id, title |-> rec.title, body |-> rec.body]}]
  <2>2. HeldBy(s, "update") = HeldBy(r, pc[p])
    <3>1. HeldBy(s, "update") = thing
      BY <1>2, <1>8, HeldByIs
    <3>2. HeldBy(r, "links") = thing
      BY <2>1, <1>8, HeldByIs
    <3> QED BY <3>1, <3>2, <2>1
  <2>3. PastRun(s, "update", used)
    BY <1>1, <1>2, <1>8 DEF PastRun
  <2> QED BY <2>2, <2>3, <1>8, PrivatePromise DEF r
<1>9. CASE r.cmd = "edit" /\ r.written /\ Privately(p, s, "fts")
  <2>1. HeldBy(s, "fts") = Nothing
    BY <1>2, <1>9, HeldByIs
  <2>2. PastRun(s, "fts", used)
    BY <1>1, <1>2, <1>9 DEF PastRun
  <2> QED BY <2>1, <2>2, <1>9, PrivatePromise
<1>10. CASE r.cmd = "export" /\ Advance(p, x)
  <2>1. Ids(x.doc) \cup x.todo \subseteq used
    BY <1>1, <1>3, <1>6, <1>10 DEF PastRun, Reading, r
  <2> QED BY <2>1, <1>1, <1>3, <1>10, AdvancePromise
<1>11. CASE r.cmd \in {"import", "restore"} /\ Advance(p, m)
  <2>1. HeldBy(r, pc[p]) = [cmd |-> m.cmd, records |-> m.doc]
    BY <1>3, <1>11, HeldByIs
  <2> QED BY <2>1, <1>1, <1>3, <1>11, AdvancePromise DEF r
<1>12. CASE r.cmd = "embed" /\ Advance(p, e)
  BY <1>1, <1>3, <1>12, AdvancePromise
<1>13. CASE r.cmd = "embed" /\ Privately(p, s, "gate")
  <2>1. HeldBy(s, "gate") = Nothing /\ PastRun(s, "gate", used)
    BY <1>2, <1>13, HeldByIs DEF PastRun
  <2> QED BY <2>1, <1>13, PrivatePromise
<1> QED BY <1>4, <1>7, <1>8, <1>9, <1>10, <1>11, <1>12, <1>13

\* MemoryFull returns either because the memory has no row or after its last query.
LEMMA MemoryFullPromise ==
    ASSUME IInv, KInv, PInv, NEW p \in Proc, NoRow(p) \/ ReadLinks(p)
    PROVE  PInv' /\ PromisedStep
<1>1. CASE NoRow(p)
  BY <1>1, NoRecordFields, TakenPromise DEF NoRow
<1>2. CASE ReadLinks(p)
  <2> DEFINE r == run[p]
             rec == [r.rec EXCEPT !.links = Of(db.links, r.id)]
  <2>1. Taken(p, rec) /\ pc[p] = "links" /\ GoodRun(r, "links")
    BY <1>2 DEF ReadLinks, IInv
  <2>2. DOMAIN r.rec = DOMAIN NoRecord /\ r.rec.id = r.id
    BY <2>1 DEF GoodRun, Reading
  <2>3. rec.id = r.id /\ rec.title = r.rec.title /\ rec.body = r.rec.body
    <3> HIDE DEF r
    <3> QED BY <2>2, NoRecordFields
  <2> HIDE DEF rec
  <2> QED BY <2>1, <2>3, TakenPromise
<1> QED BY <1>1, <1>2

\* Index runs hold on to no memory.
LEMMA EmbedPromise ==
    ASSUME IInv, KInv, PInv, NEW p \in Proc, Gate(p) \/ EndEmbed(p)
    PROVE  PInv' /\ PromisedStep
<1> DEFINE r == run[p]
<1>1. DOMAIN r = DOMAIN NoRun /\ r.todo \subseteq MemoryId /\ InPhase(r, pc[p])
  BY DEF IInv, GoodRun, KInv, Knows
<1>2. CASE Gate(p)
  <2> DEFINE jobs == r.jobs \cup IF Embedded(db, r.rec) THEN {}
                                 ELSE {[id |-> r.rec.id, of |-> Words(r.rec)]}
             s == [r EXCEPT !.rec = NoRecord, !.jobs = jobs]
  <2>1. Advance(p, s) /\ r.cmd = "embed"
    BY <1>1, <1>2 DEF Gate, InPhase
  <2> HIDE DEF r, jobs
  <2>2. DOMAIN s = DOMAIN NoRun /\ s.cmd = r.cmd /\ s.todo = r.todo
    BY <1>1 DEF NoRun
  <2> HIDE DEF s
  <2> QED BY <1>1, <2>1, <2>2, AdvancePromise
<1>3. CASE EndEmbed(p)
  <2>1. Privately(p, Finished(r), "done") /\ r.cmd = "embed"
    BY <1>1, <1>3 DEF EndEmbed, InPhase
  <2>2. Finished(r).cmd = r.cmd
    BY DEF Finished, NoRun
  <2>3. HeldBy(Finished(r), "done") = Nothing /\ PastRun(Finished(r), "done", used)
    BY <2>1, <2>2, HeldByIs DEF PastRun
  <2> QED BY <2>1, <2>3, PrivatePromise
<1> QED BY <1>2, <1>3

\* Records that are stored under ids of their own come to the memories there were.
LEMMA WholeGrows ==
    ASSUME NEW d, NEW e, Good(d), Good(e), NEW recs, ChangesOnly(d, e, Ids(recs)), Hold(e, recs),
           Ids(e.rows) = Ids(d.rows) \cup Ids(recs), Ids(recs) \cap Ids(d.rows) = {}
    PROVE  Whole(e) = Whole(d) \cup recs
<1>1. \A x : x.id \notin Ids(recs) => (x \in Whole(d) <=> x \in Whole(e))
  BY WholeSame DEF ChangesOnly
<1>2. \A x \in recs : x.id \in Ids(recs) /\ Stored(e, x.id) = {x}
  BY DEF Ids, Hold
<1>3. \A x : x \in Whole(d) => x.id \notin Ids(recs)
  BY WholeIs
<1>4. \A x \in recs : x \in Whole(e)
  BY <1>2, WholeIs
<1>5. ASSUME NEW x \in Whole(e), x.id \in Ids(recs) PROVE x \in recs
  <2>1. PICK r \in recs : r.id = x.id
    BY <1>5 DEF Ids
  <2>2. Stored(e, x.id) = {r} /\ Stored(e, x.id) = {x}
    BY <2>1, <1>2, WholeIs
  <2> QED BY <2>2
<1> QED BY <1>1, <1>3, <1>4, <1>5

\* Add is a step of its own: the draft appears whole, under the next id.
LEMMA AddPromise ==
    ASSUME IInv, KInv, PInv, NEW p \in Proc, Add(p)
    PROVE  PInv' /\ PromisedStep
<1>1. PICK draft \in Drafts :
          Committing(p, [WriteRecords(db, {[id |-> db.seq + 1, title |-> draft.title,
                                            body |-> draft.body, tags |-> draft.tags,
                                            links |-> draft.links,
                                            anchors |-> Anchors(0, draft.places, disk)]})
                            EXCEPT !.seq = db.seq + 1], {db.seq + 1}, NoRun, "idle")
  BY DEF Add
<1> DEFINE as == Anchors(0, draft.places, disk)
           i == db.seq + 1
           rec == [id |-> i, title |-> draft.title, body |-> draft.body, tags |-> draft.tags,
                   links |-> draft.links, anchors |-> as]
           recs == {rec}
           d == [WriteRecords(db, recs) EXCEPT !.seq = i]
<1>2. Good(db) /\ TablesTyped(db) /\ db.seq \in Nat
  BY DEF IInv, Good, KInv, StoreTyped
<1>3. draft \in Draft /\ draft.places \in Seq(Place)
  BY MemoryAssumption DEF Draft
<1>4. GoodAnchors(as) /\ as \subseteq Anchor
  BY <1>3, NewAnchorsGood, AnchorsTyped DEF KInv, StoreTyped
<1>5. Committing(p, d, {i}, NoRun, "idle") /\ ~Running(p)
  BY <1>1 DEF Add, Starting
<1>6. rec = Promise!Drafted(i, draft)
  BY DEF Anchors, Promise!Drafted, Promise!Anchored
<1> HIDE DEF as
<1>7. i \in MemoryId /\ i \in Nat /\ ~(i <= db.seq) /\ db.seq < i
  BY <1>2 DEF MemoryId
<1>8. rec \in Record /\ rec.id = i /\ GoodDocument({rec})
  <2> HIDE DEF i
  <2>1. rec \in Record
    BY <1>3, <1>4, <1>7 DEF Record, Draft
  <2>2. rec.id = i /\ rec.anchors = as /\ "id" \in DOMAIN rec
    OBVIOUS
  <2> HIDE DEF rec
  <2> QED BY <2>1, <2>2, <1>4, <1>7 DEF GoodDocument
<1> HIDE DEF rec
<1>9. Good(d) /\ Ids(d.rows) = Ids(db.rows) \cup {i}
  BY <1>2, <1>8, AddGood
<1>10. recs \in SUBSET Record /\ GoodDocument(recs) /\ Ids(recs) = {i}
  BY <1>8 DEF Ids
<1> HIDE DEF i
<1>11. /\ Ids(recs) \cap Ids(db.rows) = {} /\ i \notin used /\ \A j \in used : j < i
  <2>1. \A j \in used : j <= db.seq /\ j \in Nat
    BY DEF IInv, MemoryId
  <2>2. \A j \in used : j < i /\ j # i
    BY <2>1, <1>2, <1>7
  <2> QED BY <2>2, <1>10 DEF PInv
<1> HIDE DEF recs
<1>12. ChangesOnly(db, d, Ids(recs)) /\ Hold(d, recs)
  BY <1>2, <1>7, <1>9, <1>10, <1>11, WriteRecordsStore
<1> HIDE DEF d
<1>13. Whole(d) = Whole(db) \cup recs
  BY <1>2, <1>9, <1>10, <1>11, <1>12, WholeGrows
<1>14. HeldBy(run[p], pc[p]) = Nothing
  BY <1>5, IdleHoldsNothing
<1>15. PInv' /\ UNCHANGED <<disk, file, Held>> /\ db' = d /\ used' = used \cup Ids(d.rows)
  <2> DEFINE ids == {i}
  <2>1. Committing(p, d, ids, NoRun, "idle")
    BY <1>5
  <2> HIDE DEF ids
  <2> QED BY <1>14, <2>1, QuietCommit
<1>16. used' = used \cup {i} /\ i \in used' \ used
  BY <1>9, <1>11, <1>15 DEF PInv
<1>17. Whole(db)' = Whole(db) \cup {Promise!Drafted(i, draft)}
  BY <1>6, <1>13, <1>15 DEF recs
<1>18. Promise!Add
  BY <1>11, <1>15, <1>16, <1>17 DEF Promise!Add, Held
<1> QED BY <1>15, <1>18 DEF PromisedStep, Promise!Next

\* Pairs taken from and given to one memory of a table of pairs.
Changed(P, i, less, more) == (P \ ({i} \X less)) \cup ({i} \X more)

\* Of a table so changed the memory has what it had, less the ones and with the others.
LEMMA OfChanged ==
    ASSUME NEW P, \A x \in P : x = <<x[1], x[2]>>, NEW i, NEW less, NEW more
    PROVE  Of(Changed(P, i, less, more), i) = (Of(P, i) \ less) \cup more
<1> DEFINE Q == Changed(P, i, less, more)
<1>2. ASSUME NEW t PROVE t \in Of(P, i) <=> <<i, t>> \in P
  BY OfPairs
<1>3. \A x \in Q : x = <<x[1], x[2]>>
  BY DEF Changed
<1>4. ASSUME NEW t PROVE <<i, t>> \in Q <=> (<<i, t>> \in P /\ t \notin less) \/ t \in more
  BY DEF Changed
<1> HIDE DEF Q
<1>5. ASSUME NEW t PROVE t \in Of(Q, i) <=> <<i, t>> \in Q
  BY <1>3, OfPairs
<1>6. \A t : t \in Of(Q, i) <=> t \in (Of(P, i) \ less) \cup more
  BY <1>2, <1>4, <1>5
<1>7. Of(Q, i) = (Of(P, i) \ less) \cup more
  BY <1>6
<1> QED BY <1>7 DEF Q

\* What Edit's first transaction makes of a memory: the new columns, and what the change
\* says done to the tags, links and evidence that are there.
Rewritten(m, title, body, c, blobs) ==
    LET kept == {a \in m.anchors : a.place \notin c.removePlaces}
        last == Max({0} \cup {a.seat : a \in kept})
    IN  [id |-> m.id, title |-> title, body |-> body,
         tags |-> (m.tags \ c.removeTags) \cup c.addTags,
         links |-> (m.links \ c.removeLinks) \cup c.addLinks,
         anchors |-> kept \cup Anchors(last, c.addPlaces, blobs)]

\* That is what is stored after it.
LEMMA ApplyChangeWhole ==
    ASSUME NEW d, Good(d), TablesTyped(d), NEW i \in Ids(d.rows), NEW title, NEW body, NEW c,
           Good(ApplyChange(d, i, title, body, c, disk)), NEW m, Stored(d, i) = {m}
    PROVE  Stored(ApplyChange(d, i, title, body, c, disk), i) =
               {Rewritten(m, title, body, c, disk)}
<1> DEFINE e == ApplyChange(d, i, title, body, c, disk)
           u == UpdateMemory(d, i, title, body)
           changed == [id |-> i, title |-> title, body |-> body]
           left == {a \in d.anchors : ~(a.id = i /\ a.place \in c.removePlaces)}
           end == Max({0} \cup {a.seat : a \in {b \in left : b.id = i}})
           short(a) == [seat |-> a.seat, place |-> a.place, blob |-> a.blob]
           long(a) == [id |-> i, seat |-> a.seat, place |-> a.place, blob |-> a.blob]
           added == Anchors(end, c.addPlaces, disk)
           kept == {a \in m.anchors : a.place \notin c.removePlaces}
           last == Max({0} \cup {a.seat : a \in kept})
<1>0. DOMAIN d = Tables
  BY DEF Good
<1>1. /\ DOMAIN u = Tables
      /\ u.rows = {r \in d.rows : r.id # i} \cup {changed : r \in {s \in d.rows : s.id = i}}
      /\ u.tags = d.tags /\ u.links = d.links /\ u.anchors = d.anchors
  BY <1>0 DEF UpdateMemory, Tables
<1> HIDE DEF u
<1>2. /\ e.rows = u.rows
      /\ e.tags = (d.tags \ ({i} \X c.removeTags)) \cup ({i} \X c.addTags)
      /\ e.links = (d.links \ ({i} \X c.removeLinks)) \cup ({i} \X c.addLinks)
      /\ e.anchors = left \cup {long(a) : a \in added}
  BY <1>1 DEF ApplyChange, Tables, u
<1>3. Good(e)
  OBVIOUS
<1> HIDE DEF e
<1>4. PICK row \in d.rows : row.id = i
  BY DEF Ids
<1>5. m = [id |-> i, title |-> row.title, body |-> row.body, tags |-> Of(d.tags, i),
           links |-> Of(d.links, i), anchors |-> AnchorsOf(d, i)]
  BY <1>4, StoredIsOne
<1>6. changed \in e.rows /\ changed.id = i /\ changed.title = title /\ changed.body = body
  BY <1>1, <1>2, <1>4
<1> HIDE DEF changed
<1>7. Stored(e, i) = {[id |-> i, title |-> title, body |-> body, tags |-> Of(e.tags, i),
                       links |-> Of(e.links, i), anchors |-> AnchorsOf(e, i)]}
  <2>1. Stored(e, i) = {[id |-> i, title |-> changed.title, body |-> changed.body,
                         tags |-> Of(e.tags, i), links |-> Of(e.links, i),
                         anchors |-> AnchorsOf(e, i)]}
    BY <1>3, <1>6, StoredIsOne
  <2> QED BY <2>1, <1>6
<1>8. /\ Of(e.tags, i) = (m.tags \ c.removeTags) \cup c.addTags
      /\ Of(e.links, i) = (m.links \ c.removeLinks) \cup c.addLinks
  <2>1. (\A x \in d.tags : x = <<x[1], x[2]>>) /\ (\A x \in d.links : x = <<x[1], x[2]>>)
    BY DEF TablesTyped
  <2>2. m.tags = Of(d.tags, i) /\ m.links = Of(d.links, i)
    BY <1>5
  <2>3. /\ e.tags = Changed(d.tags, i, c.removeTags, c.addTags)
        /\ e.links = Changed(d.links, i, c.removeLinks, c.addLinks)
    BY <1>2 DEF Changed
  <2> QED BY <2>1, <2>2, <2>3, OfChanged
<1>9. kept = {short(a) : a \in {b \in left : b.id = i}}
  <2>1. m.anchors = {short(a) : a \in {b \in d.anchors : b.id = i}}
    BY <1>5 DEF AnchorsOf
  <2>2. \A a : short(a).place = a.place /\ short(a).seat = a.seat
    OBVIOUS
  <2> HIDE DEF short
  <2> QED BY <2>1, <2>2
<1>10. end = last
  <2>1. \A a : short(a).seat = a.seat
    OBVIOUS
  <2> HIDE DEF short, left, kept
  <2>2. {a.seat : a \in {b \in left : b.id = i}} = {a.seat : a \in kept}
    BY <2>1, <1>9
  <2> QED BY <2>2
<1>11. AnchorsOf(e, i) = kept \cup added
  <2>1. ASSUME NEW a \in added PROVE short(long(a)) = a /\ long(a).id = i
    <3> HIDE DEF end
    <3>1. PICK k \in DOMAIN c.addPlaces :
              a = [seat |-> end + k, place |-> c.addPlaces[k], blob |-> disk[c.addPlaces[k]]]
      BY DEF Anchors
    <3>2. long(a).seat = a.seat /\ long(a).place = a.place /\ long(a).blob = a.blob /\ long(a).id = i
      OBVIOUS
    <3>3. a = [seat |-> a.seat, place |-> a.place, blob |-> a.blob]
      BY <3>1
    <3> HIDE DEF long
    <3> QED BY <3>2, <3>3
  <2>2. AnchorsOf(e, i) = {short(a) : a \in {b \in e.anchors : b.id = i}}
    BY DEF AnchorsOf
  <2> HIDE DEF short, long, added, left, kept
  <2>3. {b \in e.anchors : b.id = i} = {b \in left : b.id = i} \cup {long(a) : a \in added}
    BY <2>1, <1>2
  <2> QED BY <2>1, <2>2, <2>3, <1>9
<1>12. m.id = i
  BY <1>5
<1> HIDE DEF end, kept, left, last
<1>13. Stored(e, i) = {[id |-> m.id, title |-> title, body |-> body,
                        tags |-> (m.tags \ c.removeTags) \cup c.addTags,
                        links |-> (m.links \ c.removeLinks) \cup c.addLinks,
                        anchors |-> kept \cup Anchors(last, c.addPlaces, disk)]}
  BY <1>7, <1>8, <1>10, <1>11, <1>12
<1> QED BY <1>13 DEF e, kept, last, Rewritten

\* A memory that another one takes the place of.
LEMMA WholeReplaced ==
    ASSUME NEW d, NEW e, Good(d), Good(e), NEW i, Ids(e.rows) = Ids(d.rows),
           \A j : j # i => SameMemory(d, e, j),
           NEW m \in Whole(d), m.id = i, NEW n, Stored(e, i) = {n}
    PROVE  Whole(e) = (Whole(d) \ {m}) \cup {n}
<1>1. \A x : x.id \notin {i} => (x \in Whole(d) <=> x \in Whole(e))
  BY WholeSame
<1>2. i \in Ids(d.rows) /\ Stored(d, i) = {m}
  BY WholeIs
<1>3. \A x : x.id = i => (x \in Whole(d) <=> x = m)
  BY <1>2, WholeIs
<1>4. n.id = i
  BY StoredIsOne
<1>5. \A x : x.id = i => (x \in Whole(e) <=> x = n)
  BY <1>2, <1>4, WholeIs
<1>6. \A x : x \in Whole(e) <=> x \in (Whole(d) \ {m}) \cup {n}
  BY <1>1, <1>3, <1>4, <1>5
<1> QED BY <1>6

\* A transaction after which its command holds on to nothing.
LEMMA LettingGo ==
    ASSUME NEW p \in Proc, Held' = [Held EXCEPT ![p] = Nothing], UNCHANGED <<disk, file>>
    PROVE  Promise!Hold(p, Promise!NothingHeld)
BY DEF Held, Nothing, Promise!Hold, Promise!NothingHeld

\* Edit's first transaction changes the memory as it is, or none if it is gone.
LEMMA UpdatePromise ==
    ASSUME IInv, KInv, PInv, NEW p \in Proc, Update(p)
    PROVE  PInv' /\ PromisedStep
<1> DEFINE r == run[p]
           i == r.id
           c == r.change
           title == Merge(c.title, r.rec.title)
           body == Merge(c.body, r.rec.body)
           d == ApplyChange(db, i, title, body, c, disk)
           s == [r EXCEPT !.written = TRUE, !.rec = NoRecord]
           seen == [id |-> i, title |-> r.rec.title, body |-> r.rec.body]
<1>1. pc[p] = "update" /\ (IF HasRow(db, i, c) THEN Committing(p, d, {i}, s, "row") ELSE Quit(p))
  BY DEF Update
<1>2. /\ GoodRun(r, "update") /\ RunTyped(r, "update") /\ InPhase(r, "update")
      /\ Good(db) /\ TablesTyped(db) /\ PastRun(r, "update", used)
      /\ disk \in [Place -> Blob \cup {NoBlob}]
  BY <1>1 DEF IInv, KInv, Knows, StoreTyped, PInv
<1>3. /\ c \in Change /\ r.rec \in ReadRecord /\ r.cmd = "edit" /\ i \in MemoryId
      /\ DOMAIN r = DOMAIN NoRun /\ c \in Changes
  BY <1>2 DEF GoodRun, RunTyped, InPhase, PastRun
<1>4. ~r.written
  BY <1>1, NotRunning DEF Reading
<1>5. SUFFICES ASSUME HasRow(db, i, c) PROVE PInv' /\ PromisedStep
  BY <1>1, QuitPromise
<1>6. HeldBy(r, pc[p]) = [cmd |-> "edit", records |-> {seen}]
  BY <1>1, <1>3, <1>4, HeldByIs
<1>7. s.cmd = "edit" /\ s.change = c
  <2> HIDE DEF r
  <2> QED BY <1>3 DEF NoRun, c
<1>8. HeldBy(s, "row") = Nothing /\ PastRun(s, "row", used \cup Ids(d.rows))
  <2> HIDE DEF s, d
  <2> QED BY <1>3, <1>7, HeldByIs DEF PastRun
<1>9. title \in Text /\ body \in Text
  <2> HIDE DEF r
  <2>1. c.title \in Text \cup {Keep} /\ c.body \in Text \cup {Keep}
    BY <1>3 DEF Change
  <2>2. r.rec.title \in Text /\ r.rec.body \in Text
    BY <1>3 DEF ReadRecord
  <2> QED BY <2>1, <2>2 DEF Merge
<1>10. /\ title = Promise!Named(c.title, seen.title)
       /\ body = Promise!Named(c.body, seen.body)
  BY DEF Merge, Promise!Named
<1> HIDE DEF s, title, body, seen
<1>11. Committing(p, d, {i}, s, "row")
  BY <1>1, <1>5
<1>12. Good(d) /\ ChangesOnly(db, d, {i}) /\ Ids(d.rows) = Ids(db.rows)
  <2> HIDE DEF i, c, r
  <2>1. Good(d) /\ Ids(d.rows) = Ids(db.rows)
    BY <1>2, <1>3, <1>5, ApplyChangeGood
  <2>2. ChangesOnly(db, d, {i})
    BY <1>2, <1>3, <1>5, <1>9, ApplyChangeStore
  <2> QED BY <2>1, <2>2
<1>13. /\ PInv' /\ disk' = disk /\ file' = file /\ db' = d /\ used' = used \cup Ids(d.rows)
       /\ Held' = [Held EXCEPT ![p] = Nothing]
  <2> DEFINE label == "row"
             ids == {i}
  <2>1. Committing(p, d, ids, s, label) /\ PastRun(s, label, used \cup Ids(d.rows))
    BY <1>8, <1>11
  <2>2. HeldBy(s, label) = Nothing
    BY <1>8
  <2> HIDE DEF d, label, ids
  <2>3. /\ PInv' /\ UNCHANGED <<disk, file>> /\ db' = d /\ used' = used \cup Ids(d.rows)
        /\ Held' = [Held EXCEPT ![p] = HeldBy(s, label)]
    BY <2>1, CommittingHolds
  <2> QED BY <2>2, <2>3
<1>14. used' = used
  BY <1>12, <1>13 DEF PInv
<1>15. Promise!Hold(p, Promise!NothingHeld)
  BY <1>13, LettingGo
<1>16. \A j : j # i => SameMemory(db, d, j)
  BY <1>12 DEF ChangesOnly
<1>17. CASE i \notin Ids(db.rows)
  <2> HIDE DEF d, i
  <2>1. \A x : x.id \notin {i} => (x \in Whole(db) <=> x \in Whole(d))
    BY <1>2, <1>12, <1>16, WholeSame
  <2>2. \A x : x \in Whole(db) <=> x \in Whole(d)
    BY <2>1, <1>2, <1>12, <1>17, WholeIs
  <2>3. Whole(db)' = Whole(db)
    BY <2>2, <1>13
  <2>4. Promise!LetGo(p)
    BY <2>3, <1>14, <1>15 DEF Promise!LetGo
  <2> QED BY <1>13, <2>4 DEF PromisedStep, Promise!Next
<1>18. CASE i \in Ids(db.rows)
  <2>1. PICK m \in Whole(db) : m.id = i /\ Stored(db, i) = {m}
    <3>1. PICK m \in Whole(db) : m.id = i
      BY <1>2, <1>18, WholeIs
    <3>2. Stored(db, m.id) = {m}
      BY <1>2, WholeIs
    <3> QED BY <3>1, <3>2
  <2> DEFINE n == Rewritten(m, title, body, c, disk)
  <2>2. Stored(d, i) = {n}
    <3> HIDE DEF i, c, r
    <3> QED BY <1>2, <1>12, <1>18, <2>1, ApplyChangeWhole
  <2>3. n = Promise!Edited(m, seen, c)
    <3> DEFINE kept == {a \in m.anchors : a.place \notin c.removePlaces}
               seats == {0} \cup {a.seat : a \in kept}
               last == Max(seats)
    <3>1. Anchors(last, c.addPlaces, disk) = Promise!Anchored(last, c.addPlaces)
      BY DEF Anchors, Promise!Anchored
    <3>2. Promise!Max(seats) = last
      BY DEF Max, Promise!Max
    <3> HIDE DEF r, i, c, last
    <3> QED BY <1>10, <3>1, <3>2 DEF Promise!Edited, Rewritten, last
  <2> HIDE DEF n
  <2>4. Whole(d) = (Whole(db) \ {m}) \cup {n}
    <3> HIDE DEF d, i
    <3> QED BY <1>2, <1>12, <1>16, <2>1, <2>2, WholeReplaced
  <2>5. Whole(db)' = (Whole(db) \ {m}) \cup {Promise!Edited(m, seen, c)}
    BY <1>13, <2>3, <2>4
  <2>6. Held[p].cmd = "edit" /\ seen \in Held[p].records /\ seen.id = i
    BY <1>6 DEF Held, seen
  <2>7. Promise!Edit(p)
    BY <1>3, <1>14, <1>15, <2>1, <2>5, <2>6 DEF Promise!Edit, Held
  <2> QED BY <1>13, <2>7 DEF PromisedStep, Promise!Next
<1> QED BY <1>17, <1>18

\* Edit's second transaction is about full text, which is no part of a memory.
LEMMA UpdateFtsPromise ==
    ASSUME IInv, KInv, PInv, NEW p \in Proc, UpdateFts(p)
    PROVE  PInv' /\ PromisedStep
<1> DEFINE r == run[p]
           i == r.id
           title == r.rec.title
           body == r.rec.body
           tags == r.rec.tags
           d == ReindexMemoryFTS(db, FtsRow(i, title, body, tags))
<1>1. pc[p] = "fts" /\ Committing(p, d, {i}, NoRun, "idle")
  BY DEF UpdateFts
<1>2. /\ RunTyped(r, "fts") /\ InPhase(r, "fts") /\ Good(db) /\ TablesTyped(db)
  BY <1>1 DEF IInv, KInv, Knows, StoreTyped
<1>3. i \in MemoryId /\ r.cmd = "edit" /\ r.rec \in ReadRecord
  BY <1>2 DEF RunTyped, InPhase
<1>4. title \in Text /\ body \in Text /\ tags \in SUBSET Tag
  <2> HIDE DEF r
  <2> QED BY <1>3 DEF ReadRecord
<1>5. HeldBy(run[p], pc[p]) = Nothing
  BY <1>1, <1>3, HeldByIs
<1> HIDE DEF r, i, title, body, tags
<1>6. Good(d) /\ d.rows = db.rows
  BY <1>2, ReindexGood
<1>7. \A j : SameMemory(db, d, j)
  BY <1>2, <1>3, <1>4, ReindexStore
<1> HIDE DEF d
<1>8. Whole(d) = Whole(db)
  BY <1>2, <1>6, <1>7, WholeUnchanged
<1>9. PInv' /\ UNCHANGED <<disk, file, Held>> /\ db' = d /\ used' = used \cup Ids(d.rows)
  BY <1>1, <1>5, QuietCommit
<1>10. used' = used
  BY <1>6, <1>9 DEF PInv
<1> QED BY <1>8, <1>9, <1>10 DEF PromisedStep

\* Remove takes one whole memory, or none if it is gone.
LEMMA RemovePromise ==
    ASSUME IInv, KInv, PInv, NEW p \in Proc, Remove(p)
    PROVE  PInv' /\ PromisedStep
<1> DEFINE i == run[p].id
           d == DeleteMemory(db, i)
<1>1. pc[p] = "remove" /\ Committing(p, d, {i}, NoRun, "idle")
  BY DEF Remove
<1>2. Good(db) /\ TablesTyped(db)
  BY DEF IInv, KInv, StoreTyped
<1>3. HeldBy(run[p], pc[p]) = Nothing
  BY <1>1, HeldByIs DEF PInv, PastRun
<1> HIDE DEF i
<1>4. Good(d) /\ Ids(d.rows) \subseteq Ids(db.rows)
  BY <1>2, DeleteMemoryGood
<1>5. ChangesOnly(db, d, {i}) /\ i \notin Ids(d.rows)
  BY <1>2, DeleteMemoryStore
<1> HIDE DEF d
<1>6. PInv' /\ UNCHANGED <<disk, file, used, Held>> /\ db' = d
  <2>1. PInv' /\ UNCHANGED <<disk, file, Held>> /\ db' = d /\ used' = used \cup Ids(d.rows)
    BY <1>1, <1>3, QuietCommit
  <2> QED BY <2>1, <1>4 DEF PInv
<1>7. \A x : x.id \notin {i} => (x \in Whole(db) <=> x \in Whole(d))
  BY <1>2, <1>4, <1>5, WholeSame DEF ChangesOnly
<1>8. \A x \in Whole(d) : x.id # i
  BY <1>4, <1>5, WholeIs
<1>9. CASE i \in Ids(db.rows)
  <2>1. PICK m \in Whole(db) : m.id = i /\ Stored(db, i) = {m}
    <3>1. PICK m \in Whole(db) : m.id = i
      BY <1>2, <1>9, WholeIs
    <3>2. Stored(db, m.id) = {m}
      BY <1>2, WholeIs
    <3> QED BY <3>1, <3>2
  <2>2. \A x \in Whole(db) : x.id = i => x = m
    BY <2>1, <1>2, WholeIs
  <2>3. \A x : x \in Whole(d) <=> x \in Whole(db) \ {m}
    BY <2>1, <2>2, <1>7, <1>8
  <2>4. Whole(db)' = Whole(db) \ {m}
    BY <2>3, <1>6
  <2>5. Promise!Remove
    BY <2>1, <2>4, <1>6 DEF Promise!Remove, Held
  <2> QED BY <1>6, <2>5 DEF PromisedStep, Promise!Next
<1>10. CASE i \notin Ids(db.rows)
  <2>1. \A x \in Whole(db) : x.id # i
    BY <1>2, <1>10, WholeIs
  <2>2. \A x : x \in Whole(d) <=> x \in Whole(db)
    BY <2>1, <1>7, <1>8
  <2>3. Whole(db)' = Whole(db)
    BY <2>2, <1>6
  <2> QED BY <2>3, <1>6 DEF PromisedStep
<1> QED BY <1>9, <1>10

\* What an export writes has one record for an id, and no id that never was.
LEMMA WriteDocumentPromise ==
    ASSUME IInv, KInv, PInv, NEW p \in Proc, WriteDocument(p)
    PROVE  PInv' /\ PromisedStep
<1> DEFINE r == run[p]
           s == Finished(r)
<1>1. /\ pc[p] = "write" /\ file' = r.doc /\ run' = [run EXCEPT ![p] = s]
      /\ pc' = [pc EXCEPT ![p] = "done"] /\ disk' = disk /\ db' = db /\ used' = used
  BY DEF WriteDocument
<1>2. /\ GoodRun(r, "write") /\ InPhase(r, "write") /\ PastRun(r, "write", used)
      /\ Ids(db.rows) \subseteq used /\ \A q \in Proc : PastRun(run[q], pc[q], used)
  BY <1>1 DEF IInv, KInv, Knows, PInv
<1>3. r.cmd = "export" /\ GoodDocument(r.doc) /\ Ids(r.doc) \subseteq used
  BY <1>2 DEF GoodRun, InPhase, PastRun
<1>4. /\ run'[p] = s /\ pc'[p] = "done"
      /\ \A q \in Proc : q # p => run'[q] = run[q] /\ pc'[q] = pc[q]
  BY <1>1, StepOf
<1>5. s.cmd = "export" /\ s.doc = r.doc /\ s.todo = {}
  BY <1>3 DEF Finished, NoRun
<1>6. HeldBy(s, "done") = Nothing /\ HeldBy(r, pc[p]) = Nothing
  BY <1>3, <1>5, HeldByIs
<1> HIDE DEF s
<1>7. PastRun(s, "done", used)
  BY <1>3, <1>5 DEF PastRun, Reading
<1>8. PInv'
  <2>1. \A q \in Proc : PastRun(run'[q], pc'[q], used)
    BY <1>2, <1>4, <1>7
  <2> QED BY <2>1, <1>1, <1>2 DEF PInv
<1>9. Held' = Held
  BY <1>4, <1>6 DEF Held
<1>10. (\A x, y \in file' : x.id = y.id => x = y) /\ Promise!Numbers(file') \subseteq used
  BY <1>1, <1>3 DEF GoodDocument, Promise!Numbers, Ids
<1>11. Promise!Export
  BY <1>1, <1>9, <1>10 DEF Promise!Export, Held
<1> QED BY <1>8, <1>11 DEF PromisedStep, Promise!Next

\* Vectors are no part of a memory.
LEMMA StoreVectorPromise ==
    ASSUME IInv, KInv, PInv, NEW p \in Proc, StoreVector(p)
    PROVE  PInv' /\ PromisedStep
<1> DEFINE r == run[p]
<1>1. PICK j \in r.jobs :
          /\ db' = UpsertVector(db, j.id, j.of)
          /\ run' = [q \in Proc |->
                        IF q = p THEN [r EXCEPT !.jobs = r.jobs \ {j}]
                        ELSE IF run[q].cmd = "embed"
                             THEN [run[q] EXCEPT !.dirty = run[q].dirty \cup {j.id}]
                        ELSE run[q]]
  BY DEF StoreVector
<1>2. pc[p] = "store" /\ disk' = disk /\ file' = file /\ pc' = pc /\ used' = used
  BY DEF StoreVector
<1>3. /\ GoodRun(r, "store") /\ RunTyped(r, "store") /\ Good(db) /\ TablesTyped(db)
      /\ PastRun(r, "store", used)
  BY <1>2 DEF IInv, KInv, Knows, StoreTyped, PInv
<1>4. j.id \in MemoryId /\ j.of \in [title : Text, body : Text, tags : SUBSET Tag]
  BY <1>3 DEF RunTyped
<1>5. DOMAIN r = DOMAIN NoRun
  BY <1>3 DEF GoodRun
<1>6. Good(db') /\ db'.rows = db.rows
  BY <1>1, <1>3, UpsertVectorGood
<1>7. Whole(db)' = Whole(db)
  <2> DEFINE d == UpsertVector(db, j.id, j.of)
  <2>1. Good(d) /\ \A k : SameMemory(db, d, k)
    BY <1>1, <1>3, <1>4, <1>6, UpsertVectorStore
  <2> HIDE DEF d
  <2>2. Whole(d) = Whole(db)
    BY <2>1, <1>3, WholeUnchanged
  <2> QED BY <2>2, <1>1 DEF d
<1>8. ASSUME NEW q \in Proc
      PROVE  /\ HeldBy(run'[q], pc[q]) = HeldBy(run[q], pc[q])
             /\ PastRun(run'[q], pc[q], used)
  <2>0. DOMAIN run[q] = DOMAIN NoRun /\ PastRun(run[q], pc[q], used)
    BY DEF IInv, GoodRun, PInv
  <2>1. CASE q = p
    <3> DEFINE s == [r EXCEPT !.jobs = r.jobs \ {j}]
    <3>1. run'[q] = s /\ run[q] = r /\ pc[q] = "store"
      BY <2>1, <1>1, <1>2
    <3> HIDE DEF r
    <3>2. /\ s.cmd = r.cmd /\ s.written = r.written /\ s.id = r.id /\ s.rec = r.rec
          /\ s.doc = r.doc /\ s.todo = r.todo /\ s.change = r.change
      BY <1>5 DEF NoRun
    <3> HIDE DEF s
    <3>3. HeldBy(s, "store") = HeldBy(r, "store")
      BY <3>2 DEF HeldBy
    <3>4. PastRun(s, "store", used)
      BY <1>3, <3>2 DEF PastRun
    <3> QED BY <3>1, <3>3, <3>4
  <2>2. CASE q # p
    <3> DEFINE ids == {j.id}
               s == [run[q] EXCEPT !.dirty = @ \cup ids]
    <3>1. run'[q] \in {run[q], s}
      BY <2>2, <1>1
    <3> HIDE DEF ids
    <3>2. HeldBy(s, pc[q]) = HeldBy(run[q], pc[q]) /\ PastRun(s, pc[q], used)
      BY <2>0, HeldByDirty
    <3> HIDE DEF s
    <3> QED BY <2>0, <3>1, <3>2
  <2> QED BY <2>1, <2>2
<1>9. PInv' /\ Held' = Held
  BY <1>2, <1>6, <1>8 DEF PInv, Held
<1> QED BY <1>2, <1>7, <1>9 DEF PromisedStep

\* A restore adds the whole document, under ids that no memory has.
LEMMA RestorePromise ==
    ASSUME IInv, KInv, PInv, NEW p \in Proc, Restore(p)
    PROVE  PInv' /\ PromisedStep
<1> DEFINE r == run[p]
           doc == r.doc
           d == ImportPreserved(db, doc)
           ids == Ids(doc)
           s == Finished(r)
<1>1. /\ pc[p] = "import" /\ r.cmd = "restore" /\ ~Collides(db, doc)
      /\ Committing(p, d, ids, s, "done")
  BY DEF Restore
<1>2. GoodRun(r, "import") /\ RunTyped(r, "import") /\ Good(db) /\ TablesTyped(db)
  BY <1>1 DEF IInv, KInv, Knows, StoreTyped
<1>3. IsFiniteSet(doc) /\ GoodDocument(doc) /\ doc \in SUBSET Record
  BY <1>2 DEF GoodRun, RunTyped
<1>4. HeldBy(r, pc[p]) = [cmd |-> "restore", records |-> doc] /\ HeldBy(s, "done") = Nothing
  BY <1>1, HeldByIs
<1>5. s.cmd = "restore"
  BY <1>1 DEF Finished, NoRun
<1> HIDE DEF doc, s
<1>6. Good(d) /\ Ids(d.rows) = Ids(db.rows) \cup ids
  BY <1>1, <1>2, <1>3, ImportPreservedGood
<1>7. ChangesOnly(db, d, ids) /\ Hold(d, doc)
  BY <1>1, <1>2, <1>3, ImportPreservedStore
<1> HIDE DEF d
<1>8. ids \cap Ids(db.rows) = {}
  BY <1>1 DEF Collides
<1>9. Whole(d) = Whole(db) \cup doc
  BY <1>2, <1>6, <1>7, <1>8, WholeGrows
<1>10. PastRun(s, "done", used \cup Ids(d.rows))
  BY <1>5 DEF PastRun
<1>11. /\ PInv' /\ UNCHANGED <<disk, file>> /\ db' = d /\ used' = used \cup Ids(d.rows)
       /\ Held' = [Held EXCEPT ![p] = HeldBy(s, "done")]
  <2> DEFINE label == "done"
  <2> HIDE DEF label, ids
  <2>1. Committing(p, d, ids, s, label) /\ PastRun(s, label, used \cup Ids(d.rows))
    BY <1>1, <1>10 DEF label
  <2>2. /\ PInv' /\ UNCHANGED <<disk, file>> /\ db' = d /\ used' = used \cup Ids(d.rows)
        /\ Held' = [Held EXCEPT ![p] = HeldBy(s, label)]
    BY <2>1, CommittingHolds
  <2> QED BY <2>2 DEF label
<1>12. Promise!Hold(p, Promise!NothingHeld)
  BY <1>4, <1>11, LettingGo
<1>13. Promise!Numbers(Whole(db)) = Ids(db.rows) /\ Promise!Numbers(doc) = ids
  BY <1>2, WholeIs DEF Promise!Numbers, Ids
<1>14. used' = used \cup ids
  BY <1>6, <1>11 DEF PInv
<1>15. Held[p].cmd = "restore" /\ Held[p].records = doc
  BY <1>4 DEF Held
<1>16. Whole(db)' = Whole(db) \cup doc
  BY <1>9, <1>11
<1>17. Promise!Restore(p)
  BY <1>8, <1>12, <1>13, <1>14, <1>15, <1>16 DEF Promise!Restore, Held
<1> QED BY <1>11, <1>17 DEF PromisedStep, Promise!Next

\* The promise counts evidence as the code does.
LEMMA SayTheSameIs ==
    ASSUME NEW r, NEW s
    PROVE  Promise!SayTheSame(r, s) <=> SameContent(r, s)
<1>1. ASSUME NEW S PROVE Promise!Cardinality(S) = Cardinality(S)
  BY DEF Cardinality, Promise!Cardinality
<1> QED BY <1>1 DEF SameContent, Promise!SayTheSame

\* What a default import makes of the document's new records: the same under ids that
\* were never given, no two with one id, no two that say the same.
LEMMA RenumberedRenewed ==
    ASSUME IInv, NEW doc, IsFiniteSet(doc), GoodDocument(doc), NEW known,
           NEW recs, recs = Renumbered(NewRecords(doc, known), db.seq),
           \A x, y \in recs : x # y =>
              \E r, s \in NewRecords(doc, known) : r # s /\ SameButId(x, r) /\ SameButId(y, s)
    PROVE  Promise!Renewed(recs, doc)
<1> DEFINE new == NewRecords(doc, known)
           seq == db.seq
<1>1. new \subseteq doc /\ seq \in Nat /\ used \subseteq Nat /\ \A i \in used : i <= seq
  BY DEF NewRecords, IInv, Good, MemoryId
<1>2. IsFiniteSet(new) /\ GoodDocument(new) /\ \A r \in new : "id" \in DOMAIN r
  BY <1>1, FS_Subset DEF GoodDocument
<1>3. recs = Renumbered(new, seq)
  OBVIOUS
<1>4. \A x, y \in recs : x # y => \E r, s \in new : r # s /\ SameButId(x, r) /\ SameButId(y, s)
  OBVIOUS
<1> HIDE DEF seq
<1>5. GoodDocument(recs) /\ \A r \in recs : seq < r.id
  BY <1>1, <1>2, <1>3, RenumberedFresh
<1>6. ASSUME NEW m \in recs PROVE \E r \in doc : m = [r EXCEPT !.id = m.id]
  <2>1. PICK r \in new : m = [r EXCEPT !.id = seq + Cardinality({s \in new : s.id <= r.id})]
    BY <1>3 DEF Renumbered
  <2> DEFINE k == seq + Cardinality({s \in new : s.id <= r.id})
  <2> HIDE DEF k
  <2>2. m = [r EXCEPT !.id = k] /\ "id" \in DOMAIN r /\ r \in doc
    BY <2>1, <1>1, <1>2 DEF k
  <2>3. m.id = k
    BY <2>2
  <2> QED BY <2>2, <2>3
<1>7. ASSUME NEW x \in recs, NEW y \in recs, SameContent(x, y) PROVE x = y
  <2>1. SUFFICES ASSUME x # y PROVE FALSE
    OBVIOUS
  <2>2. PICK r \in new, s \in new : r # s /\ SameButId(x, r) /\ SameButId(y, s)
    BY <2>1, <1>4
  <2>3. RecordHash(r) = RecordHash(s)
    BY <2>2, <1>7, HashIsContent, HashIgnoresId
  <2> QED BY <2>2, <2>3, NewRecordsDiffer
<1>8. \A m, n \in recs : m.id = n.id \/ Promise!SayTheSame(m, n) => m = n
  BY <1>5, <1>7, SayTheSameIs DEF GoodDocument
<1>9. \A m \in recs, i \in used : i < m.id
  <2>1. SUFFICES ASSUME NEW m \in recs, NEW i \in used PROVE i < m.id
    OBVIOUS
  <2>2. m.id \in Nat /\ i \in Nat /\ seq \in Nat /\ i <= seq /\ seq < m.id
    BY <1>1, <1>5 DEF GoodDocument, MemoryId
  <2> QED BY <2>2
<1> QED BY <1>6, <1>8, <1>9 DEF Promise!Renewed

\* A default import brings in all its new records in one step.
LEMMA ImportPromise ==
    ASSUME IInv, KInv, PInv, NEW p \in Proc, Import(p)
    PROVE  PInv' /\ PromisedStep
<1> DEFINE r == run[p]
           doc == r.doc
           known == r.known
           new == NewRecords(doc, known)
           recs == Renumbered(new, db.seq)
           d == ImportFresh(db, doc, known)
           ids == Ids(d.rows) \ Ids(db.rows)
<1>1. pc[p] = "import" /\ r.cmd = "import" /\ Committing(p, d, ids, NoRun, "idle")
  BY DEF Import
<1>2. GoodRun(r, "import") /\ RunTyped(r, "import") /\ Good(db) /\ TablesTyped(db)
  BY <1>1 DEF IInv, KInv, Knows, StoreTyped
<1>3. IsFiniteSet(doc) /\ GoodDocument(doc) /\ doc \in SUBSET Record
  BY <1>2 DEF GoodRun, RunTyped
<1>4. HeldBy(r, pc[p]) = [cmd |-> "import", records |-> doc]
  BY <1>1, HeldByIs
<1>5. HeldBy(NoRun, "idle") = Nothing
  BY HeldByIs
<1> HIDE DEF doc, known
<1>6. Good(d)
  BY <1>2, <1>3, ImportFreshGood
<1>7. /\ ChangesOnly(db, d, ids) /\ ids = Ids(recs) /\ Ids(db.rows) \subseteq Ids(d.rows)
      /\ Hold(d, recs)
      /\ \A x, y \in recs : x # y => \E t, u \in new : t # u /\ SameButId(x, t) /\ SameButId(y, u)
  <2>1. /\ ChangesOnly(db, d, ids)
        /\ ids = Ids(recs)
        /\ Ids(db.rows) \subseteq Ids(d.rows)
        /\ Hold(d, recs)
        /\ \A x \in recs : \E t \in new : SameButId(x, t)
        /\ \A t \in new : \E x \in recs : SameButId(x, t)
        /\ \A x, y \in recs : x # y => \E t, u \in new : t # u /\ SameButId(x, t) /\ SameButId(y, u)
        /\ TablesTyped(d) /\ d.vecs = db.vecs
    BY <1>2, <1>3, ImportFreshStore, Zenon
  <2> QED BY <2>1, Zenon
<1>8. Promise!Renewed(recs, doc)
  BY <1>3, <1>7, RenumberedRenewed
<1> HIDE DEF d, recs
<1>9. Ids(d.rows) = Ids(db.rows) \cup Ids(recs) /\ Ids(recs) \cap Ids(db.rows) = {}
  BY <1>7
<1>10. Whole(d) = Whole(db) \cup recs
  <2>1. ChangesOnly(db, d, Ids(recs)) /\ Hold(d, recs)
    BY <1>7
  <2> QED BY <2>1, <1>2, <1>6, <1>9, WholeGrows, Zenon
<1>11. Whole(d) \ Whole(db) = recs /\ Promise!Numbers(Whole(d)) = Ids(d.rows)
  <2>1. \A x \in recs : x.id \in Ids(recs)
    BY DEF Ids
  <2>2. \A x \in Whole(db) : x.id \in Ids(db.rows)
    BY <1>2, WholeIs
  <2>3. Promise!Numbers(Whole(d)) = Ids(d.rows)
    BY <1>6, WholeIs DEF Promise!Numbers, Ids
  <2> QED BY <2>1, <2>2, <2>3, <1>9, <1>10
<1>12. PastRun(NoRun, "idle", used \cup Ids(d.rows))
  BY DEF PastRun, NoRun
<1>13. /\ PInv' /\ UNCHANGED <<disk, file>> /\ db' = d /\ used' = used \cup Ids(d.rows)
       /\ Held' = [Held EXCEPT ![p] = HeldBy(NoRun, "idle")]
  <2> DEFINE s == NoRun
             label == "idle"
  <2>1. Committing(p, d, ids, s, label) /\ PastRun(s, label, used \cup Ids(d.rows))
    BY <1>1, <1>12
  <2> HIDE DEF s, label, ids
  <2>2. /\ PInv' /\ UNCHANGED <<disk, file>> /\ db' = d /\ used' = used \cup Ids(d.rows)
        /\ Held' = [Held EXCEPT ![p] = HeldBy(s, label)]
    BY <2>1, CommittingHolds
  <2> QED BY <2>2 DEF s, label
<1>14. Promise!Hold(p, Promise!NothingHeld)
  BY <1>5, <1>13, LettingGo
<1>15. Held[p].cmd = "import" /\ Held[p].records = doc
  BY <1>4 DEF Held
<1>16. Whole(db)' = Whole(d)
  BY <1>13
<1>17. Promise!Import(p)
  BY <1>8, <1>10, <1>11, <1>13, <1>14, <1>15, <1>16 DEF Promise!Import, Held
<1> QED BY <1>13, <1>17 DEF PromisedStep, Promise!Next

\* Files that evidence points at are none of the commands' business.
LEMMA TouchPromise ==
    ASSUME PInv, Touch
    PROVE  PInv' /\ PromisedStep
<1>1. /\ file' = file /\ db' = db /\ pc' = pc /\ run' = run /\ used' = used
      /\ DOMAIN disk' = DOMAIN disk
  BY DEF Touch
<1>2. PInv' /\ Held' = Held /\ Whole(db)' = Whole(db)
  BY <1>1 DEF PInv, Held
<1>3. Promise!Touch
  BY <1>1, <1>2 DEF Promise!Touch, Held
<1> QED BY <1>2, <1>3 DEF PromisedStep, Promise!Next

\* The initial states are initial states of MemoryPromise.
LEMMA InitPromised == Init => Promise!Init /\ PInv
<1>1. SUFFICES ASSUME Init PROVE Promise!Init /\ PInv
  OBVIOUS
<1>2. Ids(db.rows) = {} /\ used = {} /\ \A p \in Proc : run[p] = NoRun /\ pc[p] = "idle"
  BY <1>1 DEF Init, NoMemories, Ids
<1>3. Whole(db) = {}
  BY <1>2 DEF Whole
<1>4. \A p \in Proc : HeldBy(run[p], pc[p]) = Nothing
  BY <1>2, HeldByIs
<1>5. \A p \in Proc : PastRun(run[p], pc[p], used)
  BY <1>2 DEF PastRun, NoRun
<1>6. PInv
  BY <1>2, <1>5 DEF PInv
<1>7. Held = [p \in Proc |-> Nothing]
  BY <1>4 DEF Held
<1> QED BY <1>2, <1>3, <1>6, <1>7 DEF Promise!Init, Promise!NothingHeld, Nothing, Held

\* Every step is a step of MemoryPromise or a stutter.
LEMMA NextPromised == IInv /\ KInv /\ PInv /\ [Next]_vars => PInv' /\ PromisedStep
<1>1. SUFFICES ASSUME IInv, KInv, PInv, [Next]_vars PROVE PInv' /\ PromisedStep
  OBVIOUS
<1>2. CASE UNCHANGED vars
  <2>1. /\ disk' = disk /\ file' = file /\ db' = db /\ pc' = pc /\ run' = run /\ used' = used
    BY <1>2 DEF vars
  <2>2. PInv' /\ Held' = Held /\ Whole(db)' = Whole(db)
    BY <1>1, <2>1 DEF PInv, Held
  <2> QED BY <2>1, <2>2 DEF PromisedStep
<1>3. CASE Touch
  BY <1>1, <1>3, TouchPromise
<1>4. ASSUME NEW p \in Proc, Step(p) PROVE PInv' /\ PromisedStep
  <2>1. CASE Add(p)
    BY <1>1, <2>1, AddPromise
  <2>2. CASE \/ StartEdit(p) \/ StartRemove(p)
             \/ \E cmd \in {"export", "import", "restore", "embed"} : StartLoop(p, cmd)
    BY <1>1, <2>2, StartsPromise
  <2>3. CASE ReadRow(p) \/ NoRow(p) \/ ReadTags(p) \/ ReadEvidence(p) \/ ReadLinks(p)
    BY <1>1, <2>3, ReadRowPromise, ReadRestPromise, MemoryFullPromise
  <2>4. CASE Update(p) \/ UpdateFts(p) \/ Remove(p)
    BY <1>1, <2>4, UpdatePromise, UpdateFtsPromise, RemovePromise
  <2>5. CASE WriteDocument(p) \/ Import(p) \/ Restore(p)
    BY <1>1, <2>5, WriteDocumentPromise, ImportPromise, RestorePromise
  <2>6. CASE RestoreCollides(p) \/ Fail(p)
    <3>1. Quit(p)
      BY <2>6 DEF RestoreCollides, Fail
    <3> QED BY <1>1, <3>1, QuitPromise
  <2>7. CASE Gate(p) \/ StoreVector(p) \/ EndEmbed(p)
    BY <1>1, <2>7, EmbedPromise, StoreVectorPromise
  <2> QED BY <1>4, <2>1, <2>2, <2>3, <2>4, <2>5, <2>6, <2>7 DEF Step
<1> QED BY <1>1, <1>2, <1>3, <1>4 DEF Next

\* Memory commands are atomic (MemoriesAreAtomic; ops.go, export.go): for any number of
\* processes, documents and failures, memories appear, change and vanish whole, in one
\* step of the one command that is about them.
THEOREM MemoryCommandsAreAtomic == Spec => MemoriesAreAtomic
<1>1. IInv /\ KInv /\ PInv /\ [Next]_vars => PInv' /\ PromisedStep
  BY NextPromised
<1>2. Spec => Promise!Init /\ [][Promise!Next]_<<disk, file, Whole(db), used, Held>>
  BY <1>1, InitPromised, MemoryCommandsKnowTheStore, PTL DEF Spec, PromisedStep
<1> QED BY <1>2, PTL DEF MemoriesAreAtomic, Promise!Spec, Held
=============================================================================
