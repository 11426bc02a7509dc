--------------------------- MODULE LifecycleProofs ---------------------------
(***************************************************************************)
(* Proofs about Lifecycle, for any number of processes, commands and       *)
(* project ids, and any older store.                                       *)
(***************************************************************************)
EXTENDS Lifecycle, TLAPS

Active(r) == r.cmd # "none" /\ r.end = "none"
CallOf(r) == Calls[r.cmd][r.step]

\* The calls made with a store open, and those made once it is migrated.
FileCalls == {"migrate", "stamp", "log", "add"}
OpenedCalls == {"stamp", "log", "add"}

----------------------------------------------------------------------------
(* The commands. *)

\* What holds of the order of the calls of a command, and of whose calls they are.
Orderly(cmd, calls) ==
    /\ Len(calls) \in Nat \ {0}
    /\ calls[1] \in {"load", "init"}
    /\ \A k \in 1..Len(calls) :
        calls[k] = "init" => k + 3 <= Len(calls) /\ calls[k + 3] = "exclude"
    /\ \A k \in 1..Len(calls) : calls[k] = "add" => cmd = "add"
    /\ \A k \in 1..Len(calls) :
        calls[k] \in {"init", "truncate", "write", "exclude", "mkdir", "stamp", "unlink",
                      "removeDir", "removeConfig"} => cmd \in OwnsProject
    /\ \A k \in 1..Len(calls) : k + 1 <= Len(calls) =>
        /\ calls[k + 1] \in FileCalls => calls[k] \in FileCalls \cup {"open"}
        /\ calls[k + 1] \in OpenedCalls => calls[k] \in FileCalls
        /\ calls[k + 1] = "removeConfig" => calls[k] = "removeDir"

\* Each command is orderly.
LEMMA CallsOrderly == \A cmd \in AllCommands : Orderly(cmd, Calls[cmd])
<1>1. Calls["install"] = Install
  BY DEF Calls
<1>2. Orderly("install", Install)
  <2>1. Len(Install) = 12
    BY DEF Install
  <2>2. Install[1] = "init" /\ Install[2] = "truncate" /\ Install[3] = "write"
        /\ Install[4] = "exclude" /\ Install[5] = "mkdir" /\ Install[6] = "open"
        /\ Install[7] = "migrate" /\ Install[8] = "stamp" /\ Install[9] = "load"
        /\ Install[10] = "open" /\ Install[11] = "migrate" /\ Install[12] = "log"
    BY DEF Install
  <2>3. \A k \in 1..12 : k = 1 \/ k = 2 \/ k = 3 \/ k = 4 \/ k = 5 \/ k = 6 \/ k = 7 \/ k = 8 \/ k = 9
        \/ k = 10 \/ k = 11 \/ k = 12
    OBVIOUS
  <2>4. Len(Install) \in Nat \ {0} /\ Install[1] \in {"load", "init"}
    BY <2>1, <2>2
  <2>5. \A k \in 1..Len(Install) :
          Install[k] = "init" => k + 3 <= Len(Install) /\ Install[k + 3] = "exclude"
    BY <2>1, <2>2, <2>3
  <2>6. \A k \in 1..Len(Install) : Install[k] = "add" => "install" = "add"
    BY <2>1, <2>2, <2>3
  <2>7. \A k \in 1..Len(Install) :
          Install[k] \in {"init", "truncate", "write", "exclude", "mkdir", "stamp", "unlink",
                      "removeDir", "removeConfig"} => "install" \in OwnsProject
    BY <2>1, <2>2, <2>3 DEF OwnsProject
  <2>8. ASSUME NEW k \in 1..Len(Install), k + 1 <= Len(Install)
        PROVE  /\ Install[k + 1] \in FileCalls => Install[k] \in FileCalls \cup {"open"}
               /\ Install[k + 1] \in OpenedCalls => Install[k] \in FileCalls
               /\ Install[k + 1] = "removeConfig" => Install[k] = "removeDir"
    <3>1. k = 1 \/ k = 2 \/ k = 3 \/ k = 4 \/ k = 5 \/ k = 6 \/ k = 7 \/ k = 8 \/ k = 9
          \/ k = 10 \/ k = 11
      BY <2>1, <2>8
    <3>2. \/ Install[k] = "init" /\ Install[k + 1] = "truncate"
          \/ Install[k] = "truncate" /\ Install[k + 1] = "write"
          \/ Install[k] = "write" /\ Install[k + 1] = "exclude"
          \/ Install[k] = "exclude" /\ Install[k + 1] = "mkdir"
          \/ Install[k] = "mkdir" /\ Install[k + 1] = "open"
          \/ Install[k] = "open" /\ Install[k + 1] = "migrate"
          \/ Install[k] = "migrate" /\ Install[k + 1] = "stamp"
          \/ Install[k] = "stamp" /\ Install[k + 1] = "load"
          \/ Install[k] = "load" /\ Install[k + 1] = "open"
          \/ Install[k] = "open" /\ Install[k + 1] = "migrate"
          \/ Install[k] = "migrate" /\ Install[k + 1] = "log"
      BY <2>2, <3>1
    <3>3. QED
      BY <3>2 DEF FileCalls, OpenedCalls
  <2>9. QED
    BY <2>4, <2>5, <2>6, <2>7, <2>8 DEF Orderly
<1>3. Calls["purge"] = Purge
  BY DEF Calls
<1>4. Orderly("purge", Purge)
  <2>1. Len(Purge) = 7
    BY DEF Purge
  <2>2. Purge[1] = "load" /\ Purge[2] = "unlink" /\ Purge[3] = "open"
        /\ Purge[4] = "migrate" /\ Purge[5] = "stamp" /\ Purge[6] = "truncate"
        /\ Purge[7] = "write"
    BY DEF Purge
  <2>3. \A k \in 1..7 : k = 1 \/ k = 2 \/ k = 3 \/ k = 4 \/ k = 5 \/ k = 6 \/ k = 7
    OBVIOUS
  <2>4. Len(Purge) \in Nat \ {0} /\ Purge[1] \in {"load", "init"}
    BY <2>1, <2>2
  <2>5. \A k \in 1..Len(Purge) :
          Purge[k] = "init" => k + 3 <= Len(Purge) /\ Purge[k + 3] = "exclude"
    BY <2>1, <2>2, <2>3
  <2>6. \A k \in 1..Len(Purge) : Purge[k] = "add" => "purge" = "add"
    BY <2>1, <2>2, <2>3
  <2>7. \A k \in 1..Len(Purge) :
          Purge[k] \in {"init", "truncate", "write", "exclude", "mkdir", "stamp", "unlink",
                      "removeDir", "removeConfig"} => "purge" \in OwnsProject
    BY <2>1, <2>2, <2>3 DEF OwnsProject
  <2>8. ASSUME NEW k \in 1..Len(Purge), k + 1 <= Len(Purge)
        PROVE  /\ Purge[k + 1] \in FileCalls => Purge[k] \in FileCalls \cup {"open"}
               /\ Purge[k + 1] \in OpenedCalls => Purge[k] \in FileCalls
               /\ Purge[k + 1] = "removeConfig" => Purge[k] = "removeDir"
    <3>1. k = 1 \/ k = 2 \/ k = 3 \/ k = 4 \/ k = 5 \/ k = 6
      BY <2>1, <2>8
    <3>2. \/ Purge[k] = "load" /\ Purge[k + 1] = "unlink"
          \/ Purge[k] = "unlink" /\ Purge[k + 1] = "open"
          \/ Purge[k] = "open" /\ Purge[k + 1] = "migrate"
          \/ Purge[k] = "migrate" /\ Purge[k + 1] = "stamp"
          \/ Purge[k] = "stamp" /\ Purge[k + 1] = "truncate"
          \/ Purge[k] = "truncate" /\ Purge[k + 1] = "write"
      BY <2>2, <3>1
    <3>3. QED
      BY <3>2 DEF FileCalls, OpenedCalls
  <2>9. QED
    BY <2>4, <2>5, <2>6, <2>7, <2>8 DEF Orderly
<1>5. Calls["uninstall"] = Uninstall
  BY DEF Calls
<1>6. Orderly("uninstall", Uninstall)
  <2>1. Len(Uninstall) = 3
    BY DEF Uninstall
  <2>2. Uninstall[1] = "load" /\ Uninstall[2] = "removeDir"
        /\ Uninstall[3] = "removeConfig"
    BY DEF Uninstall
  <2>3. \A k \in 1..3 : k = 1 \/ k = 2 \/ k = 3
    OBVIOUS
  <2>4. Len(Uninstall) \in Nat \ {0} /\ Uninstall[1] \in {"load", "init"}
    BY <2>1, <2>2
  <2>5. \A k \in 1..Len(Uninstall) :
          Uninstall[k] = "init" => k + 3 <= Len(Uninstall) /\ Uninstall[k + 3] = "exclude"
    BY <2>1, <2>2, <2>3
  <2>6. \A k \in 1..Len(Uninstall) : Uninstall[k] = "add" => "uninstall" = "add"
    BY <2>1, <2>2, <2>3
  <2>7. \A k \in 1..Len(Uninstall) :
          Uninstall[k] \in {"init", "truncate", "write", "exclude", "mkdir", "stamp", "unlink",
                      "removeDir", "removeConfig"} => "uninstall" \in OwnsProject
    BY <2>1, <2>2, <2>3 DEF OwnsProject
  <2>8. ASSUME NEW k \in 1..Len(Uninstall), k + 1 <= Len(Uninstall)
        PROVE  /\ Uninstall[k + 1] \in FileCalls => Uninstall[k] \in FileCalls \cup {"open"}
               /\ Uninstall[k + 1] \in OpenedCalls => Uninstall[k] \in FileCalls
               /\ Uninstall[k + 1] = "removeConfig" => Uninstall[k] = "removeDir"
    <3>1. k = 1 \/ k = 2
      BY <2>1, <2>8
    <3>2. \/ Uninstall[k] = "load" /\ Uninstall[k + 1] = "removeDir"
          \/ Uninstall[k] = "removeDir" /\ Uninstall[k + 1] = "removeConfig"
      BY <2>2, <3>1
    <3>3. QED
      BY <3>2 DEF FileCalls, OpenedCalls
  <2>9. QED
    BY <2>4, <2>5, <2>6, <2>7, <2>8 DEF Orderly
<1>7. Calls["add"] = Add
  BY DEF Calls
<1>8. Orderly("add", Add)
  <2>1. Len(Add) = 5
    BY DEF Add
  <2>2. Add[1] = "load" /\ Add[2] = "open" /\ Add[3] = "migrate" /\ Add[4] = "log"
        /\ Add[5] = "add"
    BY DEF Add
  <2>3. \A k \in 1..5 : k = 1 \/ k = 2 \/ k = 3 \/ k = 4 \/ k = 5
    OBVIOUS
  <2>4. Len(Add) \in Nat \ {0} /\ Add[1] \in {"load", "init"}
    BY <2>1, <2>2
  <2>5. \A k \in 1..Len(Add) :
          Add[k] = "init" => k + 3 <= Len(Add) /\ Add[k + 3] = "exclude"
    BY <2>1, <2>2, <2>3
  <2>6. \A k \in 1..Len(Add) : Add[k] = "add" => "add" = "add"
    BY <2>1, <2>2, <2>3
  <2>7. \A k \in 1..Len(Add) :
          Add[k] \in {"init", "truncate", "write", "exclude", "mkdir", "stamp", "unlink",
                      "removeDir", "removeConfig"} => "add" \in OwnsProject
    BY <2>1, <2>2, <2>3 DEF OwnsProject
  <2>8. ASSUME NEW k \in 1..Len(Add), k + 1 <= Len(Add)
        PROVE  /\ Add[k + 1] \in FileCalls => Add[k] \in FileCalls \cup {"open"}
               /\ Add[k + 1] \in OpenedCalls => Add[k] \in FileCalls
               /\ Add[k + 1] = "removeConfig" => Add[k] = "removeDir"
    <3>1. k = 1 \/ k = 2 \/ k = 3 \/ k = 4
      BY <2>1, <2>8
    <3>2. \/ Add[k] = "load" /\ Add[k + 1] = "open"
          \/ Add[k] = "open" /\ Add[k + 1] = "migrate"
          \/ Add[k] = "migrate" /\ Add[k + 1] = "log"
          \/ Add[k] = "log" /\ Add[k + 1] = "add"
      BY <2>2, <3>1
    <3>3. QED
      BY <3>2 DEF FileCalls, OpenedCalls
  <2>9. QED
    BY <2>4, <2>5, <2>6, <2>7, <2>8 DEF Orderly
<1>9. Calls["doctor"] = Doctor
  BY DEF Calls
<1>10. Orderly("doctor", Doctor)
  <2>1. Len(Doctor) = 4
    BY DEF Doctor
  <2>2. Doctor[1] = "load" /\ Doctor[2] = "stat" /\ Doctor[3] = "open"
        /\ Doctor[4] = "migrate"
    BY DEF Doctor
  <2>3. \A k \in 1..4 : k = 1 \/ k = 2 \/ k = 3 \/ k = 4
    OBVIOUS
  <2>4. Len(Doctor) \in Nat \ {0} /\ Doctor[1] \in {"load", "init"}
    BY <2>1, <2>2
  <2>5. \A k \in 1..Len(Doctor) :
          Doctor[k] = "init" => k + 3 <= Len(Doctor) /\ Doctor[k + 3] = "exclude"
    BY <2>1, <2>2, <2>3
  <2>6. \A k \in 1..Len(Doctor) : Doctor[k] = "add" => "doctor" = "add"
    BY <2>1, <2>2, <2>3
  <2>7. \A k \in 1..Len(Doctor) :
          Doctor[k] \in {"init", "truncate", "write", "exclude", "mkdir", "stamp", "unlink",
                      "removeDir", "removeConfig"} => "doctor" \in OwnsProject
    BY <2>1, <2>2, <2>3 DEF OwnsProject
  <2>8. ASSUME NEW k \in 1..Len(Doctor), k + 1 <= Len(Doctor)
        PROVE  /\ Doctor[k + 1] \in FileCalls => Doctor[k] \in FileCalls \cup {"open"}
               /\ Doctor[k + 1] \in OpenedCalls => Doctor[k] \in FileCalls
               /\ Doctor[k + 1] = "removeConfig" => Doctor[k] = "removeDir"
    <3>1. k = 1 \/ k = 2 \/ k = 3
      BY <2>1, <2>8
    <3>2. \/ Doctor[k] = "load" /\ Doctor[k + 1] = "stat"
          \/ Doctor[k] = "stat" /\ Doctor[k + 1] = "open"
          \/ Doctor[k] = "open" /\ Doctor[k + 1] = "migrate"
      BY <2>2, <3>1
    <3>3. QED
      BY <3>2 DEF FileCalls, OpenedCalls
  <2>9. QED
    BY <2>4, <2>5, <2>6, <2>7, <2>8 DEF Orderly
<1>11. QED
  BY <1>1, <1>2, <1>3, <1>4, <1>5, <1>6, <1>7, <1>8, <1>9, <1>10 DEF AllCommands

\* What a call does to its process's record when the command goes on.
Moves(r, s) ==
    /\ s \in Process
    /\ s.cmd = r.cmd
    /\ s.end = "none" =>
        /\ s.step \in 1..Len(Calls[s.cmd])
        /\ CallOf(s) \in FileCalls => CallOf(r) \in FileCalls \cup {"open"}
        /\ CallOf(s) \in OpenedCalls => CallOf(r) \in FileCalls
        /\ CallOf(s) = "removeConfig" => CallOf(r) = "removeDir"

\* Stepped goes on to the next call, and keeps the rest of the record.
LEMMA SteppedMoves ==
    ASSUME NEW r \in Process, Active(r), r.step \in 1..Len(Calls[r.cmd])
    PROVE  /\ Moves(r, Stepped(r, 1))
           /\ Stepped(r, 1).id = r.id
           /\ Stepped(r, 1).file = r.file
           /\ Stepped(r, 1).version = r.version
<1> DEFINE s == Stepped(r, 1)
<1>1. r.cmd \in AllCommands
  BY DEF Active, Process
<1>2. Orderly(r.cmd, Calls[r.cmd])
  BY <1>1, CallsOrderly
<1>3. CASE r.step + 1 > Len(Calls[r.cmd])
  <2>1. s = [r EXCEPT !.end = "ok"]
    BY <1>3 DEF Stepped
  <2>2. QED
    BY <2>1 DEF Moves, Process
<1>4. CASE ~(r.step + 1 > Len(Calls[r.cmd]))
  <2>1. s = [r EXCEPT !.step = r.step + 1]
    BY <1>4 DEF Stepped
  <2>2. s \in Process /\ s.cmd = r.cmd /\ s.id = r.id /\ s.file = r.file
        /\ s.version = r.version /\ s.step = r.step + 1
    BY <2>1 DEF Process
  <2>3. Len(Calls[r.cmd]) \in Nat /\ s.step <= Len(Calls[r.cmd])
    BY <1>2, <1>4, <2>2 DEF Orderly, Process
  <2>4. QED
    BY <1>2, <2>2, <2>3 DEF Moves, Orderly, CallOf
<1>5. QED
  BY <1>3, <1>4

\* From "init" there are three calls to skip.
LEMMA SteppedThree ==
    ASSUME NEW r \in Process, Active(r), r.step \in 1..Len(Calls[r.cmd]), CallOf(r) = "init"
    PROVE  /\ Stepped(r, 3) = [r EXCEPT !.step = r.step + 3]
           /\ r.step + 3 \in 1..Len(Calls[r.cmd])
           /\ Calls[r.cmd][r.step + 3] = "exclude"
<1>1. r.cmd \in AllCommands
  BY DEF Active, Process
<1>2. Orderly(r.cmd, Calls[r.cmd])
  BY <1>1, CallsOrderly
<1>3. r.step \in Nat /\ r.step + 3 <= Len(Calls[r.cmd]) /\ Len(Calls[r.cmd]) \in Nat
      /\ Calls[r.cmd][r.step + 3] = "exclude"
  BY <1>2 DEF Orderly, CallOf, Process
<1>4. QED
  BY <1>3 DEF Stepped

----------------------------------------------------------------------------
(* The inductive invariant: what is in the stores, and what a process knows. *)

\* Files are numbered as they are created and belong to one project; a store at the
\* latest version has its tables and no others.
StoresSound ==
    /\ \A i \in Id : link[i] \in 0..files
    /\ \A i, j \in Id : link[i] = link[j] /\ link[i] # NoFile => i = j
    /\ \A f \in File : f > files => db[f].memories = {}
    /\ \A f \in File : db[f].version = Latest => db[f].tables = Needed

\* A command has the id, the file and the tables that its next call takes for granted.
Good(r) ==
    Active(r) =>
        /\ r.step \in 1..Len(Calls[r.cmd])
        /\ CallOf(r) \notin {"load", "init"} => r.id \in Id
        /\ CallOf(r) \in FileCalls =>
            r.file \in 1..files /\ \A i \in Id : link[i] = r.file => i = r.id
        /\ CallOf(r) \in OpenedCalls => Needed \subseteq db[r.file].tables

IInv ==
    /\ TypeOK
    /\ StoresSound
    /\ \A p \in Proc : Good(proc[p])

\* The invariant gives the first properties.
LEMMA OpenedHas == IInv => OpenedHasTables
  BY DEF IInv, TypeOK, Good, OpenedHasTables, HasOpened, At, Running, Active, CallOf,
         FileCalls, OpenedCalls, NoFile, Process

\* What the calls of other processes may do to the stores.
Evolves ==
    /\ files' \in Nat /\ files' >= files
    /\ \A f \in 1..files :
        /\ Needed \subseteq db[f].tables => Needed \subseteq db'[f].tables
        /\ \A i \in Id : link'[i] = f => link[i] = f

\* A process that does not move stays good.
LEMMA GoodStays ==
    ASSUME IInv, Evolves
    PROVE  \A q \in Proc : proc'[q] = proc[q] => Good(proc[q])'
<1> TAKE q \in Proc
<1> HAVE proc'[q] = proc[q]
<1>1. Good(proc[q]) /\ proc[q] \in Process /\ files \in Nat
  BY DEF IInv, TypeOK
<1>2. SUFFICES ASSUME Active(proc[q])
               PROVE  Good(proc[q])'
  BY DEF Good, Active
<1>3. (Active(proc[q]) => CallOf(proc[q])' = CallOf(proc[q]))
  BY DEF CallOf
<1>4. CallOf(proc[q]) \in FileCalls =>
        proc[q].file \in 1..files' /\ \A i \in Id : link'[i] = proc[q].file => i = proc[q].id
  BY <1>1, <1>2 DEF Good, Evolves
<1>5. CallOf(proc[q]) \in OpenedCalls => Needed \subseteq db'[proc[q].file].tables
  BY <1>1, <1>2 DEF Good, Evolves, OpenedCalls, FileCalls
<1>6. QED
  BY <1>1, <1>2, <1>3, <1>4, <1>5 DEF Good

\* A step of p, taking its record to s: the invariant is kept if s is good and the
\* stores remain sound.
LEMMA StepKeeps ==
    ASSUME IInv, Evolves, StoresSound', TypeOK',
           NEW p \in Proc, NEW s \in Process,
           proc' = [proc EXCEPT ![p] = s],
           Active(s) =>
             /\ s.step \in 1..Len(Calls[s.cmd])
             /\ CallOf(s) \notin {"load", "init"} => s.id \in Id
             /\ CallOf(s) \in FileCalls =>
                 s.file \in 1..files' /\ \A i \in Id : link'[i] = s.file => i = s.id
             /\ CallOf(s) \in OpenedCalls => Needed \subseteq db'[s.file].tables
    PROVE  IInv'
<1>1. proc \in [Proc -> Process]
  BY DEF IInv, TypeOK
<1>2. ASSUME NEW q \in Proc
      PROVE  Good(proc[q])'
  <2>1. CASE q # p
    BY <1>1, <2>1, GoodStays
  <2>2. CASE q = p
    <3>1. proc'[q] = s
      BY <1>1, <2>2
    <3>2. QED
      BY <3>1 DEF Good
  <2>3. QED
    BY <2>1, <2>2
<1>3. QED
  BY <1>2 DEF IInv

\* Steps that leave the stores alone.
LEMMA QuietKeeps ==
    ASSUME IInv, UNCHANGED <<link, db, files>>,
           config' \in Id \cup {NoId, "torn"}, excluded' \in BOOLEAN, dirs' \subseteq Id,
           raced' \in BOOLEAN, started' \in 0..MaxCommands,
           NEW p \in Proc, NEW s \in Process,
           proc' = [proc EXCEPT ![p] = s],
           Active(s) =>
             /\ s.step \in 1..Len(Calls[s.cmd])
             /\ CallOf(s) \notin {"load", "init"} => s.id \in Id
             /\ CallOf(s) \in FileCalls =>
                 s.file \in 1..files /\ \A i \in Id : link[i] = s.file => i = s.id
             /\ CallOf(s) \in OpenedCalls => Needed \subseteq db[s.file].tables
    PROVE  IInv'
<1>1. Evolves
  BY DEF Evolves, IInv, TypeOK
<1>2. StoresSound'
  BY DEF IInv, StoresSound
<1>3. proc \in [Proc -> Process] /\ \A q \in Proc : Running(q) => proc[q].step \in 1..Len(Calls[proc[q].cmd])
  BY DEF IInv, TypeOK
<1>4. \A q \in Proc : Running(q)' => proc'[q].step \in 1..Len(Calls[proc'[q].cmd])
  BY <1>3 DEF Running, Active
<1>5. TypeOK'
  BY <1>3, <1>4 DEF IInv, TypeOK
<1>6. QED
  BY <1>1, <1>2, <1>5, StepKeeps

\* The types of everything but the processes.
StoreTypes ==
    /\ config \in Id \cup {NoId, "torn"}
    /\ excluded \in BOOLEAN
    /\ dirs \subseteq Id
    /\ link \in [Id -> File \cup {NoFile}]
    /\ db \in [File -> Store]
    /\ files \in 0..MaxFiles
    /\ raced \in BOOLEAN
    /\ started \in 0..MaxCommands

\* A call that goes on to s, keeping its file, keeps the invariant if the stores stay
\* sound, if it does not itself open a file, and if it leaves "migrate" with the tables.
LEMMA MovedKeeps ==
    ASSUME IInv, Evolves, StoresSound', StoreTypes',
           NEW p \in Proc, Running(p),
           NEW s, Moves(proc[p], s), s.file = proc[p].file,
           proc' = [proc EXCEPT ![p] = s],
           CallOf(proc[p]) # "open",
           \/ s.id = proc[p].id /\ CallOf(proc[p]) \notin {"load", "init"}
           \/ s.id \in Id /\ CallOf(proc[p]) \in {"load", "init"},
           (CallOf(proc[p]) = "migrate" /\ CallOf(s) \in OpenedCalls) =>
              Needed \subseteq db'[s.file].tables
    PROVE  IInv'
<1>1. Active(proc[p]) /\ Good(proc[p]) /\ proc[p] \in Process /\ s \in Process /\ files \in Nat
  BY DEF IInv, Running, Active, TypeOK, Moves
<1>2. proc[p].id \in Id \/ s.id \in Id
  BY <1>1 DEF Good
<1>3. s.id \in Id
  BY <1>1 DEF Good
<1>4. Active(s) => s.step \in 1..Len(Calls[s.cmd])
  BY DEF Moves, Active
<1>5. Active(s) /\ CallOf(s) \in FileCalls =>
        s.file \in 1..files' /\ \A i \in Id : link'[i] = s.file => i = s.id
  <2>1. SUFFICES ASSUME Active(s), CallOf(s) \in FileCalls
                 PROVE  s.file \in 1..files' /\ \A i \in Id : link'[i] = s.file => i = s.id
    OBVIOUS
  <2>2. CallOf(proc[p]) \in FileCalls
    BY <2>1 DEF Moves, Active
  <2>3. proc[p].file \in 1..files /\ \A i \in Id : link[i] = proc[p].file => i = proc[p].id
    BY <1>1, <2>2 DEF Good
  <2>4. s.id = proc[p].id
    BY <2>2 DEF FileCalls
  <2>5. QED
    BY <1>1, <2>3, <2>4 DEF Evolves
<1>6. Active(s) /\ CallOf(s) \in OpenedCalls => Needed \subseteq db'[s.file].tables
  <2>1. SUFFICES ASSUME Active(s), CallOf(s) \in OpenedCalls
                 PROVE  Needed \subseteq db'[s.file].tables
    OBVIOUS
  <2>2. CallOf(proc[p]) \in FileCalls
    BY <2>1 DEF Moves, Active
  <2>3. CASE CallOf(proc[p]) = "migrate"
    BY <2>1, <2>3
  <2>4. CASE CallOf(proc[p]) \in OpenedCalls
    BY <1>1, <2>2, <2>4 DEF Good, Evolves
  <2>5. QED
    BY <2>2, <2>3, <2>4 DEF FileCalls, OpenedCalls
<1>7. TypeOK'
  <2>1. proc \in [Proc -> Process]
        /\ \A q \in Proc : Running(q) => proc[q].step \in 1..Len(Calls[proc[q].cmd])
    BY DEF IInv, TypeOK
  <2>2. \A q \in Proc : Running(q)' => proc'[q].step \in 1..Len(Calls[proc'[q].cmd])
    BY <1>4, <2>1 DEF Running, Active
  <2>3. proc' \in [Proc -> Process]
    BY <1>1, <2>1
  <2>4. QED
    BY <2>2, <2>3 DEF StoreTypes, TypeOK
<1>8. QED
  BY <1>1, <1>3, <1>4, <1>5, <1>6, <1>7, StepKeeps

\* What holds of a process at one of its calls.
LEMMA AtCall ==
    ASSUME IInv, NEW p \in Proc, NEW call, At(p, call)
    PROVE  /\ Running(p) /\ Active(proc[p]) /\ CallOf(proc[p]) = call
           /\ proc[p] \in Process /\ proc[p].step \in 1..Len(Calls[proc[p].cmd])
           /\ Moves(proc[p], Stepped(proc[p], 1))
           /\ Stepped(proc[p], 1).id = proc[p].id
           /\ Stepped(proc[p], 1).file = proc[p].file
           /\ Stepped(proc[p], 1).version = proc[p].version
           /\ call \notin {"load", "init"} => proc[p].id \in Id
<1>1. /\ Running(p) /\ Active(proc[p]) /\ CallOf(proc[p]) = call
      /\ proc[p] \in Process /\ proc[p].step \in 1..Len(Calls[proc[p].cmd])
      /\ Good(proc[p])
  BY DEF At, Running, Active, CallOf, IInv, TypeOK
<1>2. QED
  BY <1>1, SteppedMoves DEF Good

\* A command that ends, or is gone, keeps the invariant.
LEMMA EndKeeps ==
    ASSUME IInv, NEW p \in Proc, NEW s \in Process, ~Active(s),
           proc' = [proc EXCEPT ![p] = s],
           UNCHANGED <<config, excluded, dirs, link, db, files, raced, started>>
    PROVE  IInv'
<1>1. StoreTypes'
  BY DEF IInv, TypeOK, StoreTypes
<1>2. QED
  BY <1>1, QuietKeeps DEF StoreTypes

\* Ended ends the command.
LEMMA EndedEnds ==
    ASSUME NEW r \in Process, NEW end \in {"ok", "failed", "killed", "warned"}
    PROVE  Ended(r, end) \in Process /\ ~Active(Ended(r, end)) /\ Ended(r, end).cmd = r.cmd
  BY DEF Ended, Process, Active

----------------------------------------------------------------------------
(* The steps. *)

\* The initial states: no store, or one that an older binary left.
LEMMA InitInv == Init => IInv
<1> SUFFICES ASSUME Init
             PROVE  IInv
  OBVIOUS
<1> USE LifecycleAssumption
<1>1. Idle \in Process /\ ~Active(Idle)
  BY DEF Idle, Process, Active, NoFile, NoVersion
<1>2. proc \in [Proc -> Process] /\ \A p \in Proc : ~Active(proc[p]) /\ ~Running(p)
  BY <1>1 DEF Init, Active, Running
<1>3. EmptyStore \in Store /\ EmptyStore.memories = {} /\ EmptyStore.version # Latest
  BY DEF EmptyStore, Store, Latest, Table
<1>4. ASSUME NEW v \in Found, NEW i \in Id
      PROVE  /\ After(v, i, {"old"}) \in Store
             /\ After(v, i, {"old"}).version = Latest => After(v, i, {"old"}).tables = Needed
  <2> DEFINE T == IF v >= Latest THEN Needed ELSE UNION {Creates[m] : m \in 1..v}
  <2>1. v \in 1..7
    OBVIOUS
  <2>2. T \in SUBSET Table
    <3>1. \A m \in 1..5 : Creates[m] \subseteq Table
      <4>1. Creates[1] = {"core"} /\ Creates[2] = {"work"} /\ Creates[3] = {"vectors"}
            /\ Creates[4] = {"stories"} /\ Creates[5] = {}
        BY DEF Creates
      <4>2. \A m \in 1..5 : m = 1 \/ m = 2 \/ m = 3 \/ m = 4 \/ m = 5
        OBVIOUS
      <4>3. QED
        BY <4>1, <4>2 DEF Table
    <3>2. CASE v >= Latest
      BY <3>2 DEF Needed, Table
    <3>3. CASE ~(v >= Latest)
      <4>1. 1..v \subseteq 1..5
        BY <2>1, <3>3 DEF Latest
      <4>2. T = UNION {Creates[m] : m \in 1..v}
        BY <3>3
      <4>3. QED
        BY <3>1, <4>1, <4>2
    <3>4. QED
      BY <3>2, <3>3
  <2>3. After(v, i, {"old"}) =
          [version |-> v, tables |-> T, stamp |-> i, memories |-> {"old"}]
    BY DEF After
  <2> HIDE DEF T
  <2>4. v = Latest => T = Needed
    BY <2>1 DEF Latest, T
  <2>5. QED
    BY <2>1, <2>2, <2>3, <2>4 DEF Store
<1>5. /\ db \in [File -> Store] /\ files \in 0..MaxFiles /\ link \in [Id -> File \cup {NoFile}]
      /\ config \in Id \cup {NoId, "torn"} /\ dirs \subseteq Id
      /\ StoresSound
  <2>1. CASE /\ config = NoId /\ dirs = {} /\ link = [i \in Id |-> NoFile]
             /\ db = [f \in File |-> EmptyStore] /\ files = 0
    BY <1>3, <2>1 DEF StoresSound, NoFile
  <2>2. ASSUME NEW i \in Id, NEW v \in Found,
               config = i /\ dirs = {i} /\ files = 1,
               link = [j \in Id |-> IF j = i THEN 1 ELSE NoFile],
               db = [f \in File |-> IF f = 1 THEN After(v, i, {"old"}) ELSE EmptyStore]
        PROVE  /\ db \in [File -> Store] /\ files \in 0..MaxFiles
               /\ link \in [Id -> File \cup {NoFile}]
               /\ config \in Id \cup {NoId, "torn"} /\ dirs \subseteq Id
               /\ StoresSound
    <3> DEFINE d == After(v, i, {"old"})
    <3>1. d \in Store /\ (d.version = Latest => d.tables = Needed)
      BY <1>4
    <3>2. db = [f \in File |-> IF f = 1 THEN d ELSE EmptyStore]
      BY <2>2
    <3> HIDE DEF d
    <3>3. db \in [File -> Store] /\ \A f \in File : db[f] = IF f = 1 THEN d ELSE EmptyStore
      BY <1>3, <3>1, <3>2
    <3>4. files \in 0..MaxFiles /\ link \in [Id -> File \cup {NoFile}]
      BY <2>2 DEF File
    <3>5. \A f \in File : f > files => db[f].memories = {}
      BY <1>3, <2>2, <3>3 DEF File
    <3>6. \A f \in File : db[f].version = Latest => db[f].tables = Needed
      BY <1>3, <3>1, <3>3
    <3>7. /\ \A j \in Id : link[j] \in 0..files
          /\ \A j, k \in Id : link[j] = link[k] /\ link[j] # NoFile => j = k
      BY <2>2 DEF NoFile
    <3>8. QED
      BY <2>2, <3>3, <3>4, <3>5, <3>6, <3>7 DEF StoresSound
  <2>3. QED
    BY <2>1, <2>2 DEF Init
<1>6. TypeOK
  <2>1. excluded \in BOOLEAN /\ raced \in BOOLEAN /\ started \in 0..MaxCommands
    <3>1. excluded = FALSE /\ raced = FALSE /\ started = 0
      BY Zenon DEF Init
    <3>2. excluded \in BOOLEAN /\ raced \in BOOLEAN
      BY <3>1, Zenon
    <3>3. started \in 0..MaxCommands
      BY <3>1
    <3>4. QED
      BY <3>2, <3>3
  <2>2. QED
    BY <1>2, <1>5, <2>1 DEF TypeOK
<1>7. QED
  BY <1>2, <1>5, <1>6 DEF IInv, Good

\* What the definitions of TypeOK say of the process that moves.
LEMMA ProcessType ==
    ASSUME IInv, NEW p \in Proc
    PROVE  proc[p] \in Process /\ StoreTypes /\ files \in Nat /\ proc \in [Proc -> Process]
  BY DEF IInv, TypeOK, StoreTypes

\* Steps that change neither what a store holds nor which stores there are.
LEMMA StoresStay ==
    ASSUME IInv, UNCHANGED <<link, db, files>>
    PROVE  Evolves /\ StoresSound'
  BY DEF Evolves, IInv, TypeOK, StoresSound

LEMMA StartInv == ASSUME IInv, NEW p \in Proc, Start(p) PROVE IInv'
<1> DEFINE others == {q \in Proc : Running(q)}
<1>1. PICK cmd \in Commands :
        /\ proc' = [q \in Proc |->
              IF q = p THEN [Idle EXCEPT !.cmd = cmd, !.step = 1, !.alone = (others = {})]
              ELSE [proc[q] EXCEPT !.alone = FALSE]]
        /\ raced' = (raced \/ \E q \in others : {cmd, proc[q].cmd} \cap OwnsProject # {})
  BY DEF Start
<1>2. UNCHANGED <<config, excluded, dirs, link, db, files>>
  BY DEF Start
<1>3. started' \in 0..MaxCommands
  <2>1. started \in 0..MaxCommands /\ started < MaxCommands /\ started' = started + 1
    BY DEF Start, IInv, TypeOK
  <2>2. QED
    BY <2>1, LifecycleAssumption
<1>4. raced' \in BOOLEAN
  BY <1>1, Zenon
<1> DEFINE s == [Idle EXCEPT !.cmd = cmd, !.step = 1, !.alone = (others = {})]
<1>5. cmd \in AllCommands
  BY LifecycleAssumption
<1>6. (others = {}) \in BOOLEAN
  OBVIOUS
<1> HIDE DEF others
<1>7. s \in Process /\ s.cmd = cmd /\ s.step = 1 /\ s.end = "none" /\ s.id = NoId
  BY <1>5, <1>6 DEF Idle, Process, NoFile, NoVersion
<1>8. proc'[p] = s /\ \A q \in Proc : q # p => proc'[q] = [proc[q] EXCEPT !.alone = FALSE]
  BY <1>1
<1>9. ASSUME NEW q \in Proc, q # p
      PROVE  /\ proc'[q] \in Process
             /\ proc'[q].cmd = proc[q].cmd /\ proc'[q].step = proc[q].step
             /\ proc'[q].end = proc[q].end /\ proc'[q].id = proc[q].id
             /\ proc'[q].file = proc[q].file
  <2>1. proc'[q] = [proc[q] EXCEPT !.alone = FALSE] /\ proc[q] \in Process
    BY <1>8, <1>9, ProcessType
  <2>2. ASSUME NEW r \in Process, NEW t, t = [r EXCEPT !.alone = FALSE]
        PROVE  /\ t \in Process
               /\ t.cmd = r.cmd /\ t.step = r.step /\ t.end = r.end /\ t.id = r.id
               /\ t.file = r.file
    BY <2>2 DEF Process
  <2>3. QED
    BY <2>1, <2>2
<1>10. 1 \in 1..Len(Calls[cmd]) /\ Calls[cmd][1] \in {"load", "init"}
  BY <1>5, CallsOrderly DEF Orderly
<1>11. proc' \in [Proc -> Process]
  <2>1. proc' = [q \in Proc |-> IF q = p THEN s ELSE [proc[q] EXCEPT !.alone = FALSE]]
    BY <1>1
  <2>2. \A q \in Proc : proc'[q] \in Process
    BY <1>7, <1>8, <1>9
  <2>3. QED
    BY <2>1, <2>2
<1>12. TypeOK'
  <2>1. ASSUME NEW q \in Proc, Running(q)'
        PROVE  proc'[q].step \in 1..Len(Calls[proc'[q].cmd])
    <3>1. CASE q = p
      BY <1>7, <1>8, <1>10, <3>1
    <3>2. CASE q # p
      <4>1. Running(q)
        BY <1>9, <2>1, <3>2 DEF Running
      <4>2. proc[q].step \in 1..Len(Calls[proc[q].cmd])
        BY <4>1 DEF IInv, TypeOK
      <4>3. QED
        BY <1>9, <3>2, <4>2
    <3>3. QED
      BY <3>1, <3>2
  <2>2. QED
    BY <1>2, <1>3, <1>4, <1>11, <2>1 DEF IInv, TypeOK
<1>13. ASSUME NEW q \in Proc
       PROVE  Good(proc[q])'
  <2>1. CASE q = p
    BY <1>7, <1>8, <1>10, <2>1 DEF Good, CallOf, FileCalls, OpenedCalls
  <2>2. CASE q # p
    BY <1>2, <1>9, <2>2 DEF IInv, Good, Active, CallOf
  <2>3. QED
    BY <2>1, <2>2
<1>14. QED
  BY <1>2, <1>12, <1>13, StoresStay DEF IInv

LEMMA ExitInv == ASSUME IInv, NEW p \in Proc, Exit(p) PROVE IInv'
<1>1. Idle \in Process /\ ~Active(Idle)
  BY DEF Idle, Process, Active, NoFile, NoVersion
<1>2. QED
  BY <1>1, EndKeeps DEF Exit, Become

LEMMA DieInv == ASSUME IInv, NEW p \in Proc, Die(p) PROVE IInv'
<1>1. Ended(proc[p], "killed") \in Process /\ ~Active(Ended(proc[p], "killed"))
  BY ProcessType, EndedEnds
<1>2. QED
  BY <1>1, EndKeeps DEF Die, Become

\* A call that only fails.
LEMMA FailInv ==
    ASSUME IInv, NEW p \in Proc, Become(p, Ended(proc[p], "failed")),
           UNCHANGED <<config, excluded, dirs, link, db, files>>
    PROVE  IInv'
<1>1. Ended(proc[p], "failed") \in Process /\ ~Active(Ended(proc[p], "failed"))
  BY ProcessType, EndedEnds
<1>2. QED
  BY <1>1, EndKeeps DEF Become

LEMMA LoadInv == ASSUME IInv, NEW p \in Proc, Load(p) PROVE IInv'
<1>1. At(p, "load") /\ UNCHANGED <<config, excluded, dirs, link, db, files>>
  BY DEF Load
<1>2. CASE config \in Id
  <2> DEFINE s == [Stepped(proc[p], 1) EXCEPT !.id = config]
  <2>1. proc' = [proc EXCEPT ![p] = s] /\ UNCHANGED <<raced, started>>
    BY <1>2 DEF Load, Become
  <2>2. Moves(proc[p], s) /\ s.file = proc[p].file /\ s.id = config
    <3>1. Moves(proc[p], Stepped(proc[p], 1)) /\ Stepped(proc[p], 1).file = proc[p].file
      BY <1>1, AtCall
    <3>2. QED
      BY <1>2, <3>1 DEF Moves, CallOf, Process
  <2> HIDE DEF s
  <2>3. StoreTypes'
    BY <1>1, <2>1, ProcessType DEF StoreTypes
  <2>4. Running(p) /\ CallOf(proc[p]) = "load"
    BY <1>1, AtCall
  <2>5. QED
    BY <1>1, <1>2, <2>1, <2>2, <2>3, <2>4, StoresStay, MovedKeeps
<1>3. CASE config \notin Id
  BY <1>1, <1>3, FailInv DEF Load
<1>4. QED
  BY <1>2, <1>3

LEMMA InitProjectInv == ASSUME IInv, NEW p \in Proc, InitProject(p) PROVE IInv'
<1>1. At(p, "init") /\ UNCHANGED <<config, excluded, dirs, link, db, files>>
  BY DEF InitProject
<1>2. /\ Running(p) /\ Active(proc[p]) /\ CallOf(proc[p]) = "init" /\ proc[p] \in Process
      /\ proc[p].step \in 1..Len(Calls[proc[p].cmd])
  BY <1>1, AtCall
<1>3. CASE config = "torn" /\ Become(p, Ended(proc[p], "failed"))
  BY <1>1, <1>3, FailInv
<1>4. CASE config \in Id /\ Become(p, [Stepped(proc[p], 3) EXCEPT !.id = config])
  <2> DEFINE s == [Stepped(proc[p], 3) EXCEPT !.id = config]
  <2>1. Stepped(proc[p], 3) = [proc[p] EXCEPT !.step = proc[p].step + 3]
        /\ proc[p].step + 3 \in 1..Len(Calls[proc[p].cmd])
        /\ Calls[proc[p].cmd][proc[p].step + 3] = "exclude"
    BY <1>2, SteppedThree
  <2>2. ASSUME NEW r \in Process, NEW t, t = [r EXCEPT !.step = r.step + 3]
        PROVE  /\ t \in Process /\ t.cmd = r.cmd /\ t.step = r.step + 3 /\ t.file = r.file
    BY <2>2 DEF Process
  <2>3. s \in Process /\ s.cmd = proc[p].cmd /\ s.step = proc[p].step + 3 /\ s.id = config
        /\ s.file = proc[p].file
    <3> DEFINE t == Stepped(proc[p], 3)
    <3>1. t \in Process /\ t.cmd = proc[p].cmd /\ t.step = proc[p].step + 3
          /\ t.file = proc[p].file
      BY <1>2, <2>1, <2>2
    <3> HIDE DEF t
    <3>2. [t EXCEPT !.id = config] \in Process
      BY <1>4, <3>1 DEF Process
    <3>3. QED
      BY <3>1, <3>2 DEF Process, t
  <2>4. Moves(proc[p], s)
    BY <2>1, <2>3 DEF Moves, CallOf, FileCalls, OpenedCalls
  <2>5. proc' = [proc EXCEPT ![p] = s] /\ UNCHANGED <<raced, started>>
    BY <1>4 DEF Become
  <2> HIDE DEF s
  <2>6. StoreTypes'
    BY <1>1, <2>5, ProcessType DEF StoreTypes
  <2>7. QED
    BY <1>1, <1>2, <1>4, <2>3, <2>4, <2>5, <2>6, StoresStay, MovedKeeps
<1>5. ASSUME NEW i \in Id, Become(p, [Stepped(proc[p], 1) EXCEPT !.id = i])
      PROVE  IInv'
  <2> DEFINE s == [Stepped(proc[p], 1) EXCEPT !.id = i]
  <2>1. proc' = [proc EXCEPT ![p] = s] /\ UNCHANGED <<raced, started>>
    BY <1>5 DEF Become
  <2>2. Moves(proc[p], s) /\ s.file = proc[p].file /\ s.id = i
    <3>1. Moves(proc[p], Stepped(proc[p], 1)) /\ Stepped(proc[p], 1).file = proc[p].file
      BY <1>1, AtCall
    <3>2. QED
      BY <3>1 DEF Moves, CallOf, Process
  <2> HIDE DEF s
  <2>3. StoreTypes'
    BY <1>1, <2>1, ProcessType DEF StoreTypes
  <2>4. QED
    BY <1>1, <1>2, <2>1, <2>2, <2>3, StoresStay, MovedKeeps
<1>6. QED
  BY <1>3, <1>4, <1>5 DEF InitProject

\* A call of a process that goes on to the next one, leaves the stores alone and is
\* neither the first call, nor opens or migrates a store.
LEMMA PlainInv ==
    ASSUME IInv, NEW p \in Proc, NEW call, At(p, call),
           call \notin {"load", "init", "open", "migrate"},
           Become(p, Stepped(proc[p], 1)), UNCHANGED <<link, db, files>>,
           config' \in Id \cup {NoId, "torn"}, excluded' \in BOOLEAN, dirs' \subseteq Id
    PROVE  IInv'
<1>1. StoreTypes'
  BY ProcessType DEF StoreTypes, Become
<1>2. /\ Running(p) /\ CallOf(proc[p]) = call /\ Moves(proc[p], Stepped(proc[p], 1))
      /\ Stepped(proc[p], 1).id = proc[p].id /\ Stepped(proc[p], 1).file = proc[p].file
  BY AtCall
<1>3. proc' = [proc EXCEPT ![p] = Stepped(proc[p], 1)]
  BY DEF Become
<1>4. QED
  BY <1>1, <1>2, <1>3, StoresStay, MovedKeeps

LEMMA PlainCallsInv ==
    ASSUME IInv, NEW p \in Proc,
           Truncate(p) \/ Write(p) \/ Exclude(p) \/ MakeDir(p) \/ RemoveConfig(p) \/ Stat(p)
    PROVE  IInv'
<1> USE LifecycleAssumption
<1>1. StoreTypes
  BY ProcessType
<1>2. CASE Truncate(p)
  BY <1>1, <1>2, PlainInv DEF Truncate, StoreTypes
<1>3. CASE Write(p)
  <2>1. proc[p].id \in Id
    BY <1>3, AtCall DEF Write
  <2>2. QED
    BY <1>1, <1>3, <2>1, PlainInv DEF Write, StoreTypes
<1>4. CASE Exclude(p)
  <2>1. excluded' \in BOOLEAN
    BY <1>4, Zenon DEF Exclude
  <2>2. QED
    BY <1>1, <1>4, <2>1, PlainInv DEF Exclude, StoreTypes
<1>5. CASE MakeDir(p)
  <2>1. PICK call \in {"mkdir", "log"} : At(p, call)
    BY <1>5 DEF MakeDir
  <2>2. proc[p].id \in Id
    BY <2>1, AtCall
  <2>3. QED
    BY <1>1, <1>5, <2>1, <2>2, PlainInv DEF MakeDir, StoreTypes
<1>6. CASE RemoveConfig(p)
  BY <1>1, <1>6, PlainInv DEF RemoveConfig, StoreTypes
<1>7. CASE Stat(p)
  <2>1. CASE Become(p, Stepped(proc[p], 1))
    BY <1>1, <1>7, <2>1, PlainInv DEF Stat, StoreTypes
  <2>2. CASE Become(p, Ended(proc[p], "warned"))
    <3>1. Ended(proc[p], "warned") \in Process /\ ~Active(Ended(proc[p], "warned"))
      BY ProcessType, EndedEnds
    <3>2. QED
      BY <1>7, <2>2, <3>1, EndKeeps DEF Stat, Become
  <2>3. QED
    BY <1>7, <2>1, <2>2 DEF Stat
<1>8. QED
  BY <1>2, <1>3, <1>4, <1>5, <1>6, <1>7

\* Opening creates a file that no one else has, or takes the one that is there.
LEMMA OpenInv == ASSUME IInv, NEW p \in Proc, Open(p) PROVE IInv'
<1> DEFINE id == proc[p].id
<1>1. At(p, "open") /\ UNCHANGED <<config, excluded, dirs, db>>
  BY DEF Open
<1>2. /\ Running(p) /\ CallOf(proc[p]) = "open" /\ proc[p] \in Process /\ id \in Id
      /\ Moves(proc[p], Stepped(proc[p], 1)) /\ Stepped(proc[p], 1).id = id
  BY <1>1, AtCall
<1>3. CASE Become(p, Ended(proc[p], "failed")) /\ UNCHANGED <<link, files>>
  BY <1>1, <1>3, FailInv
<1>4. ASSUME NEW f \in File, f \in 1..files',
             Become(p, [Stepped(proc[p], 1) EXCEPT !.file = f, !.version = NoVersion]),
             link' \in [Id -> File \cup {NoFile}], files' \in 0..MaxFiles, files' >= files,
             \A i \in Id : link'[i] = f => i = id,
             \A i \in Id : link'[i] = link[i] \/ link'[i] > files,
             StoresSound'
      PROVE  IInv'
  <2> DEFINE s == [Stepped(proc[p], 1) EXCEPT !.file = f, !.version = NoVersion]
  <2>1. proc' = [proc EXCEPT ![p] = s] /\ UNCHANGED <<raced, started>>
    BY <1>4 DEF Become
  <2>2. Moves(proc[p], s) /\ s.file = f /\ s.id = id
    BY <1>2, <1>4 DEF Moves, CallOf, Process
  <2> HIDE DEF s
  <2>3. Evolves
    BY <1>1, <1>4, ProcessType DEF Evolves, StoreTypes
  <2>4. Active(s) =>
          /\ s.step \in 1..Len(Calls[s.cmd])
          /\ CallOf(s) \notin {"load", "init"} => s.id \in Id
          /\ CallOf(s) \in FileCalls =>
              s.file \in 1..files' /\ \A i \in Id : link'[i] = s.file => i = s.id
          /\ CallOf(s) \in OpenedCalls => Needed \subseteq db'[s.file].tables
    BY <1>2, <1>4, <2>2 DEF Moves, Active, FileCalls
  <2>5. proc \in [Proc -> Process] /\ s \in Process
    BY <2>2, ProcessType DEF Moves
  <2>6. \A q \in Proc : Running(q)' => proc'[q].step \in 1..Len(Calls[proc'[q].cmd])
    BY <2>1, <2>4, <2>5 DEF Running, Active, IInv, TypeOK
  <2>7. TypeOK'
    BY <1>1, <1>4, <2>1, <2>5, <2>6, ProcessType DEF TypeOK, StoreTypes
  <2>8. QED
    BY <1>4, <2>1, <2>3, <2>4, <2>5, <2>7, StepKeeps
<1>5. /\ link \in [Id -> File \cup {NoFile}] /\ files \in 0..MaxFiles /\ files \in Nat
      /\ \A i \in Id : link[i] \in 0..files
      /\ \A i, j \in Id : link[i] = link[j] /\ link[i] # NoFile => i = j
      /\ \A f \in File : f > files => db[f].memories = {}
      /\ \A f \in File : db[f].version = Latest => db[f].tables = Needed
  BY DEF IInv, TypeOK, StoresSound
<1>6. CASE /\ link[id] # NoFile
           /\ Become(p, [Stepped(proc[p], 1) EXCEPT !.file = link[id], !.version = NoVersion])
           /\ UNCHANGED <<link, files>>
  <2>1. link[id] \in File /\ link[id] \in 1..files
    BY <1>2, <1>5, <1>6 DEF NoFile, File
  <2>2. StoresSound'
    BY <1>1, <1>6, StoresStay
  <2>3. \A i \in Id : link'[i] = link[id] => i = id
    BY <1>2, <1>5, <1>6
  <2>4. /\ link[id] \in 1..files' /\ link' \in [Id -> File \cup {NoFile}]
        /\ files' \in 0..MaxFiles /\ files' >= files
        /\ \A i \in Id : link'[i] = link[i] \/ link'[i] > files
    BY <1>5, <1>6, <2>1
  <2>5. QED
    BY <1>4, <1>6, <2>1, <2>2, <2>3, <2>4
<1>7. CASE /\ files < MaxFiles /\ files' = files + 1
           /\ link' = [link EXCEPT ![id] = files + 1]
           /\ Become(p, [Stepped(proc[p], 1) EXCEPT !.file = files + 1, !.version = NoVersion])
  <2>1. files + 1 \in File /\ files + 1 \in 1..files' /\ files' \in 0..MaxFiles /\ files' >= files
    BY <1>5, <1>7, LifecycleAssumption DEF File
  <2>2. \A i \in Id : link'[i] = IF i = id THEN files + 1 ELSE link[i]
    BY <1>5, <1>7
  <2>3. /\ link' \in [Id -> File \cup {NoFile}]
        /\ \A i \in Id : link'[i] = files + 1 => i = id
        /\ \A i \in Id : link'[i] = link[i] \/ link'[i] > files
    BY <1>2, <1>5, <1>7, <2>1, <2>2
  <2>4. StoresSound'
    <3>1. \A i \in Id : link'[i] \in 0..files'
      BY <1>5, <1>7, <2>2
    <3>2. \A i, j \in Id : link'[i] = link'[j] /\ link'[i] # NoFile => i = j
      BY <1>5, <2>2, <2>3
    <3>3. \A f \in File : f > files' => db'[f].memories = {}
      BY <1>1, <1>5, <1>7 DEF File
    <3>4. \A f \in File : db'[f].version = Latest => db'[f].tables = Needed
      BY <1>1, <1>5
    <3>5. QED
      BY <3>1, <3>2, <3>3, <3>4 DEF StoresSound
  <2>5. QED
    BY <1>4, <1>7, <2>1, <2>3, <2>4
<1>8. QED
  BY <1>3, <1>6, <1>7 DEF Open

\* Every store that "migrate" lets a command go on with has the tables.
LEMMA ReadVersionInv == ASSUME IInv, NEW p \in Proc, ReadVersion(p) PROVE IInv'
<1> DEFINE f == proc[p].file
<1>1. At(p, "migrate") /\ UNCHANGED <<config, excluded, dirs, link, db, files>>
  BY DEF ReadVersion
<1>2. /\ Running(p) /\ Active(proc[p]) /\ CallOf(proc[p]) = "migrate" /\ proc[p] \in Process
      /\ proc[p].step \in 1..Len(Calls[proc[p].cmd])
      /\ Moves(proc[p], Stepped(proc[p], 1)) /\ Stepped(proc[p], 1).id = proc[p].id
      /\ Stepped(proc[p], 1).file = f
  BY <1>1, AtCall
<1>3. f \in File /\ db[f] \in Store
  <2>1. f \in 1..files
    BY <1>2 DEF IInv, Good, FileCalls
  <2>2. QED
    BY <2>1, ProcessType, LifecycleAssumption DEF StoreTypes, File
<1>4. CASE Become(p, Ended(proc[p], "failed"))
  BY <1>1, <1>4, FailInv
<1>5. CASE db[f].version = Latest /\ Become(p, Stepped(proc[p], 1))
  <2>1. Needed \subseteq db'[f].tables
    BY <1>1, <1>3, <1>5 DEF IInv, StoresSound
  <2>2. StoreTypes'
    BY <1>1, <1>5, ProcessType DEF StoreTypes, Become
  <2>3. proc' = [proc EXCEPT ![p] = Stepped(proc[p], 1)]
    BY <1>5 DEF Become
  <2>4. QED
    BY <1>1, <1>2, <2>1, <2>2, <2>3, StoresStay, MovedKeeps
<1>6. CASE /\ db[f].version < Latest
           /\ Become(p, [proc[p] EXCEPT !.version = db[f].version])
  <2> DEFINE s == [proc[p] EXCEPT !.version = db[f].version]
  <2>1. db[f].version \in 0..(Latest - 1)
    BY <1>3, <1>6 DEF Store, Latest
  <2>2. /\ s \in Process /\ s.cmd = proc[p].cmd /\ s.step = proc[p].step /\ s.id = proc[p].id
        /\ s.file = proc[p].file
    BY <1>2, <2>1 DEF Process
  <2>3. proc' = [proc EXCEPT ![p] = s] /\ UNCHANGED <<raced, started>>
    BY <1>6 DEF Become
  <2> HIDE DEF s
  <2>4. Moves(proc[p], s)
    BY <1>2, <2>2 DEF Moves, CallOf, FileCalls, OpenedCalls
  <2>5. StoreTypes'
    BY <1>1, <2>3, ProcessType DEF StoreTypes
  <2>6. CallOf(s) = "migrate"
    BY <1>2, <2>2 DEF CallOf
  <2>7. QED
    BY <1>1, <1>2, <2>2, <2>3, <2>4, <2>5, <2>6, StoresStay, MovedKeeps DEF OpenedCalls
<1>7. QED
  <2>1. db[f].version > Latest \/ db[f].version = Latest \/ db[f].version < Latest
    BY <1>3 DEF Store, Latest
  <2>2. QED
    BY <1>3, <1>4, <1>5, <1>6, <2>1 DEF ReadVersion, Store, Latest

\* A migration that can run needs the core, and leaves what is needed; the last one makes
\* a store of the latest version.
LEMMA MigrationFacts ==
    ASSUME NEW d \in Store, NEW m \in 1..Latest
    PROVE  /\ Apply(d, m) \in Store
           /\ Apply(d, m).memories \subseteq d.memories
           /\ Needed \subseteq d.tables => Needed \subseteq Apply(d, m).tables
           /\ m = Latest /\ Applies(d, m) => Needed \subseteq Apply(d, m).tables
           /\ d.tables = Needed => Apply(d, m).memories = d.memories
           /\ (d.version = Latest => d.tables = Needed) =>
                (Apply(d, m).version = Latest => Apply(d, m).tables = Needed)
<1>1. /\ Creates[1] = {"core"} /\ Creates[2] = {"work"} /\ Creates[3] = {"vectors"}
      /\ Creates[4] = {"stories"} /\ Creates[5] = {} /\ Creates[6] = {}
  BY DEF Creates
<1>2. Requires[6] = {"core", "vectors", "work", "stories"}
  BY DEF Requires
<1>3. m = 1 \/ m = 2 \/ m = 3 \/ m = 4 \/ m = 5 \/ m = 6
  BY DEF Latest
<1>4. CASE ~Applies(d, m)
  <2>1. Apply(d, m) = d
    BY <1>4 DEF Apply
  <2>2. QED
    BY <1>4, <2>1
<1>5. CASE Applies(d, m)
  <2> DEFINE e == Apply(d, m)
  <2>1. e = Migrated(d, m)
    BY <1>5 DEF Apply
  <2>2. /\ e.version = m /\ e.stamp = d.stamp
        /\ e.tables = (d.tables \cup Creates[m]) \ (IF m = 6 THEN {"work", "stories"} ELSE {})
        /\ e.memories = IF m = 6 THEN {} ELSE d.memories
        /\ e = [version |-> e.version, tables |-> e.tables, stamp |-> e.stamp,
                memories |-> e.memories]
    BY <2>1 DEF Migrated, Store
  <2> HIDE DEF e
  <2>3. Creates[m] \subseteq Table
    BY <1>1, <1>3 DEF Table
  <2>4. e \in Store
    <3>1. e.tables \subseteq Table /\ d.tables \subseteq Table
      BY <2>2, <2>3 DEF Store
    <3>2. e.version \in 0..7 /\ e.stamp \in Id \cup {NoId} /\ e.memories \subseteq {"old", "new"}
      BY <1>3, <2>2 DEF Store
    <3>3. QED
      BY <2>2, <3>1, <3>2 DEF Store
  <2>5. Needed \subseteq d.tables => Needed \subseteq e.tables
    BY <2>2 DEF Needed
  <2>6. m = 6 => Requires[6] \subseteq d.tables
    BY <1>5 DEF Applies
  <2>7. m = 6 => e.tables = Needed
    <3>1. SUFFICES ASSUME m = 6
                   PROVE  e.tables = Needed
      OBVIOUS
    <3>2. d.tables = Table
      BY <1>2, <2>6, <3>1 DEF Table, Store
    <3>3. e.tables = (Table \cup {}) \ {"work", "stories"}
      BY <1>1, <2>2, <3>1, <3>2
    <3>4. QED
      BY <3>3 DEF Table, Needed
  <2>8. d.tables = Needed => e.memories = d.memories
    <3>1. SUFFICES ASSUME d.tables = Needed
                   PROVE  m # 6
      BY <2>2
    <3>2. "work" \notin d.tables
      BY <3>1 DEF Needed
    <3>3. QED
      BY <1>2, <2>6, <3>2
  <2>9. QED
    BY <2>2, <2>4, <2>5, <2>7, <2>8 DEF Latest, e
<1>6. QED
  BY <1>4, <1>5

\* Steps that change what is in the store that the process has open.
LEMMA StoreStep ==
    ASSUME IInv, NEW f \in 1..files, NEW d \in Store, db' = [db EXCEPT ![f] = d],
           UNCHANGED <<link, files>>,
           Needed \subseteq db[f].tables => Needed \subseteq d.tables,
           d.version = Latest => d.tables = Needed
    PROVE  /\ Evolves /\ StoresSound' /\ db' \in [File -> Store]
           /\ f \in File /\ db'[f] = d
<1>1. files \in 0..MaxFiles /\ db \in [File -> Store]
  BY DEF IInv, TypeOK
<1>2. f \in File /\ db \in [File -> Store] /\ files \in Nat
  BY <1>1, LifecycleAssumption DEF File
<1>3. \A g \in File : db'[g] = IF g = f THEN d ELSE db[g]
  BY <1>2
<1>4. 1..files \subseteq File
  BY <1>1, LifecycleAssumption DEF File
<1>5. Evolves
  BY <1>2, <1>3, <1>4 DEF Evolves
<1>6. StoresSound'
  BY <1>2, <1>3 DEF IInv, StoresSound, File
<1>7. QED
  BY <1>2, <1>3, <1>5, <1>6

\* The store that a process has open.
LEMMA OpenStore ==
    ASSUME IInv, NEW p \in Proc, NEW call \in FileCalls, At(p, call)
    PROVE  /\ proc[p].file \in 1..files /\ proc[p].file \in File
           /\ db[proc[p].file] \in Store
           /\ db[proc[p].file].version = Latest => db[proc[p].file].tables = Needed
           /\ \A i \in Id : link[i] = proc[p].file => i = proc[p].id
           /\ call \in OpenedCalls => Needed \subseteq db[proc[p].file].tables
<1>1. Active(proc[p]) /\ CallOf(proc[p]) = call /\ Good(proc[p])
  BY AtCall DEF IInv
<1>2. /\ proc[p].file \in 1..files
      /\ \A i \in Id : link[i] = proc[p].file => i = proc[p].id
      /\ call \in OpenedCalls => Needed \subseteq db[proc[p].file].tables
  BY <1>1 DEF Good
<1>3. proc[p].file \in File
  BY <1>2, ProcessType, LifecycleAssumption DEF StoreTypes, File
<1>4. QED
  BY <1>2, <1>3, ProcessType DEF StoreTypes, IInv, StoresSound

LEMMA ApplyMigrationInv == ASSUME IInv, NEW p \in Proc, ApplyMigration(p) PROVE IInv'
<1> DEFINE f == proc[p].file
           m == proc[p].version + 1
<1>1. /\ At(p, "migrate") /\ proc[p].version # NoVersion
      /\ db' = [db EXCEPT ![f] = Apply(db[f], m)]
      /\ UNCHANGED <<config, excluded, dirs, link, files>>
  BY DEF ApplyMigration
<1>2. /\ Running(p) /\ CallOf(proc[p]) = "migrate" /\ proc[p] \in Process
      /\ proc[p].step \in 1..Len(Calls[proc[p].cmd]) /\ Active(proc[p])
      /\ Moves(proc[p], Stepped(proc[p], 1)) /\ Stepped(proc[p], 1).id = proc[p].id
      /\ Stepped(proc[p], 1).file = f
  BY <1>1, AtCall
<1>3. /\ f \in 1..files /\ f \in File /\ db[f] \in Store
      /\ db[f].version = Latest => db[f].tables = Needed
  BY <1>1, OpenStore DEF FileCalls
<1>4. m \in 1..Latest
  BY <1>1, <1>2 DEF Process, Latest, NoVersion
<1>5. /\ Apply(db[f], m) \in Store
      /\ Needed \subseteq db[f].tables => Needed \subseteq Apply(db[f], m).tables
      /\ m = Latest /\ Applies(db[f], m) => Needed \subseteq Apply(db[f], m).tables
      /\ Apply(db[f], m).version = Latest => Apply(db[f], m).tables = Needed
  BY <1>3, <1>4, MigrationFacts
<1>6. /\ Evolves /\ StoresSound' /\ db' \in [File -> Store]
      /\ db'[f] = Apply(db[f], m)
  BY <1>1, <1>3, <1>5, StoreStep
<1>7. UNCHANGED <<raced, started>>
  BY DEF ApplyMigration, Become
<1>8. StoreTypes'
  BY <1>1, <1>6, <1>7, ProcessType DEF StoreTypes
<1>9. CASE ~Applies(db[f], m) /\ Become(p, Ended(proc[p], "failed"))
  <2>1. db' = db
    BY <1>1, <1>3, <1>9, ProcessType DEF Apply, StoreTypes
  <2>2. QED
    BY <1>1, <1>9, <2>1, FailInv
<1>10. CASE Applies(db[f], m) /\ m = Latest /\ Become(p, Stepped(proc[p], 1))
  <2>1. Needed \subseteq db'[f].tables
    BY <1>5, <1>6, <1>10
  <2>2. proc' = [proc EXCEPT ![p] = Stepped(proc[p], 1)]
    BY <1>10 DEF Become
  <2>3. QED
    BY <1>2, <1>6, <1>8, <2>1, <2>2, MovedKeeps
<1>11. CASE m # Latest /\ Become(p, [proc[p] EXCEPT !.version = m])
  <2> DEFINE s == [proc[p] EXCEPT !.version = m]
  <2>1. m \in 0..(Latest - 1)
    BY <1>4, <1>11 DEF Latest
  <2>2. /\ s \in Process /\ s.cmd = proc[p].cmd /\ s.step = proc[p].step /\ s.id = proc[p].id
        /\ s.file = proc[p].file
    BY <1>2, <2>1 DEF Process
  <2>3. proc' = [proc EXCEPT ![p] = s]
    BY <1>11 DEF Become
  <2> HIDE DEF s
  <2>4. Moves(proc[p], s) /\ CallOf(s) = "migrate"
    BY <1>2, <2>2 DEF Moves, CallOf, FileCalls, OpenedCalls
  <2>5. QED
    BY <1>2, <1>6, <1>8, <2>2, <2>3, <2>4, MovedKeeps DEF OpenedCalls
<1>12. QED
  BY <1>9, <1>10, <1>11 DEF ApplyMigration

LEMMA StampInv == ASSUME IInv, NEW p \in Proc, Stamp(p) PROVE IInv'
<1> DEFINE f == proc[p].file
           d == [db[f] EXCEPT !.stamp = proc[p].id]
<1>1. At(p, "stamp") /\ Become(p, Stepped(proc[p], 1))
      /\ UNCHANGED <<config, excluded, dirs, link, files>>
  BY DEF Stamp
<1>2. /\ f \in 1..files /\ f \in File /\ db[f] \in Store
      /\ db[f].version = Latest => db[f].tables = Needed
  BY <1>1, OpenStore DEF FileCalls
<1>3. /\ Running(p) /\ CallOf(proc[p]) = "stamp" /\ Moves(proc[p], Stepped(proc[p], 1))
      /\ Stepped(proc[p], 1).id = proc[p].id /\ Stepped(proc[p], 1).file = f
      /\ proc[p].id \in Id
  BY <1>1, AtCall
<1>4. d \in Store /\ d.tables = db[f].tables /\ d.version = db[f].version
  BY <1>2, <1>3 DEF Store
<1>5. db' = [db EXCEPT ![f] = d]
  BY DEF Stamp
<1> HIDE DEF d
<1>6. Evolves /\ StoresSound' /\ db' \in [File -> Store]
  BY <1>1, <1>2, <1>4, <1>5, StoreStep
<1>7. StoreTypes'
  BY <1>1, <1>6, ProcessType DEF StoreTypes, Become
<1>8. proc' = [proc EXCEPT ![p] = Stepped(proc[p], 1)]
  BY <1>1 DEF Become
<1>9. QED
  BY <1>3, <1>6, <1>7, <1>8, MovedKeeps

LEMMA AddMemoryInv == ASSUME IInv, NEW p \in Proc, AddMemory(p) PROVE IInv'
<1> DEFINE f == proc[p].file
           d == [db[f] EXCEPT !.memories = db[f].memories \cup {"new"}]
<1>1. At(p, "add") /\ Become(p, Stepped(proc[p], 1))
      /\ UNCHANGED <<config, excluded, dirs, link, files>>
  BY DEF AddMemory
<1>2. /\ f \in 1..files /\ f \in File /\ db[f] \in Store
      /\ db[f].version = Latest => db[f].tables = Needed
  BY <1>1, OpenStore DEF FileCalls
<1>3. /\ Running(p) /\ CallOf(proc[p]) = "add" /\ Moves(proc[p], Stepped(proc[p], 1))
      /\ Stepped(proc[p], 1).id = proc[p].id /\ Stepped(proc[p], 1).file = f
  BY <1>1, AtCall
<1>4. d \in Store /\ d.tables = db[f].tables /\ d.version = db[f].version
  BY <1>2 DEF Store
<1>5. db' = [db EXCEPT ![f] = d]
  BY <1>2, ProcessType DEF AddMemory, StoreTypes
<1> HIDE DEF d
<1>6. Evolves /\ StoresSound' /\ db' \in [File -> Store]
  BY <1>1, <1>2, <1>4, <1>5, StoreStep
<1>7. StoreTypes'
  BY <1>1, <1>6, ProcessType DEF StoreTypes, Become
<1>8. proc' = [proc EXCEPT ![p] = Stepped(proc[p], 1)]
  BY <1>1 DEF Become
<1>9. QED
  BY <1>3, <1>6, <1>7, <1>8, MovedKeeps

\* Unlinking a store, alone or with its directory.
LEMMA UnlinkedInv ==
    ASSUME IInv, NEW p \in Proc, NEW call \in {"unlink", "removeDir"}, At(p, call),
           Become(p, Stepped(proc[p], 1)), link' = [link EXCEPT ![proc[p].id] = NoFile],
           dirs' \subseteq dirs, UNCHANGED <<config, excluded, db, files>>
    PROVE  IInv'
<1>1. /\ Running(p) /\ CallOf(proc[p]) = call /\ Moves(proc[p], Stepped(proc[p], 1))
      /\ Stepped(proc[p], 1).id = proc[p].id /\ Stepped(proc[p], 1).file = proc[p].file
      /\ proc[p].id \in Id
  BY AtCall
<1>2. \A i \in Id : link'[i] = IF i = proc[p].id THEN NoFile ELSE link[i]
  BY ProcessType DEF StoreTypes
<1>3. Evolves
  BY <1>2, ProcessType DEF Evolves, NoFile
<1>4. StoresSound'
  <2>1. /\ \A i \in Id : link[i] \in 0..files
        /\ \A i, j \in Id : link[i] = link[j] /\ link[i] # NoFile => i = j
        /\ files \in Nat
    BY ProcessType DEF IInv, StoresSound
  <2>2. /\ \A i \in Id : link'[i] \in 0..files
        /\ \A i, j \in Id : link'[i] = link'[j] /\ link'[i] # NoFile => i = j
    BY <1>2, <2>1 DEF NoFile
  <2>3. QED
    BY <2>2 DEF IInv, StoresSound
<1>5. link' \in [Id -> File \cup {NoFile}]
  BY ProcessType DEF StoreTypes
<1>6. StoreTypes'
  BY <1>5, ProcessType DEF StoreTypes, Become
<1>7. proc' = [proc EXCEPT ![p] = Stepped(proc[p], 1)]
  BY DEF Become
<1>8. QED
  BY <1>1, <1>3, <1>4, <1>6, <1>7, MovedKeeps

\* Every step keeps the invariant.
LEMMA StepInv == ASSUME IInv, [Next]_vars PROVE IInv'
<1>1. CASE UNCHANGED vars
  <2>1. UNCHANGED <<config, excluded, dirs, link, db, files, proc, raced, started>>
    BY <1>1 DEF vars
  <2>2. TypeOK' /\ StoresSound'
    BY <2>1 DEF IInv, TypeOK, StoresSound, Running
  <2>3. \A p \in Proc : Good(proc[p])'
    BY <2>1 DEF IInv, Good
  <2>4. QED
    BY <2>2, <2>3 DEF IInv
<1>2. ASSUME NEW p \in Proc, Start(p) \/ Exit(p) \/ Die(p) \/ Call(p)
      PROVE  IInv'
  <2>1. CASE Unlink(p)
    BY <2>1, UnlinkedInv DEF Unlink
  <2>2. CASE RemoveDir(p)
    BY <2>2, UnlinkedInv DEF RemoveDir
  <2>3. QED
    BY <1>2, <2>1, <2>2, StartInv, ExitInv, DieInv, LoadInv, InitProjectInv, PlainCallsInv,
       OpenInv, ReadVersionInv, ApplyMigrationInv, StampInv, AddMemoryInv DEF Call
<1>3. QED
  BY <1>1, <1>2 DEF Next

----------------------------------------------------------------------------
(* Theorems. *)

\* Every reachable state satisfies the invariant.
THEOREM Invariance == Spec => []IInv
<1>1. Init => IInv
  BY InitInv
<1>2. IInv /\ [Next]_vars => IInv'
  BY StepInv
<1>3. QED
  BY <1>1, <1>2, PTL DEF Spec

\* The variables keep their types, whichever commands run and die.
THEOREM TypeCorrect == Spec => []TypeOK
<1>1. IInv => TypeOK
  BY DEF IInv
<1>2. QED
  BY <1>1, Invariance, PTL

\* Whoever has opened a store finds the tables it needs in it, however many processes
\* migrate it at once, from whichever version, and wherever they die.
THEOREM OpeningGivesTables == Spec => []OpenedHasTables
  BY OpenedHas, Invariance, PTL

\* No migration takes a memory from a store of the present schema, be its version set back
\* or not, as long as the tables of older schemas have not been added to it again.
THEOREM MemoriesSurviveOpening == Spec => MigrationsKeepMemories
<1>1. ASSUME IInv, [Next]_vars
      PROVE  [ \A f \in File :
                 OfPresentSchema(db[f]) => db[f].memories \subseteq db'[f].memories ]_vars
  <2>1. SUFFICES ASSUME NEW f \in File, OfPresentSchema(db[f]), Next
                 PROVE  db[f].memories \subseteq db'[f].memories
    BY <1>1
  <2>2. PICK p \in Proc : Start(p) \/ Exit(p) \/ Die(p) \/ Call(p)
    BY <2>1 DEF Next
  <2>3. db \in [File -> Store]
    BY <1>1, ProcessType DEF StoreTypes
  <2>4. CASE ApplyMigration(p)
    <3> DEFINE m == proc[p].version + 1
    <3>1. /\ At(p, "migrate") /\ proc[p].version # NoVersion
          /\ db' = [db EXCEPT ![proc[p].file] = Apply(db[proc[p].file], m)]
      BY <2>4 DEF ApplyMigration
    <3>2. m \in 1..Latest
      BY <1>1, <3>1, ProcessType DEF Process, Latest, NoVersion
    <3>3. db[f].tables = Needed
      BY <1>1, <2>1 DEF IInv, StoresSound, OfPresentSchema
    <3>4. Apply(db[f], m).memories = db[f].memories
      BY <2>1, <2>3, <3>2, <3>3, MigrationFacts
    <3>5. QED
      BY <2>3, <3>1, <3>4
  <2>5. CASE Stamp(p)
    BY <2>3, <2>5 DEF Stamp, Store
  <2>6. CASE AddMemory(p)
    <3>1. db' = [db EXCEPT ![proc[p].file] =
                   [db[proc[p].file] EXCEPT !.memories = db[proc[p].file].memories \cup {"new"}]]
      BY <1>1, <2>6, <2>3, OpenStore DEF AddMemory, FileCalls
    <3>2. ASSUME NEW d \in Store
          PROVE  d.memories \subseteq [d EXCEPT !.memories = d.memories \cup {"new"}].memories
      BY DEF Store
    <3>3. QED
      BY <2>3, <3>1, <3>2
  <2>7. CASE ~(ApplyMigration(p) \/ Stamp(p) \/ AddMemory(p))
    <3>1. db' = db
      BY <2>2, <2>7 DEF Start, Exit, Die, Call, Load, InitProject, Truncate, Write, Exclude,
                        MakeDir, Open, ReadVersion, Unlink, RemoveDir, RemoveConfig, Stat
    <3>2. QED
      BY <3>1
  <2>8. QED
    BY <2>4, <2>5, <2>6, <2>7
<1>2. QED
  BY <1>1, Invariance, PTL DEF Spec, MigrationsKeepMemories

----------------------------------------------------------------------------
(* The config names the data: what install, purge and uninstall rely on when they run   *)
(* alone.                                                                               *)

HasMemories(i) == link[i] # NoFile /\ db[link[i]].memories # {}

\* The conjuncts: the store with memories is the config's; it is that of every command
\* that has loaded; the commands that only use the project agree with the config; those
\* that own the project run alone; uninstall has removed the store before the config.
Named == \A i \in Id : HasMemories(i) => config \in {i, "torn"}
Mine(r) ==
    Active(r) =>
        /\ CallOf(r) \notin {"load", "init"} => \A i \in Id : HasMemories(i) => i = r.id
        /\ r.cmd \notin OwnsProject /\ CallOf(r) # "load" => config = r.id
        /\ CallOf(r) = "removeConfig" => link[r.id] = NoFile
Alone ==
    \A p, q \in Proc : p # q /\ Running(p) /\ Running(q) => proc[p].cmd \notin OwnsProject

NInv == ~raced => Named /\ Alone /\ \A p \in Proc : Mine(proc[p])

\* Only the owners of the project init, write, exclude, unlink and remove.
LEMMA OwnersCalls ==
    ASSUME IInv, NEW p \in Proc, Running(p)
    PROVE  /\ CallOf(proc[p]) \in {"init", "truncate", "write", "exclude", "mkdir", "stamp",
                  "unlink", "removeDir", "removeConfig"} => proc[p].cmd \in OwnsProject
           /\ CallOf(proc[p]) = "add" => proc[p].cmd = "add"
<1>1. Active(proc[p]) /\ Good(proc[p]) /\ proc[p] \in Process
  BY ProcessType DEF IInv, Running, Active
<1>2. proc[p].cmd \in AllCommands /\ proc[p].step \in 1..Len(Calls[proc[p].cmd])
  BY <1>1 DEF Good, Active, Process
<1>3. QED
  BY <1>2, CallsOrderly DEF Orderly, CallOf

\* A call of p, after which no store has memories that it had not before, keeps NInv if
\* it changes the config only as an owner and leaves p's own part of it true.
LEMMA NamesKeep ==
    ASSUME IInv, NInv, NEW p \in Proc, Running(p), NEW s \in Process,
           proc' = [proc EXCEPT ![p] = s], s.cmd = proc[p].cmd, raced' = raced,
           config' = config \/ proc[p].cmd \in OwnsProject,
           \A i \in Id : link'[i] # NoFile /\ db'[link'[i]].memories # {} => HasMemories(i),
           ~raced => Named',
           ~raced /\ Active(s) =>
               /\ CallOf(s) \notin {"load", "init"} =>
                   \A i \in Id : link'[i] # NoFile /\ db'[link'[i]].memories # {} => i = s.id
               /\ s.cmd \notin OwnsProject /\ CallOf(s) # "load" => config' = s.id
               /\ CallOf(s) = "removeConfig" => link'[s.id] = NoFile
    PROVE  NInv'
<1> SUFFICES ASSUME ~raced
             PROVE  Named' /\ Alone' /\ \A q \in Proc : Mine(proc[q])'
  BY DEF NInv
<1>1. proc \in [Proc -> Process]
  BY ProcessType
<1>2. Named /\ Alone /\ \A q \in Proc : Mine(proc[q])
  BY DEF NInv
<1>3. proc'[p] = s /\ \A q \in Proc : q # p => proc'[q] = proc[q]
  BY <1>1
<1>4. Alone'
  <2>1. ASSUME NEW q \in Proc, NEW r \in Proc, q # r, Running(q)', Running(r)'
        PROVE  proc'[q].cmd \notin OwnsProject
    <3>1. Running(q) /\ Running(r)
      BY <1>3, <2>1 DEF Running
    <3>2. proc[q].cmd \notin OwnsProject
      BY <1>2, <2>1, <3>1 DEF Alone
    <3>3. QED
      BY <1>3, <3>2
  <2>2. QED
    BY <2>1 DEF Alone
<1>5. ASSUME NEW q \in Proc
      PROVE  Mine(proc[q])'
  <2>1. CASE q = p
    <3>1. proc'[q] = s
      BY <1>3, <2>1
    <3>2. QED
      BY <3>1 DEF Mine, HasMemories, Active, CallOf
  <2>2. CASE q # p
    <3>1. SUFFICES ASSUME Active(proc[q])
                   PROVE  Mine(proc[q])'
      BY <1>3, <2>2 DEF Mine, Active
    <3>2. Running(q) /\ Mine(proc[q]) /\ proc'[q] = proc[q]
      BY <1>2, <1>3, <2>2, <3>1 DEF Active, Running
    <3>3. proc[p].cmd \notin OwnsProject /\ proc[q].cmd \notin OwnsProject
      BY <1>2, <2>2, <3>2 DEF Alone
    <3>4. config' = config /\ CallOf(proc[q]) # "removeConfig"
      BY <3>2, <3>3, OwnersCalls
    <3>5. CallOf(proc[q]) \notin {"load", "init"} =>
            \A i \in Id : link'[i] # NoFile /\ db'[link'[i]].memories # {} => i = proc[q].id
      BY <3>1, <3>2 DEF Mine
    <3>6. CallOf(proc[q]) # "load" => config' = proc[q].id
      BY <3>1, <3>2, <3>3, <3>4 DEF Mine
    <3>7. CallOf(proc[q])' = CallOf(proc[q])
      BY <3>2 DEF CallOf
    <3>8. QED
      BY <3>2, <3>4, <3>5, <3>6, <3>7 DEF Mine, HasMemories
  <2>3. QED
    BY <2>1, <2>2
<1>6. QED
  BY <1>4, <1>5

\* A later call that leaves the config alone and gives no store memories.
LEMMA NamesSame ==
    ASSUME IInv, NInv, NEW p \in Proc, Running(p), NEW s,
           Moves(proc[p], s), s.id = proc[p].id, CallOf(proc[p]) \notin {"load", "init"},
           proc' = [proc EXCEPT ![p] = s], raced' = raced, config' = config,
           \A i \in Id : link'[i] # NoFile /\ db'[link'[i]].memories # {} => HasMemories(i),
           CallOf(proc[p]) = "removeDir" => link'[proc[p].id] = NoFile
    PROVE  NInv'
<1>1. s \in Process /\ s.cmd = proc[p].cmd
  BY DEF Moves
<1>2. ~raced => Named'
  BY DEF NInv, Named, HasMemories
<1>3. ASSUME ~raced, Active(s)
      PROVE  /\ \A i \in Id : link'[i] # NoFile /\ db'[link'[i]].memories # {} => i = s.id
             /\ s.cmd \notin OwnsProject => config' = s.id
             /\ CallOf(s) = "removeConfig" => link'[s.id] = NoFile
  <2>1. Active(proc[p]) /\ Mine(proc[p])
    BY <1>3 DEF NInv, Running, Active
  <2>2. CallOf(s) = "removeConfig" => CallOf(proc[p]) = "removeDir"
    BY <1>3 DEF Moves, Active
  <2>3. QED
    BY <1>1, <2>1, <2>2 DEF Mine
<1>4. QED
  BY <1>1, <1>2, <1>3, NamesKeep

\* A command that ends.
LEMMA NamesEnd ==
    ASSUME IInv, NInv, NEW p \in Proc, Running(p),
           NEW end \in {"ok", "failed", "killed", "warned"}, Become(p, Ended(proc[p], end)),
           UNCHANGED <<config, link, db>>
    PROVE  NInv'
<1> DEFINE s == Ended(proc[p], end)
<1>1. s \in Process /\ ~Active(s) /\ s.cmd = proc[p].cmd
  BY ProcessType, EndedEnds
<1>2. proc' = [proc EXCEPT ![p] = s] /\ raced' = raced
  BY DEF Become
<1> HIDE DEF s
<1>3. ~raced => Named'
  BY DEF NInv, Named, HasMemories
<1>4. \A i \in Id : link'[i] # NoFile /\ db'[link'[i]].memories # {} => HasMemories(i)
  BY DEF HasMemories
<1>5. QED
  BY <1>1, <1>2, <1>3, <1>4, NamesKeep

LEMMA InitNames == Init => NInv
<1> SUFFICES ASSUME Init
             PROVE  Named /\ Alone /\ \A p \in Proc : Mine(proc[p])
  BY DEF NInv
<1>1. \A p \in Proc : ~Active(proc[p]) /\ ~Running(p)
  BY DEF Init, Idle, Active, Running
<1>2. Named
  <2>1. CASE link = [i \in Id |-> NoFile]
    BY <2>1 DEF Named, HasMemories
  <2>2. ASSUME NEW i \in Id, config = i, link = [j \in Id |-> IF j = i THEN 1 ELSE NoFile]
        PROVE  Named
    BY <2>2 DEF Named, HasMemories, NoFile
  <2>3. QED
    BY <2>1, <2>2 DEF Init
<1>3. QED
  BY <1>1, <1>2 DEF Alone, Mine

LEMMA StartNames == ASSUME IInv, NInv, NEW p \in Proc, Start(p) PROVE NInv'
<1> SUFFICES ASSUME ~raced'
             PROVE  Named' /\ Alone' /\ \A q \in Proc : Mine(proc[q])'
  BY DEF NInv
<1> DEFINE others == {q \in Proc : Running(q)}
<1>1. PICK cmd \in Commands :
        /\ proc' = [q \in Proc |->
              IF q = p THEN [Idle EXCEPT !.cmd = cmd, !.step = 1, !.alone = (others = {})]
              ELSE [proc[q] EXCEPT !.alone = FALSE]]
        /\ raced' = (raced \/ \E q \in others : {cmd, proc[q].cmd} \cap OwnsProject # {})
  BY DEF Start
<1>2. UNCHANGED <<config, link, db>>
  BY DEF Start
<1>3. ~raced /\ \A q \in Proc : Running(q) => cmd \notin OwnsProject /\ proc[q].cmd \notin OwnsProject
  BY <1>1
<1>4. Named /\ Alone /\ \A q \in Proc : Mine(proc[q])
  BY <1>3 DEF NInv
<1> DEFINE s == [Idle EXCEPT !.cmd = cmd, !.step = 1, !.alone = (others = {})]
<1>5. proc'[p] = s /\ \A q \in Proc : q # p => proc'[q] = [proc[q] EXCEPT !.alone = FALSE]
  BY <1>1
<1> HIDE DEF others
<1>6. s.cmd = cmd /\ s.step = 1 /\ s.end = "none"
  BY DEF Idle
<1> HIDE DEF s
<1>7. ASSUME NEW q \in Proc, q # p
      PROVE  /\ proc'[q].cmd = proc[q].cmd /\ proc'[q].step = proc[q].step
             /\ proc'[q].end = proc[q].end /\ proc'[q].id = proc[q].id
  <2>1. proc'[q] = [proc[q] EXCEPT !.alone = FALSE] /\ proc[q] \in Process
    BY <1>5, <1>7, ProcessType
  <2>2. ASSUME NEW r \in Process, NEW t, t = [r EXCEPT !.alone = FALSE]
        PROVE  t.cmd = r.cmd /\ t.step = r.step /\ t.end = r.end /\ t.id = r.id
    BY <2>2 DEF Process
  <2>3. QED
    BY <2>1, <2>2
<1>8. Calls[cmd][1] \in {"load", "init"} /\ (cmd \notin OwnsProject => Calls[cmd][1] = "load")
  <2>1. cmd \in AllCommands
    BY LifecycleAssumption
  <2>2. Orderly(cmd, Calls[cmd])
    BY <2>1, CallsOrderly
  <2>3. Len(Calls[cmd]) \in Nat \ {0} /\ 1 \in 1..Len(Calls[cmd])
    BY <2>2 DEF Orderly
  <2>4. QED
    BY <2>2, <2>3 DEF Orderly
<1>9. Named'
  BY <1>2, <1>4 DEF Named, HasMemories
<1>10. Alone'
  <2>1. ASSUME NEW q \in Proc, NEW r \in Proc, q # r, Running(q)', Running(r)'
        PROVE  proc'[q].cmd \notin OwnsProject
    <3>1. CASE q = p
      <4>1. Running(r)
        BY <1>7, <2>1, <3>1 DEF Running
      <4>2. QED
        BY <1>3, <1>5, <1>6, <3>1, <4>1
    <3>2. CASE q # p
      <4>1. Running(q)
        BY <1>7, <2>1, <3>2 DEF Running
      <4>2. CASE r = p
        BY <1>3, <1>7, <3>2, <4>1
      <4>3. CASE r # p
        BY <1>4, <1>7, <2>1, <3>2, <4>1, <4>3 DEF Alone, Running
      <4>4. QED
        BY <4>2, <4>3
    <3>3. QED
      BY <3>1, <3>2
  <2>2. QED
    BY <2>1 DEF Alone
<1>11. ASSUME NEW q \in Proc
       PROVE  Mine(proc[q])'
  <2>1. CASE q = p
    <3>1. CallOf(proc[q])' \in {"load", "init"} /\ proc'[q].cmd = cmd
          /\ (cmd \notin OwnsProject => CallOf(proc[q])' = "load")
      BY <1>5, <1>6, <1>8, <2>1 DEF CallOf
    <3>2. QED
      BY <3>1 DEF Mine
  <2>2. CASE q # p
    <3>1. CallOf(proc[q])' = CallOf(proc[q]) /\ (Active(proc[q])' => Active(proc[q]))
      BY <1>7, <2>2 DEF CallOf, Active
    <3>2. QED
      BY <1>2, <1>4, <1>7, <2>2, <3>1 DEF Mine, HasMemories
  <2>3. QED
    BY <2>1, <2>2
<1>12. QED
  BY <1>9, <1>10, <1>11

LEMMA ExitNames == ASSUME IInv, NInv, NEW p \in Proc, Exit(p) PROVE NInv'
<1> SUFFICES ASSUME ~raced
             PROVE  Named' /\ Alone' /\ \A q \in Proc : Mine(proc[q])'
  BY DEF NInv, Exit, Become
<1>1. proc' = [proc EXCEPT ![p] = Idle] /\ UNCHANGED <<config, link, db>>
  BY DEF Exit, Become
<1>2. Named /\ Alone /\ \A q \in Proc : Mine(proc[q])
  BY DEF NInv
<1>3. \A q \in Proc : Active(proc[q])' => Active(proc[q]) /\ proc'[q] = proc[q]
  BY <1>1, ProcessType DEF Active, Idle
<1>4. \A q \in Proc : Running(q)' => Running(q) /\ proc'[q] = proc[q]
  BY <1>3 DEF Running, Active
<1>5. Named'
  BY <1>1, <1>2 DEF Named, HasMemories
<1>6. Alone'
  BY <1>2, <1>4 DEF Alone
<1>7. \A q \in Proc : Mine(proc[q])'
  BY <1>1, <1>2, <1>3 DEF Mine, HasMemories, CallOf
<1>8. QED
  BY <1>5, <1>6, <1>7

LEMMA CallNames == ASSUME IInv, NInv, NEW p \in Proc, Call(p) PROVE NInv'
<1>1. ASSUME NEW call, At(p, call)
      PROVE  /\ Running(p) /\ Active(proc[p]) /\ CallOf(proc[p]) = call /\ proc[p] \in Process
             /\ Moves(proc[p], Stepped(proc[p], 1))
             /\ Stepped(proc[p], 1).id = proc[p].id
             /\ call \notin {"load", "init"} => proc[p].id \in Id
  BY <1>1, AtCall
<1>2. ASSUME UNCHANGED <<link, db>>
      PROVE  \A i \in Id : link'[i] # NoFile /\ db'[link'[i]].memories # {} => HasMemories(i)
  BY <1>2 DEF HasMemories
<1>3. ASSUME NEW call, call \notin {"load", "init", "removeDir"}, At(p, call),
             UNCHANGED <<config, link, db>>, Become(p, Stepped(proc[p], 1))
      PROVE  NInv'
  BY <1>1, <1>2, <1>3, NamesSame DEF Become
<1>4. ASSUME At(p, "migrate"), UNCHANGED config, NEW s \in Process,
             s.cmd = proc[p].cmd, s.step = proc[p].step, s.id = proc[p].id, s.end = proc[p].end,
             proc' = [proc EXCEPT ![p] = s], raced' = raced,
             \A i \in Id : link'[i] # NoFile /\ db'[link'[i]].memories # {} => HasMemories(i)
      PROVE  NInv'
  <2>1. Running(p) /\ CallOf(proc[p]) = "migrate" /\ CallOf(s) = "migrate"
    BY <1>1, <1>4 DEF CallOf
  <2>2. s.step \in 1..Len(Calls[s.cmd])
    BY <1>4, AtCall
  <2>3. Moves(proc[p], s)
    BY <1>4, <2>1, <2>2 DEF Moves, FileCalls, OpenedCalls
  <2>4. QED
    BY <1>4, <2>1, <2>3, NamesSame
<1>5. CASE Load(p)
  <2>1. CASE Become(p, Ended(proc[p], "failed"))
    BY <1>1, <1>5, <2>1, NamesEnd DEF Load
  <2>2. CASE config \in Id /\ Become(p, [Stepped(proc[p], 1) EXCEPT !.id = config])
    <3> DEFINE s == [Stepped(proc[p], 1) EXCEPT !.id = config]
    <3>1. Running(p) /\ CallOf(proc[p]) = "load" /\ Moves(proc[p], Stepped(proc[p], 1))
      BY <1>1, <1>5 DEF Load
    <3>2. Moves(proc[p], s) /\ s.id = config
      BY <2>2, <3>1 DEF Moves, CallOf, Process
    <3>3. proc' = [proc EXCEPT ![p] = s] /\ raced' = raced /\ UNCHANGED <<config, link, db>>
      BY <1>5, <2>2 DEF Load, Become
    <3> HIDE DEF s
    <3>4. s \in Process /\ s.cmd = proc[p].cmd
      BY <3>2 DEF Moves
    <3>5. Active(s) => CallOf(s) # "removeConfig"
      BY <3>1, <3>2 DEF Moves, Active
    <3>6. ~raced => Named'
      BY <3>3 DEF NInv, Named, HasMemories
    <3>7. ~raced => \A i \in Id : HasMemories(i) => i = s.id
      BY <2>2, <3>2, LifecycleAssumption DEF NInv, Named
    <3>8. \A i \in Id : link'[i] # NoFile /\ db'[link'[i]].memories # {} => HasMemories(i)
      BY <1>2, <3>3
    <3>9. QED
      BY <3>1, <3>2, <3>3, <3>4, <3>5, <3>6, <3>7, <3>8, NamesKeep
  <2>3. QED
    BY <1>5, <2>1, <2>2 DEF Load
<1>6. CASE InitProject(p)
  <2> At(p, "init") /\ UNCHANGED <<config, excluded, dirs, link, db, files>>
    BY <1>6 DEF InitProject
  <2>1. Running(p) /\ CallOf(proc[p]) = "init" /\ Moves(proc[p], Stepped(proc[p], 1))
        /\ Active(proc[p]) /\ proc[p] \in Process /\ proc[p].cmd \in OwnsProject
        /\ proc[p].step \in 1..Len(Calls[proc[p].cmd])
    BY <1>1, OwnersCalls, AtCall
  <2>2. ASSUME NEW s \in Process, s.cmd = proc[p].cmd, NEW i \in Id, s.id = i,
               Active(s) => CallOf(s) # "removeConfig",
               proc' = [proc EXCEPT ![p] = s], raced' = raced, config \in {i, NoId}
        PROVE  NInv'
    <3>1. ~raced => \A j \in Id : HasMemories(j) => j = i
      BY <2>2, LifecycleAssumption DEF NInv, Named
    <3>2. ~raced => Named'
      BY DEF NInv, Named, HasMemories
    <3>3. \A j \in Id : link'[j] # NoFile /\ db'[link'[j]].memories # {} => HasMemories(j)
      BY <1>2
    <3>4. QED
      BY <2>1, <2>2, <3>1, <3>2, <3>3, NamesKeep
  <2>3. CASE Become(p, Ended(proc[p], "failed"))
    BY <2>1, <2>3, NamesEnd
  <2>4. CASE config \in Id /\ Become(p, [Stepped(proc[p], 3) EXCEPT !.id = config])
    <3> DEFINE t == [proc[p] EXCEPT !.step = proc[p].step + 3]
               s == [t EXCEPT !.id = config]
    <3>1. Stepped(proc[p], 3) = t /\ Calls[proc[p].cmd][proc[p].step + 3] = "exclude"
          /\ proc[p].step + 3 \in Nat
      BY <2>1, SteppedThree
    <3>2. t \in Process /\ t.cmd = proc[p].cmd /\ t.step = proc[p].step + 3
      BY <2>1, <3>1 DEF Process
    <3>3. proc' = [proc EXCEPT ![p] = s] /\ raced' = raced
      BY <2>4, <3>1 DEF Become
    <3> HIDE DEF t
    <3>4. s \in Process /\ s.cmd = proc[p].cmd /\ s.step = proc[p].step + 3 /\ s.id = config
      BY <2>4, <3>2 DEF Process
    <3> HIDE DEF s
    <3>5. CallOf(s) # "removeConfig"
      BY <3>1, <3>4 DEF CallOf
    <3>6. QED
      BY <2>2, <2>4, <3>3, <3>4, <3>5
  <2>5. ASSUME NEW i \in Id, config = NoId, Become(p, [Stepped(proc[p], 1) EXCEPT !.id = i])
        PROVE  NInv'
    <3> DEFINE s == [Stepped(proc[p], 1) EXCEPT !.id = i]
    <3>1. s \in Process /\ s.cmd = proc[p].cmd /\ s.id = i /\ Moves(proc[p], s)
      BY <2>1 DEF Moves, CallOf, Process
    <3>2. proc' = [proc EXCEPT ![p] = s] /\ raced' = raced
      BY <2>5 DEF Become
    <3> HIDE DEF s
    <3>3. Active(s) => CallOf(s) # "removeConfig"
      BY <2>1, <3>1 DEF Moves, Active
    <3>4. QED
      BY <2>2, <2>5, <3>1, <3>2, <3>3
  <2>6. QED
    BY <1>6, <2>3, <2>4, <2>5 DEF InitProject
<1>7. ASSUME NEW call \in {"truncate", "write", "removeConfig"}, At(p, call),
             Become(p, Stepped(proc[p], 1)), UNCHANGED <<link, db>>, ~raced => Named'
      PROVE  NInv'
  <2> DEFINE s == Stepped(proc[p], 1)
  <2>1. Running(p) /\ CallOf(proc[p]) = call /\ Moves(proc[p], s) /\ s.id = proc[p].id
        /\ Active(proc[p]) /\ proc[p].cmd \in OwnsProject
    BY <1>1, <1>7, OwnersCalls
  <2>2. proc' = [proc EXCEPT ![p] = s] /\ raced' = raced
    BY <1>7 DEF Become
  <2> HIDE DEF s
  <2>3. s \in Process /\ s.cmd = proc[p].cmd
    BY <2>1 DEF Moves
  <2>4. \A j \in Id : link'[j] # NoFile /\ db'[link'[j]].memories # {} => HasMemories(j)
    BY <1>2, <1>7
  <2>5. ~raced => \A i \in Id : HasMemories(i) => i = s.id
    BY <1>7, <2>1 DEF NInv, Mine
  <2>6. Active(s) => CallOf(s) # "removeConfig"
    BY <1>7, <2>1 DEF Moves, Active
  <2>7. QED
    BY <1>7, <2>1, <2>2, <2>3, <2>4, <2>5, <2>6, NamesKeep
<1>8. CASE Truncate(p)
  <2>1. Named'
    BY <1>8 DEF Truncate, Named
  <2>2. QED
    BY <1>7, <1>8, <2>1 DEF Truncate
<1>9. CASE Write(p)
  <2>1. Active(proc[p]) /\ CallOf(proc[p]) = "write"
    BY <1>1, <1>9 DEF Write
  <2>2. ~raced => \A i \in Id : HasMemories(i) => i = proc[p].id
    BY <2>1 DEF NInv, Mine
  <2>3. ~raced => Named'
    BY <1>9, <2>2 DEF Write, Named, HasMemories
  <2>4. QED
    BY <1>7, <1>9, <2>3 DEF Write
<1>10. CASE RemoveConfig(p)
  <2>1. Active(proc[p]) /\ CallOf(proc[p]) = "removeConfig"
    BY <1>1, <1>10 DEF RemoveConfig
  <2>2. ~raced => /\ \A i \in Id : HasMemories(i) => i = proc[p].id
                  /\ link[proc[p].id] = NoFile
    BY <2>1 DEF NInv, Mine
  <2>3. ~raced => Named'
    BY <1>10, <2>2 DEF RemoveConfig, Named, HasMemories
  <2>4. QED
    BY <1>7, <1>10, <2>3 DEF RemoveConfig
<1>11. CASE Exclude(p)
  BY <1>3, <1>11 DEF Exclude
<1>12. CASE MakeDir(p)
  BY <1>3, <1>12 DEF MakeDir
<1>13. CASE Stat(p)
  <2>1. CASE Become(p, Stepped(proc[p], 1))
    BY <1>3, <1>13, <2>1 DEF Stat
  <2>2. CASE Become(p, Ended(proc[p], "warned"))
    BY <1>1, <1>13, <2>2, NamesEnd DEF Stat
  <2>3. QED
    BY <1>13, <2>1, <2>2 DEF Stat
<1>14. CASE ReadVersion(p)
  <2> DEFINE version == db[proc[p].file].version
  <2>1. At(p, "migrate") /\ UNCHANGED <<config, link, db>>
    BY <1>14 DEF ReadVersion
  <2>2. CASE Become(p, Ended(proc[p], "failed"))
    BY <1>1, <2>1, <2>2, NamesEnd
  <2>3. CASE Become(p, Stepped(proc[p], 1))
    BY <1>3, <2>1, <2>3
  <2>4. CASE version < Latest /\ Become(p, [proc[p] EXCEPT !.version = version])
    <3> DEFINE s == [proc[p] EXCEPT !.version = version]
    <3>1. version \in 0..(Latest - 1)
      <4>1. version \in 0..7
        BY <2>1, OpenStore DEF FileCalls, Store
      <4>2. QED
        BY <2>4, <4>1 DEF Latest
    <3>2. s \in Process /\ s.cmd = proc[p].cmd /\ s.step = proc[p].step /\ s.id = proc[p].id
          /\ s.end = proc[p].end
      BY <1>1, <2>1, <3>1 DEF Process
    <3>3. proc' = [proc EXCEPT ![p] = s] /\ raced' = raced
      BY <2>4 DEF Become
    <3> HIDE DEF s
    <3>4. QED
      BY <1>2, <1>4, <2>1, <3>2, <3>3
  <2>5. version \in 0..7
    BY <2>1, OpenStore DEF FileCalls, Store
  <2>6. QED
    BY <1>14, <2>2, <2>3, <2>4, <2>5 DEF ReadVersion, Latest
<1>15. CASE ApplyMigration(p)
  <2> DEFINE f == proc[p].file
             m == proc[p].version + 1
  <2>1. /\ At(p, "migrate") /\ proc[p].version # NoVersion
        /\ db' = [db EXCEPT ![f] = Apply(db[f], m)]
        /\ UNCHANGED <<config, link>>
    BY <1>15 DEF ApplyMigration
  <2>2. m \in 1..Latest
    BY <1>1, <2>1 DEF Process, Latest, NoVersion
  <2>3. f \in File /\ db[f] \in Store /\ db \in [File -> Store]
    BY <2>1, OpenStore, ProcessType DEF FileCalls, StoreTypes
  <2>4. Apply(db[f], m).memories \subseteq db[f].memories
    BY <2>2, <2>3, MigrationFacts
  <2>5. \A g \in File : db'[g].memories \subseteq db[g].memories
    BY <2>1, <2>3, <2>4
  <2>6. \A i \in Id : link'[i] # NoFile /\ db'[link'[i]].memories # {} => HasMemories(i)
    BY <2>1, <2>5, ProcessType DEF HasMemories, StoreTypes
  <2>7. CASE ~Applies(db[f], m) /\ Become(p, Ended(proc[p], "failed"))
    <3>1. db' = db
      BY <2>1, <2>3, <2>7 DEF Apply
    <3>2. QED
      BY <1>1, <2>1, <2>7, <3>1, NamesEnd
  <2>8. CASE Become(p, Stepped(proc[p], 1))
    <3>1. /\ Running(p) /\ CallOf(proc[p]) = "migrate" /\ Moves(proc[p], Stepped(proc[p], 1))
          /\ Stepped(proc[p], 1).id = proc[p].id
      BY <1>1, <2>1
    <3>2. proc' = [proc EXCEPT ![p] = Stepped(proc[p], 1)] /\ raced' = raced
      BY <2>8 DEF Become
    <3>3. QED
      BY <2>1, <2>6, <3>1, <3>2, NamesSame
  <2>9. CASE m # Latest /\ Become(p, [proc[p] EXCEPT !.version = m])
    <3> DEFINE s == [proc[p] EXCEPT !.version = m]
    <3>1. m \in 0..(Latest - 1)
      BY <2>2, <2>9 DEF Latest
    <3>2. s \in Process /\ s.cmd = proc[p].cmd /\ s.step = proc[p].step /\ s.id = proc[p].id
          /\ s.end = proc[p].end
      BY <1>1, <2>1, <3>1 DEF Process
    <3>3. proc' = [proc EXCEPT ![p] = s] /\ raced' = raced
      BY <2>9 DEF Become
    <3> HIDE DEF s
    <3>4. QED
      BY <1>4, <2>1, <2>6, <3>2, <3>3
  <2>10. QED
    BY <1>15, <2>7, <2>8, <2>9 DEF ApplyMigration
<1>16. CASE Stamp(p)
  <2>1. At(p, "stamp") /\ Become(p, Stepped(proc[p], 1)) /\ UNCHANGED <<config, link>>
        /\ db' = [db EXCEPT ![proc[p].file].stamp = proc[p].id]
    BY <1>16 DEF Stamp
  <2>2. db \in [File -> Store] /\ link \in [Id -> File \cup {NoFile}]
    BY ProcessType DEF StoreTypes
  <2>3. \A g \in File : db'[g].memories = db[g].memories
    BY <2>1, <2>2 DEF Store
  <2>4. \A i \in Id : link'[i] # NoFile /\ db'[link'[i]].memories # {} => HasMemories(i)
    BY <2>1, <2>2, <2>3 DEF HasMemories
  <2>5. /\ Running(p) /\ CallOf(proc[p]) = "stamp" /\ Moves(proc[p], Stepped(proc[p], 1))
        /\ Stepped(proc[p], 1).id = proc[p].id
    BY <1>1, <2>1
  <2>6. proc' = [proc EXCEPT ![p] = Stepped(proc[p], 1)] /\ raced' = raced
    BY <2>1 DEF Become
  <2>7. QED
    BY <2>1, <2>4, <2>5, <2>6, NamesSame
<1>17. CASE AddMemory(p)
  <2> DEFINE f == proc[p].file
             s == Stepped(proc[p], 1)
  <2>1. At(p, "add") /\ Become(p, s) /\ UNCHANGED <<config, link, files, dirs, excluded>>
    BY <1>17 DEF AddMemory
  <2>2. Running(p) /\ Active(proc[p]) /\ CallOf(proc[p]) = "add" /\ proc[p].cmd = "add"
        /\ Moves(proc[p], s) /\ s.id = proc[p].id
    BY <1>1, <2>1, OwnersCalls
  <2>3. \A g \in File : g # f => db'[g] = db[g]
    BY <1>17, ProcessType DEF AddMemory, StoreTypes
  <2>4. \A i \in Id : link[i] = f => i = proc[p].id
    BY <2>1, OpenStore DEF FileCalls
  <2>5. "add" \notin OwnsProject
    BY DEF OwnsProject
  <2>6. \A i \in Id : link'[i] # NoFile /\ db'[link'[i]].memories # {} =>
           HasMemories(i) \/ i = proc[p].id
    BY <2>1, <2>3, <2>4, ProcessType DEF HasMemories, StoreTypes
  <2>7. SUFFICES ASSUME ~raced
                 PROVE  Named' /\ Alone' /\ \A q \in Proc : Mine(proc[q])'
    BY <2>1 DEF NInv, Become
  <2>8. Named /\ Alone /\ \A q \in Proc : Mine(proc[q])
    BY <2>7 DEF NInv
  <2>9. config = proc[p].id
    BY <2>2, <2>5, <2>8 DEF Mine
  <2>10. Named'
    BY <2>1, <2>6, <2>8, <2>9 DEF Named, HasMemories
  <2>11. proc' = [proc EXCEPT ![p] = s] /\ proc \in [Proc -> Process]
    BY <2>1, ProcessType DEF Become
  <2>12. s.cmd = "add" /\ (Active(s) => CallOf(s) # "removeConfig")
    BY <2>2 DEF Moves, Active
  <2> HIDE DEF s
  <2>13. \A q \in Proc : Running(q)' => Running(q) /\ proc'[q].cmd = proc[q].cmd
    BY <2>2, <2>11, <2>12 DEF Running
  <2>14. Alone'
    BY <2>8, <2>13 DEF Alone
  <2>15. ASSUME NEW q \in Proc
         PROVE  Mine(proc[q])'
    <3>1. CASE q = p
      <4>1. proc'[q] = s
        BY <2>11, <3>1
      <4>2. Mine(proc[p])
        BY <2>8
      <4>3. \A i \in Id : HasMemories(i) => i = s.id
        BY <2>2, <4>2 DEF Mine
      <4>4. QED
        BY <2>1, <2>2, <2>6, <2>9, <2>12, <4>1, <4>3 DEF Mine, HasMemories, CallOf, Active
    <3>2. CASE q # p
      <4>1. proc'[q] = proc[q] /\ CallOf(proc[q])' = CallOf(proc[q])
        BY <2>11, <3>2 DEF CallOf
      <4>2. SUFFICES ASSUME Active(proc[q])
                     PROVE  Mine(proc[q])'
        BY <4>1 DEF Mine, Active
      <4>3. Running(q) /\ Mine(proc[q]) /\ proc[q].cmd \notin OwnsProject
        BY <2>2, <2>8, <3>2, <4>2 DEF Running, Active, Alone
      <4>4. CallOf(proc[q]) # "removeConfig"
        BY <4>3, OwnersCalls
      <4>5. CallOf(proc[q]) \notin {"load", "init"} =>
              /\ config = proc[q].id
              /\ \A i \in Id : HasMemories(i) => i = proc[q].id
        BY <4>2, <4>3 DEF Mine
      <4>6. CallOf(proc[q]) # "init"
        BY <4>3, OwnersCalls
      <4>7. QED
        BY <2>1, <2>6, <2>9, <4>1, <4>4, <4>5, <4>6 DEF Mine, HasMemories
    <3>3. QED
      BY <3>1, <3>2
  <2>16. QED
    BY <2>10, <2>14, <2>15
<1>18. CASE Unlink(p) \/ RemoveDir(p)
  <2>1. PICK call \in {"unlink", "removeDir"} :
          /\ At(p, call) /\ Become(p, Stepped(proc[p], 1)) /\ UNCHANGED <<config, db>>
          /\ link' = [link EXCEPT ![proc[p].id] = NoFile]
    BY <1>18 DEF Unlink, RemoveDir
  <2>2. proc[p].id \in Id /\ link \in [Id -> File \cup {NoFile}]
    BY <1>1, <2>1, ProcessType DEF StoreTypes
  <2>3. link'[proc[p].id] = NoFile
        /\ \A i \in Id : link'[i] # NoFile => link'[i] = link[i]
    BY <2>1, <2>2
  <2>4. \A i \in Id : link'[i] # NoFile /\ db'[link'[i]].memories # {} => HasMemories(i)
    BY <2>1, <2>3 DEF HasMemories
  <2>5. QED
    BY <1>1, <2>1, <2>3, <2>4, NamesSame DEF Become
<1>19. CASE Open(p)
  <2> DEFINE id == proc[p].id
  <2>1. At(p, "open") /\ UNCHANGED <<config, db>>
    BY <1>19 DEF Open
  <2>2. CASE Become(p, Ended(proc[p], "failed")) /\ UNCHANGED link
    BY <1>1, <2>1, <2>2, NamesEnd
  <2>3. ASSUME NEW f \in File,
               Become(p, [Stepped(proc[p], 1) EXCEPT !.file = f, !.version = NoVersion]),
               \A i \in Id : link'[i] # NoFile /\ db'[link'[i]].memories # {} => HasMemories(i)
        PROVE  NInv'
    <3> DEFINE s == [Stepped(proc[p], 1) EXCEPT !.file = f, !.version = NoVersion]
    <3>1. Running(p) /\ CallOf(proc[p]) = "open" /\ Moves(proc[p], Stepped(proc[p], 1))
          /\ Stepped(proc[p], 1).id = id
      BY <1>1, <2>1
    <3>2. Moves(proc[p], s) /\ s.id = id
      BY <3>1 DEF Moves, CallOf, Process
    <3>3. proc' = [proc EXCEPT ![p] = s] /\ raced' = raced
      BY <2>3 DEF Become
    <3> HIDE DEF s
    <3>4. QED
      BY <2>1, <2>3, <3>1, <3>2, <3>3, NamesSame
  <2>4. CASE /\ link[id] # NoFile
             /\ Become(p, [Stepped(proc[p], 1) EXCEPT !.file = link[id], !.version = NoVersion])
             /\ UNCHANGED link
    <3>1. id \in Id /\ link \in [Id -> File \cup {NoFile}]
      BY <1>1, <2>1, ProcessType DEF StoreTypes
    <3>2. link[id] \in File
      BY <2>4, <3>1
    <3>3. QED
      BY <1>2, <2>1, <2>3, <2>4, <3>2
  <2>5. CASE /\ files < MaxFiles /\ link' = [link EXCEPT ![id] = files + 1]
             /\ Become(p, [Stepped(proc[p], 1) EXCEPT !.file = files + 1, !.version = NoVersion])
    <3>1. link \in [Id -> File \cup {NoFile}] /\ files \in Nat
      BY ProcessType DEF StoreTypes
    <3>2. files + 1 \in File
      BY <2>5, <3>1, LifecycleAssumption DEF File
    <3>3. db[files + 1].memories = {}
      BY <3>1, <3>2 DEF IInv, StoresSound
    <3>4. \A i \in Id : link'[i] # NoFile /\ db'[link'[i]].memories # {} => HasMemories(i)
      BY <2>1, <2>5, <3>1, <3>3 DEF HasMemories
    <3>5. QED
      BY <2>3, <2>5, <3>2, <3>4
  <2>6. QED
    BY <1>19, <2>2, <2>4, <2>5 DEF Open
<1>20. QED
  BY <1>5, <1>6, <1>8, <1>9, <1>10, <1>11, <1>12, <1>13, <1>14, <1>15, <1>16, <1>17, <1>18,
     <1>19 DEF Call

\* Whatever is killed and whatever is run next, the config names the store with the
\* memories, as long as those that own the project have run alone.
THEOREM DataIsNamed == Spec => []ConfigNamesData
<1>1. Init => NInv
  BY InitNames
<1>2. IInv /\ NInv /\ [Next]_vars => NInv'
  <2>1. SUFFICES ASSUME IInv, NInv, [Next]_vars
                 PROVE  NInv'
    OBVIOUS
  <2>2. CASE UNCHANGED vars
    <3>1. UNCHANGED <<config, link, db, proc, raced>>
      BY <2>2 DEF vars
    <3>2. Named' = Named /\ Alone' = Alone
      BY <3>1 DEF Named, HasMemories, Alone, Running
    <3>3. (\A p \in Proc : Mine(proc[p])) => \A p \in Proc : Mine(proc[p])'
      BY <3>1 DEF Mine, HasMemories, Active, CallOf
    <3>4. QED
      BY <2>1, <3>1, <3>2, <3>3 DEF NInv
  <2>3. ASSUME NEW p \in Proc, Die(p)
        PROVE  NInv'
    BY <2>1, <2>3, NamesEnd DEF Die
  <2>4. QED
    BY <2>1, <2>2, <2>3, StartNames, ExitNames, CallNames DEF Next
<1>3. NInv => ConfigNamesData
  BY DEF NInv, Named, HasMemories, ConfigNamesData
<1>4. QED
  BY <1>1, <1>2, <1>3, Invariance, PTL DEF Spec

----------------------------------------------------------------------------
(* What a command has done when it says so: the calls it has made, while nobody else ran. *)

\* The record is at one of these calls of this command.
Among(r, cmd, steps) == r.cmd = cmd /\ r.step \in steps

\* Where each call stands in the commands, and how many calls they have.
Placed(r) ==
    /\ CallOf(r) = "load" =>
        Among(r, "install", {9}) \/ (r.step = 1 /\ r.cmd # "install")
    /\ CallOf(r) = "init" => Among(r, "install", {1})
    /\ CallOf(r) = "truncate" => Among(r, "install", {2}) \/ Among(r, "purge", {6})
    /\ CallOf(r) = "write" => Among(r, "install", {3}) \/ Among(r, "purge", {7})
    /\ CallOf(r) = "exclude" => Among(r, "install", {4})
    /\ CallOf(r) = "mkdir" => Among(r, "install", {5})
    /\ CallOf(r) = "log" => Among(r, "install", {12}) \/ Among(r, "add", {4})
    /\ CallOf(r) = "open" =>
        \/ Among(r, "install", {6, 10}) \/ Among(r, "purge", {3}) \/ Among(r, "add", {2})
        \/ Among(r, "doctor", {3})
    /\ CallOf(r) = "migrate" =>
        \/ Among(r, "install", {7, 11}) \/ Among(r, "purge", {4}) \/ Among(r, "add", {3})
        \/ Among(r, "doctor", {4})
    /\ CallOf(r) = "stamp" => Among(r, "install", {8}) \/ Among(r, "purge", {5})
    /\ CallOf(r) = "add" => Among(r, "add", {5})
    /\ CallOf(r) = "unlink" => Among(r, "purge", {2})
    /\ CallOf(r) = "removeDir" => Among(r, "uninstall", {2})
    /\ CallOf(r) = "removeConfig" => Among(r, "uninstall", {3})
    /\ CallOf(r) = "stat" => Among(r, "doctor", {2})
\* How many calls each command makes.
Last == [install |-> 12, purge |-> 7, uninstall |-> 3, add |-> 5, doctor |-> 4]

\* Every call is where Placed says.
LEMMA CallsPlaced ==
    ASSUME NEW r, r.cmd \in AllCommands, r.step \in 1..Len(Calls[r.cmd])
    PROVE  Placed(r) /\ Len(Calls[r.cmd]) = Last[r.cmd]
<1>1. CASE r.cmd = "install"
  <2>1. Calls[r.cmd] = Install /\ Last[r.cmd] = 12
    BY <1>1 DEF Calls, Last
  <2>2. Len(Install) = 12
    BY DEF Install
  <2>3. \/ r.step = 1 \/ r.step = 2 \/ r.step = 3 \/ r.step = 4 \/ r.step = 5 \/ r.step = 6
        \/ r.step = 7 \/ r.step = 8 \/ r.step = 9 \/ r.step = 10 \/ r.step = 11 \/ r.step = 12
    BY <2>1, <2>2
  <2>4. Install[1] = "init" /\ Install[2] = "truncate" /\ Install[3] = "write"
        /\ Install[4] = "exclude" /\ Install[5] = "mkdir" /\ Install[6] = "open"
        /\ Install[7] = "migrate" /\ Install[8] = "stamp" /\ Install[9] = "load"
        /\ Install[10] = "open" /\ Install[11] = "migrate" /\ Install[12] = "log"
    BY DEF Install
  <2>5. CallOf(r) = Install[r.step]
    BY <2>1 DEF CallOf
  <2>6. QED
    BY <1>1, <2>1, <2>2, <2>3, <2>4, <2>5 DEF Placed, Among
<1>2. CASE r.cmd = "purge"
  <2>1. Calls[r.cmd] = Purge /\ Last[r.cmd] = 7
    BY <1>2 DEF Calls, Last
  <2>2. Len(Purge) = 7
    BY DEF Purge
  <2>3. \/ r.step = 1 \/ r.step = 2 \/ r.step = 3 \/ r.step = 4 \/ r.step = 5 \/ r.step = 6
        \/ r.step = 7
    BY <2>1, <2>2
  <2>4. Purge[1] = "load" /\ Purge[2] = "unlink" /\ Purge[3] = "open"
        /\ Purge[4] = "migrate" /\ Purge[5] = "stamp" /\ Purge[6] = "truncate"
        /\ Purge[7] = "write"
    BY DEF Purge
  <2>5. CallOf(r) = Purge[r.step]
    BY <2>1 DEF CallOf
  <2>6. QED
    BY <1>2, <2>1, <2>2, <2>3, <2>4, <2>5 DEF Placed, Among
<1>3. CASE r.cmd = "uninstall"
  <2>1. Calls[r.cmd] = Uninstall /\ Last[r.cmd] = 3
    BY <1>3 DEF Calls, Last
  <2>2. Len(Uninstall) = 3
    BY DEF Uninstall
  <2>3. r.step = 1 \/ r.step = 2 \/ r.step = 3
    BY <2>1, <2>2
  <2>4. Uninstall[1] = "load" /\ Uninstall[2] = "removeDir" /\ Uninstall[3] = "removeConfig"
    BY DEF Uninstall
  <2>5. CallOf(r) = Uninstall[r.step]
    BY <2>1 DEF CallOf
  <2>6. QED
    BY <1>3, <2>1, <2>2, <2>3, <2>4, <2>5 DEF Placed, Among
<1>4. CASE r.cmd = "add"
  <2>1. Calls[r.cmd] = Add /\ Last[r.cmd] = 5
    BY <1>4 DEF Calls, Last
  <2>2. Len(Add) = 5
    BY DEF Add
  <2>3. r.step = 1 \/ r.step = 2 \/ r.step = 3 \/ r.step = 4 \/ r.step = 5
    BY <2>1, <2>2
  <2>4. Add[1] = "load" /\ Add[2] = "open" /\ Add[3] = "migrate" /\ Add[4] = "log"
        /\ Add[5] = "add"
    BY DEF Add
  <2>5. CallOf(r) = Add[r.step]
    BY <2>1 DEF CallOf
  <2>6. QED
    BY <1>4, <2>1, <2>2, <2>3, <2>4, <2>5 DEF Placed, Among
<1>5. CASE r.cmd = "doctor"
  <2>1. Calls[r.cmd] = Doctor /\ Last[r.cmd] = 4
    BY <1>5 DEF Calls, Last
  <2>2. Len(Doctor) = 4
    BY DEF Doctor
  <2>3. r.step = 1 \/ r.step = 2 \/ r.step = 3 \/ r.step = 4
    BY <2>1, <2>2
  <2>4. Doctor[1] = "load" /\ Doctor[2] = "stat" /\ Doctor[3] = "open" /\ Doctor[4] = "migrate"
    BY DEF Doctor
  <2>5. CallOf(r) = Doctor[r.step]
    BY <2>1 DEF CallOf
  <2>6. QED
    BY <1>5, <2>1, <2>2, <2>3, <2>4, <2>5 DEF Placed, Among
<1>6. QED
  BY <1>1, <1>2, <1>3, <1>4, <1>5 DEF AllCommands

\* The next record of a command: one call further, or its end.
GoesTo(r, s) ==
    /\ s.cmd = r.cmd /\ s.alone = r.alone
    /\ \/ r.step = Last[r.cmd] /\ s.end = "ok" /\ s.step = r.step
       \/ r.step # Last[r.cmd] /\ s.end = "none" /\ s.step = r.step + 1

\* Stepped is such a record, with the id, the file and the version kept.
LEMMA SteppedGoes ==
    ASSUME IInv, NEW p \in Proc, Running(p)
    PROVE  /\ GoesTo(proc[p], Stepped(proc[p], 1))
           /\ Stepped(proc[p], 1) \in Process
           /\ Stepped(proc[p], 1).id = proc[p].id
           /\ Stepped(proc[p], 1).file = proc[p].file
           /\ Stepped(proc[p], 1).version = proc[p].version
           /\ proc[p] \in Process /\ Placed(proc[p]) /\ Active(proc[p])
           /\ Good(proc[p])
           /\ proc[p].step \in 1..Last[proc[p].cmd] /\ Last[proc[p].cmd] \in Nat
<1> DEFINE r == proc[p]
           s == Stepped(r, 1)
<1>1. r \in Process /\ Active(r) /\ r.cmd \in AllCommands /\ r.step \in 1..Len(Calls[r.cmd])
  BY ProcessType DEF IInv, TypeOK, Running, Active, Process
<1>2. Placed(r) /\ Len(Calls[r.cmd]) = Last[r.cmd]
  BY <1>1, CallsPlaced
<1>3. Last[r.cmd] \in Nat
  BY <1>1 DEF Last, AllCommands
<1>4. Moves(r, s) /\ s.id = r.id /\ s.file = r.file /\ s.version = r.version
  BY <1>1, SteppedMoves
<1>5. CASE r.step + 1 > Last[r.cmd]
  <2>1. s = [r EXCEPT !.end = "ok"] /\ r.step = Last[r.cmd]
    BY <1>1, <1>2, <1>3, <1>5 DEF Stepped
  <2>2. s.cmd = r.cmd /\ s.alone = r.alone /\ s.end = "ok" /\ s.step = r.step
    BY <1>1, <2>1 DEF Process
  <2>3. GoesTo(r, s)
    BY <2>1, <2>2 DEF GoesTo
  <2>4. QED
    BY <1>1, <1>2, <1>3, <1>4, <2>3 DEF Moves, IInv
<1>6. CASE ~(r.step + 1 > Last[r.cmd])
  <2>1. s = [r EXCEPT !.step = r.step + 1] /\ r.step # Last[r.cmd]
    BY <1>1, <1>2, <1>3, <1>6 DEF Stepped
  <2>2. s.cmd = r.cmd /\ s.alone = r.alone /\ s.end = "none" /\ s.step = r.step + 1
    BY <1>1, <2>1 DEF Process, Active
  <2>3. GoesTo(r, s)
    BY <2>1, <2>2 DEF GoesTo
  <2>4. QED
    BY <1>1, <1>2, <1>3, <1>4, <2>3 DEF Moves, IInv
<1>7. QED
  BY <1>5, <1>6


\* Where a command is, while no other runs: the config, the exclude file, the directory
\* and the store are as the calls made so far have left them.
Due(r) ==
    Active(r) =>
        /\ \/ Among(r, "install", 4..12) \/ Among(r, "purge", 2..6)
           \/ Among(r, "add", 2..5) \/ Among(r, "doctor", 2..4)
           => config = r.id
        /\ Among(r, "install", 5..12) => excluded
        /\ \/ Among(r, "install", 6..12) \/ Among(r, "purge", 4..7)
           \/ Among(r, "add", 3..5) \/ Among(r, "doctor", 3..4)
           => r.id \in dirs
        /\ \/ Among(r, "install", 7..12) \/ Among(r, "purge", 4..7)
           \/ Among(r, "add", 3..5) \/ Among(r, "doctor", {4})
           => link[r.id] # NoFile /\ r.file = link[r.id]
        /\ \/ Among(r, "install", {7, 11}) \/ Among(r, "purge", {4})
           \/ Among(r, "add", {3}) \/ Among(r, "doctor", {4})
           => r.version = NoVersion \/ db[r.file].version = r.version
        /\ Among(r, "install", 8..12) \/ Among(r, "add", 4..5) => Needed \subseteq db[r.file].tables
        /\ Among(r, "install", 9..12) => db[r.file].stamp = r.id
        /\ Among(r, "purge", {3}) => link[r.id] = NoFile
        /\ Among(r, "purge", {4}) => db[r.file] = After(db[r.file].version, NoId, {})
        /\ Among(r, "purge", {5}) => db[r.file] = After(Latest, NoId, {})
        /\ Among(r, "purge", 6..7) => db[r.file] = After(Latest, r.id, {})
        /\ Among(r, "doctor", {3}) => link[r.id] # NoFile
        /\ Among(r, "uninstall", {3}) => r.id \notin dirs

\* The conjuncts: files not yet created are empty; a command that is alone has nobody
\* beside it, is where it should be, and has kept its word if it has ended.
Word(r) ==
    /\ Due(r)
    /\ Kept(r)
    /\ r.end = "failed" => Excused(r)
WInv ==
    /\ \A f \in File : f > files => db[f] = EmptyStore
    /\ \A p \in Proc : proc[p].alone =>
        /\ \A q \in Proc : q # p => ~Running(q)
        /\ Word(proc[p])

\* A step of p concerns the word of p alone.
LEMMA WordKeeps ==
    ASSUME IInv, WInv, NEW p \in Proc, Running(p), NEW s,
           proc' = [proc EXCEPT ![p] = s], s.alone = proc[p].alone,
           \A f \in File : f > files' => db'[f] = EmptyStore,
           proc[p].alone => Word(proc[p])'
    PROVE  WInv'
<1>1. proc'[p] = s /\ \A q \in Proc : q # p => proc'[q] = proc[q]
  BY ProcessType
<1>2. ASSUME NEW q \in Proc, proc'[q].alone
      PROVE  (\A r \in Proc : r # q => ~Running(r)') /\ Word(proc[q])'
  <2>1. CASE q = p
    <3>1. \A r \in Proc : r # p => ~Running(r)
      BY <1>1, <1>2, <2>1 DEF WInv
    <3>2. \A r \in Proc : r # q => ~Running(r)'
      BY <1>1, <2>1, <3>1 DEF Running
    <3>3. QED
      BY <1>1, <1>2, <2>1, <3>2
  <2>2. CASE q # p
    <3>1. proc[q].alone
      BY <1>1, <1>2, <2>2
    <3>2. QED
      BY <2>2, <3>1 DEF WInv
  <2>3. QED
    BY <2>1, <2>2
<1>3. QED
  BY <1>2 DEF WInv

\* When nothing but the processes changes, the word of one that did not move stands.
LEMMA WordStays ==
    ASSUME UNCHANGED <<config, excluded, dirs, link, db>>,
           NEW q \in Proc, proc'[q] = proc[q], Word(proc[q])
    PROVE  Word(proc[q])'
<1>1. Due(proc[q])'
  BY DEF Word, Due, Active, Among
<1>2. Kept(proc[q])'
  BY DEF Word, Kept, Usable, Blocked, Stuck
<1>3. proc'[q].end = "failed" => Excused(proc[q])'
  BY DEF Word, Excused, Stuck
<1>4. QED
  BY <1>1, <1>2, <1>3 DEF Word

\* Nobody runs in an initial state, and only the first file is in use.
LEMMA InitWord == Init => WInv
<1> SUFFICES ASSUME Init
             PROVE  WInv
  OBVIOUS
<1>1. \A p \in Proc : proc[p].alone = FALSE
  BY DEF Init, Idle
<1>2. CASE db = [f \in File |-> EmptyStore]
  BY <1>1, <1>2 DEF WInv
<1>3. ASSUME NEW i \in Id, NEW v \in Found, files = 1,
             db = [f \in File |-> IF f = 1 THEN After(v, i, {"old"}) ELSE EmptyStore]
      PROVE  WInv
  <2>1. \A f \in File : f > files => db[f] = EmptyStore
    BY <1>3
  <2>2. QED
    BY <1>1, <2>1 DEF WInv
<1>4. QED
  BY <1>2, <1>3 DEF Init

\* A command that starts beside another takes its word away; one that starts alone has
\* done nothing yet.
LEMMA StartWord == ASSUME IInv, WInv, NEW p \in Proc, Start(p) PROVE WInv'
<1> DEFINE others == {q \in Proc : Running(q)}
<1>1. PICK cmd \in Commands :
        proc' = [q \in Proc |->
              IF q = p THEN [Idle EXCEPT !.cmd = cmd, !.step = 1, !.alone = (others = {})]
              ELSE [proc[q] EXCEPT !.alone = FALSE]]
  BY DEF Start
<1>2. UNCHANGED <<config, excluded, dirs, link, db, files>>
  BY DEF Start
<1> DEFINE s == [Idle EXCEPT !.cmd = cmd, !.step = 1, !.alone = (others = {})]
<1>3. proc'[p] = s /\ \A q \in Proc : q # p => proc'[q] = [proc[q] EXCEPT !.alone = FALSE]
  BY <1>1
<1>4. s.alone => \A q \in Proc : ~Running(q)
  BY DEF Idle
<1>5. s.cmd = cmd /\ s.step = 1 /\ s.end = "none"
  BY DEF Idle
<1> HIDE DEF s, others
<1>6. ASSUME NEW q \in Proc, q # p
      PROVE  proc'[q].alone = FALSE /\ proc'[q].cmd = proc[q].cmd /\ proc'[q].end = proc[q].end
  <2>1. proc'[q] = [proc[q] EXCEPT !.alone = FALSE] /\ proc[q] \in Process
    BY <1>3, <1>6, ProcessType
  <2>2. ASSUME NEW r \in Process, NEW t, t = [r EXCEPT !.alone = FALSE]
        PROVE  t.alone = FALSE /\ t.cmd = r.cmd /\ t.end = r.end
    BY <2>2 DEF Process
  <2>3. QED
    BY <2>1, <2>2
<1>7. Word(proc[p])'
  <2>1. Due(proc[p])'
    BY <1>3, <1>5 DEF Due, Among
  <2>2. QED
    BY <1>3, <1>5, <2>1 DEF Word, Kept
<1>8. proc'[p].alone => \A q \in Proc : q # p => ~Running(q)'
  BY <1>3, <1>4, <1>6 DEF Running
<1>9. \A f \in File : f > files' => db'[f] = EmptyStore
  BY <1>2 DEF WInv
<1>10. QED
  BY <1>6, <1>7, <1>8, <1>9 DEF WInv

\* A process that is gone promises nothing.
LEMMA ExitWord == ASSUME IInv, WInv, NEW p \in Proc, Exit(p) PROVE WInv'
<1>1. proc' = [proc EXCEPT ![p] = Idle] /\ UNCHANGED <<config, excluded, dirs, link, db, files>>
  BY DEF Exit, Become
<1>2. proc'[p] = Idle /\ \A q \in Proc : q # p => proc'[q] = proc[q]
  BY <1>1, ProcessType
<1>3. Idle.alone = FALSE /\ Idle.cmd = "none"
  BY DEF Idle
<1>4. \A q \in Proc : Running(q)' => Running(q)
  BY <1>2, <1>3 DEF Running
<1>5. ASSUME NEW q \in Proc, proc'[q].alone
      PROVE  (\A r \in Proc : r # q => ~Running(r)') /\ Word(proc[q])'
  <2>1. q # p /\ proc'[q] = proc[q] /\ proc[q].alone
    BY <1>2, <1>3, <1>5
  <2>2. (\A r \in Proc : r # q => ~Running(r)) /\ Word(proc[q])
    BY <2>1 DEF WInv
  <2>3. Word(proc[q])'
    BY <1>1, <2>1, <2>2, WordStays
  <2>4. QED
    BY <1>4, <2>2, <2>3
<1>6. \A f \in File : f > files' => db'[f] = EmptyStore
  BY <1>1 DEF WInv
<1>7. QED
  BY <1>5, <1>6 DEF WInv

\* A command that fails or is killed, with nothing else changed.
LEMMA EndWord ==
    ASSUME IInv, WInv, NEW p \in Proc, Running(p),
           NEW end \in {"failed", "killed"}, Become(p, Ended(proc[p], end)),
           UNCHANGED <<config, excluded, dirs, link, db, files>>,
           proc[p].alone /\ end = "failed" => Excused(proc[p])
    PROVE  WInv'
<1> DEFINE s == Ended(proc[p], end)
<1>1. s.alone = proc[p].alone /\ s.cmd = proc[p].cmd /\ s.end = end
  BY ProcessType DEF Ended, Process
<1>2. proc' = [proc EXCEPT ![p] = s]
  BY DEF Become
<1> HIDE DEF s
<1>3. proc'[p] = s
  BY <1>2, ProcessType
<1>4. \A f \in File : f > files' => db'[f] = EmptyStore
  BY DEF WInv
<1>5. Due(proc[p])' /\ Kept(proc[p])'
  BY <1>1, <1>3 DEF Due, Active, Kept
<1>6. Excused(proc[p]) => Excused(proc[p])'
  BY <1>1, <1>3 DEF Excused, Stuck
<1>7. proc[p].alone => Word(proc[p])'
  BY <1>1, <1>3, <1>5, <1>6 DEF Word
<1>8. QED
  BY <1>1, <1>2, <1>4, <1>7, WordKeeps


\* A call that goes on to s, and leaves what is due of s.
LEMMA MovedWord ==
    ASSUME IInv, WInv, NEW p \in Proc, Running(p), NEW s,
           proc' = [proc EXCEPT ![p] = s], GoesTo(proc[p], s),
           \A f \in File : f > files' => db'[f] = EmptyStore,
           proc[p].alone => Due(proc[p])' /\ (s.end = "ok" => Kept(proc[p])')
    PROVE  WInv'
<1>1. proc'[p] = s
  BY ProcessType
<1>2. s.alone = proc[p].alone /\ s.end \in {"none", "ok"}
  BY DEF GoesTo
<1>3. s.end = "none" => Kept(proc[p])'
  BY <1>1 DEF Kept
<1>4. proc[p].alone => Word(proc[p])'
  BY <1>1, <1>2, <1>3 DEF Word
<1>5. QED
  BY <1>2, <1>4, WordKeeps

\* What is due of the process that moves.
LEMMA DueNow ==
    ASSUME IInv, WInv, NEW p \in Proc, Running(p), proc[p].alone
    PROVE  Due(proc[p]) /\ Active(proc[p])
  BY DEF WInv, Word, Running, Active

\* Load takes the id from the config, or fails because it names no project.
LEMMA LoadWord == ASSUME IInv, WInv, NEW p \in Proc, Load(p) PROVE WInv'
<1>1. Running(p) /\ CallOf(proc[p]) = "load" /\ UNCHANGED <<config, excluded, dirs, link, db, files>>
  BY AtCall DEF Load
<1>2. Placed(proc[p]) /\ proc[p].step \in 1..Last[proc[p].cmd] /\ Last[proc[p].cmd] \in Nat
  BY <1>1, SteppedGoes
<1>3. Among(proc[p], "install", {9}) \/ (proc[p].step = 1 /\ proc[p].cmd # "install")
  BY <1>1, <1>2 DEF Placed
<1>4. CASE config \notin Id /\ Become(p, Ended(proc[p], "failed"))
  <2>1. proc[p].alone => Excused(proc[p])
    <3>1. config \in {NoId, "torn"}
      BY <1>4, ProcessType DEF StoreTypes
    <3>2. SUFFICES ASSUME proc[p].alone, config = NoId, proc[p].cmd = "install"
                   PROVE  FALSE
      BY <3>1 DEF Excused
    <3>3. config = proc[p].id
      BY <1>1, <1>3, <3>2, DueNow DEF Due, Among
    <3>4. proc[p].id \in Id
      <4>1. Good(proc[p]) /\ Active(proc[p]) /\ proc[p].file \in File \cup {NoFile}
            /\ link[proc[p].id] # NoFile
        BY <1>1, <1>3, <3>2, DueNow, SteppedGoes DEF Due, Among, Process
      <4>2. proc[p].id \in Id \cup {NoId}
        BY ProcessType DEF Process
      <4>3. proc[p].id \in dirs
        BY <1>1, <1>3, <3>2, DueNow DEF Due, Among
      <4>4. QED
        BY <4>3, ProcessType DEF StoreTypes
    <3>5. QED
      BY <1>4, <3>3, <3>4
  <2>2. QED
    BY <1>1, <1>4, <2>1, EndWord
<1>5. CASE config \in Id /\ Become(p, [Stepped(proc[p], 1) EXCEPT !.id = config])
  <2> DEFINE t == Stepped(proc[p], 1)
             s == [t EXCEPT !.id = config]
  <2>1. GoesTo(proc[p], t) /\ t \in Process /\ t.file = proc[p].file /\ t.version = proc[p].version
    BY <1>1, SteppedGoes
  <2> HIDE DEF t
  <2>2. GoesTo(proc[p], s) /\ s.id = config /\ s.file = proc[p].file /\ s.version = proc[p].version
    BY <2>1 DEF GoesTo, Process
  <2>3. proc' = [proc EXCEPT ![p] = s]
    BY <1>5 DEF Become, t
  <2> HIDE DEF s
  <2>4. proc'[p] = s
    BY <2>3, ProcessType
  <2>5. /\ s.cmd = proc[p].cmd /\ s.step = proc[p].step + 1 /\ s.end = "none"
        /\ s.step \in {2, 10} /\ (s.step = 10 <=> s.cmd = "install")
    <3>1. proc[p].cmd \in AllCommands
      BY <1>1, ProcessType DEF Running, Process
    <3>2. proc[p].step # Last[proc[p].cmd] /\ proc[p].step \in {1, 9}
      BY <1>3, <3>1 DEF Among, Last, AllCommands
    <3>3. QED
      BY <1>3, <2>2, <3>2 DEF GoesTo, Among
  <2>6. ASSUME proc[p].alone
        PROVE  Due(proc[p])'
    <3>1. CASE s.cmd = "install"
      <4>1. Due(proc[p]) /\ Active(proc[p]) /\ Among(proc[p], "install", {9})
        BY <1>1, <1>3, <2>5, <2>6, <3>1, DueNow
      <4>2. /\ config = proc[p].id /\ excluded /\ proc[p].id \in dirs /\ link[proc[p].id] # NoFile
            /\ proc[p].file = link[proc[p].id] /\ Needed \subseteq db[proc[p].file].tables
            /\ db[proc[p].file].stamp = proc[p].id
        BY <4>1 DEF Due, Among
      <4>3. QED
        BY <1>1, <2>2, <2>4, <2>5, <3>1, <4>2 DEF Due, Among
    <3>2. CASE s.cmd # "install"
      BY <1>1, <2>2, <2>4, <2>5, <3>2 DEF Due, Among
    <3>3. QED
      BY <3>1, <3>2
  <2>7. \A f \in File : f > files' => db'[f] = EmptyStore
    BY <1>1 DEF WInv
  <2>8. QED
    BY <1>1, <2>2, <2>3, <2>5, <2>6, <2>7, MovedWord
<1>6. QED
  BY <1>4, <1>5 DEF Load

\* InitProject takes the id that the config names, or mints one.
LEMMA InitProjectWord == ASSUME IInv, WInv, NEW p \in Proc, InitProject(p) PROVE WInv'
<1>1. /\ Running(p) /\ CallOf(proc[p]) = "init"
      /\ UNCHANGED <<config, excluded, dirs, link, db, files>>
      /\ proc[p].step \in 1..Len(Calls[proc[p].cmd])
  BY AtCall DEF InitProject
<1>2. Placed(proc[p]) /\ Active(proc[p]) /\ proc[p] \in Process
  BY <1>1, SteppedGoes
<1>3. proc[p].cmd = "install" /\ proc[p].step = 1
  BY <1>1, <1>2 DEF Placed, Among
<1>4. CASE config = "torn" /\ Become(p, Ended(proc[p], "failed"))
  BY <1>1, <1>4, EndWord DEF Excused
<1>5. CASE config \in Id /\ Become(p, [Stepped(proc[p], 3) EXCEPT !.id = config])
  <2> DEFINE t == Stepped(proc[p], 3)
             s == [t EXCEPT !.id = config]
  <2>1. t = [proc[p] EXCEPT !.step = proc[p].step + 3]
    BY <1>1, <1>2, SteppedThree
  <2>2. t \in Process /\ t.cmd = "install" /\ t.step = 4 /\ t.end = "none" /\ t.alone = proc[p].alone
    BY <1>2, <1>3, <2>1 DEF Process, Active
  <2> HIDE DEF t
  <2>3. s.cmd = "install" /\ s.step = 4 /\ s.end = "none" /\ s.alone = proc[p].alone /\ s.id = config
    BY <2>2 DEF Process
  <2>4. proc' = [proc EXCEPT ![p] = s]
    BY <1>5 DEF Become, t
  <2> HIDE DEF s
  <2>5. proc'[p] = s
    BY <2>4, ProcessType
  <2>6. Word(proc[p])'
    BY <1>1, <2>3, <2>5 DEF Word, Due, Among, Kept
  <2>7. \A f \in File : f > files' => db'[f] = EmptyStore
    BY <1>1 DEF WInv
  <2>8. QED
    BY <1>1, <2>3, <2>4, <2>6, <2>7, WordKeeps
<1>6. ASSUME NEW i \in Id, Become(p, [Stepped(proc[p], 1) EXCEPT !.id = i])
      PROVE  WInv'
  <2> DEFINE t == Stepped(proc[p], 1)
             s == [t EXCEPT !.id = i]
  <2>1. GoesTo(proc[p], t) /\ t \in Process
    BY <1>1, SteppedGoes
  <2> HIDE DEF t
  <2>2. GoesTo(proc[p], s) /\ s.id = i
    BY <2>1 DEF GoesTo, Process
  <2>3. proc' = [proc EXCEPT ![p] = s]
    BY <1>6 DEF Become, t
  <2> HIDE DEF s
  <2>4. proc'[p] = s
    BY <2>3, ProcessType
  <2>5. s.cmd = "install" /\ s.step = 2 /\ s.end = "none"
    BY <1>3, <2>2 DEF GoesTo, Last
  <2>6. Due(proc[p])'
    BY <2>4, <2>5 DEF Due, Among
  <2>7. \A f \in File : f > files' => db'[f] = EmptyStore
    BY <1>1 DEF WInv
  <2>8. QED
    BY <1>1, <2>2, <2>3, <2>5, <2>6, <2>7, MovedWord
<1>7. QED
  BY <1>4, <1>5, <1>6 DEF InitProject


\* What is known of p at a call, and of the record it goes on to.
LEMMA AtWord ==
    ASSUME IInv, WInv, NEW p \in Proc, NEW call, call \notin {"load", "init"}, At(p, call),
           NEW s, s = Stepped(proc[p], 1), proc' = [proc EXCEPT ![p] = s]
    PROVE  /\ Running(p) /\ Active(proc[p]) /\ CallOf(proc[p]) = call /\ Placed(proc[p])
           /\ proc[p].id \in Id /\ proc'[p] = s /\ GoesTo(proc[p], s)
           /\ s.id = proc[p].id /\ s.file = proc[p].file /\ s.version = proc[p].version
           /\ proc[p].alone => Due(proc[p])
<1>1. Running(p) /\ CallOf(proc[p]) = call /\ proc[p].id \in Id
  BY AtCall
<1>2. proc'[p] = s
  BY ProcessType
<1>3. QED
  BY <1>1, <1>2, SteppedGoes, DueNow

\* The calls that write the config, the exclude file and the directories.
LEMMA PlainWord ==
    ASSUME IInv, WInv, NEW p \in Proc,
           Truncate(p) \/ Write(p) \/ Exclude(p) \/ MakeDir(p) \/ RemoveConfig(p)
    PROVE  WInv'
<1> DEFINE r == proc[p]
           s == Stepped(r, 1)
<1>1. proc' = [proc EXCEPT ![p] = s] /\ UNCHANGED <<link, db, files>>
  BY DEF Truncate, Write, Exclude, MakeDir, RemoveConfig, Become
<1>2. \A f \in File : f > files' => db'[f] = EmptyStore
  BY <1>1 DEF WInv
<1>3. ASSUME NEW call, call \notin {"load", "init"}, At(p, call)
      PROVE  /\ Running(p) /\ Active(r) /\ CallOf(r) = call /\ Placed(r)
             /\ r.id \in Id /\ proc'[p] = s /\ GoesTo(r, s)
             /\ s.id = r.id /\ s.file = r.file /\ s.version = r.version
             /\ r.alone => Due(r)
  BY <1>1, <1>3, AtWord
<1> HIDE DEF s
<1>4. ASSUME Running(p), GoesTo(r, s), r.alone => Due(r)' /\ (s.end = "ok" => Kept(r)')
      PROVE  WInv'
  BY <1>1, <1>2, <1>4, MovedWord
<1>5. CASE Truncate(p)
  <2>1. At(p, "truncate") /\ UNCHANGED <<excluded, dirs>>
    BY <1>5 DEF Truncate
  <2>2. /\ Running(p) /\ Active(r) /\ CallOf(r) = "truncate" /\ Placed(r) /\ proc'[p] = s
        /\ GoesTo(r, s) /\ s.id = r.id /\ s.file = r.file /\ (r.alone => Due(r))
    BY <1>3, <2>1
  <2>3. CASE Among(r, "install", {2})
    <3>1. s.cmd = "install" /\ s.step = 3 /\ s.end = "none"
      BY <2>2, <2>3 DEF GoesTo, Among, Last
    <3>2. Due(r)'
      BY <2>2, <3>1 DEF Due, Among
    <3>3. QED
      BY <1>4, <2>2, <3>1, <3>2
  <2>4. CASE Among(r, "purge", {6})
    <3>1. s.cmd = "purge" /\ s.step = 7 /\ s.end = "none"
      BY <2>2, <2>4 DEF GoesTo, Among, Last
    <3>2. r.alone => r.id \in dirs /\ link[r.id] # NoFile /\ r.file = link[r.id]
                     /\ db[r.file] = After(Latest, r.id, {})
      BY <2>2, <2>4 DEF Due, Among
    <3>3. r.alone => Due(r)'
      BY <1>1, <2>1, <2>2, <3>1, <3>2 DEF Due, Among
    <3>4. QED
      BY <1>4, <2>2, <3>1, <3>3
  <2>5. QED
    BY <2>2, <2>3, <2>4 DEF Placed
<1>6. CASE Write(p)
  <2>1. At(p, "write") /\ UNCHANGED <<excluded, dirs>> /\ config' = r.id
    BY <1>6 DEF Write
  <2>2. /\ Running(p) /\ Active(r) /\ CallOf(r) = "write" /\ Placed(r) /\ proc'[p] = s
        /\ GoesTo(r, s) /\ s.id = r.id /\ s.file = r.file /\ (r.alone => Due(r))
    BY <1>3, <2>1
  <2>3. CASE Among(r, "install", {3})
    <3>1. s.cmd = "install" /\ s.step = 4 /\ s.end = "none"
      BY <2>2, <2>3 DEF GoesTo, Among, Last
    <3>2. Due(r)'
      BY <2>1, <2>2, <3>1 DEF Due, Among
    <3>3. QED
      BY <1>4, <2>2, <3>1, <3>2
  <2>4. CASE Among(r, "purge", {7})
    <3>1. s.cmd = "purge" /\ s.end = "ok"
      BY <2>2, <2>4 DEF GoesTo, Among, Last
    <3>2. r.alone => r.id \in dirs /\ link[r.id] # NoFile /\ r.file = link[r.id]
                     /\ db[r.file] = After(Latest, r.id, {})
      BY <2>2, <2>4 DEF Due, Among
    <3>3. Due(r)'
      BY <2>2, <3>1 DEF Due, Active
    <3>4. After(Latest, r.id, {}).tables = Needed
      BY DEF After, Latest
    <3>5. r.alone => Kept(r)'
      BY <1>1, <2>1, <2>2, <3>1, <3>2, <3>4 DEF Kept, Usable
    <3>6. QED
      BY <1>4, <2>2, <3>3, <3>5
  <2>5. QED
    BY <2>2, <2>3, <2>4 DEF Placed
<1>7. CASE Exclude(p)
  <2>1. At(p, "exclude") /\ UNCHANGED <<config, dirs>> /\ excluded' = TRUE
    BY <1>7 DEF Exclude
  <2>2. /\ Running(p) /\ Active(r) /\ CallOf(r) = "exclude" /\ Placed(r) /\ proc'[p] = s
        /\ GoesTo(r, s) /\ s.id = r.id /\ s.file = r.file /\ (r.alone => Due(r))
    BY <1>3, <2>1
  <2>3. r.cmd = "install" /\ r.step = 4
    BY <2>2 DEF Placed, Among
  <2>4. s.cmd = "install" /\ s.step = 5 /\ s.end = "none"
    BY <2>2, <2>3 DEF GoesTo, Last
  <2>5. r.alone => config = r.id
    BY <2>2, <2>3 DEF Due, Among
  <2>6. r.alone => Due(r)'
    BY <2>1, <2>2, <2>4, <2>5 DEF Due, Among
  <2>7. QED
    BY <1>4, <2>2, <2>4, <2>6
<1>8. CASE MakeDir(p)
  <2>1. dirs' = dirs \cup {r.id} /\ UNCHANGED <<config, excluded>>
    BY <1>8 DEF MakeDir
  <2>2. CASE At(p, "mkdir")
    <3>1. /\ Running(p) /\ Active(r) /\ CallOf(r) = "mkdir" /\ Placed(r) /\ proc'[p] = s
          /\ GoesTo(r, s) /\ s.id = r.id /\ s.file = r.file /\ (r.alone => Due(r))
      BY <1>3, <2>2
    <3>2. r.cmd = "install" /\ r.step = 5
      BY <3>1 DEF Placed, Among
    <3>3. s.cmd = "install" /\ s.step = 6 /\ s.end = "none"
      BY <3>1, <3>2 DEF GoesTo, Last
    <3>4. r.alone => config = r.id /\ excluded
      BY <3>1, <3>2 DEF Due, Among
    <3>5. r.alone => Due(r)'
      BY <2>1, <3>1, <3>3, <3>4 DEF Due, Among
    <3>6. QED
      BY <1>4, <3>1, <3>3, <3>5
  <2>3. CASE At(p, "log")
    <3>1. /\ Running(p) /\ Active(r) /\ CallOf(r) = "log" /\ Placed(r) /\ proc'[p] = s
          /\ GoesTo(r, s) /\ s.id = r.id /\ s.file = r.file /\ (r.alone => Due(r))
      BY <1>3, <2>3
    <3>2. CASE Among(r, "install", {12})
      <4>1. s.cmd = "install" /\ s.end = "ok"
        BY <3>1, <3>2 DEF GoesTo, Among, Last
      <4>2. r.alone => /\ config = r.id /\ excluded /\ link[r.id] # NoFile /\ r.file = link[r.id]
                       /\ Needed \subseteq db[r.file].tables /\ db[r.file].stamp = r.id
        BY <3>1, <3>2 DEF Due, Among
      <4>3. Due(r)'
        BY <3>1, <4>1 DEF Due, Active
      <4>4. r.alone => Kept(r)'
        BY <1>1, <2>1, <3>1, <4>1, <4>2 DEF Kept, Usable
      <4>5. QED
        BY <1>4, <3>1, <4>3, <4>4
    <3>3. CASE Among(r, "add", {4})
      <4>1. s.cmd = "add" /\ s.step = 5 /\ s.end = "none"
        BY <3>1, <3>3 DEF GoesTo, Among, Last
      <4>2. r.alone => /\ config = r.id /\ link[r.id] # NoFile /\ r.file = link[r.id]
                       /\ Needed \subseteq db[r.file].tables
        BY <3>1, <3>3 DEF Due, Among
      <4>3. r.alone => Due(r)'
        BY <1>1, <2>1, <3>1, <4>1, <4>2 DEF Due, Among
      <4>4. QED
        BY <1>4, <3>1, <4>1, <4>3
    <3>4. QED
      BY <3>1, <3>2, <3>3 DEF Placed
  <2>4. QED
    BY <1>8, <2>2, <2>3 DEF MakeDir
<1>9. CASE RemoveConfig(p)
  <2>1. At(p, "removeConfig") /\ config' = NoId /\ UNCHANGED <<excluded, dirs>>
    BY <1>9 DEF RemoveConfig
  <2>2. /\ Running(p) /\ Active(r) /\ CallOf(r) = "removeConfig" /\ Placed(r) /\ proc'[p] = s
        /\ GoesTo(r, s) /\ s.id = r.id /\ (r.alone => Due(r))
    BY <1>3, <2>1
  <2>3. r.cmd = "uninstall" /\ r.step = 3
    BY <2>2 DEF Placed, Among
  <2>4. s.cmd = "uninstall" /\ s.end = "ok"
    BY <2>2, <2>3 DEF GoesTo, Last
  <2>5. r.alone => r.id \notin dirs
    BY <2>2, <2>3 DEF Due, Among
  <2>6. Due(r)'
    BY <2>2, <2>4 DEF Due, Active
  <2>7. r.alone => Kept(r)'
    BY <2>1, <2>2, <2>4, <2>5 DEF Kept
  <2>8. QED
    BY <1>4, <2>2, <2>6, <2>7
<1>10. QED
  BY <1>5, <1>6, <1>7, <1>8, <1>9


\* The calls that write to a store that is open.
LEMMA StoreWord ==
    ASSUME IInv, WInv, NEW p \in Proc, Stamp(p) \/ AddMemory(p)
    PROVE  WInv'
<1> DEFINE r == proc[p]
           s == Stepped(r, 1)
<1>1. proc' = [proc EXCEPT ![p] = s] /\ UNCHANGED <<config, excluded, dirs, link, files>>
  BY DEF Stamp, AddMemory, Become
<1>2. PICK call \in {"stamp", "add"} : At(p, call)
  BY DEF Stamp, AddMemory
<1>3. /\ Running(p) /\ Active(r) /\ CallOf(r) = call /\ Placed(r) /\ proc'[p] = s
      /\ GoesTo(r, s) /\ s.id = r.id /\ s.file = r.file /\ (r.alone => Due(r))
  BY <1>1, <1>2, AtWord
<1> HIDE DEF s
<1>4. r.file \in 1..files /\ r.file \in File /\ db[r.file] \in Store /\ db \in [File -> Store]
      /\ files \in Nat
  BY <1>2, OpenStore, ProcessType DEF FileCalls, StoreTypes
<1>5. \A f \in File : f # r.file => db'[f] = db[f]
  BY <1>4 DEF Stamp, AddMemory
<1>6. \A f \in File : f > files' => db'[f] = EmptyStore
  BY <1>1, <1>4, <1>5 DEF WInv
<1>7. ASSUME r.alone => Due(r)' /\ (s.end = "ok" => Kept(r)')
      PROVE  WInv'
  BY <1>1, <1>3, <1>6, <1>7, MovedWord
<1>8. CASE Stamp(p)
  <2>1. db'[r.file] = [db[r.file] EXCEPT !.stamp = r.id]
    BY <1>4, <1>8 DEF Stamp
  <2>2. CallOf(r) = "stamp"
    BY <1>8, AtCall DEF Stamp
  <2>3. CASE Among(r, "install", {8})
    <3>1. s.cmd = "install" /\ s.step = 9 /\ s.end = "none"
      BY <1>3, <2>3 DEF GoesTo, Among, Last
    <3>2. r.alone => /\ config = r.id /\ excluded /\ r.id \in dirs /\ link[r.id] # NoFile
                     /\ r.file = link[r.id] /\ Needed \subseteq db[r.file].tables
      BY <1>3, <2>3 DEF Due, Among
    <3>3. db'[r.file].stamp = r.id /\ db'[r.file].tables = db[r.file].tables
      BY <1>4, <2>1 DEF Store
    <3>4. r.alone => Due(r)'
      BY <1>1, <1>3, <3>1, <3>2, <3>3 DEF Due, Among
    <3>5. QED
      BY <1>7, <3>1, <3>4
  <2>4. CASE Among(r, "purge", {5})
    <3>1. s.cmd = "purge" /\ s.step = 6 /\ s.end = "none"
      BY <1>3, <2>4 DEF GoesTo, Among, Last
    <3>2. r.alone => /\ config = r.id /\ r.id \in dirs /\ link[r.id] # NoFile
                     /\ r.file = link[r.id] /\ db[r.file] = After(Latest, NoId, {})
      BY <1>3, <2>4 DEF Due, Among
    <3>3. [After(Latest, NoId, {}) EXCEPT !.stamp = r.id] = After(Latest, r.id, {})
      <4>1. \A i : After(Latest, i, {}) =
              [version |-> Latest, tables |-> Needed, stamp |-> i, memories |-> {}]
        BY DEF After, Latest
      <4>2. QED
        BY <4>1
    <3>4. r.alone => Due(r)'
      BY <1>1, <1>3, <2>1, <3>1, <3>2, <3>3 DEF Due, Among
    <3>5. QED
      BY <1>7, <3>1, <3>4
  <2>5. QED
    BY <1>3, <2>2, <2>3, <2>4 DEF Placed
<1>9. CASE AddMemory(p)
  <2>1. db'[r.file] = [db[r.file] EXCEPT !.memories = @ \cup {"new"}]
    BY <1>4, <1>9 DEF AddMemory
  <2>2. CallOf(r) = "add"
    BY <1>9, AtCall DEF AddMemory
  <2>3. r.cmd = "add" /\ r.step = 5
    BY <1>3, <2>2 DEF Placed, Among
  <2>4. s.cmd = "add" /\ s.end = "ok"
    BY <1>3, <2>3 DEF GoesTo, Last
  <2>5. r.alone => /\ config = r.id /\ r.id \in dirs /\ link[r.id] # NoFile
                   /\ r.file = link[r.id] /\ Needed \subseteq db[r.file].tables
    BY <1>3, <2>3 DEF Due, Among
  <2>6. db'[r.file].tables = db[r.file].tables
    BY <1>4, <2>1 DEF Store
  <2>7. Due(r)'
    BY <1>3, <2>4 DEF Due, Active
  <2>8. r.alone => Kept(r)'
    BY <1>1, <1>3, <2>4, <2>5, <2>6 DEF Kept, Usable
  <2>9. QED
    BY <1>7, <2>7, <2>8
<1>10. QED
  BY <1>8, <1>9

\* The calls that remove a store.
LEMMA RemoveWord ==
    ASSUME IInv, WInv, NEW p \in Proc, Unlink(p) \/ RemoveDir(p)
    PROVE  WInv'
<1> DEFINE r == proc[p]
           s == Stepped(r, 1)
<1>1. /\ proc' = [proc EXCEPT ![p] = s] /\ UNCHANGED <<config, db, files>>
      /\ link' = [link EXCEPT ![r.id] = NoFile]
  BY DEF Unlink, RemoveDir, Become
<1>2. PICK call \in {"unlink", "removeDir"} : At(p, call)
  BY DEF Unlink, RemoveDir
<1>3. /\ Running(p) /\ Active(r) /\ CallOf(r) = call /\ Placed(r) /\ proc'[p] = s
      /\ GoesTo(r, s) /\ s.id = r.id /\ (r.alone => Due(r)) /\ r.id \in Id
  BY <1>1, <1>2, AtWord
<1> HIDE DEF s
<1>4. \A f \in File : f > files' => db'[f] = EmptyStore
  BY <1>1 DEF WInv
<1>5. ASSUME r.alone => Due(r)' /\ (s.end = "ok" => Kept(r)')
      PROVE  WInv'
  BY <1>1, <1>3, <1>4, <1>5, MovedWord
<1>6. CASE Unlink(p)
  <2>1. CallOf(r) = "unlink"
    BY <1>6, AtCall DEF Unlink
  <2>2. r.cmd = "purge" /\ r.step = 2
    BY <1>3, <2>1 DEF Placed, Among
  <2>3. s.cmd = "purge" /\ s.step = 3 /\ s.end = "none"
    BY <1>3, <2>2 DEF GoesTo, Last
  <2>4. r.alone => config = r.id
    BY <1>3, <2>2 DEF Due, Among
  <2>5. link'[r.id] = NoFile
    BY <1>1, <1>3, ProcessType DEF StoreTypes
  <2>6. r.alone => Due(r)'
    BY <1>1, <1>3, <2>3, <2>4, <2>5 DEF Due, Among
  <2>7. QED
    BY <1>5, <2>3, <2>6
<1>7. CASE RemoveDir(p)
  <2>1. CallOf(r) = "removeDir"
    BY <1>7, AtCall DEF RemoveDir
  <2>2. r.cmd = "uninstall" /\ r.step = 2
    BY <1>3, <2>1 DEF Placed, Among
  <2>3. s.cmd = "uninstall" /\ s.step = 3 /\ s.end = "none"
    BY <1>3, <2>2 DEF GoesTo, Last
  <2>4. r.id \notin dirs'
    BY <1>7 DEF RemoveDir
  <2>5. Due(r)'
    BY <1>3, <2>3, <2>4 DEF Due, Among
  <2>6. QED
    BY <1>5, <2>3, <2>5
<1>8. QED
  BY <1>6, <1>7

\* Stat warns only of a store that is not there.
LEMMA StatWord == ASSUME IInv, WInv, NEW p \in Proc, Stat(p) PROVE WInv'
<1> DEFINE r == proc[p]
<1>1. At(p, "stat") /\ UNCHANGED <<config, excluded, dirs, link, db, files>>
  BY DEF Stat
<1>2. Running(p) /\ Active(r) /\ CallOf(r) = "stat" /\ Placed(r) /\ r \in Process /\ r.id \in Id
  BY <1>1, AtCall, SteppedGoes
<1>3. r.cmd = "doctor" /\ r.step = 2
  BY <1>2 DEF Placed, Among
<1>4. r.alone => config = r.id
  BY <1>2, <1>3, DueNow DEF Due, Among
<1>5. \A f \in File : f > files' => db'[f] = EmptyStore
  BY <1>1 DEF WInv
<1>6. CASE r.id \in dirs /\ link[r.id] # NoFile /\ Become(p, Stepped(r, 1))
  <2> DEFINE s == Stepped(r, 1)
  <2>1. proc' = [proc EXCEPT ![p] = s]
    BY <1>6 DEF Become
  <2>2. GoesTo(r, s) /\ s.id = r.id /\ proc'[p] = s
    BY <1>1, <2>1, AtWord
  <2> HIDE DEF s
  <2>3. s.cmd = "doctor" /\ s.step = 3 /\ s.end = "none"
    BY <1>3, <2>2 DEF GoesTo, Last
  <2>4. r.alone => Due(r)'
    BY <1>1, <1>4, <1>6, <2>2, <2>3 DEF Due, Among
  <2>5. QED
    BY <1>2, <1>5, <2>1, <2>2, <2>3, <2>4, MovedWord
<1>7. CASE ~(r.id \in dirs /\ link[r.id] # NoFile) /\ Become(p, Ended(r, "warned"))
  <2> DEFINE s == Ended(r, "warned")
  <2>1. s.cmd = "doctor" /\ s.end = "warned" /\ s.alone = r.alone
    BY <1>2, <1>3 DEF Ended, Process
  <2>2. proc' = [proc EXCEPT ![p] = s]
    BY <1>7 DEF Become
  <2> HIDE DEF s
  <2>3. proc'[p] = s
    BY <2>2, ProcessType
  <2>4. r.alone => Word(r)'
    BY <1>1, <1>2, <1>4, <1>7, <2>1, <2>3 DEF Word, Due, Active, Kept, Blocked
  <2>5. QED
    BY <1>2, <1>5, <2>1, <2>2, <2>4, WordKeeps
<1>8. QED
  BY <1>6, <1>7, <1>1 DEF Stat

\* The version of an empty store, and what it holds.
LEMMA EmptyIsAfter == EmptyStore = After(0, NoId, {})
<1>1. UNION {Creates[m] : m \in 1..0} = {}
  OBVIOUS
<1>2. QED
  BY <1>1 DEF EmptyStore, After, Latest

\* Open finds the store of the config, or creates an empty one.
LEMMA OpenWord == ASSUME IInv, WInv, NEW p \in Proc, Open(p) PROVE WInv'
<1> DEFINE r == proc[p]
           t == Stepped(r, 1)
<1>1. At(p, "open") /\ UNCHANGED <<config, excluded, dirs, db>>
  BY DEF Open
<1>2. /\ Running(p) /\ Active(r) /\ CallOf(r) = "open" /\ r.id \in Id
      /\ GoesTo(r, t) /\ t \in Process /\ t.id = r.id /\ Placed(r)
  BY <1>1, AtCall, SteppedGoes
<1> HIDE DEF t
<1>3. link \in [Id -> File \cup {NoFile}] /\ files \in Nat
  BY ProcessType DEF StoreTypes
<1>4. \/ Among(r, "install", {6, 10}) \/ Among(r, "purge", {3}) \/ Among(r, "add", {2})
      \/ Among(r, "doctor", {3})
  BY <1>2 DEF Placed
<1>5. r.alone => /\ config = r.id
                 /\ Among(r, "install", {6, 10}) => excluded /\ r.id \in dirs
                 /\ Among(r, "install", {10}) =>
                      /\ r.file = link[r.id] /\ link[r.id] # NoFile
                      /\ Needed \subseteq db[r.file].tables /\ db[r.file].stamp = r.id
                 /\ Among(r, "purge", {3}) => link[r.id] = NoFile
                 /\ Among(r, "doctor", {3}) => r.id \in dirs /\ link[r.id] # NoFile
  BY <1>2, <1>4, DueNow DEF Due, Among
<1>6. CASE r.id \notin dirs /\ Become(p, Ended(r, "failed")) /\ UNCHANGED <<link, files>>
  <2>1. r.alone => Excused(r)
    BY <1>2, <1>4, <1>5, <1>6 DEF Excused, Among
  <2>2. QED
    BY <1>1, <1>2, <1>6, <2>1, EndWord
<1>7. ASSUME NEW f \in File, Become(p, [t EXCEPT !.file = f, !.version = NoVersion]),
             r.id \in dirs, link'[r.id] = f, f # NoFile, files' \in Nat, files' >= files,
             link[r.id] # NoFile => f = link[r.id],
             link[r.id] = NoFile => db[f] = EmptyStore
      PROVE  WInv'
  <2> DEFINE s == [t EXCEPT !.file = f, !.version = NoVersion]
  <2>1. GoesTo(r, s) /\ s.id = r.id /\ s.file = f /\ s.version = NoVersion
    BY <1>2 DEF GoesTo, Process
  <2>2. proc' = [proc EXCEPT ![p] = s]
    BY <1>7 DEF Become
  <2> HIDE DEF s
  <2>3. proc'[p] = s
    BY <2>2, ProcessType
  <2>4. s.cmd = r.cmd /\ s.end = "none" /\ s.step = r.step + 1
    BY <1>4, <2>1 DEF GoesTo, Among, Last
  <2>5. \A g \in File : g > files' => db'[g] = EmptyStore
    BY <1>1, <1>3, <1>7 DEF WInv, File
  <2>6. ASSUME r.alone
        PROVE  Due(r)'
    <3>1. CASE Among(r, "install", {6})
      BY <1>1, <1>5, <1>7, <2>1, <2>3, <2>4, <2>6, <3>1 DEF Due, Among
    <3>2. CASE Among(r, "install", {10})
      <4>1. f = r.file
        BY <1>5, <1>7, <2>6, <3>2
      <4>2. QED
        BY <1>1, <1>5, <1>7, <2>1, <2>3, <2>4, <2>6, <3>2, <4>1 DEF Due, Among
    <3>3. CASE Among(r, "purge", {3})
      <4>1. db[f] = After(db[f].version, NoId, {})
        <5>1. db[f] = EmptyStore /\ EmptyStore.version = 0
          BY <1>5, <1>7, <2>6, <3>3 DEF EmptyStore
        <5>2. QED
          BY <5>1, EmptyIsAfter
      <4>2. QED
        BY <1>1, <1>5, <1>7, <2>1, <2>3, <2>4, <2>6, <3>3, <4>1 DEF Due, Among
    <3>4. CASE Among(r, "add", {2}) \/ Among(r, "doctor", {3})
      BY <1>1, <1>5, <1>7, <2>1, <2>3, <2>4, <2>6, <3>4 DEF Due, Among
    <3>5. QED
      BY <1>4, <3>1, <3>2, <3>3, <3>4 DEF Among
  <2>7. QED
    BY <1>2, <2>1, <2>2, <2>4, <2>5, <2>6, MovedWord
<1>8. CASE /\ r.id \in dirs /\ link[r.id] # NoFile
           /\ Become(p, [t EXCEPT !.file = link[r.id], !.version = NoVersion])
           /\ UNCHANGED <<link, files>>
  <2> DEFINE f == link[r.id]
  <2>1. f \in File
    BY <1>2, <1>3, <1>8
  <2>2. /\ Become(p, [t EXCEPT !.file = f, !.version = NoVersion])
        /\ r.id \in dirs /\ link'[r.id] = f /\ f # NoFile /\ files' \in Nat /\ files' >= files
        /\ (link[r.id] # NoFile => f = link[r.id])
        /\ (link[r.id] = NoFile => db[f] = EmptyStore)
    BY <1>3, <1>8
  <2> HIDE DEF f
  <2>3. QED
    BY <1>7, <2>1, <2>2, Zenon
<1>9. CASE /\ r.id \in dirs /\ link[r.id] = NoFile /\ files < MaxFiles
           /\ files' = files + 1 /\ link' = [link EXCEPT ![r.id] = files + 1]
           /\ Become(p, [t EXCEPT !.file = files + 1, !.version = NoVersion])
  <2> DEFINE f == files + 1
  <2>1. f \in File /\ f # NoFile
    BY <1>3, <1>9, LifecycleAssumption DEF File, NoFile
  <2>2. db[f] = EmptyStore
    BY <1>3, <2>1 DEF WInv
  <2>3. link'[r.id] = f /\ files' \in Nat /\ files' >= files
    BY <1>2, <1>3, <1>9
  <2>4. /\ Become(p, [t EXCEPT !.file = f, !.version = NoVersion])
        /\ r.id \in dirs /\ (link[r.id] # NoFile => f = link[r.id])
    BY <1>9
  <2> HIDE DEF f
  <2>5. QED
    BY <1>7, <2>1, <2>2, <2>3, <2>4, Zenon
<1>10. QED
  BY <1>6, <1>8, <1>9 DEF Open, t


\* What is due of a command that is migrating its store.
LEMMA MigratingWord ==
    ASSUME IInv, WInv, NEW p \in Proc, At(p, "migrate")
    PROVE  /\ Running(p) /\ Active(proc[p]) /\ proc[p] \in Process
           /\ \/ Among(proc[p], "install", {7, 11}) \/ Among(proc[p], "purge", {4})
              \/ Among(proc[p], "add", {3}) \/ Among(proc[p], "doctor", {4})
           /\ proc[p].file \in 1..files /\ proc[p].file \in File
           /\ db[proc[p].file] \in Store /\ db \in [File -> Store] /\ files \in Nat
           /\ db[proc[p].file].version = Latest => db[proc[p].file].tables = Needed
           /\ proc[p].id \in Id
           /\ proc[p].alone =>
                /\ config = proc[p].id /\ proc[p].id \in dirs
                /\ link[proc[p].id] # NoFile /\ proc[p].file = link[proc[p].id]
                /\ proc[p].version = NoVersion \/ db[proc[p].file].version = proc[p].version
                /\ Due(proc[p])
<1>1. Running(p) /\ Active(proc[p]) /\ CallOf(proc[p]) = "migrate" /\ proc[p].id \in Id
  BY AtCall
<1>2. Placed(proc[p]) /\ proc[p] \in Process
  BY <1>1, SteppedGoes
<1>3. \/ Among(proc[p], "install", {7, 11}) \/ Among(proc[p], "purge", {4})
      \/ Among(proc[p], "add", {3}) \/ Among(proc[p], "doctor", {4})
  BY <1>1, <1>2 DEF Placed
<1>4. proc[p].alone => Due(proc[p])
  BY <1>1, DueNow
<1>5. proc[p].alone =>
        /\ config = proc[p].id /\ proc[p].id \in dirs
        /\ link[proc[p].id] # NoFile /\ proc[p].file = link[proc[p].id]
        /\ proc[p].version = NoVersion \/ db[proc[p].file].version = proc[p].version
  BY <1>1, <1>3, <1>4 DEF Due, Among
<1>6. QED
  BY <1>1, <1>2, <1>3, <1>4, <1>5, OpenStore, ProcessType DEF FileCalls, StoreTypes

\* A store that is too new, or that its next migration does not fit, excuses the failure.
LEMMA StuckExcuses ==
    ASSUME IInv, WInv, NEW p \in Proc, At(p, "migrate"), proc[p].alone,
           Stuck(db[proc[p].file])
    PROVE  Excused(proc[p])
  BY MigratingWord DEF Excused

\* What is due after the last migration.
LEMMA DueMigrated ==
    ASSUME NEW p \in Proc, Active(proc[p]), Due(proc[p]),
           \/ Among(proc[p], "install", {7, 11}) \/ Among(proc[p], "purge", {4})
           \/ Among(proc[p], "add", {3}) \/ Among(proc[p], "doctor", {4}),
           UNCHANGED <<config, excluded, dirs, link>>,
           GoesTo(proc[p], proc'[p]), proc'[p].id = proc[p].id, proc'[p].file = proc[p].file,
           db'[proc[p].file].version = Latest,
           Needed \subseteq db'[proc[p].file].tables,
           db'[proc[p].file].stamp = db[proc[p].file].stamp,
           proc[p].cmd = "purge" => db'[proc[p].file] = After(Latest, NoId, {})
    PROVE  Due(proc[p])' /\ (proc'[p].end = "ok" => Kept(proc[p])')
<1> DEFINE r == proc[p]
           s == proc'[p]
<1>1. /\ config = r.id /\ r.id \in dirs /\ link[r.id] # NoFile /\ r.file = link[r.id]
  BY DEF Due, Among
<1>2. CASE Among(r, "install", {7, 11})
  <2>1. s.cmd = "install" /\ s.step = r.step + 1 /\ s.end = "none" /\ s.step \in {8, 12}
    BY <1>2 DEF GoesTo, Among, Last
  <2>2. excluded /\ (r.step = 11 => db[r.file].stamp = r.id)
    BY <1>2 DEF Due, Among
  <2>3. Due(r)'
    BY <1>1, <2>1, <2>2 DEF Due, Among
  <2>4. QED
    BY <2>1, <2>3
<1>3. CASE Among(r, "purge", {4})
  <2>1. s.cmd = "purge" /\ s.step = 5 /\ s.end = "none"
    BY <1>3 DEF GoesTo, Among, Last
  <2>2. Due(r)'
    BY <1>1, <1>3, <2>1 DEF Due, Among
  <2>3. QED
    BY <2>1, <2>2
<1>4. CASE Among(r, "add", {3})
  <2>1. s.cmd = "add" /\ s.step = 4 /\ s.end = "none"
    BY <1>4 DEF GoesTo, Among, Last
  <2>2. Due(r)'
    BY <1>1, <2>1 DEF Due, Among
  <2>3. QED
    BY <2>1, <2>2
<1>5. CASE Among(r, "doctor", {4})
  <2>1. s.cmd = "doctor" /\ s.end = "ok"
    BY <1>5 DEF GoesTo, Among, Last
  <2>2. Due(r)'
    BY <2>1 DEF Due, Active
  <2>3. s.id = r.id /\ link'[r.id] = r.file
    BY <1>1
  <2>4. Usable(r.id)' /\ ~Stuck(db[link[r.id]])'
    BY <1>1, <2>3 DEF Usable, Stuck, Latest
  <2>5. Kept(r)'
    BY <2>1, <2>4 DEF Kept
  <2>6. QED
    BY <2>2, <2>5
<1>6. QED
  BY <1>2, <1>3, <1>4, <1>5

\* What is due after a migration that is not the last.
LEMMA DueMigrating ==
    ASSUME NEW p \in Proc, Active(proc[p]), Due(proc[p]),
           \/ Among(proc[p], "install", {7, 11}) \/ Among(proc[p], "purge", {4})
           \/ Among(proc[p], "add", {3}) \/ Among(proc[p], "doctor", {4}),
           UNCHANGED <<config, excluded, dirs, link>>,
           proc'[p].cmd = proc[p].cmd, proc'[p].step = proc[p].step,
           proc'[p].id = proc[p].id, proc'[p].file = proc[p].file,
           db'[proc[p].file].version = proc'[p].version,
           Needed \subseteq db[proc[p].file].tables => Needed \subseteq db'[proc[p].file].tables,
           db'[proc[p].file].stamp = db[proc[p].file].stamp,
           proc[p].cmd = "purge" =>
              db'[proc[p].file] = After(db'[proc[p].file].version, NoId, {})
    PROVE  Due(proc[p])'
<1> DEFINE r == proc[p]
<1>1. /\ config = r.id /\ r.id \in dirs /\ link[r.id] # NoFile /\ r.file = link[r.id]
  BY DEF Due, Among
<1>2. CASE Among(r, "install", {7, 11})
  <2>1. /\ excluded
        /\ r.step = 11 => db[r.file].stamp = r.id /\ Needed \subseteq db[r.file].tables
    BY <1>2 DEF Due, Among
  <2>2. QED
    BY <1>1, <1>2, <2>1 DEF Due, Among
<1>3. CASE Among(r, "purge", {4})
  BY <1>1, <1>3 DEF Due, Among
<1>4. CASE Among(r, "add", {3}) \/ Among(r, "doctor", {4})
  BY <1>1, <1>4 DEF Due, Among
<1>5. QED
  BY <1>2, <1>3, <1>4

\* The step after the last migration, as any other.
LEMMA MigrateSteps ==
    ASSUME IInv, WInv, NEW p \in Proc, At(p, "migrate"),
           proc' = [proc EXCEPT ![p] = Stepped(proc[p], 1)]
    PROVE  /\ Running(p) /\ Active(proc[p]) /\ proc'[p] = Stepped(proc[p], 1)
           /\ GoesTo(proc[p], Stepped(proc[p], 1))
           /\ Stepped(proc[p], 1).id = proc[p].id /\ Stepped(proc[p], 1).file = proc[p].file
<1> DEFINE s == Stepped(proc[p], 1)
<1>1. proc' = [proc EXCEPT ![p] = s] /\ s = Stepped(proc[p], 1)
  OBVIOUS
<1>2. "migrate" \notin {"load", "init"}
  OBVIOUS
<1> HIDE DEF s
<1>3. /\ Running(p) /\ Active(proc[p]) /\ proc'[p] = s /\ GoesTo(proc[p], s)
      /\ s.id = proc[p].id /\ s.file = proc[p].file
  BY <1>1, <1>2, AtWord
<1> QED BY <1>3 DEF s

\* The last migration is done, or was: the command goes on with a store of the latest version.
LEMMA MigratedWord ==
    ASSUME IInv, WInv, NEW p \in Proc, At(p, "migrate"),
           proc' = [proc EXCEPT ![p] = Stepped(proc[p], 1)],
           UNCHANGED <<config, excluded, dirs, link, files>>,
           \A g \in File : g # proc[p].file => db'[g] = db[g],
           db'[proc[p].file].version = Latest,
           Needed \subseteq db'[proc[p].file].tables,
           db'[proc[p].file].stamp = db[proc[p].file].stamp,
           proc[p].alone /\ proc[p].cmd = "purge" =>
              db'[proc[p].file] = After(Latest, NoId, {})
    PROVE  WInv'
<1> DEFINE s == Stepped(proc[p], 1)
<1>1. /\ Running(p) /\ Active(proc[p]) /\ proc'[p] = s /\ GoesTo(proc[p], s)
      /\ s.id = proc[p].id /\ s.file = proc[p].file
  BY MigrateSteps, Zenon
<1> HIDE DEF s
<1>2. proc' = [proc EXCEPT ![p] = s]
  BY DEF s
<1>3. /\ \/ Among(proc[p], "install", {7, 11}) \/ Among(proc[p], "purge", {4})
         \/ Among(proc[p], "add", {3}) \/ Among(proc[p], "doctor", {4})
      /\ proc[p].file \in 1..files /\ files \in Nat
      /\ proc[p].alone => Due(proc[p])
  BY MigratingWord
<1>4. \A f \in File : f > files' => db'[f] = EmptyStore
  BY <1>3 DEF WInv
<1>5. proc[p].alone => Due(proc[p])' /\ (s.end = "ok" => Kept(proc[p])')
  BY <1>1, <1>3, DueMigrated
<1>6. QED
  BY <1>1, <1>2, <1>4, <1>5, MovedWord

\* The command goes on migrating, from the version the store has now.
LEMMA StillMigratingWord ==
    ASSUME IInv, WInv, NEW p \in Proc, At(p, "migrate"), NEW v,
           proc' = [proc EXCEPT ![p] = [proc[p] EXCEPT !.version = v]],
           UNCHANGED <<config, excluded, dirs, link, files>>,
           \A g \in File : g # proc[p].file => db'[g] = db[g],
           db'[proc[p].file].version = v,
           Needed \subseteq db[proc[p].file].tables => Needed \subseteq db'[proc[p].file].tables,
           db'[proc[p].file].stamp = db[proc[p].file].stamp,
           proc[p].alone /\ proc[p].cmd = "purge" =>
              db'[proc[p].file] = After(db'[proc[p].file].version, NoId, {})
    PROVE  WInv'
<1> DEFINE s == [proc[p] EXCEPT !.version = v]
<1>1. /\ Running(p) /\ Active(proc[p]) /\ proc[p] \in Process
      /\ \/ Among(proc[p], "install", {7, 11}) \/ Among(proc[p], "purge", {4})
         \/ Among(proc[p], "add", {3}) \/ Among(proc[p], "doctor", {4})
      /\ proc[p].file \in 1..files /\ files \in Nat
      /\ proc[p].alone => Due(proc[p])
  BY MigratingWord
<1>2. proc'[p] = s
  BY ProcessType
<1>3. /\ s.cmd = proc[p].cmd /\ s.step = proc[p].step /\ s.end = "none"
      /\ s.alone = proc[p].alone /\ s.id = proc[p].id /\ s.file = proc[p].file
      /\ s.version = v
  BY <1>1 DEF Process, Active
<1> HIDE DEF s
<1>4. proc' = [proc EXCEPT ![p] = s]
  BY DEF s
<1>5. \A f \in File : f > files' => db'[f] = EmptyStore
  BY <1>1 DEF WInv
<1>6. proc[p].alone => Due(proc[p])'
  BY <1>1, <1>2, <1>3, DueMigrating
<1>7. proc[p].alone => Word(proc[p])'
  BY <1>2, <1>3, <1>6 DEF Word, Kept
<1>8. QED
  BY <1>1, <1>3, <1>4, <1>5, <1>7, WordKeeps

\* A store of the latest version is ready; one that is newer excuses the failure.
LEMMA ReadVersionWord == ASSUME IInv, WInv, NEW p \in Proc, ReadVersion(p) PROVE WInv'
<1> DEFINE r == proc[p]
           version == db[r.file].version
<1>1. /\ At(p, "migrate") /\ UNCHANGED <<config, excluded, dirs, link, db, files>>
      /\ Become(p, IF version > Latest THEN Ended(r, "failed")
                   ELSE IF version = Latest THEN Stepped(r, 1)
                   ELSE [r EXCEPT !.version = version])
  BY DEF ReadVersion
<1>2. Running(p) /\ db[r.file] \in Store /\ version \in 0..7
  BY <1>1, MigratingWord DEF Store
<1>3. CASE version > Latest
  <2>1. Stuck(db[r.file])
    BY <1>3 DEF Stuck
  <2>2. Become(p, Ended(r, "failed"))
    BY <1>1, <1>3
  <2>3. QED
    BY <1>1, <1>2, <2>1, <2>2, StuckExcuses, EndWord
<1>4. CASE version = Latest
  <2>1. proc' = [proc EXCEPT ![p] = Stepped(r, 1)]
    BY <1>1, <1>4 DEF Become, Latest
  <2>2. db[r.file].tables = Needed
    BY <1>1, <1>4, MigratingWord
  <2>3. r.alone /\ r.cmd = "purge" => db[r.file] = After(Latest, NoId, {})
    <3>1. SUFFICES ASSUME r.alone, r.cmd = "purge"
                   PROVE  db[r.file] = After(Latest, NoId, {})
      OBVIOUS
    <3>2. Due(r) /\ Active(r) /\ Among(r, "purge", {4})
      BY <1>1, <3>1, MigratingWord DEF Among
    <3>3. db[r.file] = After(version, NoId, {})
      BY <3>2 DEF Due
    <3>4. QED
      BY <1>4, <3>3
  <2>4. QED
    BY <1>1, <1>4, <2>1, <2>2, <2>3, MigratedWord
<1>5. CASE version < Latest
  <2> DEFINE s == [r EXCEPT !.version = version]
  <2>1. proc' = [proc EXCEPT ![p] = s]
    <3> HIDE DEF s
    <3>1. Become(p, s)
      <4>1. ~(version > Latest) /\ version # Latest
        BY <1>2, <1>5 DEF Latest
      <4>2. QED
        BY <1>1, <4>1 DEF s
    <3>2. QED
      BY <3>1 DEF Become
  <2>2. r.alone /\ r.cmd = "purge" => db[r.file] = After(db[r.file].version, NoId, {})
    <3>1. SUFFICES ASSUME r.alone, r.cmd = "purge"
                   PROVE  db[r.file] = After(db[r.file].version, NoId, {})
      OBVIOUS
    <3>2. Due(r) /\ Active(r) /\ Among(r, "purge", {4})
      BY <1>1, <3>1, MigratingWord DEF Among
    <3>3. QED
      BY <3>2 DEF Due
  <2>3. QED
    BY <1>1, <2>1, <2>2, StillMigratingWord
<1>6. QED
  BY <1>2, <1>3, <1>4, <1>5 DEF Latest

\* The migrations of a new store run, and end in a store like any other of their version.
LEMMA NewStoreMigrates ==
    ASSUME NEW v \in 0..(Latest - 1)
    PROVE  Migrated(After(v, NoId, {}), v + 1) = After(v + 1, NoId, {})
<1>1. /\ Creates[1] = {"core"} /\ Creates[2] = {"work"} /\ Creates[3] = {"vectors"}
      /\ Creates[4] = {"stories"} /\ Creates[5] = {} /\ Creates[6] = {}
  BY DEF Creates
<1> DEFINE Made(n) == UNION {Creates[m] : m \in 1..n}
           d == After(v, NoId, {})
           e == After(v + 1, NoId, {})
           before == (Made(v) \cup Creates[v + 1]) \ (IF v + 1 = 6 THEN {"work", "stories"} ELSE {})
<1>2. d = [version |-> v, tables |-> Made(v), stamp |-> NoId, memories |-> {}]
  <2>1. ~(v >= 6)
    BY DEF Latest
  <2>2. QED
    BY <2>1, Zenon DEF After, Latest
<1>3. e = [version |-> v + 1, tables |-> IF v = 5 THEN Needed ELSE Made(v + 1),
           stamp |-> NoId, memories |-> {}]
  <2>1. CASE v = 5
    <3>1. v + 1 >= 6
      BY <2>1
    <3>2. QED
      BY <2>1, <3>1, Zenon DEF After, Latest
  <2>2. CASE v # 5
    <3>1. ~(v + 1 >= 6)
      BY <2>2 DEF Latest
    <3>2. QED
      BY <2>2, <3>1, Zenon DEF After, Latest
  <2>3. QED
    BY <2>1, <2>2
<1>4. before = IF v = 5 THEN Needed ELSE Made(v + 1)
  <2>1. CASE v = 5
    <3>1. Made(5) = {"core", "work", "vectors", "stories"}
      <4>1. \A m : m \in 1..5 <=> m = 1 \/ m = 2 \/ m = 3 \/ m = 4 \/ m = 5
        OBVIOUS
      <4>2. \A x : x \in Made(5) <=> \E m \in 1..5 : x \in Creates[m]
        OBVIOUS
      <4> HIDE DEF Made
      <4>3. \A x : x \in Made(5) <=> x \in {"core", "work", "vectors", "stories"}
        BY <1>1, <4>1, <4>2
      <4>4. QED
        BY <4>3
    <3> HIDE DEF Made
    <3>2. QED
      BY <1>1, <2>1, <3>1 DEF Needed
  <2>2. CASE v # 5
    <3>1. 1..(v + 1) = 1..v \cup {v + 1}
      BY DEF Latest
    <3>2. Made(v + 1) = Made(v) \cup Creates[v + 1]
      BY <3>1
    <3>3. v + 1 # 6
      BY <2>2 DEF Latest
    <3> HIDE DEF Made
    <3>4. QED
      BY <2>2, <3>2, <3>3
  <2>3. QED
    BY <2>1, <2>2
<1> HIDE DEF Made, before
<1>5. Migrated(d, v + 1) = [version |-> v + 1, tables |-> before, stamp |-> NoId, memories |-> {}]
  <2>1. d.tables = Made(v) /\ d.memories = {}
    BY <1>2
  <2>2. Migrated(d, v + 1) = [d EXCEPT !.version = v + 1, !.tables = before, !.memories = {}]
    BY <2>1 DEF Migrated, before
  <2> HIDE DEF d
  <2>3. QED
    BY <1>2, <2>2
<1>6. Migrated(d, v + 1) = e
  BY <1>3, <1>4, <1>5
<1>7. QED
  BY <1>6

\* A migration is applied, or undone and the command fails, excused by what is in the store.
LEMMA ApplyMigrationWord == ASSUME IInv, WInv, NEW p \in Proc, ApplyMigration(p) PROVE WInv'
<1> DEFINE r == proc[p]
           f == r.file
           m == r.version + 1
           d == db[f]
<1>1. /\ At(p, "migrate") /\ r.version # NoVersion
      /\ db' = [db EXCEPT ![f] = Apply(d, m)]
      /\ UNCHANGED <<config, excluded, dirs, link, files>>
      /\ Become(p, IF ~Applies(d, m) THEN Ended(r, "failed")
                   ELSE IF m = Latest THEN Stepped(r, 1)
                   ELSE [r EXCEPT !.version = m])
  BY DEF ApplyMigration
<1>2. /\ Running(p) /\ Active(r) /\ r \in Process /\ f \in File /\ d \in Store
      /\ db \in [File -> Store]
      /\ r.alone => d.version = r.version
  BY <1>1, MigratingWord
<1>3. m \in 1..Latest /\ r.version \in 0..(Latest - 1) /\ r.version + 1 = m
  BY <1>1, <1>2 DEF Process, Latest, NoVersion
<1>4. CASE ~Applies(d, m)
  <2>1. db' = db /\ Become(p, Ended(r, "failed"))
    BY <1>1, <1>2, <1>4 DEF Apply
  <2>2. r.alone => Stuck(d)
    BY <1>2, <1>3, <1>4 DEF Stuck, Latest
  <2>3. QED
    BY <1>1, <1>2, <2>1, <2>2, StuckExcuses, EndWord
<1>5. CASE Applies(d, m)
  <2>1. db'[f] = Migrated(d, m) /\ \A g \in File : g # f => db'[g] = db[g]
    BY <1>1, <1>2, <1>5 DEF Apply
  <2>2. db'[f].version = m /\ db'[f].stamp = d.stamp
    BY <1>2, <2>1 DEF Migrated, Store
  <2>3. /\ Needed \subseteq d.tables => Needed \subseteq db'[f].tables
        /\ m = Latest => Needed \subseteq db'[f].tables
    <3>1. Apply(d, m) = Migrated(d, m)
      BY <1>5 DEF Apply
    <3>2. QED
      BY <1>2, <1>3, <1>5, <2>1, <3>1, MigrationFacts
  <2>4. r.alone /\ r.cmd = "purge" => db'[f] = After(m, NoId, {})
    <3>1. SUFFICES ASSUME r.alone, r.cmd = "purge"
                   PROVE  Migrated(d, m) = After(m, NoId, {})
      BY <2>1
    <3>2. Due(r) /\ Among(r, "purge", {4})
      BY <1>1, <3>1, MigratingWord DEF Among
    <3>3. d = After(d.version, NoId, {})
      BY <1>2, <3>2 DEF Due
    <3>4. d = After(r.version, NoId, {})
      BY <1>2, <3>1, <3>3
    <3>5. QED
      BY <1>3, <3>4, NewStoreMigrates
  <2>5. CASE m = Latest
    <3>1. proc' = [proc EXCEPT ![p] = Stepped(r, 1)]
      BY <1>1, <1>5, <2>5 DEF Become
    <3>2. QED
      BY <1>1, <2>1, <2>2, <2>3, <2>4, <2>5, <3>1, MigratedWord
  <2>6. CASE m # Latest
    <3>1. proc' = [proc EXCEPT ![p] = [r EXCEPT !.version = m]]
      BY <1>1, <1>5, <2>6 DEF Become
    <3>2. r.alone /\ r.cmd = "purge" => db'[f] = After(db'[f].version, NoId, {})
      BY <2>2, <2>4
    <3> HIDE DEF m
    <3>3. QED
      BY <1>1, <2>1, <2>2, <2>3, <3>1, <3>2, StillMigratingWord
  <2>7. QED
    BY <2>5, <2>6
<1>6. QED
  BY <1>4, <1>5

\* A command that ran alone has done all of its work when it succeeds, and fails only for
\* a reason that was there before it, whatever the commands before it left behind.
THEOREM WordIsKept == Spec => []CommandsKeepTheirWord
<1>1. IInv /\ WInv /\ [Next]_vars => WInv'
  <2>1. SUFFICES ASSUME IInv, WInv, [Next]_vars
                 PROVE  WInv'
    OBVIOUS
  <2>2. CASE UNCHANGED vars
    <3>1. UNCHANGED <<config, excluded, dirs, link, db, files, proc>>
      BY <2>2 DEF vars
    <3>2. \A q \in Proc : Running(q)' => Running(q)
      BY <3>1 DEF Running
    <3>3. \A q \in Proc : proc'[q] = proc[q] /\ (Word(proc[q]) => Word(proc[q])')
      BY <3>1, WordStays
    <3>4. QED
      BY <2>1, <3>1, <3>2, <3>3 DEF WInv
  <2>3. ASSUME NEW p \in Proc, Die(p)
        PROVE  WInv'
    BY <2>1, <2>3, EndWord DEF Die
  <2>4. ASSUME NEW p \in Proc, Call(p)
        PROVE  WInv'
    BY <2>1, <2>4, LoadWord, InitProjectWord, PlainWord, StoreWord, RemoveWord, StatWord,
       OpenWord, ReadVersionWord, ApplyMigrationWord DEF Call
  <2>5. QED
    BY <2>1, <2>2, <2>3, <2>4, StartWord, ExitWord DEF Next
<1>2. WInv => CommandsKeepTheirWord
  BY DEF WInv, Word, CommandsKeepTheirWord
<1>3. QED
  BY <1>1, <1>2, InitWord, Invariance, PTL DEF Spec
=============================================================================
