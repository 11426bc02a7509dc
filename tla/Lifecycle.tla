----------------------------- MODULE Lifecycle -----------------------------
(***************************************************************************)
(* The life of a project: install, purge and uninstall (internal/project,  *)
(* internal/cli), the opening of its store with the migrations that this   *)
(* applies (store.go Open, migrate.go, migrations/), and the commands that *)
(* open it meanwhile, of which `memory add` and `doctor` stand for all.    *)
(*                                                                         *)
(* A command is the sequence of its calls.  Each call is a step, and so is *)
(* each migration, which has a transaction of its own; between two steps   *)
(* other processes run, and a process may be killed.  A database file is   *)
(* an inode: whoever has it open keeps it when the file is removed.        *)
(*                                                                         *)
(* An operator named for a slip is a faulty variant of the definition      *)
(* after it; the properties are checked to fail when it takes its place.   *)
(***************************************************************************)
EXTENDS Naturals, Sequences, FiniteSets

CONSTANTS
    Proc,       \* processes that run a command
    Id,         \* the project ids install can mint
    NoId,       \* no project id
    Found,      \* the schema versions of a store that was there before
    Commands,   \* the commands that are run
    MayDie,     \* whether a process may be killed, or meet an error of the system
    MaxFiles,   \* bound: database files created
    MaxCommands \* bound: commands started

File == 1..MaxFiles
NoFile == 0
NoVersion == 99

\* The calls of each command, in order (runIndex is the second part of install).
UninstallConfigFirst == <<"load", "removeConfig", "removeDir">>
Uninstall == <<"load", "removeDir", "removeConfig">>
Install ==
    <<"init", "truncate", "write", "exclude", "mkdir", "open", "migrate", "stamp",
      "load", "open", "migrate", "log">>
Purge == <<"load", "unlink", "open", "migrate", "stamp", "truncate", "write">>
Add == <<"load", "open", "migrate", "log", "add">>
Doctor == <<"load", "stat", "open", "migrate">>
Calls == [install |-> Install, purge |-> Purge, uninstall |-> Uninstall, add |-> Add,
          doctor |-> Doctor]

AllCommands == {"install", "purge", "uninstall", "add", "doctor"}
OwnsProject == {"install", "purge", "uninstall"}

ASSUME LifecycleAssumption ==
    /\ NoId \notin Id
    /\ "torn" \notin Id /\ "torn" # NoId
    /\ Found \subseteq 1..7
    /\ Commands \subseteq AllCommands
    /\ MayDie \in BOOLEAN
    /\ MaxFiles \in Nat \ {0}
    /\ MaxCommands \in Nat

VARIABLES
    config,     \* .columbus.json: the project id, NoId, or "torn" while it is written
    excluded,   \* whether .git/info/exclude names it
    dirs,       \* the project directories
    link,       \* the database file in each of them
    db,         \* what is in each database file
    files,      \* database files created
    proc,       \* what each process does
    raced,      \* whether install, purge or uninstall has overlapped another command
    started     \* commands started (bound)

vars == <<config, excluded, dirs, link, db, files, proc, raced, started>>

----------------------------------------------------------------------------
(* Migrations. *)

Latest == 6

\* What the migrations create and drop: the tables of 1, the work tables with their
\* counters of 2, the vectors of 3 and 5, the stories of 4.
Table == {"core", "work", "vectors", "stories"}
Needed == {"core", "vectors"}

\* What must be there, and what must not, for every statement of migration m to succeed.
Requires ==
    <<{}, {"core"}, {"core"}, {"core", "work"}, {"core", "vectors"},
      {"core", "vectors", "work", "stories"}>>
Creates == <<{"core"}, {"work"}, {"vectors"}, {"stories"}, {}, {}>>
Applies(d, m) == Requires[m] \subseteq d.tables /\ Creates[m] \cap d.tables = {}

Migrated(d, m) ==
    [d EXCEPT !.version = m,
              !.tables = (d.tables \cup Creates[m]) \ (IF m = 6 THEN {"work", "stories"} ELSE {}),
              !.memories = IF m = 6 THEN {} ELSE d.memories]

\* One transaction: a statement that fails undoes those before it.
ApplyWithoutRollback(d, m) ==
    IF Applies(d, m) THEN Migrated(d, m)
    ELSE [d EXCEPT !.memories = IF m = 6 THEN {} ELSE d.memories]
Apply(d, m) == IF Applies(d, m) THEN Migrated(d, m) ELSE d

EmptyStore == [version |-> 0, tables |-> {}, stamp |-> NoId, memories |-> {}]

\* The store of project i as migrations 1 to v leave it; a newer binary's has version 7.
After(v, i, memories) ==
    [version |-> v,
     tables |-> IF v >= Latest THEN Needed ELSE UNION {Creates[m] : m \in 1..v},
     stamp |-> i,
     memories |-> memories]

\* A store that every Open refuses: too new, or its next migration cannot run.
Stuck(d) ==
    \/ d.version > Latest
    \/ d.version < Latest /\ ~Applies(d, d.version + 1)

----------------------------------------------------------------------------
(* Processes. *)

Idle == [cmd |-> "none", step |-> 0, id |-> NoId, file |-> NoFile, version |-> NoVersion,
         end |-> "none", alone |-> FALSE]

Running(p) == proc[p].cmd # "none" /\ proc[p].end = "none"
At(p, call) == Running(p) /\ Calls[proc[p].cmd][proc[p].step] = call

\* The record of p after n calls more.
Stepped(r, n) ==
    IF r.step + n > Len(Calls[r.cmd]) THEN [r EXCEPT !.end = "ok"]
    ELSE [r EXCEPT !.step = r.step + n]
Ended(r, end) == [r EXCEPT !.end = end]

Become(p, r) == proc' = [proc EXCEPT ![p] = r] /\ UNCHANGED <<raced, started>>

Init ==
    /\ \/ /\ config = NoId /\ dirs = {} /\ link = [i \in Id |-> NoFile]
          /\ db = [f \in File |-> EmptyStore] /\ files = 0
       \/ \E i \in Id, v \in Found :
          /\ config = i /\ dirs = {i} /\ files = 1
          /\ link = [j \in Id |-> IF j = i THEN 1 ELSE NoFile]
          /\ db = [f \in File |-> IF f = 1 THEN After(v, i, {"old"}) ELSE EmptyStore]
    /\ excluded = FALSE
    /\ proc = [p \in Proc |-> Idle]
    /\ raced = FALSE
    /\ started = 0

Start(p) ==
    LET others == {q \in Proc : Running(q)} IN
    /\ proc[p].cmd = "none"
    /\ started < MaxCommands /\ started' = started + 1
    /\ \E cmd \in Commands :
        /\ proc' = [q \in Proc |->
              IF q = p THEN [Idle EXCEPT !.cmd = cmd, !.step = 1, !.alone = (others = {})]
              ELSE [proc[q] EXCEPT !.alone = FALSE]]
        /\ raced' = (raced \/ \E q \in others : {cmd, proc[q].cmd} \cap OwnsProject # {})
    /\ UNCHANGED <<config, excluded, dirs, link, db, files>>

\* The process is gone, with what it had open.
Exit(p) ==
    /\ proc[p].end # "none"
    /\ Become(p, Idle)
    /\ UNCHANGED <<config, excluded, dirs, link, db, files>>

\* Killed, or an error of the system: what was done stays done.
Die(p) ==
    /\ MayDie /\ Running(p)
    /\ Become(p, Ended(proc[p], "killed"))
    /\ UNCHANGED <<config, excluded, dirs, link, db, files>>

\* config.Load: of a project that must be there.
LoadUnchecked(p) ==
    /\ At(p, "load")
    /\ Become(p, IF config # NoId THEN [Stepped(proc[p], 1) EXCEPT !.id = config]
                 ELSE Ended(proc[p], "failed"))
    /\ UNCHANGED <<config, excluded, dirs, link, db, files>>
Load(p) ==
    /\ At(p, "load")
    /\ Become(p, IF config \in Id THEN [Stepped(proc[p], 1) EXCEPT !.id = config]
                 ELSE Ended(proc[p], "failed"))
    /\ UNCHANGED <<config, excluded, dirs, link, db, files>>

\* project.Init: an existing project keeps its id and is not saved again.
InitWithoutStore(p) ==
    /\ At(p, "init")
    /\ \/ config = "torn" /\ Become(p, Ended(proc[p], "failed"))
       \/ config \in Id /\ Become(p, [Stepped(proc[p], 8) EXCEPT !.id = config])
       \/ /\ config = NoId
          /\ \E i \in Id :
              /\ i \notin dirs /\ \A q \in Proc : proc[q].id # i
              /\ Become(p, [Stepped(proc[p], 1) EXCEPT !.id = i])
    /\ UNCHANGED <<config, excluded, dirs, link, db, files>>
InitProject(p) ==
    /\ At(p, "init")
    /\ \/ config = "torn" /\ Become(p, Ended(proc[p], "failed"))
       \/ config \in Id /\ Become(p, [Stepped(proc[p], 3) EXCEPT !.id = config])
       \/ /\ config = NoId
          /\ \E i \in Id :
              /\ i \notin dirs /\ \A q \in Proc : proc[q].id # i
              /\ Become(p, [Stepped(proc[p], 1) EXCEPT !.id = i])
    /\ UNCHANGED <<config, excluded, dirs, link, db, files>>

\* config.Save: os.WriteFile empties the file, then writes it.
Truncate(p) ==
    /\ At(p, "truncate")
    /\ config' = "torn"
    /\ Become(p, Stepped(proc[p], 1))
    /\ UNCHANGED <<excluded, dirs, link, db, files>>
Write(p) ==
    /\ At(p, "write")
    /\ config' = proc[p].id
    /\ Become(p, Stepped(proc[p], 1))
    /\ UNCHANGED <<excluded, dirs, link, db, files>>

Exclude(p) ==
    /\ At(p, "exclude")
    /\ excluded' = TRUE
    /\ Become(p, Stepped(proc[p], 1))
    /\ UNCHANGED <<config, dirs, link, db, files>>

\* os.MkdirAll, by createStore and, when the store is open, by logging.New.
MakeDir(p) ==
    /\ At(p, "mkdir") \/ At(p, "log")
    /\ dirs' = dirs \cup {proc[p].id}
    /\ Become(p, Stepped(proc[p], 1))
    /\ UNCHANGED <<config, excluded, link, db, files>>

\* sql.Open and Ping create the file if the directory is there.
Open(p) ==
    LET id == proc[p].id IN
    /\ At(p, "open")
    /\ \/ id \notin dirs /\ Become(p, Ended(proc[p], "failed")) /\ UNCHANGED <<link, files>>
       \/ /\ id \in dirs /\ link[id] # NoFile
          /\ Become(p, [Stepped(proc[p], 1) EXCEPT !.file = link[id], !.version = NoVersion])
          /\ UNCHANGED <<link, files>>
       \/ /\ id \in dirs /\ link[id] = NoFile /\ files < MaxFiles
          /\ files' = files + 1
          /\ link' = [link EXCEPT ![id] = files + 1]
          /\ Become(p, [Stepped(proc[p], 1) EXCEPT !.file = files + 1, !.version = NoVersion])
    /\ UNCHANGED <<config, excluded, dirs, db>>

\* migrate: the version is read outside of any transaction.
ReadVersion(p) ==
    LET version == db[proc[p].file].version IN
    /\ At(p, "migrate") /\ proc[p].version = NoVersion
    /\ Become(p, IF version > Latest THEN Ended(proc[p], "failed")
                 ELSE IF version = Latest THEN Stepped(proc[p], 1)
                 ELSE [proc[p] EXCEPT !.version = version])
    /\ UNCHANGED <<config, excluded, dirs, link, db, files>>

\* applyMigration, for the next of the migrations that were pending then.
ApplyMigration(p) ==
    LET f == proc[p].file
        m == proc[p].version + 1
    IN
    /\ At(p, "migrate") /\ proc[p].version # NoVersion
    /\ db' = [db EXCEPT ![f] = Apply(db[f], m)]
    /\ Become(p, IF ~Applies(db[f], m) THEN Ended(proc[p], "failed")
                 ELSE IF m = Latest THEN Stepped(proc[p], 1)
                 ELSE [proc[p] EXCEPT !.version = m])
    /\ UNCHANGED <<config, excluded, dirs, link, files>>

\* SetProjectID.
Stamp(p) ==
    /\ At(p, "stamp")
    /\ db' = [db EXCEPT ![proc[p].file].stamp = proc[p].id]
    /\ Become(p, Stepped(proc[p], 1))
    /\ UNCHANGED <<config, excluded, dirs, link, files>>

AddMemory(p) ==
    /\ At(p, "add")
    /\ db' = [db EXCEPT ![proc[p].file].memories = @ \cup {"new"}]
    /\ Become(p, Stepped(proc[p], 1))
    /\ UNCHANGED <<config, excluded, dirs, link, files>>

\* The database and its sidecars; that they are missing is no error.
UnlinkByEmptying(p) ==
    /\ At(p, "unlink")
    /\ db' = [f \in File |-> IF f = link[proc[p].id] THEN EmptyStore ELSE db[f]]
    /\ Become(p, Stepped(proc[p], 1))
    /\ UNCHANGED <<config, excluded, dirs, link, files>>
Unlink(p) ==
    /\ At(p, "unlink")
    /\ link' = [link EXCEPT ![proc[p].id] = NoFile]
    /\ Become(p, Stepped(proc[p], 1))
    /\ UNCHANGED <<config, excluded, dirs, db, files>>

RemoveDir(p) ==
    /\ At(p, "removeDir")
    /\ dirs' = dirs \ {proc[p].id}
    /\ link' = [link EXCEPT ![proc[p].id] = NoFile]
    /\ Become(p, Stepped(proc[p], 1))
    /\ UNCHANGED <<config, excluded, db, files>>

RemoveConfig(p) ==
    /\ At(p, "removeConfig")
    /\ config' = NoId
    /\ Become(p, Stepped(proc[p], 1))
    /\ UNCHANGED <<excluded, dirs, link, db, files>>

\* doctor does not open a store that is not there, and only warns.
Stat(p) ==
    /\ At(p, "stat")
    /\ Become(p, IF proc[p].id \in dirs /\ link[proc[p].id] # NoFile THEN Stepped(proc[p], 1)
                 ELSE Ended(proc[p], "warned"))
    /\ UNCHANGED <<config, excluded, dirs, link, db, files>>

Call(p) ==
    \/ Load(p) \/ InitProject(p) \/ Truncate(p) \/ Write(p) \/ Exclude(p) \/ MakeDir(p)
    \/ Open(p) \/ ReadVersion(p) \/ ApplyMigration(p) \/ Stamp(p) \/ AddMemory(p)
    \/ Unlink(p) \/ RemoveDir(p) \/ RemoveConfig(p) \/ Stat(p)

Next == \E p \in Proc : Start(p) \/ Exit(p) \/ Die(p) \/ Call(p)

Spec == Init /\ [][Next]_vars

----------------------------------------------------------------------------
(* Properties. *)

Store == [version : 0..7, tables : SUBSET Table, stamp : Id \cup {NoId},
          memories : SUBSET {"old", "new"}]
Process == [cmd : AllCommands \cup {"none"}, step : Nat, id : Id \cup {NoId},
            file : File \cup {NoFile}, version : 0..(Latest - 1) \cup {NoVersion},
            end : {"none", "ok", "failed", "killed", "warned"}, alone : BOOLEAN]

\* The variables have the types their comments name.
TypeOK ==
    /\ config \in Id \cup {NoId, "torn"}
    /\ excluded \in BOOLEAN
    /\ dirs \subseteq Id
    /\ link \in [Id -> File \cup {NoFile}]
    /\ db \in [File -> Store]
    /\ files \in 0..MaxFiles
    /\ proc \in [Proc -> Process]
    /\ \A p \in Proc : Running(p) => proc[p].step \in 1..Len(Calls[proc[p].cmd])
    /\ raced \in BOOLEAN
    /\ started \in 0..MaxCommands

\* Whoever has opened a store finds the tables it needs in it, also when others migrate
\* the store at the same time, or do so again (store.go Open, migrate.go).
HasOpened(p) == At(p, "stamp") \/ At(p, "log") \/ At(p, "add")
OpenedHasTables ==
    \A p \in Proc : HasOpened(p) =>
        proc[p].file # NoFile /\ Needed \subseteq db[proc[p].file].tables

\* A store has the present schema by its version or, once a late process has set that back,
\* by its tables.
OfPresentSchema(d) == d.version = Latest \/ d.tables = Needed

\* No migration takes a memory from a store of the present schema, whichever version its
\* process has read or has set the store back to: the one that wipes the memories of older
\* schemas then fails on the counters it drops, and undoes its own wiping (applyMigration,
\* 0006_drop_work_wipe_memories.sql).  It says nothing of a store to which late processes
\* have added the tables of older schemas again: that one is wiped like an old store.
MigrationsKeepMemories ==
    [][ \A f \in File :
          OfPresentSchema(db[f]) => db[f].memories \subseteq db'[f].memories ]_vars

\* As long as install, purge and uninstall run alone, memories are always in the store
\* that the config names, wherever these commands are killed and whatever is run next:
\* install writes the config before there is a store, uninstall removes it last.
ConfigNamesData ==
    ~raced => \A i \in Id :
        (link[i] # NoFile /\ db[link[i]].memories # {}) => config \in {i, "torn"}

\* What a command promises that ran alone, whatever the commands before it left behind
\* when they were killed or got into each other's way: it has done all of its work, or
\* it has failed for a reason that was there before it.
Usable(i) ==
    /\ config = i /\ i \in dirs /\ link[i] # NoFile
    /\ Needed \subseteq db[link[i]].tables
Blocked == config \notin Id \/ config \notin dirs \/ link[config] = NoFile
Kept(r) ==
    /\ r.cmd = "install" /\ r.end = "ok" =>
        Usable(r.id) /\ excluded /\ db[link[r.id]].stamp = r.id
    /\ r.cmd = "purge" /\ r.end = "ok" =>
        Usable(r.id) /\ db[link[r.id]] = After(Latest, r.id, {})
    /\ r.cmd = "uninstall" /\ r.end = "ok" => config = NoId /\ r.id \notin dirs
    /\ r.cmd = "add" /\ r.end = "ok" => Usable(r.id)
    /\ r.cmd = "doctor" /\ r.end = "ok" => Usable(r.id) /\ ~Stuck(db[link[r.id]])
    /\ r.cmd = "doctor" /\ r.end = "warned" => config \in Id /\ Blocked
Excused(r) ==
    \/ config = "torn"
    \/ config = NoId /\ r.cmd # "install"
    \/ config \in Id /\ config \notin dirs /\ r.cmd \in {"purge", "add"}
    \/ config \in Id /\ config \in dirs /\ link[config] # NoFile /\ Stuck(db[link[config]])
CommandsKeepTheirWord ==
    \A p \in Proc : proc[p].alone =>
        /\ Kept(proc[p])
        /\ proc[p].end = "failed" => Excused(proc[p])

\* "migrate applies all pending migrations in order ... user_version is advanced after
\* each" (migrate.go:68-70).
VersionNeverFalls == [][ \A f \in File : db'[f].version >= db[f].version ]_vars
=============================================================================
