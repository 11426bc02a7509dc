# A TLA+ model of columbus

columbus keeps a local index of a source tree (files, symbols, imports, full text, a dependency graph and embedding
vectors), a set of hand-written memories beside it, and answers searches over both from one SQLite database per
project. Several columbus processes (a terminal, an agent, a git hook, the dashboard) may use that database at once,
and users edit the tree under all of them. This directory models that system, checks it with TLC and proves the most
important safety properties with TLAPS.

Paths below are relative to `src/internal/`.

## 1. Inventory

| component | code | state | operations | hard behaviour | what makes it correct |
|---|---|---|---|---|---|
| **Indexer** | `index/` | locals of `Run`: candidates, hashes read, outcomes, captured vectors, jobs | five modes: incremental, full, changed, clean, status | parallel scan of a tree that changes; one big transaction, then a second for the graph, then hundreds of small ones for vectors; dies between any two; two runs at once | what is indexed is what is on disk; the tables agree; the vector of a row is that of its text; a run publishes all or nothing; every run ends |
| **Index tables** | `store/index_repo.go`, `graph_repo.go`, `vec_repo.go`, `meta.go`, migrations 1 and 5 | `files`, `symbols`, `imports`, `dep_edges`, `test_links`, `code_fts`, `chunk_meta`/`vec_chunks`, `index_meta` | `PutFile`, `DeleteFileByPath`, `ClearIndex`, `ReplaceGraph`, `UpsertVector`, `DeleteVectors`, `SetIndexState`, `SetEmbedInfo` | ids of deleted rows come back, full text and vectors refer to them without a foreign key, cascades cut edges of other files | unique paths, ids and vectors; references; full text equals the rows |
| **Transactions** | `store/store.go` | the write lock, one pooled connection | `WithTx`, reads | `busy_timeout` expires in any of a run's many transactions; a read inside a transaction would wait for itself | the lock is exclusive and never leaks |
| **Migrations** | `store/migrate.go`, `store/migrations/` | `user_version`, the tables | open, six migrations | two processes open an old or new database at once; death between migrations; purge removes the file of an open store | whoever has opened finds its tables; no memory is lost to a migration applied again |
| **Memories** | `memory/`, `store/memory_*.go` | `memories`, `memory_tags`, `memory_evidence`, `memory_links`, `memory_fts`, `mem_seq`, vectors | add, edit, remove, export, import, and the index run's `embedMemories`; list and validate only read | read before the transaction, written in it; ids preserved by import; vectors stored for removed memories | ids never reused, import restores what export wrote, full text equals rows |
| **Search** | `search/`, `store/search_repo.go`, `grep/` | none | neighbours or full text, rescue, grep, attribution, folding, limit, links | many reads without a transaction while runs commit and files change; k applied before the owner filter; sources that overlap | nothing twice, nothing over the limit; undisturbed, exactly the candidates with their own vectors, lines and links |
| **Live resolution** | `live/` | a cache per query | where a stored symbol is now, which symbol a line is in | the file moved on since it was indexed | the line in the file as it is |
| **Show and graph** | `show/`, `store/show_repo.go`, `graph_repo.go` | none | definitions of a name, outline of a file, the projected graph | an id read first and used after a full run; four reads of one graph; a cap | graphs close; undisturbed, all that is there and no other |
| **Dashboard** | `tui/`, `cli/ui.go` | model of the screen, commands in flight | snapshots, searches, reindexes, ticks, keys | answers late and reordered, failures, one connection that a reindex keeps | never busy for nothing, no box closed by an answer, Escape leads out, shows the store in the end |
| **Lifecycle** | `project/`, `cli/install.go`, `purge.go`, `uninstall.go`, `project.go`, `config/` | `.columbus.json`, `.git/info/exclude`, the project directory, the database file | install, purge, uninstall, and every command that opens the project | killed between any two of their steps; run beside one another | memories are in a store the config names; a command does all its work or fails for a reason |
| **Doctor** | `doctor/` | none | checks of config, directory, database, index, git | it migrates what it opens; HEAD moves between index and check | healthy means usable |
| **Git** | `gitrepo/` | the repository | list tracked, untracked, modified; HEAD | deleted files stay listed until staged | - |
| **Extraction** | `extract/` | none | content to symbols, imports, exports, todos | - | deterministic, one symbol per identity |
| **Embedding** | `embed/` | the loaded model | text to vector | - | deterministic |
| CLI, rendering, logging, ids, clock | | none | | wiring, formatting and plain I/O | |

How they interact. The CLI opens the store (which migrates it) and calls one component. The **indexer** lists files
through git, extracts in parallel, and writes through the index tables; it reads hashes, ids and old vectors *before*
the transactions that use them, and `embedMemories` also reads memories. **Search**, **show** and the **dashboard** read
what the indexer committed, each statement on its own; the dashboard starts runs of the indexer in the background. Live
resolution and doctor compare the tables with the tree. All sharing between processes goes through SQLite: readers see
the last commit (WAL), writers take the lock when their transaction *begins* (`_txlock=immediate`) and wait for it at
most `busy_timeout`.

The hazards this produces are listed, each at its line, in `PROJECT.json`.

## 2. Modules

| module | what it is |
|---|---|
| `Catalog` | The index tables as one record, and every statement the indexer runs against them as a pure operator with the name of the repository method. Also what the tables owe one another (`Consistent`). |
| `Reindex` | Processes that execute `Indexer.Run` over a shared store while a user edits, with errors, deaths and lock time-outs. Extends `Catalog`. |
| `IndexPromise` | What a search may observe of index runs, with no rows, ids or phases: the abstract specification `Reindex` implements. |
| `MCReindex` | Contents, paths and bounds for TLC. |
| `CatalogProofs` | A lemma per statement: what it preserves of `Sound` and `Counted`. |
| `ReindexProofs` | The inductive invariant of `Reindex`, a lemma per action, and the safety theorems. |
| `PromiseProofs` | That `Reindex` implements `IndexPromise`. |
| `MemoryStore` | Processes that add, edit, remove, export, import and embed memories in one store, with errors and deaths, while the files evidence points at change. |
| `MemoryPromise` | What memory commands do, with no tables, counters or reads: the abstract specification `MemoryStore` implements. |
| `MCMemory` | Drafts, changes, documents and bounds for TLC. |
| `MemoryProofs` | A lemma per repository method and per action of `MemoryStore`, the inductive invariants, the theorems, and that `MemoryStore` implements `MemoryPromise`. |
| `NaturalFacts` | Greatest and least elements of sets of naturals, which the other proofs need for ids and loops. |
| `Dashboard` | `columbus view`: the event loop, its boxes and flags, and the commands it has in flight. |
| `MCDashboard`, `DashboardProofs` | Snapshot sizes for TLC; the inductive invariant and the safety theorems. |
| `Lifecycle` | install, purge, uninstall, memory add and doctor as sequences of calls that processes interleave, with opening and migrations. |
| `MCLifecycle`, `LifecycleProofs` | Symmetry for TLC; the inductive invariant and the safety theorems. |
| `Queries` | search, show and graphs, one read at a time, over the store of `Reindex`, which it extends and composes with. |
| `MCQueries`, `QueriesProofs` | Contents, queries and bounds for TLC; that queries only read, their invariant and the safety theorems. |

### Catalog

A catalog `d` is `[files, symbols, fts, edges, vecs, meta]`. An id is `NextId` of the ids *in the table*: the columns are
`INTEGER PRIMARY KEY` without `AUTOINCREMENT`, so the id of the last row comes back after it is deleted. This is what
makes vectors dangerous: `vecs` has no foreign key. Deleting files cascades to symbols and to the edges at both ends, and
`fts`, a virtual table, must be cleaned by path. A vector is known by what it encodes (`SymbolVector(text)`,
`FallbackVector(path, content)`, `MeanVector(slots)`), so "the right vector" is equality.

The graph (`Resolve`) is what `resolveGraph` makes of a list of files and a list of imports that were read apart: an import
goes to the *first* of its candidates that has a row (`FirstAt`: the target, the target with an extension, an index in it,
as `Candidates` lists them for importer and specifier), so a file that is added may redirect the edges of others; a test goes to the
first of the paths its name may mean (`ImplsOf`). An edge knows which of the two tables it is in.

Abstractions: a content is a model value and `SymbolsOf`, `ImportsOf` say what the extractor returns for it, `ImportsOf`
only the relative specifiers, as bare ones give no edge; a hash is the content together with whether git tracks it (the code
stores a blob oid for tracked files and a SHA-256 for others, and compares whichever applies); hashes do not collide; import
rows are derived from the file row they cascade with; `dep_edges` and `test_links`, which are cleared, filled and cascaded
together, are one set of typed edges; `chunk_meta` and `vec_chunks` share a rowid and are one row; columns nothing depends
on (language, package, exports, todos, timestamps, HEAD, dirty) are left out, and the role, which a path has: a path that is
no test has no `ImplsOf`.

### Reindex

| variable | in the code |
|---|---|
| `tree`, `staged` | working tree and git index (external) |
| `db`, `lock`, `work` | the last committed catalog, the process in a write transaction, the catalog as that transaction sees it |
| `pc`, `run` | where each process is in `Run`, and its locals |
| `runs`, `edits` | counters for the bounds |

| phase | actions | code |
|---|---|---|
| start | `Start` | `cli/indexrun.go`: status and clean get no embedder |
| select and scan | `SelectFiles`, `ReadHashes`, `Scan` (one candidate, any order: the workers), `EndScan` | `fileset.go`, `index.go:111-142`, `194-278` |
| capture | `Capture` (a file at a time) | `embed.go:40-89` |
| metadata transaction | `BeginWrite`, `DropGone`, `PutNext`, `CommitWrite`; `Clean` | `index.go:280-374` |
| graph | `ReadFiles`, `ReadImports`, `WriteGraph`, `GraphConflict` (a foreign key fails) | `index.go:160-192`, `graph_repo.go` |
| embed | `PurgeSymbols`, `PurgeFile`, `EndPurge`, `Plan`, `CarryVector`, `EmbedBatch`, `StoreSymbol`, `StoreFallback`, `StoreMean`, `Seal`, `StoreAndPanic` | `embed.go:91-238`, `310-321` |
| endings | `Fail` (death, git, disk or embedder error), `Busy` (`INDEX_LOCKED`) | error returns of `Run`, `WithTx` |
| user | `Edit`, `Stage` | external |

The metadata transaction is modelled statement by statement on `work`, because what it must hide is its intermediate
states. Every other transaction is one statement group on data that was read before it began, and is one step taken
while the lock is free (`Publishing`); nothing another process could do to it is lost, since no other writer can be
inside it and readers see only its commit. Every read that precedes a transaction is a step of its own.

Further abstractions. Listing tracked and untracked files is one step although git is called two or three times; in
`Plan` and in `Capture` the two or three reads for one file are one step. Means are stored in map order, that is in
any order. `captureChunks` goes through a map; the model takes paths in order, as the captures are independent.
`embedMemories` touches only the memory tables and is part of `MemoryStore`. `dropCaptured` deletes the symbol vectors
and the file vector of a path in two transactions, as the code does. `StoreAndPanic` is a Go index-out-of-range panic:
`fileVecs` is keyed by file id, and if another run gave a second file of this run the id of the first, the second's
shorter slice replaces the first's. `quiet` is a history flag (not in the code): nothing else has changed tree or
catalog since this run started.

### IndexPromise

`visible[q]`, what a search finds at path `q`, is nothing or the whole extraction of one content. A run forms an offer and
publishes it in one step or withdraws it. The refinement mapping reads `visible` from `db` *through the full-text table*,
and an offer is what `OfferOf` says a run in its write transaction will have changed. `RunsAreAtomic` is
`Promise!Spec`.

### MemoryStore

The two halves of the database share a lock and the vector tables, where rows of a memory and of a symbol never meet
(`owner_type`), so memories are a specification of their own beside `Reindex`.

| variable | in the code |
|---|---|
| `disk`, `file` | the files evidence points at, and the document last exported or brought along (external) |
| `db` | the committed memory tables: rows, tags, links, evidence (`anchors`), full text, vectors, and the counter `mem_seq` |
| `pc`, `run` | where each process is in its command, and its locals |
| `raced`, `used`, `run[p].dirty` | history, not in the code: memories whose full text or vector was last written by an overtaken command; ids ever given; memories that others changed since `p` started |
| `commands` | counter for the bound |

| command | actions | code |
|---|---|---|
| add | `Add` | `memory/ops.go:20-70` |
| edit | `StartEdit`, the reads, `Update`, the reads again, `UpdateFts` | `ops.go:92-181` |
| remove | `StartRemove`, `Remove` | `ops.go:183-200` |
| export | `StartLoop`, the reads per memory, `WriteDocument` | `export.go:52-74`, `cli/importexport.go` |
| import | `StartLoop`, the reads per memory (hashes of what is there), `Import`, or with `--preserve-ids` (`restore`) `Restore`, `RestoreCollides` | `export.go:86-216` |
| embed | `StartLoop`, the reads and `Gate` per memory, `StoreVector`, `EndEmbed` | `index/embed.go:243-293` |
| `MemoryFull` | `ReadRow` or `NoRow`, `ReadTags`, `ReadEvidence`, `ReadLinks`, and `Taken`, what each command does with the result | `store/memory_repo.go` |
| endings | `Fail` (death, lock time-out, embedder error); `Update` quits when a foreign key fails (`HasRow`) | error returns |
| user | `Touch` | external |

A transaction here uses nothing but the locals and the tables as they are when it has the lock, so it is one step, and
what may interleave are the reads before it. The three loops over memories are one loop (`Advance`, `Ending`).

Abstractions: `kind` is a column like `body` that is not searched, and timestamps decide nothing; both are left out. A
piece of evidence is a place (path and lines), each in a file of its own, with the blob oid found when it was added;
its row id is only ever used to order the evidence of one memory, so it carries its seat in that order. One embedding
model, under which a vector is known by the text it encodes; that joining title, body and tags could make two
memories' texts equal is left out. Documents are well formed (`--preserve-ids` fails on a bad id before it writes
anything that is not rolled back). `Export` is called without filters, as the CLI does. The import file is read in the
step that lists the ids, and the export file is written in one. What `Add` and `Edit` read back for their output
changes nothing and is left out, and so are the warnings for links that do not resolve.

### MemoryPromise

A memory is one thing here, `memories` a set of them, `given` the ids there ever were, and `held[p]` the only thing a command
may carry from one step to another: an edit the title and body that it saw, an import its document. `Add`, `Remove`, `Edit`,
`Import` and `Restore` each take one step, on the memories as they are at that moment; `Look`, `Bring` and `LetGo` take
something in hand or give it up; `Export` writes a document with one record per id. Full text and vectors are no part of it.

The refinement mapping reads `memories` as `Whole(db)`, every row with the tags, links and evidence under its id, `given` as
`used`, and `held` as `HeldBy` of each process: an edit holds the columns it read until its first transaction is over, an import its
document until it returns. `MemoriesAreAtomic` is `Promise!Spec`. It says what of an edit is atomic and what is not: tags, links and evidence
are changed in the memory of that moment, the columns come from the moment of the read (the finding `lost_update`), and a memory that is gone
by then stays gone, whatever the edit read. An import's own new records come in together, each once, under ids
later than any; that *another* import has brought the same is no part of the promise, and cannot be (see the findings).

### Dashboard

A store is a version that every commit raises, and what matters of a snapshot is the version each of its three reads
saw and how many memories that version has (`Memories`).

| variable | in the code |
|---|---|
| `ui` | `tui.Model`: whether a size has come, the three flags of the header, the five of the boxes, snapshot, rows and cursor of the table |
| `tasks` | the `tea.Cmd`s in flight: loads, searches, reindexes, each with how far it is |
| `ticking`, `spinning` | whether a refresh or a spinner tick is pending |
| `waiting` | what the event loop opens once `StoreSource.Detail` has the connection |
| `version`, `fails` | the store; counter for the bound |

The model of the screen is pure functions (`Rebuild`, `Esc`, `Snapshot`, `SearchResult`, `Failed`...), and an action is a
message: `Resize`, the keys by what they do to whom (`Escape`, `SubmitQuery`, `RefreshKey`, `ReindexKey`, `EnterRow`...),
`RefreshTick`, `SpinnerTick`, `Deliver`. The commands advance beside it (`Read`, `Search`, `BeginReindex`,
`CommitReindex`, `Fail`), and other processes commit (`Commit`). `ConnectionFree` is the pool of one (`store.go:39`):
while a reindex has it, loads and searches wait, and so does the whole loop when a key opens a memory.

Abstractions: a reindex is one transaction here (its phases are `Reindex`); what a search reads is `Queries`; keys
that scroll a box or type into it change nothing modelled, and a reindex that the loop does not offer (no `WithReindex`)
does not occur, as the CLI always passes it. `ClampCursor` is what `SetCursor` leaves: the bubbles table keeps -1 when
it is empty. Quitting ends everything, as the process does.

### Lifecycle

| variable | in the code |
|---|---|
| `config` | `.columbus.json`: absent, the id it names, or `"torn"` between the truncation and the write of `os.WriteFile` |
| `excluded` | the entry in `.git/info/exclude` |
| `dirs`, `link` | the project directories under the data directory, and the database file in each |
| `db`, `files` | what is in each database *file*; who has it open keeps it when it is unlinked, as an inode |
| `proc` | per process: command, call it is at, id read from the config, file it has open, schema version it read, how it ended |
| `raced`, `proc[p].alone`, `started` | history, not in the code: install, purge or uninstall has overlapped another command; nobody ran beside `p`; counter for the bound |

A command is a sequence of calls (`Install`, `Purge`, `Uninstall`, `Add`, `Doctor`) and a call is an action: `Load`,
`InitProject`, `Truncate`, `Write`, `Exclude`, `MakeDir`, `Open`, `ReadVersion`, `ApplyMigration` (each migration a step,
as each is a transaction), `Stamp`, `AddMemory`, `Unlink`, `RemoveDir`, `RemoveConfig`, `Stat`. `Die` is a kill or an error of
the system at any call. A store is its schema version, which of the tables that migrations create and drop are there
(`Table`), the id stamped in it and its memories. `Requires` and `Creates` are what the statements of each migration need to
be there and not to be there; `Apply` is one transaction, which a failing statement undoes, so that migration 6, which
wipes memories before it drops tables, wipes nothing when the tables are gone.

Abstractions: `memory add` stands for every command that only opens the project. `os.RemoveAll` is one step, as is the
removal of the database with its two sidecars, and a directory that comes back while it is being removed is left out. A
new id is one nobody has (random). The config is read whole or `"torn"`. The lock on a migrating transaction is not needed:
each migration is one step. Processes on the same file see each other's commits at once.

### Queries

| variable | in the code |
|---|---|
| `query` | where the one query under way is, what was asked, and its locals: owners to fetch, grep hits to attribute, candidates found (`found`, with the vector each was found by, whether grep found it, its line, its links), and what is still to be parsed or read |
| `memvecs` | the vectors of memories, which `vec_chunks` holds beside those of `db.vecs` (external: `MemoryStore` and the end of an index run) |
| `asked`, `query.quiet` | counter for the bound; history: nothing has changed since the query was made |
| all of `Reindex` | the store and the index runs that change it |

| query | actions | code |
|---|---|---|
| search | `BeginSearch`; `NearSymbols`, `NearFiles`, `TakeNear`; `FindMatches`, `TakeMatch`; `ListFiles`, `Grep`, `Attribute`; `Rank`; `Locate`; `LookUp`, `ReadNeighbours`; `Answer` | `search.go:146-606` |
| show symbol | `BeginSymbol`, `Locate`, `ReadNeighbours`, `Answer` | `show.go:36-82` |
| show file | `BeginFile`, `ReadOutline`, `Locate`, `ReadNeighbours`, `Answer` | `show.go:85-129` |
| graphs | `BeginGraph`, `ReadAllFiles`, `ReadDepEdges`, `ReadTestLinks`, `ReadUnresolved` with the pure `Project` | `graph.go:25-187` |

No query opens a transaction, so each statement is a step that sees the last commit, and between two of them any transaction
of `Reindex` may commit, rows may come and go and ids be given to others, the user may edit (`Meanwhile`), and a memory may
be embedded or removed (`MemoryChanges`). One query at a time is enough, because queries share nothing and write nothing
(`QueriesOnlyRead`).

Abstractions: which vectors are nearest is any choice, and so is which hits are cut by the limit, since scores are left out,
and with them the reads made only for them; a hit keeps the vector it was found by instead, as that is what a score would
rest on. `FileRow`s that grep is allowed to look in are paths, of which it looks into the `Greppable` (ripgrep passes over
hidden and ignored files). Grep reads all files in one step (they do not depend on one another) and keeps any `ContentCap`
of the lines it finds, as the order of files is up to ripgrep; a parse of a file is one step, and a line is the seat of its
symbol, with one line 0 for all that lies outside of symbols. A kNN search takes any `VecK` of all vectors, memories'
included, and keeps those of the owner it asks for, as `SearchVectors` does. Of a memory there is nothing but its vector.
Packages are what `externalPackage` leaves of the specifiers of `UnresolvedImports`, which reports every import. The
memories section, snippets, did-you-mean and freshness are left out.

## 3. Runs

Constants common to the runs of `Reindex`: paths `{1, 2}`; contents that share a symbol so that a vector can be
carried (`one`, `both`), that change its body (`body`), have no symbols (`none`) or are skipped (`blob`). `one` imports
`b`, which is path 2, and `both` also `a`, which is path 1, so that each path may import the other and itself; path 2 is the test of
path 1. In `faults` there is a path 3 instead of the test: `b` means path 2 or, while there is none, path 3, so that adding path 2
redirects the import.

| run | instance | shows |
|---|---|---|
| `solo` | one process, all five modes, four contents, git, 2 runs, 2 edits | `TypeOK`, `MirrorsTree`, `AllEmbedded` |
| `faults` | one process, incremental and full, with and without embedder, failing anywhere, 3 runs, 1 edit | `CatalogConsistent`, `WholeFiles`, `EdgesSupported`, `RewrittenFilesEmbedded` |
| `two` | two processes, incremental and full, 3 runs, 1 edit, time-outs | `CatalogConsistent`, `MirrorsTree`, `GraphComplete`, `RewrittenFilesEmbedded`, `RunsAreAtomic` |
| `liveness` | two processes, one path, 2 runs, fairness | `LockHeldByWriter`, `RunsEnd` |
| `memories` | two processes, all seven memory commands, failing anywhere, 4 commands; one place, two blobs, a document with a repeated record and a gap in its ids | `TypeOK`, `MemoriesConsistent`, `FullTextCurrent`, `RemovedVectorsGone`, `MemoriesEmbedded`, `DocumentsMatchStore`, `MemoriesAreAtomic`, `NewIdsAreFresh`, `ImportMergesOnce`, `EditsKeepTheRest` |
| `dashboard` | two commands in flight, two versions of the store of two memories and one, one failure; fairness | `TypeOK`, `BusyIsPending`, `TableShowsSnapshot`, `EscLeadsHome`, `BackgroundKeepsBoxes`, `SettlesOnStore` |
| `lifecycle` | two processes, three of all five commands, killed anywhere; no project, one of schema 4 or one of schema 7 (too new) | `TypeOK`, `OpenedHasTables`, `ConfigNamesData`, `CommandsKeepTheirWord`, `MigrationsKeepMemories` |
| `queries` | one process, a full run and then an incremental or full one, one edit; one of six queries, read by read | `QueryTypeOK`, `GraphAnswerCloses`, `HitsDoNotOverlap`, `SearchIsExact`, `ShowIsExact` |
| `orphans`, `died` | one process | the findings below |
| `lost_update` | two processes that add and edit, 3 commands | a finding below |
| `brick` | two processes, install and memory add, no kills | a finding below |

`LeftAlone(p)` in several properties says that `p`'s last run ended and nothing else changed tree or catalog while it ran
or since. It does *not* restrict what happened before: in `two`, the third run starts on whatever two interleaved runs
have left, and in `faults` on whatever a dead run has left.

Why the bounds are enough. Two paths are what a rewrite needs to give one file the id of another, and what an edge needs; a
third, that imports nothing (`ThirdPathImportsNothing`), is what an import needs to have a second candidate. Two symbols are
what a match by position needs to go wrong. Two runs make any hand-over between modes, and a third heals. In `two`,
`ThirdRunStartsAlone` starts the third run only when both others have ended; three overlapping runs would only add further
overlaps of two, as steps interact pairwise through `db` and `lock`. A run that times out on the lock after its metadata is
committed, and so leaves no graph of its own, is what `GraphComplete` needs; `two` has such runs, so `faults` leaves it out.
Git is off in `two`, since tracking changes only the candidates. Among the runs of `Reindex`, process symmetry is used only
in `two`, which checks no liveness, and no process is named by any definition. In `liveness`, contention is for the lock,
and neither paths nor contents decide it.

In `memories`, the first command and the fourth run alone (`FirstAndLastRunAlone`), and the second and third may
interleave at every read: one command to have something there, two that overlap, and one to look at what they have
left. A document with a gap in its ids and an added memory are what an id needs to collide or come back. The three
changes set and clear each column and add and remove each kind of satellite. The properties of memories exempt what
they must: `FullTextCurrent` and `RemovedVectorsGone` the memories in `raced`, since an edit that overlaps with
another really may leave old full text behind (`ops.go:170-179`), and a vector may really arrive after its memory is
gone (`embed.go:286`); `MemoriesEmbedded` and `DocumentsMatchStore` those changed by others while the command ran.
What the interleaving may not do is checked without exemption (`MemoriesConsistent`, `NewIdsAreFresh`, `MemoriesAreAtomic`): a
memory to begin with and two commands that overlap at every read are what it takes to change or revive a memory that another
command has changed or removed.

In `dashboard`, two commands in flight are what an order needs to be wrong, and a second version with fewer memories is what a
cursor needs to be beyond the end; a third command in flight could only repeat one of the kinds. A tick or key that would
start a third waits for a slot, which is why `RefreshTick` needs the strong form of fairness.

In `lifecycle`, two overlapping commands and one before or after them are what a repair, a loss or a repeated migration
needs. Schema 4 has two migrations to go, the last of which wipes memories, and tables of every kind; 7 stands for a newer
binary. Processes and ids are interchangeable (no liveness is checked). With three processes at once more may happen
(see the findings).

In `queries`, two paths, the second the test of the first, either of which may import both and a package, two symbols of one
file and a name that also occurs outside of any symbol are what folding, attribution and links need. Grep looks into one of
the paths. `FirstRunThenQueries` starts with an undisturbed full run (the empty store is asked before it) and has an edit
and a second run around and inside the query. One memory may be embedded right after the first run and removed between the
two kNN searches, or stay, or never be there. `VecK` is 6, as many as the vectors of two files and their four symbols: it
cuts only where the memory's vector is the seventh, and so does `ContentCap`, 1, in a file with two lines that match. These
and the caps are such that the neighbours, the rescue, the definitions, the limit and the graph are all cut in some query
and uncut in another. `SearchInOrder` has a search fetch owners in the order of their ids, and lets nothing more happen
after the ranking of one under which something has changed already; what such a search answers is checked by
`HitsDoNotOverlap` alone, and a search still undisturbed may be disturbed at any read.

Deadlock is checked in every run but three. In `dashboard`, quitting ends the program. In `lifecycle` and `brick`, all
commands are over in the end, and `Open` waits when `MaxFiles` is used up, which is the bound's doing. Elsewhere: a process
that waits for a lock can always time out, and `Rest` is enabled only when all bounded runs are over. In `MemoryStore`,
files may always change (`Touch`), so there deadlock cannot occur by construction; no command of it waits for anything but
the write lock, whose time-out is `Fail`.

Fairness (`FairSpec`): `WF(Step(p))`, since the operating system schedules a process that can run, and a run's loops range
over finite lists; `WF(Busy(p))`, since `busy_timeout(5000)` ends every wait. No fairness on `Start`, `Fail`, `Edit` or
`Stage`: nobody has to run columbus, fail or edit.

`Dashboard` states fairness of its own: `SF(Progress(t))` for each command in flight, since the runtime schedules every
goroutine, the event loop takes every message off its channel, and `database/sql` hands the one connection to those who
wait in order; `WF(Opened)` for the same reason; `SF(RefreshTick)`, because `tea.Tick` fires every two seconds and is always
rescheduled. Keys, commits and failures are not fair. `SettlesOnStore` assumes that the user stays on the table: the
refresh is suspended under boxes (`model.go:218-220`).

Each property of each passing run has a mutant in `PROJECT.json`: a definition with a plausible slip (`DeleteFileKeepFts`,
`CommitEarly`, `ScanOneByPresence`...), next to the one it is a slip of, under which TLC finds the property violated.

### Findings

* `orphans`: a full reindex leaves vectors of rows that no longer exist. `Run` skips capturing "for full mode (everything
  is cleared and re-embedded)", and the comment on `ClearVectors` names full and clean, but only `runClean` calls it; and
  it only with an embedder, which `cli/indexrun.go` never builds for clean.
* `died`: a run that dies after its metadata transaction leaves hashes without vectors. The hash gate hides the files from
  every later incremental run, which records the model and reports success. The same property also fails, with the same
  cause, when the binary's model changes (`store/meta.go:53-55`, migration 5) and when files were first indexed
  with `--no-embed`; only `reindex --full` embeds them.
* `lost_update`: of two edits of different columns of one memory, the later transaction writes back the other column as it was
  before: `Edit` reads outside its transaction and updates all columns, though "nil pointers mean unchanged"
  (`memory/ops.go:72`). `EditsKeepTheRest` is what does hold: an edit nobody overlaps with keeps what it does not name.
* `brick`: a migration is applied again by a process that read the version before others had migrated, and sets
  `user_version` back. The store then has the tables of schema 6 under version 5, so migration 6 is pending for ever and fails
  for ever (it drops what is gone): no command opens the store any more, only purge or uninstall helps. A new project is
  enough: `memory add` while `install` migrates. `MigrationsKeepMemories` is what does hold, thanks to the rollback: as long as
  its tables are those of the present schema (`OfPresentSchema`), no migration takes a memory from it, at whichever version.

What was met while modelling, beside these, and has no run of its own:

* An incremental run keeps the rows of a tracked file that was deleted and not staged, because `git ls-files` lists it
  (`fileset.go:49`).
* A run with `--no-embed` rewrites rows under the ids of old vectors and leaves `embed_model` in place, so searches rank
  new rows by the vectors of old ones. The dashboard's R key always runs without embedder (`cli/ui.go:76-90`).
* Of two default imports of one document that overlap, each stores every memory of it, although "Default mode reassigns fresh
  local ids and dedupes content-duplicate memories" (`memory/export.go:87-88`): the hashes of what is there are read before
  the transaction (`export.go:102`). In `MemoryStore` that takes two processes and nothing but `StartLoop` and `Import` of each. What
  does hold: an import nobody overlaps with leaves out what is there (`ImportMergesOnce`), and whoever overlaps, each import
  brings in its own new records once, all or none (`MemoriesAreAtomic`).
* With three processes, one that repeats migration 2 on a store of schema 6 brings tables back that 6 drops, and makes 4, 5 and 6
  succeed for others that read an older version: 6 then wipes memories added meanwhile. Such a store has neither the version nor
  the tables of the present schema, and `MigrationsKeepMemories` says nothing of it.
* Between the transaction of the files and that of the graph, and after a death there until the next run, an import whose first
  candidate has just been added still leads to the later one (`index/resolve.go:98-103`). `EdgesSupported` allows that,
  `GraphComplete` rules it out from the next undisturbed run on.
* Memories take places among the `k` nearest vectors although a search keeps none of them there (`store/vec_repo.go:80-90`), so that
  many memories near the query leave fewer symbols and files, and in the end none but the rescued.
* Two installs that overlap mint an id each; the one that saves last wins, and the other's store stays behind. That, and
  purge writing the config back after an overlapping uninstall, is why `ConfigNamesData` says `~raced`. A command that opened
  its store before an uninstall brings the empty directory back when it opens its log (`logging.go:37`).
* Doctor's hint for a missing database is "run columbus reindex" (`doctor.go:228`), which cannot open it when the
  directory is missing; install, which makes the directory, cures both.
* A torn `.columbus.json` is refused by every command, install and uninstall included; it has to be removed by hand.
* `show file` and the links of a search look a path up and read by its id afterwards; a full run in between gives the id to
  another file, whose outline or links are printed.

## 4. Proofs

Proved for all constants that satisfy the assumptions, that is any number of processes, paths, contents, models, runs and
edits, documents and commands, with failures allowed:

| theorem | says |
|---|---|
| `TypesHold` | `Spec => []TypeOK` |
| `CatalogStaysConsistent` | `Spec => []CatalogConsistent` |
| `FilesStayWhole` | `Spec => []WholeFiles` |
| `LockIsHeldByWriter` | `Spec => []LockHeldByWriter` |
| `IndexRunsKeepTheirInvariant` | `Spec => []IInv` |
| `IndexRunsKnowTheStore` | `Spec => [](IInv /\ RInv)`, and from it: |
| `RunsMirrorTheTree`, `GraphsAreComplete`, `RewrittenFilesAreEmbedded` | `Spec => []` `MirrorsTree`, `GraphComplete`, `RewrittenFilesEmbedded` |
| `EdgesStaySupported` | `Spec => [](Alone => EdgesSupported)`; `Alone`: there is one process |
| `FilesStayEmbedded` | `Spec => [](Alone /\ OneModel => AllEmbedded)`; `OneModel`: one model, every run embeds, none is killed |
| `IndexRunsAreAtomic` | `Spec => RunsAreAtomic`, the refinement of `IndexPromise` |
| `MemoriesStayConsistent` | `Spec => []MemoriesConsistent` (of `MemoryStore`) |
| `MemoryIdsAreNeverReused` | `Spec => NewIdsAreFresh`, an action property |
| `MemoryCommandsKeepTheirInvariant` | `Spec => []IInv` (of `MemoryProofs`) |
| `MemoryCommandsKnowTheStore` | `Spec => [](IInv /\ KInv)`, and from it, of `MemoryStore`: |
| `MemoryTypesHold`, `FullTextStaysCurrent`, `VectorsGoWithMemories`, `IndexRunsEmbedMemories`, `DocumentsAreTheStore` | `Spec => []` `TypeOK`, `FullTextCurrent`, `RemovedVectorsGone`, `MemoriesEmbedded`, `DocumentsMatchStore` |
| `UndisturbedEditsKeepTheRest`, `ImportsMergeOnce` | `Spec => EditsKeepTheRest`, `Spec => ImportMergesOnce`, action properties |
| `MemoryCommandsAreAtomic` | `Spec => MemoriesAreAtomic`, the refinement of `MemoryPromise` |
| `QueriesOnlyRead` | `QueriesSpec => Spec`: index runs are not disturbed by queries |
| `QueriesKeepTheirInvariant`, `QueryTypesHold`, `GraphsClose`, `HitsNeverOverlap` | `QueriesSpec => []QInv`, and from it `[]QueryTypeOK`, `[]GraphAnswerCloses`, `[]HitsDoNotOverlap` |
| `UndisturbedQueriesFind`, `SearchesAreExact`, `ShowsAreExact` | `QueriesSpec => [](QInv /\ FInv)`, and from it `[]SearchIsExact`, `[]ShowIsExact` |
| `TypeCorrect`, `NeverBusyForNothing`, `SelectionIsShown`, `EscapeWorks`, `AnswersKeepBoxes` | `Spec => []` `TypeOK`, `BusyIsPending`, `TableShowsSnapshot`, `EscLeadsHome`, and `Spec => BackgroundKeepsBoxes` (of `Dashboard`) |
| `TypeCorrect`, `OpeningGivesTables`, `DataIsNamed`, `WordIsKept`, `MemoriesSurviveOpening` | `Spec => []` `TypeOK`, `OpenedHasTables`, `ConfigNamesData`, `CommandsKeepTheirWord`, and `Spec => MigrationsKeepMemories` (of `Lifecycle`) |

Assumptions: `CatalogAssumption`, `ReindexAssumption`, `MemoryAssumption`, `DashboardAssumption`, `LifecycleAssumption` and
`QueryAssumption` give the constants their types, that of memories also that a document has one record per id and
finitely many, that of queries that no file has two symbols of one name (`dedupeSymbols`, as `NameOf` is the whole of what a
candidate's key has); `DedupeAssumption`, that no content yields two symbols of one identity, is what `dedupeSymbols`
establishes, and no theorem so far cites it. TLC evaluates each of them in the runs of its module.

The argument. `CatalogConsistent` is not inductive: what is committed is `work`, of which it says nothing, and
`SetIndexState` counts rows that must be finite. `IInv` therefore says that

* `db` is `Good` (finite, typed and `Sound`, that is `Consistent` with whole files) and `Counted`;
* `work` is `Good` only: between `PutFile` and `SetIndexState` the counts are wrong, and nobody can see it;
* a process is in its write transaction iff it holds the lock, so that no transaction commits under another's;
* the locals of every run have their types, with what the next write needs: a parsed file has a hash, jobs
  have positive ids.

`CatalogProofs` shows once per statement that it preserves `Sound`: the delicate ones are `PutFile`, where the new ids
must be fresh among *all* rows and the full-text rows must be those of the new symbols and of no old one, and
`DeleteFiles`, where the cascade must take exactly the rows that refer to the file. `ReindexProofs` has a lemma per
action, most of them an instance of one of three: `PrivatelyStep` (a step nobody sees), `WritingStep` (a statement of
the open transaction), `PublishingStep` (a transaction of its own, which leaves a good catalog).

What a run knows (`ReindexProofs` from `Alone` on). `MirrorsTree`, `GraphComplete` and `RewrittenFilesEmbedded` speak of the end
of a run that was left alone, and hold because of what it found at its beginning. `RInv` says it label by label: the scan has an
outcome for each candidate that is no longer to do, and an unchanged file is one whose stored hash is the one just computed
(`ScanFits`, true of every run); hashes and tracked paths are those of the tree (`TreeFits`, as long as the run is `quiet`);
`existing` is what the catalog has, the open transaction differs from the catalog at the paths already dropped or
written and at no other (`WriteFits`), what was committed is `Written`, and what the graph phase read is what is there (`StoreFits`);
and in the embed phase every vector that a planned file lacks is owed, by a carried vector, a symbol job, a fallback or a
slot, and every pending job has the right vector for a row that is still there (`EmbedFits`). The last two are kept as long as the run
is `Sole`: quiet, or the only process. It is `Sole` and not `quiet` because a single process may be
disturbed by an edit, which changes what it knows of the tree and nothing of the catalog; that is what lets
`EdgesStaySupported` use the same invariant. The delicate steps: `PlanFile`, where the ids of a file's symbols, in order,
must number the parsed symbols one by one (`PlacedFrom`, `PlanFileAdds`); each stored vector, which must not hit the owner of another
(`SymbolStored`, `FileStored`, by the uniqueness of ids); and `Seal`, where nothing is owed any more, so that everything is right
(`NothingOwed`). TLC checked `RInv` on three instances before it was proved, one of them with
two processes and one with failures; the panic of `StoreAndPanic` is possible only for a run that is not `Sole`.

Two properties are about a store that only one process writes, as their runs are; here that is a hypothesis, since with two
processes they are false (a run that overlaps another resolves rows it has not read). `EdgesSupported` says of each edge that its one
file has an import (or its other the name of a test) that *may* mean the other, not that it is the first candidate there is: adding a
file redirects imports, and the edges follow only with the graph. `SInv` is enough for `EdgesStaySupported`: an edge stays supported as long
as both its files stay as they are, which the cascade and the fresh ids of `PutFile` guarantee in `work` too, and `ReplaceGraph` writes
edges to first candidates, which are candidates (`ResolvedJoins`).
`AllEmbedded` is not about one run but about what all runs leave behind, and false when a run is killed or embeds nothing, which the
finding `died` is about. `AInv` (checked by TLC on the instance of `solo`) says that every file is embedded or was rewritten by the run
under way, which owes it (`Covered`), and that what a run captured names the rows it is going to replace or drop and, once they
are replaced or dropped, no row that stays (`CaptureFits`). That is the delicate point: ids are reused, and `dropCaptured`
deletes by id, after the commit. It is safe because `PutFile` gives an id again only to a file of the same write, whose vectors are
stored after the purge (`CommitCovers`, `PurgingCovers`).

The refinement (`PromiseProofs`). What a search finds at a path is a function of the file row there (`NothingShown`,
`ShownFile`: this is where `Sound` is used), so each statement of the write transaction changes what is shown at its own
path only (`DeleteShown`, `PutShown`, `ClearShown`). The invariant needed beside `IInv` is `Progress`: a path already
written shows the new content in `work`, one already dropped shows nothing, and one the run is not going to touch shows
what `db` shows; nothing is written before everything is dropped, or a path both dropped and written could come out wrong.
At the commit both loops are done and `Progress` says that `work` is `db` with the offer on top. Every other step is a
stutter, an offer, a withdrawal or a clear (`StepKinds`); it cannot disturb another's `Progress`, as `db` changes only
while nobody is in a write transaction.

Memories (`MemoryProofs`). `MemoriesConsistent` is not inductive for two reasons. New evidence gets the seat after the
last, so the seats of a memory need a bound (`BoundedSeats`, part of `Good`). And what is imported was read from a
file that an export wrote, which was put together from reads that others interleaved with; so documents must be good
wherever they are, in `file` and in the locals of every command (`GoodDocument`: one record per id, one piece of
evidence per seat). An export's document has one record per id because the ids still to come are never in it already
(`GoodRun`). For the ids, `IInv` says that no id ever used is above the counter: `NextMemSeq` takes the next one, a
default import as many as it has new records (`RenumberedFresh`: rank in the document gives each its own), and
`SetMemSeqAtLeast` is what keeps it true when `--preserve-ids` brings ids from elsewhere (`ImportPreservedGood`). The
lemmas up to `AnchorsOfGood` are about methods, those up to `EndEmbedStep` about actions, most of them an instance of
`PrivateStep`, `CommittingStep`, `AdvanceStep` or `TakenStep`.

That says of the tables what is true whoever disturbs whom. The other properties of `MemoryStore` are about commands that are
*not* disturbed, or only in some memories (`dirty`), and need to know what such a command knows. `KInv`, beside `IInv`, says it
for every place a command can be at: what `MemoryFull` has read so far is what the tables still hold (`Seen`: title and body after
the first read, tags after the second, and so on), unless the memory is dirty; what an export has written is what is stored
(`Exported`); what an import has hashed is what is stored, and nothing else (`Hashed`); what an index run has passed has its
vector or a job for it (`Embeds`); and a document that was restored is there (`IsRestored`). `Pending` is the escape of each:
memories that are dirty, yet to be visited or being read. `KInv` was checked by TLC, on an instance of 1.2 million states, before
it was proved. What
a step does to one command is a lemma per action (`ReadRowKnows` and so on); what it does to all others is `KnowsAfterOthers`: their
knowledge of every memory that the step does not mark dirty survives, since each repository method leaves the memories it is
not about alone. So a memory that `Committing` forgot to mark would surface as a step that cannot be proved. At the end of a
command nothing is `Pending` but what is dirty, which gives the properties. `ImportsMergeOnce` needs more: an import adds one record
per hash that is not known (`OneOfEachIsNew`, `NewRecordsDiffer`), and two records have one hash exactly if they say the same
(`HashIsContent`).

The refinement (the last part of `MemoryProofs`). By `Good`, a row has all of its satellites under one id and all evidence
has a seat, so a memory is whole exactly if it is all that is stored under its id (`WholeIs`). What a statement leaves alone
is therefore the same memory before and after (`WholeSame`), what it inserts joins the others (`WholeGrows`), and what it
changes takes the place of what was there (`WholeReplaced`). Beside `IInv` and `KInv` the proof needs `PInv`: the ids in the
table, and those that an export has in hand, were given; an edit makes a change users make; only a removal is at `remove`.
TLC checked `PInv` before it was proved. Each action is then a step of the promise or a stutter, in one lemma: most are
instances of `PrivatePromise` (a read, which changes no memory and takes in hand or lets go at most) or `QuietCommit` (a
transaction of a command that holds nothing). The delicate steps: `ApplyChangeWhole`, that what `UPDATE`, `INSERT` and
`DELETE` leave under the id of an edited memory is the change of the promise, seats of new evidence included;
`UpdatePromise`, where the memory may have been changed or removed since it was read, and an edit whose memory is gone must
be a `LetGo`; `RenumberedRenewed`, that fresh ids leave records that say different things different; and `SayTheSameIs`,
that equal hashes mean the same in both specifications.

Queries (`QueriesProofs`, on top of `ReindexProofs`). A step of a query leaves all variables of `Reindex` alone, and a step
of `Reindex` leaves a query alone but for `quiet`; so `QueriesOnlyRead`, and `TypeOK` of `Reindex` holds under queries. That is
all the invariant needs of the store: what a statement returns has the type of rows, whatever commits before the next.
`HitsFit` is established by `Rank` (`FoldFileHits` leaves no file beside a symbol, `AtMost` keeps the limit) and kept because
no later step adds a hit; the place matters, since `ReadOutline` of `show file` does add a file beside its symbols.
`GraphFits` is established by `ReadUnresolved` from `Project` alone (`ProjectionCloses`), for any four reads: nothing about the
store could make it true, because the four may see four different stores. Cardinalities are shown to be equal by equality of
the sets counted, so no finiteness is needed.

`SearchIsExact` and `ShowIsExact` are about queries during which nothing changed (`quiet`), in a store whose kNN table
memories share and with a grep that stops at its cap. `FInv` says, place by place, what
such a query has found: the owners still to be fetched have the vectors they were found by, or match (`IdsTrue`); everything
found is a candidate and has its own vectors (`FoundTrue`); what is near, or matches, is found or about to be, unless there are
more vectors than `VecK`, memories' counted (`NearUncut`), or more matches than their cap (`NearFound`, `MatchesFound`); each line grep
has found is attributed or still to be, and it has found all of them unless there are more than `ContentCap` (`LinesFound`,
`GrepUncut`); ranking leaves the
folded candidates (`HitsTrue`); each line and link is that of the tree and the graph or still to be read (`LinesTrue`,
`LinksTrue`); and the edges of a graph are those of the statements made so far (`GraphTrue`). Any step that changes
the store, the tree or a memory's vector ends `quiet`, so there is one lemma per action of a query and one for everything else
(`MeanwhileFinds`). TLC checked `FInv` on the instance of `queries` before it was proved. The delicate steps: `TakeNear` and
`TakeMatch`, where an id must have one key (`OneKeyAt`, by `Good`) and the rescue must not overwrite the vector of a hit
(`TakeMatchFinds`); `ReadNeighbours`, which reads by an id that was looked up before (`LinksOfRow`); and `Project`, which keeps the
files with fewer than the cap ahead of them: their ranks are distinct, so as many remain as the cap allows (`CentralFits`). The proof
also showed which cap matters to which kind of search, and `SearchIsExact` was strengthened accordingly: a keyword search is
complete whatever `VecK` and `RescueCap` are, if `CandidateCap` and `ContentCap` do not cut; one by vectors whatever
`CandidateCap` and `ContentCap` are, if `VecK` and `RescueCap` do not; and what a hit keeps of its vectors or lines depends on no cap of
matches.

Dashboard (`DashboardProofs`). The invariant adds two facts to the properties: the search box and the confirmation are never
open at once (`OneBox`, without which the box that is drawn is not the one that gets the keys: `View` and `handleKey` ask in
different orders), and a load that has succeeded has seen exactly three versions (`SeenOK`). The heart is one lemma per kind of
step on commands in flight: what is announced stays in flight, because the first answer of its kind clears a flag, and a
reindex, whose flag is an equivalence, is alone of its kind.

Lifecycle (`LifecycleProofs`). `IInv` says of stores that a file belongs to one project, that files not yet created hold
nothing, and that a store at the latest version has its tables and no others (`StoresSound`); and of a process, that its
next call has what it takes for granted: an id, a file that is nobody else's, and the tables once it has opened (`Good`).
What one process does to the stores of another is one formula, `Evolves`: files only grow in number, needed tables never go,
and a file never becomes another project's. `MemoriesSurviveOpening` follows from `StoresSound` and from what migration 6
requires: a store of the present schema, by its version (then `StoresSound` gives its tables) or by its tables, has none of
the tables it drops, so it fails and undoes its wiping, whoever applies it and however late. `DataIsNamed` needs an
invariant of its own, `NInv`: as long as nothing has raced, a process that owns the project runs alone, and whatever it is
going to write or remove next belongs to the id it read. `WordIsKept` is about one command that runs alone in whatever state
others have left. `WInv`, checked by TLC on the instance of `lifecycle` first, says that nobody runs beside it, and what it
has achieved so far by the place it has reached (`Due`): the config is its project's from `write` or `load` on, the
directory is there from `mkdir` on, the store it has open is the one that the directory links, and so on. Little is said
about the states that killed commands leave; it is enough that a file that was never created is empty (so that purge ends
with a store like a new one, `NewStoreMigrates`), and that whatever stops a command (`torn`, no directory, a store that is
`Stuck`) still holds when it stops, which is what `Excused` looks at.

Only model-checked: `SettlesOnStore` and `RunsEnd`, as liveness under fairness is beyond the prover. Every invariant and every
other action property that a passing run checks is proved; `EdgesSupported` and `AllEmbedded` under the hypotheses above, which are
those of their runs.

## 5. Not modelled, and the plan

Not modelled:

* extraction and embedding: pure functions of a text, for which constants stand (`SymbolsOf`, `ImportsOf`, the `Vector`
  operators); tree-sitter and the model are not part of the repository;
* scores and `why` (`search/rank.go`): floating-point sums over signals. What the model keeps is everything a score is computed
  *from* that can go wrong, namely which vector, match and grep hit a candidate has;
* the memories section of search, linked memories and show memory: one read of ids, then `MemoryFull` per id, which
  `MemoryStore` has step by step for the other commands;
* HEAD, the branch and the dirty flag, and what doctor and `graphs` say about freshness: written at the end of a run, compared
  once, decided by nothing else. That they may be older or newer than what was indexed is hazard `index/index.go:326`;
* doctor's checks of programs, grammars and the model; the values of settings; snippets, did-you-mean, rendering, logging,
  command-line flags: no state.

Plan, in the order it was made:

1. *(done)* `Catalog`, `Reindex`, `IndexPromise`, their runs, the theorems above and the refinement.
2. *(done)* `MemoryStore`, its runs, the consistency of its tables and the freshness of ids.
3. *(done)* `Dashboard` with liveness and the proof of its safety properties.
4. *(done)* `Lifecycle`: install, purge and uninstall with kills, opening and migrations by several processes, and proofs.
5. *(done)* `Queries`: search, show, graphs and live resolution over a store that changes, composed with `Reindex`, and proofs.
6. *(done)* Proofs of what undisturbed memory commands and index runs leave behind, and of what undisturbed queries answer.
7. *(done)* What overlapping memory commands do, two imports among them: `MemoryPromise`, its refinement by `MemoryStore` and the
   proof of it.
8. Open: freshness (HEAD and the dirty flag against doctor's hints), and the fusion of scores as an order.
