# Verification of the mortis coding server

The server keeps read-only copies of Git and SVN repositories, refreshes them on
a schedule, searches them, and lets users edit them in private copy-on-write
sessions.  Its hard part is that three kinds of task work on one directory tree
without a common lock: syncs publish new revisions and make them current,
requests read them, and collectors delete those nobody needs.  This directory
holds TLA+ models of it, the TLC configurations that check them, and proofs
checked by TLAPS.  `PROJECT.json` lists every run, the source lines of every
definition, the hazards and the findings.

    tlc -workers 2 -config SnapshotGC_live.cfg MCSnapshotGCHistory
    tlapm SnapshotGC_proofs.tla

The proofs about a module `M` are in `M_proofs.tla`; those about
`SnapshotGCHistory` are in `SnapshotGC_proofs.tla`, those about
`SessionStoreHistory` and `SessionSearch` in `SessionReads_proofs.tla`.

## Inventory

| component | state | operations | interacts with |
|---|---|---|---|
| Repository registry (`mortis-app/src/registry.rs`) | per repository: current snapshot (RwLock), sync mutex (async), lease counts (std mutex) | `sync_lock`, `set_snapshot`, `lease_current`, `gc_protected`, drop of a `BaseLease` | called by the services; empty after a restart |
| Services (`mortis-app/src/services.rs`) | none of its own | `sync_repo`, `sync_all`, `rehydrate_all`, `gc_all_snapshots`, `search_*`, `read_*`, session and assembly calls after `authorize` | every other component |
| Scheduler and startup (`mortis-server/src/scheduler.rs`, `lib.rs`) | timers | one sync job per repository, the session reaper followed by a collection, the assembly reaper; at startup rehydrate, then a sync of everything in the background | starts tasks that run the services |
| Snapshot publication (`mortis-vcs/src/publish.rs`, `git.rs`, `svn.rs`) | `snapshots/<head>`, `snapshots/.staging-<head>`, `vcs/` | `sync` (fetch, resolve, publish), `rehydrate` | the tree is deleted by the collectors |
| Disk session store (`mortis-session`) | per session: `meta.json` (owner, base, whiteouts, last access) and `upper/`; one write mutex | create, write, edit, delete file, status, diff, touch, delete, reap, `referenced_bases`, `view` | pins a snapshot directory |
| File views (`mortis-fs`) | whiteout set copied at creation | list, resolve, read | search and session reads |
| Assembly store (`mortis-asm/src/lib.rs`) | map of sessions (RwLock), per session phase, outcome, progress, last access; a directory with the binary; one background task each | create with a background download, get, list, queries, delete, reap | its reaper job, the downloads |
| Binary analysis (`mortis-asm/src/binary.rs`) | none | describe, disassemble a range, resolve a function | assembly store |
| Search engine (`mortis-search`, `mortis-core/src/search.rs`) | none; a cancel token per search | search of a view with a cap, a context window and cancellation | services, file views |
| History and blame (`git.rs`, `svn.rs`, `filter.rs`) | none | list, read, blame, history at a revision | services |
| Core model (`mortis-core/src/model.rs`) | none | slices of files, path guard, revisions | everywhere |
| Front ends (`rest.rs`, `mcp.rs`, `auth.rs`, `error.rs`) | the token table | translation of a request into one call of the services, and of its error | services |
| Configuration, logging, embedded svn | read at startup | | |

What is hard: tasks interleave at every lock, await and file-system call; a
future can be dropped while the blocking thread it awaits goes on; sets read
under one lock are used after it is released; a crash keeps the disk and loses
every lock and lease; a removal may fail half way; sessions are read without the
store's lock.  What makes each component correct:

* registry and collection: a base that is current, leased or pinned by a session
  is a complete tree (which the code achieves only between syncs, see below);
  everything else is eventually deleted; counts are exact;
* publication: what is published is complete and has one writer;
* session store: an edit never loses another, the three ways of resolving a path
  agree, a deleted session does not come back;
* assembly store: a session's life is seen in order, the cap gives way only to
  concurrent creations, queries see validated bytes, failures leave none that can be
  removed, idle sessions go;
* search: the result is a prefix of the search in repository order, every lease is
  returned, and an abandoned walk stops;
* the pure functions: pages add up to the whole, a hit or an instruction is shown
  at its place, a diff tells what changed, and two front ends or two backends that
  do the same thing by separate code give the same answer.

## Modules

`SnapshotGC.tla` models the registry, the sync, the publication and both
collectors, with the pins of the sessions and a restart.

| state | code |
|---|---|
| `current`, `leases`, `syncLock` | the three fields of `RepoEntry` |
| `tree[r][b]` | the directory of base `b`: absent, whole, or torn (partly deleted or published incomplete) |
| `staging[r][h]` | `.staging-<h>`: absent, clean (one fill since it was created) or mixed (cleared and filled again under another fill) |
| `pin[s]` | `base_path` in the session's `meta.json` |
| `pc`, `repo`, `base` | where a task is, its repository and the head, lease or directory in its hands |
| `referenced`, `todo`, `keep`, `victims` | the locals of `gc_all_snapshots` and `gc_entry` |

One action is one stretch of code between two points where another task can be
observed.  `sync_one` is `SyncBegin` (lock taken), `SyncResolve` (fetched, head
known), `PublishReuse` and `CountFiles`, or `PublishStage` and `PublishRename`,
then `SetSnapshot`, and the collection `GcScan`, `GcCapture`, `GcList`,
`GcRemoveBegin`/`GcRemoveEnd` for each directory, `GcRepoDone`, `GcDone`; every
error path returns and drops the guard.  The reaper job enters the same
collection by `ReapBegin` and loops over the repositories.  A client leases the
current base (`SearchBegin`, `CreateBegin`), makes its pin durable
(`CreatePersist`) and drops the lease, also without having finished
(`ReleaseLease`).  `SyncDropped` is the future of a request being dropped while
its publish runs on a blocking thread; `DetachedEnds` is that thread's end.
`GcScan` reads the pins under the store's lock and passes over any of the sessions
in `Unreadable`, whose record may fail to load.  `Restart` keeps the disk, forgets the
rest and rehydrates.

Abstractions: the contents of a tree are whole or torn; which head a fetch
resolves to is any revision, older ones included, because branches move both
ways; time is not modelled, so any set of sessions may have expired; which
published directory rehydration adopts is any of them, or none, as when the
directory cannot be read.

`SnapshotGCHistory.tla` adds two history variables, to say of the code what its reads
do guarantee: `spared`, the sessions and leases each collector has seen and must
spare, and `revived`, the revisions that syncs have made current since it captured its
keep-set.  `MCSnapshotGCHistory.tla` adds the symmetry sets for TLC.

`SessionStore.tla` models the disk session store, its callers in the services and
the overlay view.

| state | code |
|---|---|
| `dirs`, `live` | session directories; those with a readable `meta.json` |
| `deleted`, `age` | the whiteouts in `meta.json`; ticks since `last_accessed`, stopped just above `Ttl` |
| `upper` | the files of `upper/`, a file being the set of the marks of what was written to it (`{}` is also the base's content) |
| `lock` | the store's `write_lock` |
| `pc`, `kind`, `sid`, `path`, `rec`, `new` | where a call is, its arguments, the whiteouts it loaded or is to store, the content it writes or reads |

Every call is `Authorize` (the session loaded), `Touch` (under the lock; that the
session is gone or the store fails is ignored), and then the call itself, which may find
the session gone (`NotFound`).  A mutation takes the lock and first touches the disk
(`WriteBegin`, `EditBegin`, `DeleteFileBegin`, `DeleteBegin`), fills the truncated file
(`Fill`), and stores the metadata by a rename (`Store`); a removal deletes some of the
directory and then the rest (`RemoveSome`, `RemoveAll`).  The reaper does one pass under
the lock (`ReapBegin` to `ReapEnd`).  A read opens a view with its own copy of the
whiteouts (`ViewOpen`), resolves (`ReadResolve`) and reads (`ReadUpper`), with no lock,
so its steps fall anywhere between those of a mutation.  `CallFails` is a failed
file-system call and `Restart` a crash, both with what was done left on the disk.
Owners are left out (a call by another principal ends in `authorize`), and so are paths
that are a file on one side and a directory on the other.

`WholeFiles.tla` is what the store promises: sessions that are whole files, and
calls that take effect at once.  `SessionStore` implements it when nothing
crashes or fails: a session being removed is already gone, and a file being
written has already its new content (`Kept`, `Bar`).  `SessionStoreHistory.tla`
remembers the content last committed, to say what a read and a restart owe it.

`AsmStore.tla` models the assembly store.

| state | code |
|---|---|
| `map` | the ids in `sessions`, under its RwLock |
| `idle` | ticks since `last_accessed`, stopped just above `Ttl` |
| `phase`, `outcome` | the atomic and the mutex of `AsmSessionState`, which are stored apart |
| `got`, `file`, `dirs` | chunks downloaded; chunks in the file on disk; the session directories |
| `dl` | the step of the download task, which holds its own reference to the state |
| `pc`, `sid`, `todo` | the step of a request or of the reaper; the reaper's list of expired ids |

A creation is `CheckCap`, `MakeDir` (awaited, so the request may go: `CreateDropped`)
and `Insert`, which spawns the download: `OpenFile`, `Chunk` by chunk, `Downloaded`,
`Validated` or `DownloadFails` and `CleanUp`, then the outcome (`Validated`, `Fail`) and
the phase (`Settle`).  `Delete` and the reaper's `ReapNext` take the entry out of the
map and then remove the directory (`RemoveDir`), with no regard for the task.  Errors of
a removal are ignored by the code, by the clean-up of a download as well as by a
deletion: the file of an id in `Undeletable` may stay (`Unlink`), and the code goes on
as if it had not.  `AsmLifecycle.tla` is what a client that polls `get` is promised;
`AsmStore` implements it.  What a download does between the removal of the entry and
that of the files is moved before it, since nobody can look at the session any more; a
chunk stands for any number of bytes.

`SearchAll.tla` models `search_all`: the stream of futures (`Start`, `Finish`, `Yield`
and its endings, `HangUp`), the detached walks (`Poll`, `ReadFile`), which outlive the
future that started them, the leases and cancel tokens, and a collector that takes files
a walk has yet to read (`Reclaim`), whether the tree is leased or not, since a lease
does not stop a reaper that captured its keep-set before.  `DropAll` is what Rust's
drops do when the stream goes: every future in it gives up its lease and sets its token.

`SvnSync.tla` models the Subversion backend's sync and the rehydration by
modification time: the revision number (`Info`), the child process that exports
(`ExportStart`, `ExportEnd`, and the same after its caller is dropped), the
publication of what the export directory holds (`Publish`), and a repository others
commit to (`Commit`).  `Restart` takes the child processes with the server, as the
restart of a machine or a container does; one that outlives the process would write
beside the next server's, as the child of a dropped sync does.  A tree is the revision
it is of, or a mixture.  Here the staging of `publish_snapshot` is one step and the
collector starts only between syncs; both are `SnapshotGC`'s subject.

`SessionSearch.tla` extends `SessionStore` with a search of a session, with the
creation of sessions and with the collector of the session's base, which are three
components that meet on two directory trees.  A search of a session leases nothing:
what keeps its base is the session's pin, the session may go while it is searched, and
a collector may have missed the pin.

| state | code |
|---|---|
| `current`, `disk` | whether the base is still the repository's snapshot; its files that are on disk |
| `leased` | the sessions that are being created, each with a lease on the base |
| `gc`, `pinned` | a collection, of a sync or of the reaper; whether its scan found a session |
| `step`, `ses`, `hidden` | where the search is, its session, its view's copy of the whiteouts |
| `candidates`, `file`, `layer`, `found`, `outcome` | the walk: files left, the file in hand and its layer, files with a match, the answer |
| `touched` | history: paths changed since the view was opened |

`SearchBegin` and `SearchTouch` are `authorize`, `SearchOpen` is `view`; the walk
lists the two layers one after the other (`ListBase`, `ListUpper`), and for each file
resolves it (`Resolve`, which passes over one that vanished), resolves it again inside
`read` (`ResolveAgain`, which fails) and reads it (`ReadFile`).  `SetSnapshot` is a sync
that supersedes the base; `GcScan` (which passes over records it cannot read),
`GcCapture` (which keeps what is pinned, current or leased) and `GcRemoveSome`
(removing any files first) are the collection.  A creation leases the current base
(`CreateLease`), and is stored (`StoreStep`) or given up (`CreateDropped`) at any later
time.  The files are searched in any order, which allows every order the sorted list
has.  A base that is superseded does not become current again here, which is
`SnapshotGC`'s subject, as failures of the store are `SessionStore`'s, and the token of
a dropped search `SearchAll`'s.

The stateless code is a module of operators for each part, with what is asked of
them below the line in the same module, and one module, `Algorithms.tla`, that puts
them all to the question: a behaviour picks an input, and an invariant per
property compares what the code answers with an independent statement.
`MCAlgorithms.tla` lists the inputs.

| module | code | abstractions |
|---|---|---|
| `Slices` | `slice_file_content`, `count_lines` | bytes are newlines or not |
| `SearchText` | the search of one file: lines, terminators, context windows, globs, cap | a line matches when it holds a given character; a file fits the searcher's buffer, so a NUL in it is seen before any hit |
| `EditText` | both edit formats, status, the two diffs | a diff of a short file is one hunk; every line, the last one too, ends in `\n` or `\r\n` |
| `VcsReads` | resolution of revisions, tree walk, filter, file history, paging, blame | the object store is a function, the walk a sequence |
| `Binaries` | slice of a fat file, address to bytes, function of an address | addresses wrap at `Word`; sections, segments and symbols are given |
| `FrontEnds` | every route and every tool, bearer authentication, errors | a request is a record, an answer the call made of the services; `get_session`, which only REST has, is left out |

## Runs

| run | instance | shows |
|---|---|---|
| `snapshot_sync` | 2 syncs, 3 heads, 2 clients, 2 sessions, of one of which the scan may not read the record, no reaper | types; a publish keeps its staging directory (`StagingHasOneWriter`); `LeaseAccounting`; `GcSparesInUse`: no collector deletes a base pinned by a session it saw alive, or leased by a reader it saw; current, leased and published trees are whole |
| `snapshot_live` | 1 sync that may be dropped or hang, reaper, client, 1 fault | a directory marked for deletion is used again only in the reaper's hands, after a sync made it current again (`VictimsUsedOnlyIfRevived`); garbage is reclaimed |
| `snapshot_pin_race` | 1 sync, client, session | violation: a pinned base is deleted |
| `session_files` | 2 requests, 1 read, reaper, 1 session | `ImplementsWholeFiles`: no edit is lost and every call is atomic; `ResolversAgree`, `StatusExact`, `NoResurrection`; `QuietReads`: a read no mutation overlaps returns the committed content |
| `session_reap` | 2 sessions on a base without the path, 1 request, reaper, 1 fault | only idle sessions are reaped, every expired one is, every request returns |
| `session_restart` | 1 request, 1 fault | violation: a crash inside a write or deletion loses an earlier edit |
| `asm_store` | 2 creators, 1 caller, reaper, 2 ids, the file of one of which may refuse to go, cap 1 | the cap is exceeded by concurrency only; queries read validated bytes or none; failures leave bytes only where the removal was refused (`BytesLeftOnlyIfUndeletable`); `ImplementsLifecycle`; idle sessions are reaped |
| `search_all` | 3 repositories of 0 to 2 files, 2 at a time, caps 0 to 3 or none, a collector | the answer is the start of all matches in id order; leases last as long as the search and no longer; an abandoned walk reads one more file at most; every search and walk ends, in an error only for a file that could not be read and was needed for the answer |
| `session_search` | 1 session, 2 paths (one in the base), 1 request, reaper, 1 search, 1 collector that may have missed the session | a search is right about every file nobody changed or took meanwhile, and fails only when its session or its base goes or a file changes (`UntouchedFilesAnswered`) |
| `svn_sync` | 2 syncs, revisions 9 to 11, 1 crash, 1 drop, 1 failure | a snapshot is one revision not older than its name; a restart serves the newest; the server catches up |
| `svn_head_race` | 1 sync | violation: the snapshot of a revision holds a later one |
| `algorithms` | 166,902 inputs of the pure functions | the eight properties of `Algorithms.tla` |

The passing runs and the violations belong together: `snapshot_sync` shows that the sync
lock alone is enough between syncs, without the reaper, faults and dropped futures.  The
program always has its reaper, so `CurrentWhole`, `LeasedWhole` and `PublishedWhole` say
what the sync lock is worth, and not that a base in use is safe: it is not, and
`VictimsUsedOnlyIfRevived`, checked with the reaper, a dropped sync and a fault, says in
which case it is lost.  The violations, and the disagreements listed below, each add one
of these and show what breaks.  `session_files` has no faults, since a call that fails
between its two writes breaks `ResolversAgree`; `session_reap` and `session_restart`
have them.

Bounds.  One repository: repositories share only the session store and the
reaper's loop, and a second one adds no interaction between their trees.  Two
heads let a current base be left, collected and come back; the third, in
`snapshot_sync`, lets one be leased, one current and one published at once.  Two
syncs are a scheduled and a manual one; two sessions are one whose record the scan
reads and one whose record it may not.  `snapshot_live` has no session: the reaper's
stale keep-set and list are what it is about, and a pin is one more member of the
keep-set.  `MaxFaults` bounds the restarts and the
failed removals; one is enough for a directory to be left torn and met again.

For the session store, one session and one file carry every interaction of the
calls, since a call works on one path of one session; `session_files` has it in the
base, `session_reap` does not, and the second session lets a directory without
metadata stand beside an expired one.  `Ttl = 0` leaves a session one tick from expiry, the
least in which a touch can still save it.  Two editing requests are the least in
which an edit can be lost.

The search of a session needs two paths: one to change and one
that must not suffer, of which one comes from the base and the other only from
`upper/`; one request at a time is what the store's lock allows.

For the assembly store, a cap of one with two creators is the least in which the cap
is exceeded; one id is being downloaded while the other is created or removed; a
limit of one chunk lets a download be within, at and above it.  For the search,
three repositories and a fan-out of two have one waiting, one running and one
finished out of order, and the trees hold none, one and two matches a file and an
unreadable file.  Revisions 9 to 11 compare differently as numbers and as names.
The inputs of `algorithms` are every text of up to four, five or six characters with every
cut of it, every pair of edits over two characters, every session over an ordinary
path and one of a VCS directory, every address of a space of eight with ranges from
a list, and every request with each argument present or missing.

Fairness (`FairSpec` or `FairHSpec`, or `Spec` where a module has only one).  For the
snapshots, the runtime keeps running a task that can run (weak fairness of each task's
steps), the reaper's timer fires again and again, and the sessions directory is not
unreadable for ever (strong fairness of the reaper's `GcScan`).  No request, sync or end
of a search is assumed to happen: a fetch or a fill waits for a child process without a
timeout (`mortis-vcs/src/git.rs:355-358`), so a sync may hang and keep its lock, and
nothing is promised about that lock.  For the sessions, a call that holds the lock runs
on (weak fairness), and one that waits for it gets it in the end (strong fairness:
tokio's mutex queues its waiters first come, first served), the reaper's job included;
nothing is assumed to fail or to crash, and time need not pass.  For the assembly store,
requests and downloads under way run on (the HTTP client has a timeout, so no chunk is
waited for without end), and the reaper's timer fires.  For the search, the runtime
polls the future as long as it is there, and the blocking pool runs every walk.  For
Subversion, the schedule syncs again and again and wins the lock in the end (strong
fairness), and every child process ends: the code puts no time limit on one, so
`Converges` is what the server does as long as none hangs.

## Proofs

Every invariant and every safety property of a passing run is stated by a theorem,
for every value of the constants the module's assumptions allow, but `CurrentWhole`,
`LeasedWhole` and `PublishedWhole`, which hold only where `snapshot_sync` looks; the
runs show that the assumptions are met and that the interesting cases happen.

`SnapshotGC_proofs.tla` proves, for every number of repositories, revisions,
tasks, clients, sessions and faults:

* `TypeCorrect`: `Spec => []TypeOK`;
* `LeasesCounted`: `Spec => []LeaseAccounting`, the count of each base is the
  number of live guards on it;
* `StagingExclusive`: if `Manual = {}`, `Spec => []StagingHasOneWriter`.

The three follow from one inductive invariant, `IInv`.  `LeaseAccounting` alone is not
inductive: the release of a lease subtracts one at the base the client remembers,
which must be a revision (`LocalsOK`), and the count must be above zero for the
subtraction to be defined, which is what the accounting gives.
`StagingHasOneWriter` rests on `LockHeld` (a sync past its first step holds its
repository's lock, unless its future was dropped) and on the collectors of syncs
working on their own repository only.  The assumptions are those named in
`SnapshotGC.tla`: the sets of tasks are disjoint, `None` is none of the values,
the clients are finitely many, `Manual` is a set of syncs.

The second part of `SnapshotGC_proofs.tla` proves `InUseSpared`: `HSpec => []GcSparesInUse`.
Its invariant `HInv` follows a witness through a collection: it stays alive
(`WitnessesAlive`), its pin is in the scan (`SessionsScanned`), what it uses is in
the keep-set (`UsesKept`) and so is never among the victims (`UsesSpared`).  Two
facts of every step carry it: the use of a witness does not change while it lasts
(`UsesStay`), and a collector that does not step keeps its locals (`Moves`).  The
capture needs `LeaseAccounting` from `IInv`: a client that holds a lease makes the
count of its base positive, so the base is protected.  It assumes besides that
session ids and requests are different things (`ClientsAreNotSessions`).

The module ends with `VictimsRevived`: `HSpec => []VictimsUsedOnlyIfRevived`.  What a collector
has marked was neither current nor leased at the capture, so whatever is in use again is
among the revived (`RevivedOK`).  A lease is only taken of the current base, so it adds
nothing to what the last `SetSnapshot` revived; a collection at the end of a sync holds
the lock (`LockHeld`), under which no other sync sets a snapshot, and there nothing is
revived.  The theorem has dropped syncs, reapers, faults and restarts.

`SessionStore_proofs.tla` proves, for all sessions, paths, editors and readers,
`TypeCorrect`, `GoneForGood` (`NoResurrection`) and `ReapsIdle` (`ReapsOnlyIdle`) with
any number of failed calls and restarts, and `OrdersAgree` (`ResolversAgree`) and
`StatusIsExact` (`StatusExact`) when `MaxFaults = 0`.  In its `IInv` the lock is held from
the first step of a mutation to its return (`LockOK`), so the record a mutation is
about to store is the one on disk but for its own path (`RecOK`), and the reaper's
list holds sessions still expired (`ReapOK`).  `Clean` is the part that a fault breaks:
a path has a whiteout and an upper file at once only under the call that replaces one
by the other, or in a session being removed.

`WholeFiles_proofs.tla` proves the refinement, `CallsAreWhole`: when `MaxFaults = 0`,
`Spec => ImplementsWholeFiles`.  `RInv` adds to `IInv` that a request has new content
exactly while it writes it and that a filled file holds it (`NewOK`); each action has
a lemma that maps it to a step of `WholeFiles` or to none.

`SessionReads_proofs.tla` proves what the readers without the lock are owed, from
`IInv` of the store; nothing is assumed of the collector.

* `QuietReadsCommitted` (`QuietReads`): as long as no mutation of its session overlaps
  a read, the whiteouts it copied are those on disk and the content it should give is
  that of the view (`QuietOK`); a session's files change only in steps that find or
  leave it under a mutation (`QuietStep`).
* `UntouchedAnswered` (`UntouchedFilesAnswered`): for each file that nobody changed, the
  search knows whether the view shows a match, or has the file ahead (`SearchOK`); the
  layer in which it resolved the file is still the one that shows it.

`AsmStore_proofs.tla` proves `CapIsSoft`, `ReadsAreValidated`, `BytesAreRemoved`
(`BytesLeftOnlyIfUndeletable`) and `LifeInOrder` for all ids, creators, callers, caps
and limits.  The cap needs sessions and creations counted together, and that a creation
keeps the id it drew to itself (`Reserved`).  `Progress` relates the step of a download
to the phase, the outcome, the bytes and the file, whatever became of its session.
`LifeInOrder` is the safety part of the refinement of `AsmLifecycle`, one session at a
time; that every session settles stays with TLC.

`SearchAll_proofs.tla` proves `LeasesHeld` and `LateReads` for every number of
repositories, fan-out and cap: while the search runs, a walk under way has its future
and with it the lease, and dropping the futures gives every lease back (`Bracketed`); a
walk that read one file too late has seen its token and reads no other (`LateOnce`).
`FirstMatchesAnswered` (`AnswerIsFirstMatches`) has an invariant of its own, `AInv`: a
walk has found the matches of the files it read and stays below the limit until it stops
there (`HitsFit`); the stream has put together those of the repositories before its
head, in order (`AllFit`).  A walk cut at its own limit fills the answer whatever came
before it, since that limit is no lower than the answer's.

`SvnSync_proofs.tla` proves `SnapshotsWhole` (`SnapshotAtLeastRev`) for all revisions,
syncers, restarts and failed exports.  Its invariant is conditional on no sync having
been dropped, as the property is: then the lock is held throughout, what an earlier
export left is removed before the next begins (`LeftoverUnused`), and the export of the
sync at work is its own (`ExportOwn`).  `NewestServed` (`RestartServesNewest`) holds with
any number of dropped syncs: the directories are in the order of their revisions, but
for those half removed (`Ordered`), since a sync that knows its number is alone and
nothing newer is published while it works (`NewestYet`).

`Algorithms_proofs.tla` proves the properties of the pure functions and the front ends
for every input the assumptions of `Algorithms.tla` allow, that is, for files, views,
edits, histories and address spaces of any size: `EveryFileReassembled`,
`EveryHitInContext`, `EveryEditLands`, `EveryChangeTold`, `EveryHistoryPaged`,
`EveryRevisionShown`, `EveryAddressAnswered` and `SameCallMade`.  That the input is one
of the listed is invariant (`AskedInv`); the rest is about the operators.

* The prover cannot be given induction over an operator, so it is done on sets:
  `SetInduction` and `SeqInduction` say that a set of numbers or of sequences that holds
  the first and is closed under the next holds all.  The recursive functions
  (`RawLines`, `FileHistory`, `Occurrences`, the library's folds) are unfolded by hand
  with it.
* Pages: the lines of a file are cut at its newlines, the blocks of a page are
  neighbours and join to the file (`BlocksOf`, `JoinedInBlocks`), and the lines said to
  be in one are counted from the same cuts (`CountedPieces`).  Byte ranges meet
  (`CutsMeet`).
* Context: the searcher ends its lines while it scans, the context is split off the
  whole content with `\n` and `\r` taken away afterwards; the two go in step (`InStep`),
  so a line has one number in both and the window is around the match (`WindowIs`).
* Edits: two occurrences that do not overlap are both counted, by the place where the
  scan resumes, and the first counted is the first there is.  `OverlapAccepted` is the
  other half, that of two which overlap only one is counted: it gives, for every
  character, an edit that its text's two places do not refuse.
* History: a page is a piece of the filtered walk, and the filter keeps the order.

The assumptions say what the inputs are, each by a name: pages are of files
(`PagesAreOfFiles`), cuts too (`CutsAreOfFiles`), searches are of views
(`SearchesAreOfViews`), edits of texts (`EditsAreOfTexts`), a history is a walk
(`HistoriesAreWalks`), code lies in executables (`CodeIsInExecutables`), symbols in
objects (`SymbolsAreOfObjects`), requests have the fields of one
(`RequestsAreRequests`).  Two say more: a session is compared
when no mutation is under way (`SessionsAreAtRest`), and the entries of a blame tile the
file (`BlamesTileFiles`), which is what gix and svn promise and this code passes on.

Every assumption is a named `ASSUME` of the module that declares the constants: values
that stand for nothing differ from those that stand for something, bounds are
numbers, the creators of assembly sessions are finitely many.

Only model-checked, because the prover has no rule for fairness:
`GarbageReclaimed`, `ExpiredReaped`, `RequestsReturn`, `IdleReaped`, `SearchEnds`,
`Converges`, and in `ImplementsLifecycle` that a session settles.

## Disagreements seen and not kept as runs

What is below was found with the same modules and is described here, not run.  Most
counterexamples need only one constant of a passing run changed; the ones about pure
functions are settled by what a property, or a theorem, states in place of the doc.

* The reaper's collection takes no sync lock (`services.rs:195`): a sync that returns to
  a head whose directory the reaper has marked makes it current, a reader leases it, and
  it is deleted under both.  `services.rs:593-596` says a marked directory "can never
  gain a lease before we remove it".  `VictimsUsedOnlyIfRevived` says that this is the
  only way; with `Reapers = {g1}`, `CurrentWhole` and `LeasedWhole` fail.
* A removal cut by a crash, or that fails, leaves a half-deleted directory under its
  name, and `publish.rs:39` reuses it: with `MaxFaults = 1`, `PublishedWhole` fails.
* A sync whose request is dropped publishes on without the lock (`git.rs:117`): with
  `Manual = {y1, y2}`, `StagingHasOneWriter` fails, although `publish.rs:24-25` relies
  on it.
* A write that fails between content and metadata (`mortis-session/src/lib.rs:477`):
  with `MaxFaults = 1`, `ResolversAgree` fails, since edits look at the upper file
  first and the view at the whiteout.
* The scan drops the pin of a session whose record fails to load
  (`mortis-session/src/lib.rs:698`), for whatever reason, and its base is collected:
  `GcSparesInUse` is about the sessions the scan could read.
* `mortis-asm/src/lib.rs:347-348` removes the file "so a failed/oversized download leaves
  no bytes on disk", and `:349` ignores the error: with an id in `Undeletable`, a failed
  session keeps bytes until it is deleted, and after it if that fails too.
* A session removed while it is searched leaves the search a short answer and no
  error, since a directory that is gone lists no files (`mortis-fs/src/lib.rs:56`) and
  a vanished file is passed over (`mortis-search/src/lib.rs:122`): without
  `~ Leaving(ses)`, `UntouchedFilesAnswered` fails.  A base that a
  collector takes from under a session it missed does the same to a search; the property
  says that only files of the base are missing then.
* An edit whose text occurs at two places that overlap, `bb` in `bbb`, is counted once
  and applied at the first (`mortis-session/src/lib.rs:287`), although the doc at
  `:259-262` asks for exactly one occurrence, so that an edit "can never silently land in
  the wrong place".  `EditLandsOnFirst` says what the code does instead, and the theorem
  `OverlapAccepted` that the doc is wrong for every character.
* `mortis-core/src/model.rs:106` says that `start_line` is "1-based first line included
  (1 when whole file or byte range)".  The code gives the line of the cut for a byte range
  (`:232-236`) and 0 for an empty file (`:192`).  `PagesReassemble` asserts the code's
  answer: a client that joins pages needs the line of the cut.
* `mortis-vcs/src/git.rs:419` says "remote-tracking refs first" where `:424-426` try a
  name as it stands and then under `origin/`.  `Candidates` has the code's order;
  `ReadsShowRevision` asks only that the configured revision comes before the default.

Seen in the pure functions, and stated as exceptions in the properties: a
`max_count` of zero gives one commit with git and none with svn; a diff of a file
with `\r\n` line ends, or of an empty file that comes or goes, cannot be applied
again; a file written under a VCS directory shows in the diff of that path and in
no status; a context window past a final line feed shows one empty line; svn blame
at HEAD may show the text of a later revision; a range that ends where the
addresses end covers nothing; an unknown case mode is refused by REST and taken for
smart case by MCP, and a conflict is the caller's fault over REST and the server's
over MCP.

## Plan

1. Done: `SnapshotGC`, `SessionStore`, `AsmStore`, `SvnSync`, `SearchAll`, their
   composition `SessionSearch`, the pure functions and the front ends.
2. Done: a proof of the safety properties of the runs, the three about whole trees
   excepted.
3. Next: what of the whole trees holds with the reaper, stated like
   `VictimsUsedOnlyIfRevived`; failures of the store in `SessionSearch`; then the safety
   half of the liveness properties, the measures that go down while a task runs.

## Not modelled

The fetch over the network (gix, the git command line and the choice between them),
credentials, and the object and regular-expression libraries: external, with what
they return drawn from small sets.  `detect_and_describe` and the disassembly: one
call of a library each.  The path guard `ensure_safe_relative` and `escapes_root`,
symbolic links in a tree, and the comparison of owners in `authorize`: checks of one
value, without state.  Configuration, schedules, logging and the unpacking of the
embedded svn client: read or done once at startup.
