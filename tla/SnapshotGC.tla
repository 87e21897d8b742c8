----------------------------- MODULE SnapshotGC -----------------------------
(***************************************************************************)
(* Snapshot leases, sync, publication and garbage collection.              *)
(*                                                                         *)
(* A repository's revisions are materialized in snapshots/<head>.  A sync  *)
(* publishes the upstream head and makes it current; searches and session  *)
(* creations lease the current base; sessions pin a base on disk; and two  *)
(* collectors delete the directories nobody needs: the one at the end of   *)
(* each sync (under the repository's sync lock) and the one of the reaper  *)
(* job (under no lock).  A sync asked for by a request can lose its future *)
(* while its publish runs on a blocking thread.  One action is one stretch *)
(* of code between two points at which another task can be observed: a     *)
(* lock, an await, or a file-system call.                                  *)
(***************************************************************************)
EXTENDS Naturals, FiniteSets

CONSTANTS
    Repos,      \* configured repositories
    Revs,       \* revisions an upstream head can resolve to
    Work,       \* the pre-upgrade work/ tree, a base that is no revision
    Syncers,    \* tasks that may run Services::sync_repo (scheduled, manual)
    Manual,     \* those that are requests, whose future a disconnect may drop
    Reapers,    \* tasks that run the scheduler's reaper job
    Clients,    \* requests that lease a base (search, create_session)
    Sids,       \* session ids
    Unreadable, \* those whose record a scan of the store may fail to load
    None,       \* absent value
    MaxFaults   \* bound on restarts and failed removals

GcTasks == Syncers \cup Reapers
Procs == GcTasks \cup Clients
Bases == Revs \cup {Work}

ASSUME DistinctConstants ==
    /\ Work \notin Revs
    /\ None \notin Repos \cup Bases \cup Syncers \cup (Repos \X Bases)
    /\ Syncers \cap Reapers = {} /\ GcTasks \cap Clients = {}
ASSUME ManualAreSyncers == Manual \subseteq Syncers
ASSUME UnreadableAreSids == Unreadable \subseteq Sids
ASSUME FiniteConstants == IsFiniteSet(Clients) /\ MaxFaults \in Nat

VARIABLES
    current,    \* RepoEntry::snapshot: the base reads resolve to
    leases,     \* RepoEntry::leases: base -> count (an absent key is 0)
    syncLock,   \* RepoEntry::sync_mutex: its holder
    tree,       \* state of each base directory on disk
    staging,    \* state of each snapshots/.staging-<head> directory
    pin,        \* the base each durable session pins
    pc, repo, base,     \* per task: step; repository; head, lease or dir in hand
    referenced, todo,   \* per collector: pinned bases scanned; repos still to do
    keep, victims,      \* per collector: keep-set captured; dirs left to delete
    faults

diskVars == <<tree, staging>>
procVars == <<pc, repo, base>>
gcVars == <<referenced, todo, keep, victims>>
vars == <<current, leases, syncLock, diskVars, pin, procVars, gcVars, faults>>

HoldsLease(c) == pc[c] \in {"searching", "creating", "created"}
Holders(r, b) == {c \in Clients : HoldsLease(c) /\ repo[c] = r /\ base[c] = b}
AliveSessions == {s \in Sids : pin[s] # None}
Pinned == {pin[s] : s \in AliveSessions}
OnDisk(r) == {b \in Bases : tree[r][b] # "absent"}

\* The steps of a publish, which have a head in hand.
HeadPcs == {"publishing", "counting", "filling", "published"}

Goto(p, l) == pc' = [pc EXCEPT ![p] = l]

\* A task returns: its locals die and the sync lock guard it may hold drops.
Return(p) ==
    /\ Goto(p, "idle")
    /\ repo' = [repo EXCEPT ![p] = None]
    /\ base' = [base EXCEPT ![p] = None]
    /\ syncLock' = [r \in Repos |-> IF syncLock[r] = p THEN None ELSE syncLock[r]]

-----------------------------------------------------------------------------
(* Sync: fetch, publish_snapshot, set_snapshot.                            *)

\* Mutant: the sync lock is not waited for.
SyncBeginUnlocked(t, r) ==
    /\ pc[t] = "idle"
    /\ syncLock' = [syncLock EXCEPT ![r] = t]
    /\ Goto(t, "fetching")
    /\ repo' = [repo EXCEPT ![t] = r]
    /\ UNCHANGED <<current, leases, diskVars, pin, base, gcVars, faults>>

SyncBegin(t, r) ==
    /\ pc[t] = "idle" /\ syncLock[r] = None
    /\ syncLock' = [syncLock EXCEPT ![r] = t]
    /\ Goto(t, "fetching")
    /\ repo' = [repo EXCEPT ![t] = r]
    /\ UNCHANGED <<current, leases, diskVars, pin, base, gcVars, faults>>

\* The fetch fails, or what precedes the fill: opening, clearing .staging-<head>.
SyncFails(t) ==
    /\ pc[t] \in {"fetching", "publishing"}
    /\ Return(t)
    /\ UNCHANGED <<current, leases, diskVars, pin, gcVars, faults>>

\* The upstream head is whatever the remote says now, an older one included.
SyncResolve(t, h) ==
    /\ pc[t] = "fetching"
    /\ base' = [base EXCEPT ![t] = h]
    /\ Goto(t, "publishing")
    /\ UNCHANGED <<current, leases, syncLock, diskVars, pin, repo, gcVars, faults>>

\* target.exists(): reuse it, after walking it to count its files.
PublishReuse(t) ==
    /\ pc[t] = "publishing"
    /\ tree[repo[t]][base[t]] # "absent"
    /\ Goto(t, "counting")
    /\ UNCHANGED <<current, leases, syncLock, diskVars, pin, repo, base, gcVars, faults>>

CountFiles(t) ==
    /\ pc[t] = "counting"
    /\ tree[repo[t]][base[t]] # "absent"
    /\ Goto(t, "published")
    /\ UNCHANGED <<current, leases, syncLock, diskVars, pin, repo, base, gcVars, faults>>

\* The walk fails when a collector is deleting, or has deleted, the tree.
CountFilesFails(t) ==
    /\ pc[t] = "counting"
    /\ tree[repo[t]][base[t]] # "whole"
    /\ Return(t)
    /\ UNCHANGED <<current, leases, diskVars, pin, gcVars, faults>>

Fills(t, r, h) == pc[t] = "filling" /\ repo[t] = r /\ base[t] = h

\* A staging directory left by a crashed attempt is removed first; one that
\* another task is filling is removed under it, and then holds both fills.
PublishStage(t) ==
    /\ pc[t] = "publishing"
    /\ tree[repo[t]][base[t]] = "absent"
    /\ staging' = [staging EXCEPT ![repo[t]][base[t]] =
                      IF \E u \in Syncers \ {t} : Fills(u, repo[t], base[t])
                      THEN "mixed" ELSE "clean"]
    /\ Goto(t, "filling")
    /\ UNCHANGED <<current, leases, syncLock, tree, pin, repo, base, gcVars, faults>>

Unstage(t) == staging' = [staging EXCEPT ![repo[t]][base[t]] = "absent"]

\* fill (or the rename) fails: the staging directory is removed.
PublishFails(t) ==
    /\ pc[t] = "filling"
    /\ Unstage(t)
    /\ Return(t)
    /\ UNCHANGED <<current, leases, tree, pin, gcVars, faults>>

\* fill succeeds and the staging directory is renamed into place, or, when the
\* target has appeared meanwhile, dropped in favour of the target.  Of a
\* directory that was not its own from start to end it may miss files.
PublishRename(t) ==
    /\ pc[t] = "filling"
    /\ Unstage(t)
    /\ \/ /\ tree[repo[t]][base[t]] = "absent"
          /\ \E c \in {"whole"} \cup
                    {k \in {"torn"} : staging[repo[t]][base[t]] # "clean"} :
                tree' = [tree EXCEPT ![repo[t]][base[t]] = c]
          /\ Goto(t, "published")
       \/ /\ tree[repo[t]][base[t]] # "absent"
          /\ Goto(t, "counting")
          /\ UNCHANGED tree
    /\ UNCHANGED <<current, leases, syncLock, pin, repo, base, gcVars, faults>>

\* The request's future is dropped: the lock guard drops with it, the publish
\* goes on on its blocking thread and nobody awaits its result.
SyncDropped(t) ==
    /\ t \in Manual /\ pc[t] \in HeadPcs
    /\ syncLock[repo[t]] = t
    /\ syncLock' = [syncLock EXCEPT ![repo[t]] = None]
    /\ UNCHANGED <<current, leases, diskVars, pin, procVars, gcVars, faults>>

DetachedEnds(t) ==
    /\ pc[t] = "published" /\ syncLock[repo[t]] # t
    /\ Return(t)
    /\ UNCHANGED <<current, leases, diskVars, pin, gcVars, faults>>

\* Mutant: the guard is dropped before the collection that follows.
SetSnapshotUnlock(t) ==
    /\ pc[t] = "published" /\ syncLock[repo[t]] = t
    /\ current' = [current EXCEPT ![repo[t]] = base[t]]
    /\ base' = [base EXCEPT ![t] = None]
    /\ syncLock' = [syncLock EXCEPT ![repo[t]] = None]
    /\ Goto(t, "scanning")
    /\ UNCHANGED <<leases, diskVars, pin, repo, gcVars, faults>>

SetSnapshot(t) ==
    /\ pc[t] = "published" /\ syncLock[repo[t]] = t
    /\ current' = [current EXCEPT ![repo[t]] = base[t]]
    /\ base' = [base EXCEPT ![t] = None]
    /\ Goto(t, "scanning")
    /\ UNCHANGED <<leases, syncLock, diskVars, pin, repo, gcVars, faults>>

-----------------------------------------------------------------------------
(* Collection: referenced_bases, gc_protected, the listing, the deletions. *)

\* The reaper job first deletes the sessions past their TTL; time is abstract,
\* so any set of sessions may have expired.
ReapBegin(t, expired) ==
    /\ pc[t] = "idle"
    /\ \A s \in expired : pin[s] # None
    /\ pin' = [s \in Sids |-> IF s \in expired THEN None ELSE pin[s]]
    /\ Goto(t, "scanning")
    /\ UNCHANGED <<current, leases, syncLock, diskVars, repo, base, gcVars, faults>>

\* referenced_bases holds the store's write lock: one atomic read of the pins, of
\* which it passes over those of the sessions whose record fails to load.
GcScan(t) ==
    /\ pc[t] = "scanning"
    /\ \E unread \in SUBSET Unreadable :
          referenced' = [referenced EXCEPT ![t] = {pin[s] : s \in AliveSessions \ unread}]
    /\ todo' = [todo EXCEPT ![t] = IF t \in Syncers THEN {repo[t]} ELSE Repos]
    /\ Goto(t, "scanned")
    /\ UNCHANGED <<current, leases, syncLock, diskVars, pin, repo, base, keep, victims, faults>>

GcScanFails(t) ==
    /\ pc[t] = "scanning"
    /\ Return(t)
    /\ UNCHANGED <<current, leases, diskVars, pin, gcVars, faults>>

\* Mutants: the keep-set lacks the leased bases, or the current one.
CurrentOnly(r) == {b \in Revs : current[r] = b}
LeasedOnly(r) == {b \in Revs : leases[r][b] > 0}

\* gc_protected reads the current base and the leased ones under the leases lock.
Protected(r) == {b \in Revs : current[r] = b \/ leases[r][b] > 0}

GcCapture(t, r) ==
    /\ pc[t] = "scanned" /\ r \in todo[t]
    /\ repo' = [repo EXCEPT ![t] = r]
    /\ todo' = [todo EXCEPT ![t] = @ \ {r}]
    /\ keep' = [keep EXCEPT ![t] =
                    Protected(r) \cup {b \in Bases : <<r, b>> \in referenced[t]}]
    /\ Goto(t, "captured")
    /\ UNCHANGED <<current, leases, syncLock, diskVars, pin, base, referenced, victims, faults>>

GcListWhole(t) ==
    /\ pc[t] = "captured"
    /\ victims' = [victims EXCEPT ![t] =
                      {b \in OnDisk(repo[t]) : tree[repo[t]][b] = "whole"} \ keep[t]]
    /\ keep' = [keep EXCEPT ![t] = {}]
    /\ Goto(t, "deleting")
    /\ UNCHANGED <<current, leases, syncLock, diskVars, pin, repo, base,
                   referenced, todo, faults>>

GcList(t) ==
    /\ pc[t] = "captured"
    /\ victims' = [victims EXCEPT ![t] = OnDisk(repo[t]) \ keep[t]]
    /\ keep' = [keep EXCEPT ![t] = {}]
    /\ Goto(t, "deleting")
    /\ UNCHANGED <<current, leases, syncLock, diskVars, pin, repo, base,
                   referenced, todo, faults>>

\* remove_dir_all empties the directory entry by entry ...
GcRemoveBegin(t, b) ==
    /\ pc[t] = "deleting" /\ b \in victims[t]
    /\ victims' = [victims EXCEPT ![t] = @ \ {b}]
    /\ base' = [base EXCEPT ![t] = b]
    /\ tree' = [tree EXCEPT ![repo[t]][b] = IF @ = "absent" THEN "absent" ELSE "torn"]
    /\ Goto(t, "removing")
    /\ UNCHANGED <<current, leases, syncLock, staging, pin, repo, referenced, todo, keep, faults>>

\* ... and removes it once empty; a tree published there meanwhile is not.
GcRemoveEnd(t) ==
    /\ pc[t] = "removing"
    /\ tree' = [tree EXCEPT ![repo[t]][base[t]] = IF @ = "torn" THEN "absent" ELSE @]
    /\ base' = [base EXCEPT ![t] = None]
    /\ Goto(t, "deleting")
    /\ UNCHANGED <<current, leases, syncLock, staging, pin, repo, gcVars, faults>>

\* "Best-effort": a failed removal is logged and leaves what it had not deleted.
GcRemoveFails(t) ==
    /\ pc[t] = "removing" /\ faults < MaxFaults
    /\ faults' = faults + 1
    /\ base' = [base EXCEPT ![t] = None]
    /\ Goto(t, "deleting")
    /\ UNCHANGED <<current, leases, syncLock, diskVars, pin, repo, gcVars>>

GcRepoDone(t) ==
    /\ pc[t] = "deleting" /\ victims[t] = {}
    /\ Goto(t, "scanned")
    /\ UNCHANGED <<current, leases, syncLock, diskVars, pin, repo, base, gcVars, faults>>

GcDone(t) ==
    /\ pc[t] = "scanned" /\ todo[t] = {}
    /\ referenced' = [referenced EXCEPT ![t] = {}]
    /\ Return(t)
    /\ UNCHANGED <<current, leases, diskVars, pin, todo, keep, victims, faults>>

-----------------------------------------------------------------------------
(* Clients: searches and session creations lease the current base.         *)

LeaseCurrent(c, r, l) ==
    /\ pc[c] = "idle" /\ current[r] # None
    /\ leases' = [leases EXCEPT ![r][current[r]] = @ + 1]
    /\ repo' = [repo EXCEPT ![c] = r]
    /\ base' = [base EXCEPT ![c] = current[r]]
    /\ Goto(c, l)
    /\ UNCHANGED <<current, syncLock, diskVars, pin, gcVars, faults>>

SearchBegin(c, r) == LeaseCurrent(c, r, "searching")
CreateBegin(c, r) == LeaseCurrent(c, r, "creating")

\* DiskSessionStore::create makes the pin durable under the store's write lock.
CreatePersist(c, s) ==
    /\ pc[c] = "creating" /\ pin[s] = None
    /\ pin' = [pin EXCEPT ![s] = <<repo[c], base[c]>>]
    /\ Goto(c, "created")
    /\ UNCHANGED <<current, leases, syncLock, diskVars, repo, base, gcVars, faults>>

\* Mutants: the guard can be dropped twice; dropping one guard removes the key
\* although other readers count on it.
ReleaseLeaseTwice(c) ==
    /\ HoldsLease(c)
    /\ leases' = [leases EXCEPT ![repo[c]][base[c]] = @ - 1]
    /\ UNCHANGED <<current, syncLock, diskVars, pin, procVars, gcVars, faults>>

ReleaseLeaseKey(c) ==
    /\ HoldsLease(c)
    /\ leases' = [leases EXCEPT ![repo[c]][base[c]] = 0]
    /\ Return(c)
    /\ UNCHANGED <<current, diskVars, pin, gcVars, faults>>

\* BaseLease::drop, at the end of the request or when its future is dropped.
ReleaseLease(c) ==
    /\ HoldsLease(c)
    /\ leases' = [leases EXCEPT ![repo[c]][base[c]] = @ - 1]
    /\ Return(c)
    /\ UNCHANGED <<current, diskVars, pin, gcVars, faults>>

DeleteSession(s) ==
    /\ pin[s] # None
    /\ pin' = [pin EXCEPT ![s] = None]
    /\ UNCHANGED <<current, leases, syncLock, diskVars, procVars, gcVars, faults>>

-----------------------------------------------------------------------------
(* The process starts, dies and starts again.                              *)

\* What a fresh process holds in memory.
NoLeases == [r \in Repos |-> [b \in Revs |-> 0]]
Unlocked == [r \in Repos |-> None]
AllIdle == [p \in Procs |-> "idle"]
NoLocal == [p \in Procs |-> None]
NoSets == [t \in GcTasks |-> {}]

\* A data directory with no snapshot yet, and perhaps a pre-upgrade work/ tree
\* with sessions on it.
Init ==
    /\ current = [r \in Repos |-> None]
    /\ \E legacy \in SUBSET Repos :
          /\ tree = [r \in Repos |-> [b \in Bases |->
                        IF b = Work /\ r \in legacy THEN "whole" ELSE "absent"]]
          /\ pin \in [Sids -> {None} \cup (legacy \X {Work})]
    /\ staging = [r \in Repos |-> [h \in Revs |-> "absent"]]
    /\ leases = NoLeases /\ syncLock = Unlocked
    /\ pc = AllIdle /\ repo = NoLocal /\ base = NoLocal
    /\ referenced = NoSets /\ todo = NoSets /\ keep = NoSets /\ victims = NoSets
    /\ faults = 0

\* A crash keeps the disk; rehydrate_all adopts one published directory of each
\* repository that has any (which one, by modification time, is left open), or
\* none when the directory of its snapshots cannot be read.
Restart ==
    /\ faults < MaxFaults
    /\ faults' = faults + 1
    /\ leases' = NoLeases /\ syncLock' = Unlocked
    /\ pc' = AllIdle /\ repo' = NoLocal /\ base' = NoLocal
    /\ referenced' = NoSets /\ todo' = NoSets /\ keep' = NoSets /\ victims' = NoSets
    /\ current' \in [Repos -> Revs \cup {None}]
    /\ \A r \in Repos : current'[r] \in OnDisk(r) \cup {None}
    /\ UNCHANGED <<diskVars, pin>>

SyncStep(t) ==
    \/ SyncFails(t) \/ (\E h \in Revs : SyncResolve(t, h))
    \/ PublishReuse(t) \/ CountFiles(t) \/ CountFilesFails(t)
    \/ PublishStage(t) \/ PublishFails(t) \/ PublishRename(t)
    \/ SetSnapshot(t) \/ DetachedEnds(t)

GcStep(t) ==
    \/ GcScan(t) \/ GcScanFails(t)
    \/ \E r \in Repos : GcCapture(t, r)
    \/ GcList(t)
    \/ \E b \in Bases : GcRemoveBegin(t, b)
    \/ GcRemoveEnd(t) \/ GcRemoveFails(t)
    \/ GcRepoDone(t) \/ GcDone(t)

ClientStep(c) ==
    \/ \E r \in Repos : SearchBegin(c, r) \/ CreateBegin(c, r)
    \/ \E s \in Sids : CreatePersist(c, s)
    \/ ReleaseLease(c)

Next ==
    \/ \E t \in Syncers :
          (\E r \in Repos : SyncBegin(t, r)) \/ SyncStep(t) \/ SyncDropped(t)
    \/ \E t \in Reapers, expired \in SUBSET Sids : ReapBegin(t, expired)
    \/ \E t \in GcTasks : GcStep(t)
    \/ \E c \in Clients : ClientStep(c)
    \/ \E s \in Sids : DeleteSession(s)
    \/ Restart

Spec == Init /\ [][Next]_vars

-----------------------------------------------------------------------------
(* What the steps promise.                                                 *)

SyncPcs == {"fetching"} \cup HeadPcs
GcPcs == {"scanning", "scanned", "captured", "deleting", "removing"}
ClientPcs == {"searching", "creating", "created"}

TypeOK ==
    /\ current \in [Repos -> Revs \cup {None}]
    /\ leases \in [Repos -> [Revs -> Nat]]
    /\ syncLock \in [Repos -> Syncers \cup {None}]
    /\ tree \in [Repos -> [Bases -> {"absent", "torn", "whole"}]]
    /\ staging \in [Repos -> [Revs -> {"absent", "clean", "mixed"}]]
    /\ pin \in [Sids -> (Repos \X Bases) \cup {None}]
    /\ pc \in [Procs -> {"idle"} \cup SyncPcs \cup GcPcs \cup ClientPcs]
    /\ repo \in [Procs -> Repos \cup {None}]
    /\ base \in [Procs -> Bases \cup {None}]
    /\ referenced \in [GcTasks -> SUBSET (Repos \X Bases)]
    /\ todo \in [GcTasks -> SUBSET Repos]
    /\ keep \in [GcTasks -> SUBSET Bases]
    /\ victims \in [GcTasks -> SUBSET Bases]
    /\ faults \in 0 .. MaxFaults

\* RepoEntry::leases counts exactly the live BaseLease guards on each base: no
\* interleaving of lease_current, drops, head changes and restarts leaves a count
\* behind (a base never reclaimed) or drops one early (a base reclaimed under a
\* reader).
LeaseAccounting ==
    \A r \in Repos, b \in Revs : leases[r][b] = Cardinality(Holders(r, b))

\* publish.rs says the lost-race branch of the rename is for two processes only
\* and the staging directory has a single writer.  So while a publish fills its
\* staging directory, nobody removes that directory and nobody publishes the
\* same target, whatever the collectors and the other syncs do.
StagingHasOneWriter ==
    \A t \in Syncers : pc[t] = "filling" =>
        /\ staging[repo[t]][base[t]] = "clean"
        /\ tree[repo[t]][base[t]] = "absent"
        /\ \A u \in Syncers \ {t} : ~Fills(u, repo[t], base[t])

\* The base that reads resolve to is a complete tree (RepoEntry::current_base).
CurrentWhole ==
    \A r \in Repos : current[r] # None => tree[r][current[r]] = "whole"

\* A search or a session creation that holds a lease has a complete tree under
\* it for as long as it holds it (RepoEntry::lease_current).
LeasedWhole ==
    \A c \in Clients : HoldsLease(c) => tree[repo[c]][base[c]] = "whole"

\* SessionStore::referenced_bases: the base of a live session is not reclaimed.
PinnedWhole ==
    \A s \in Sids : pin[s] # None => tree[pin[s][1]][pin[s][2]] = "whole"

\* publish_snapshot returns a complete tree, also when it reuses a directory:
\* "published snapshots are immutable".
PublishedWhole ==
    \A t \in Syncers : pc[t] = "published" => tree[repo[t]][base[t]] = "whole"

-----------------------------------------------------------------------------
(* Progress.                                                               *)

\* The runtime keeps polling a collector that can run, and the scheduler's timer
\* fires the reaper again and again; the sessions directory is not unreadable for
\* ever.  Nothing makes a sync, a search or a session happen or end: a fetch or a
\* fill waits for a child process that nobody times, and keeps the sync lock.
Fairness ==
    /\ \A t \in GcTasks : WF_vars(GcStep(t))
    /\ \A t \in Reapers :
          /\ WF_vars(\E expired \in SUBSET Sids : ReapBegin(t, expired))
          /\ SF_vars(GcScan(t))

FairSpec == Spec /\ Fairness

Garbage(r, b) ==
    /\ current[r] # b /\ <<r, b>> \notin Pinned
    /\ b \in Revs => leases[r][b] = 0
    /\ \A t \in Syncers : pc[t] \in SyncPcs => <<repo[t], base[t]>> # <<r, b>>

\* A base that stops being current, leased, pinned or published for good is
\* eventually gone for good, although each pass decides from an older scan, also
\* when removals fail ("retried next GC pass") and when a sync hangs for ever.
GarbageReclaimed ==
    \A r \in Repos, b \in Bases :
        []<>(~Garbage(r, b)) \/ <>[](tree[r][b] = "absent")

=============================================================================
