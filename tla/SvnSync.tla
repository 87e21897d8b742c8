------------------------------ MODULE SvnSync ------------------------------
(***************************************************************************)
(* The Subversion backend's sync and rehydrate, over a repository others   *)
(* commit to.                                                              *)
(*                                                                         *)
(* A sync asks `svn info` for the revision number, has `svn export` fill   *)
(* the one export directory of the repository, and publishes its content   *)
(* as snapshots/<number>.  Both commands name the revision HEAD when the   *)
(* configuration names none, and nothing kills the child of a sync that is *)
(* dropped.  The staging and rename inside publish_snapshot, leases and a  *)
(* GC beside a sync are SnapshotGC's subject and one step here.            *)
(***************************************************************************)
EXTENDS Naturals, Sequences, SequencesExt, FiniteSetsExt

CONSTANTS
    Syncers,    \* callers of sync, one at a time under the repository's lock
    FirstRev, LastRev,    \* revision numbers of the run
    None,       \* absent
    Part,       \* an export under way: what its child has written so far
    Mixed,      \* a tree of no revision: cut short, or written by two exports
    Half,       \* a snapshot GC has begun to remove
    MaxCrashes, MaxDrops, MaxFaults     \* bounds on restarts, dropped and failed syncs

ASSUME Bounds == FirstRev \in Nat /\ LastRev \in Nat /\ FirstRev <= LastRev

Revs == FirstRev .. LastRev

ASSUME Distinct ==
    /\ None \notin Syncers \cup Revs \cup {Part, Mixed, Half}
    /\ Part \notin Revs \cup {Mixed} /\ Half \notin Revs

VARIABLES
    head,       \* the repository's HEAD
    snap,       \* per number: the tree in snapshots/<number>
    recent,     \* snapshot directories by modification time, newest last
    export,     \* the tree in <internal>/export
    child,      \* per syncer: the revision its svn export writes
    lock, pc, rev,
    current,    \* the repository's published snapshot
    gc,         \* the snapshot GC is removing
    crashes, drops, faults

budget == <<crashes, drops, faults>>
vars == <<head, snap, recent, export, child, lock, pc, rev, current, gc, budget>>

Goto(t, l) == pc' = [pc EXCEPT ![t] = l]
Return(t) == Goto(t, "idle") /\ lock' = None
Writers == {t \in Syncers : child[t] # None}
Published == {r \in Revs : snap[r] # None}

-----------------------------------------------------------------------------
Commit ==
    /\ head < LastRev /\ head' = head + 1
    /\ UNCHANGED <<snap, recent, export, child, lock, pc, rev, current, gc, budget>>

SyncBegin(t) ==
    /\ pc[t] = "idle" /\ lock = None
    /\ lock' = t /\ Goto(t, "info")
    /\ UNCHANGED <<head, snap, recent, export, child, rev, current, gc, budget>>

\* Mutant: what an earlier export left is exported over.
InfoKeeping(t) ==
    /\ pc[t] = "info"
    /\ rev' = [rev EXCEPT ![t] = head]
    /\ Goto(t, IF snap[head] # None THEN "publishing" ELSE "starting")
    /\ UNCHANGED <<head, snap, recent, export, child, lock, current, gc, budget>>

\* The number; then the old export goes, unless the snapshot is there.
Info(t) ==
    /\ pc[t] = "info"
    /\ rev' = [rev EXCEPT ![t] = head]
    /\ IF snap[head] # None
       THEN Goto(t, "publishing") /\ UNCHANGED export
       ELSE Goto(t, "starting") /\ export' = None
    /\ UNCHANGED <<head, snap, recent, child, lock, current, gc, budget>>

\* The child resolves HEAD for itself.
ExportStart(t) ==
    /\ pc[t] = "starting"
    /\ child' = [child EXCEPT ![t] = head]
    /\ export' = IF export = None THEN Part ELSE Mixed
    /\ Goto(t, "exporting")
    /\ UNCHANGED <<head, snap, recent, lock, rev, current, gc, budget>>

Written(t) ==
    IF export = Part /\ Writers = {t} THEN child[t]
    ELSE IF export = None THEN None ELSE Mixed

ExportEnd(t) ==
    /\ pc[t] \in {"exporting", "detached"}
    /\ export' = Written(t)
    /\ child' = [child EXCEPT ![t] = None]
    /\ Goto(t, IF pc[t] = "detached" THEN "idle" ELSE "publishing")
    /\ UNCHANGED <<head, snap, recent, lock, rev, current, gc, budget>>

\* svn fails: the half-written export is removed.
ExportFails(t) ==
    /\ pc[t] = "exporting" /\ faults < MaxFaults /\ faults' = faults + 1
    /\ export' = None
    /\ child' = [child EXCEPT ![t] = None]
    /\ Return(t)
    /\ UNCHANGED <<head, snap, recent, rev, current, gc, crashes, drops>>

\* The caller goes during an await: the lock is released, the child runs on.
SyncDropped(t) ==
    /\ pc[t] \in {"info", "exporting"} /\ drops < MaxDrops /\ drops' = drops + 1
    /\ Goto(t, IF child[t] = None THEN "idle" ELSE "detached")
    /\ lock' = None
    /\ UNCHANGED <<head, snap, recent, export, child, rev, current, gc, crashes, faults>>

\* publish_snapshot, nothing awaited: a snapshot that is there is reused, else the
\* export is copied and renamed into place.  The export directory is removed.
Publish(t) ==
    /\ pc[t] = "publishing" /\ (snap[rev[t]] # None \/ export # None)
    /\ IF snap[rev[t]] # None THEN UNCHANGED <<snap, recent>>
       ELSE /\ snap' = [snap EXCEPT ![rev[t]] = IF export \in Revs THEN export ELSE Mixed]
            /\ recent' = Append(recent, rev[t])
    /\ export' = None
    /\ Goto(t, "setting")
    /\ UNCHANGED <<head, child, lock, rev, current, gc, budget>>

\* Another export's end, or removal, took the directory away.
PublishFails(t) ==
    /\ pc[t] = "publishing" /\ snap[rev[t]] = None /\ export = None
    /\ Return(t)
    /\ UNCHANGED <<head, snap, recent, export, child, rev, current, gc, budget>>

\* Mutant: a repository that has a snapshot keeps it.
SetSnapshotOnce(t) ==
    /\ pc[t] = "setting"
    /\ current' = IF current = None THEN rev[t] ELSE current
    /\ Return(t)
    /\ UNCHANGED <<head, snap, recent, export, child, rev, gc, budget>>

SetSnapshot(t) ==
    /\ pc[t] = "setting"
    /\ current' = rev[t]
    /\ Return(t)
    /\ UNCHANGED <<head, snap, recent, export, child, rev, gc, budget>>

-----------------------------------------------------------------------------
\* The directories by modification time, but for that of r.
Others(r) == RemoveAt(recent, CHOOSE i \in DOMAIN recent : recent[i] = r)

Gc(r) ==
    /\ lock = None /\ gc = None /\ current # None
    /\ r \in Published \ {current}
    /\ gc' = r
    /\ snap' = [snap EXCEPT ![r] = Half]
    /\ recent' = Append(Others(r), r)   \* unlinking entries is a modification
    /\ UNCHANGED <<head, export, child, lock, pc, rev, current, budget>>

GcEnd ==
    /\ gc # None /\ gc' = None
    /\ snap' = [snap EXCEPT ![gc] = None]
    /\ recent' = Others(gc)
    /\ UNCHANGED <<head, export, child, lock, pc, rev, current, budget>>

\* Mutant: rehydrate goes by the names, which compare as strings.
RestartByName ==
    /\ crashes < MaxCrashes /\ crashes' = crashes + 1
    /\ current' = IF recent = <<>> THEN None
                  ELSE IF \E r \in Published : r < 10 THEN Max({r \in Published : r < 10})
                  ELSE Max(Published)
    /\ lock' = None /\ gc' = None
    /\ pc' = [t \in Syncers |-> "idle"]
    /\ child' = [t \in Syncers |-> None]
    /\ export' = IF export = None THEN None ELSE Mixed
    /\ UNCHANGED <<head, snap, recent, rev, drops, faults>>

\* A crash, and rehydrate_snapshot: the directory modified last is adopted.  The
\* server's children go down with it (no signal of its own ends one): a crash here
\* is one of the machine or of the container.
Restart ==
    /\ crashes < MaxCrashes /\ crashes' = crashes + 1
    /\ current' = IF recent = <<>> THEN None ELSE recent[Len(recent)]
    /\ lock' = None /\ gc' = None
    /\ pc' = [t \in Syncers |-> "idle"]
    /\ child' = [t \in Syncers |-> None]
    /\ export' = IF export = None THEN None ELSE Mixed
    /\ UNCHANGED <<head, snap, recent, rev, drops, faults>>

-----------------------------------------------------------------------------
Init ==
    /\ head = FirstRev /\ recent = <<>> /\ export = None
    /\ snap = [r \in Revs |-> None]
    /\ child = [t \in Syncers |-> None]
    /\ lock = None /\ current = None /\ gc = None
    /\ pc = [t \in Syncers |-> "idle"]
    /\ rev = [t \in Syncers |-> None]
    /\ crashes = 0 /\ drops = 0 /\ faults = 0

SyncStep(t) ==
    \/ SyncBegin(t) \/ Info(t) \/ ExportStart(t) \/ ExportEnd(t) \/ ExportFails(t)
    \/ SyncDropped(t) \/ Publish(t) \/ PublishFails(t) \/ SetSnapshot(t)

GcStep == GcEnd \/ \E r \in Revs : Gc(r)

Next == Commit \/ Restart \/ GcStep \/ \E t \in Syncers : SyncStep(t)

\* The scheduler syncs again and again, and every child of it ends.
Spec == Init /\ [][Next]_vars /\ WF_vars(GcStep) /\ \A t \in Syncers : SF_vars(SyncStep(t))

-----------------------------------------------------------------------------
TypeOK ==
    /\ head \in Revs /\ current \in Revs \cup {None} /\ gc \in Revs \cup {None}
    /\ snap \in [Revs -> Revs \cup {None, Mixed, Half}]
    /\ export \in Revs \cup {None, Part, Mixed}
    /\ ToSet(recent) = Published /\ IsInjective(recent)
    /\ \A t \in Syncers : pc[t] \notin {"idle", "detached"} <=> lock = t

\* A snapshot is the whole tree of one revision, the one it is named for or a later
\* one that was committed meanwhile, whatever failures and restarts left behind;
\* only a sync that was dropped, whose child runs on, can spoil it.
SnapshotAtLeastRev ==
    drops = 0 => \A r \in Published : snap[r] = Half \/ snap[r] \in r .. head

\* A snapshot named for a revision number holds that revision.
SnapshotIsRev == \A r \in Published : snap[r] \in Revs => snap[r] = r

\* A restart that finds no half-removed snapshot serves the newest one published.
RestartServesNewest ==
    [][Restart /\ (\A r \in Revs : snap[r] # Half) /\ Published # {} =>
          current' = Max(Published)]_vars

\* The repository's latest revision is served in the end, unless its snapshot was
\* spoilt before (a half-removed or mixed directory is reused for ever).
Converges ==
    <>[](/\ current = head
         /\ snap[head] \in {head, Half, Mixed})

=============================================================================
