-------------------------- MODULE SnapshotGC_proofs -------------------------
(***************************************************************************)
(* Proofs about SnapshotGC and its history variable, for every set of      *)
(* repositories, revisions, tasks, clients and sessions and every number   *)
(* of faults.                                                              *)
(***************************************************************************)
EXTENDS SnapshotGCHistory, FiniteSetTheorems, TLAPS

RepoPcs == SyncPcs \cup ClientPcs \cup {"captured", "deleting", "removing"}

\* A task that is past a step has the locals that step gave it.
LocalsOK ==
    /\ \A p \in Procs : pc[p] \in RepoPcs => repo[p] \in Repos
    /\ \A p \in Procs : pc[p] \in HeadPcs \cup ClientPcs => base[p] \in Revs
    /\ \A p \in Procs : pc[p] = "removing" => base[p] \in Bases

\* A sync holds its repository's lock from its first step to its return, unless
\* its future was dropped while it published, and collects that repository only.
LockHeld ==
    \A t \in Syncers :
        /\ pc[t] # "idle" => repo[t] \in Repos
        /\ pc[t] # "idle" /\ (pc[t] \in HeadPcs => t \notin Manual) =>
              syncLock[repo[t]] = t
        /\ pc[t] \in GcPcs \ {"scanning"} => todo[t] \subseteq {repo[t]}

Exclusive == Manual = {} => StagingHasOneWriter

IInv == TypeOK /\ LocalsOK /\ LockHeld /\ Exclusive /\ LeaseAccounting

LEMMA HoldersFinite ==
    ASSUME NEW r, NEW b
    PROVE  IsFiniteSet(Holders(r, b)) /\ Cardinality(Holders(r, b)) \in Nat
BY FiniteConstants, FS_Subset, FS_CardinalityType DEF Holders

\* A step that touches neither the clients nor the counts keeps the accounts.
LEMMA AccountsKept ==
    ASSUME LeaseAccounting, leases' = leases,
           \A c \in Clients : pc'[c] = pc[c] /\ repo'[c] = repo[c] /\ base'[c] = base[c]
    PROVE  LeaseAccounting'
<1>1. ASSUME NEW r \in Repos, NEW b \in Revs
      PROVE  Holders(r, b)' = Holders(r, b)
  BY DEF Holders, HoldsLease
<1> QED BY <1>1 DEF LeaseAccounting

LEMMA InitIInv == Init => IInv
<1> SUFFICES ASSUME Init PROVE IInv
  OBVIOUS
<1> USE DistinctConstants, FiniteConstants
<1>1. TypeOK
  BY DEF Init, TypeOK, NoLeases, Unlocked, AllIdle, NoLocal, NoSets, Bases, Procs, GcTasks
<1>2. LocalsOK /\ LockHeld /\ Exclusive
  BY DEF Init, LocalsOK, LockHeld, Exclusive, StagingHasOneWriter, Fills, AllIdle, NoLocal, RepoPcs,
         HeadPcs, SyncPcs, ClientPcs, GcPcs, Procs, GcTasks
<1>3. LeaseAccounting
  <2> SUFFICES ASSUME NEW r \in Repos, NEW b \in Revs
               PROVE  leases[r][b] = Cardinality(Holders(r, b))
    BY DEF LeaseAccounting
  <2>1. Holders(r, b) = {}
    BY DEF Init, AllIdle, Holders, HoldsLease, Procs, GcTasks
  <2> QED BY <2>1, FS_EmptySet DEF Init, NoLeases
<1> QED BY <1>1, <1>2, <1>3 DEF IInv

LEMMA SyncBeginStep ==
    ASSUME IInv, NEW t \in Syncers, NEW r \in Repos, SyncBegin(t, r)
    PROVE  IInv'
<1> USE DistinctConstants DEF IInv, SyncBegin, Goto, Return, Procs, GcTasks, diskVars, procVars, gcVars
<1>1. TypeOK'
  BY DEF TypeOK, SyncPcs
<1>2. LocalsOK'
  BY DEF TypeOK, LocalsOK, HeadPcs, ClientPcs
<1>3. LockHeld'
  BY DEF TypeOK, LockHeld, GcPcs
<1>4. Exclusive'
  BY DEF Exclusive, StagingHasOneWriter, Fills
<1>5. LeaseAccounting'
  BY AccountsKept DEF TypeOK
<1> QED BY <1>1, <1>2, <1>3, <1>4, <1>5

LEMMA SyncFailsStep ==
    ASSUME IInv, NEW t \in Syncers, SyncFails(t)
    PROVE  IInv'
<1> USE DistinctConstants DEF IInv, SyncFails, Goto, Return, Procs, GcTasks, diskVars, procVars, gcVars
<1>1. TypeOK'
  BY DEF TypeOK
<1>2. LocalsOK'
  BY DEF TypeOK, LocalsOK, RepoPcs, HeadPcs, SyncPcs, ClientPcs
<1>3. LockHeld'
  BY DEF TypeOK, LockHeld, GcPcs
<1>4. Exclusive'
  BY DEF Exclusive, StagingHasOneWriter, Fills
<1>5. LeaseAccounting'
  BY AccountsKept DEF TypeOK
<1> QED BY <1>1, <1>2, <1>3, <1>4, <1>5

LEMMA SyncResolveStep ==
    ASSUME IInv, NEW t \in Syncers, NEW h \in Revs, SyncResolve(t, h)
    PROVE  IInv'
<1> USE DistinctConstants DEF IInv, SyncResolve, Goto, Return, Procs, GcTasks, diskVars, procVars, gcVars
<1>1. TypeOK'
  BY DEF TypeOK, Bases, HeadPcs, SyncPcs
<1>2. LocalsOK'
  BY DEF TypeOK, LocalsOK, LockHeld
<1>3. LockHeld'
  BY DEF LockHeld, HeadPcs, GcPcs
<1>4. Exclusive'
  BY DEF Exclusive, StagingHasOneWriter, Fills
<1>5. LeaseAccounting'
  BY AccountsKept DEF TypeOK
<1> QED BY <1>1, <1>2, <1>3, <1>4, <1>5

LEMMA PublishReuseStep ==
    ASSUME IInv, NEW t \in Syncers, PublishReuse(t)
    PROVE  IInv'
<1> USE DistinctConstants DEF IInv, PublishReuse, Goto, Return, Procs, GcTasks, diskVars, procVars, gcVars
<1>1. TypeOK'
  BY DEF TypeOK, HeadPcs, SyncPcs
<1>2. LocalsOK'
  BY DEF LocalsOK, LockHeld, HeadPcs
<1>3. LockHeld'
  BY DEF LockHeld, HeadPcs, GcPcs
<1>4. Exclusive'
  BY DEF Exclusive, StagingHasOneWriter, Fills
<1>5. LeaseAccounting'
  BY AccountsKept DEF TypeOK
<1> QED BY <1>1, <1>2, <1>3, <1>4, <1>5

LEMMA CountFilesStep ==
    ASSUME IInv, NEW t \in Syncers, CountFiles(t)
    PROVE  IInv'
<1> USE DistinctConstants DEF IInv, CountFiles, Goto, Return, Procs, GcTasks, diskVars, procVars, gcVars
<1>1. TypeOK'
  BY DEF TypeOK, HeadPcs, SyncPcs
<1>2. LocalsOK'
  BY DEF LocalsOK, LockHeld, HeadPcs
<1>3. LockHeld'
  BY DEF LockHeld, HeadPcs, GcPcs
<1>4. Exclusive'
  BY DEF Exclusive, StagingHasOneWriter, Fills
<1>5. LeaseAccounting'
  BY AccountsKept DEF TypeOK
<1> QED BY <1>1, <1>2, <1>3, <1>4, <1>5

LEMMA CountFilesFailsStep ==
    ASSUME IInv, NEW t \in Syncers, CountFilesFails(t)
    PROVE  IInv'
<1> USE DistinctConstants DEF IInv, CountFilesFails, Goto, Return, Procs, GcTasks, diskVars, procVars, gcVars
<1>1. TypeOK'
  BY DEF TypeOK
<1>2. LocalsOK'
  BY DEF TypeOK, LocalsOK, RepoPcs, HeadPcs, SyncPcs, ClientPcs
<1>3. LockHeld'
  BY DEF TypeOK, LockHeld, GcPcs
<1>4. Exclusive'
  BY DEF Exclusive, StagingHasOneWriter, Fills
<1>5. LeaseAccounting'
  BY AccountsKept DEF TypeOK
<1> QED BY <1>1, <1>2, <1>3, <1>4, <1>5

LEMMA PublishStageStep ==
    ASSUME IInv, NEW t \in Syncers, PublishStage(t)
    PROVE  IInv'
<1> USE DistinctConstants DEF IInv, PublishStage, Goto, Return, Procs, GcTasks, diskVars, procVars, gcVars
<1>1. TypeOK'
  BY DEF TypeOK, HeadPcs, SyncPcs
<1>2. LocalsOK'
  BY DEF LocalsOK, LockHeld, HeadPcs
<1>3. LockHeld'
  BY DEF LockHeld, HeadPcs, GcPcs
<1>4. Exclusive'
  BY DEF TypeOK, LocalsOK, LockHeld, Exclusive, StagingHasOneWriter, Fills, HeadPcs
<1>5. LeaseAccounting'
  BY AccountsKept DEF TypeOK
<1> QED BY <1>1, <1>2, <1>3, <1>4, <1>5

LEMMA PublishFailsStep ==
    ASSUME IInv, NEW t \in Syncers, PublishFails(t)
    PROVE  IInv'
<1> USE DistinctConstants DEF IInv, PublishFails, Goto, Return, Procs, GcTasks, diskVars, procVars, gcVars
<1>1. TypeOK'
  BY DEF TypeOK, Unstage
<1>2. LocalsOK'
  BY DEF TypeOK, LocalsOK, RepoPcs, HeadPcs, SyncPcs, ClientPcs
<1>3. LockHeld'
  BY DEF TypeOK, LockHeld, GcPcs
<1>4. Exclusive'
  BY DEF TypeOK, Exclusive, StagingHasOneWriter, Fills, Unstage
<1>5. LeaseAccounting'
  BY AccountsKept DEF TypeOK
<1> QED BY <1>1, <1>2, <1>3, <1>4, <1>5

LEMMA PublishRenameStep ==
    ASSUME IInv, NEW t \in Syncers, PublishRename(t)
    PROVE  IInv'
<1> USE DistinctConstants DEF IInv, PublishRename, Goto, Return, Procs, GcTasks, diskVars, procVars, gcVars
<1>1. TypeOK'
  <2>1. repo[t] \in Repos /\ base[t] \in Revs
    BY DEF LocalsOK, RepoPcs, HeadPcs, SyncPcs
  <2>2. CASE tree[repo[t]][base[t]] = "absent"
    <3>1. PICK c \in {"whole", "torn"} : tree' = [tree EXCEPT ![repo[t]][base[t]] = c]
      BY <2>2
    <3>2. Goto(t, "published")
      BY <2>2
    <3> QED BY <2>1, <3>1, <3>2 DEF TypeOK, SyncPcs, HeadPcs, Unstage
  <2>3. CASE tree[repo[t]][base[t]] # "absent"
    <3>1. UNCHANGED tree /\ Goto(t, "counting")
      BY <2>3
    <3> QED BY <2>1, <3>1 DEF TypeOK, SyncPcs, HeadPcs, Unstage
  <2> QED BY <2>2, <2>3
<1>2. LocalsOK'
  BY DEF TypeOK, LocalsOK, LockHeld, HeadPcs
<1>3. LockHeld'
  BY DEF TypeOK, LockHeld, HeadPcs, GcPcs
<1>4. Exclusive'
  BY DEF TypeOK, LockHeld, Exclusive, StagingHasOneWriter, Fills, Unstage
<1>5. LeaseAccounting'
  BY AccountsKept DEF TypeOK
<1> QED BY <1>1, <1>2, <1>3, <1>4, <1>5

LEMMA DetachedEndsStep ==
    ASSUME IInv, NEW t \in Syncers, DetachedEnds(t)
    PROVE  IInv'
<1> USE DistinctConstants DEF IInv, DetachedEnds, Goto, Return, Procs, GcTasks, diskVars, procVars, gcVars
<1>1. TypeOK'
  BY DEF TypeOK
<1>2. LocalsOK'
  BY DEF TypeOK, LocalsOK, RepoPcs, HeadPcs, SyncPcs, ClientPcs
<1>3. LockHeld'
  BY DEF TypeOK, LockHeld, GcPcs
<1>4. Exclusive'
  BY DEF LockHeld, Exclusive
<1>5. LeaseAccounting'
  BY AccountsKept DEF TypeOK
<1> QED BY <1>1, <1>2, <1>3, <1>4, <1>5

LEMMA SyncDroppedStep ==
    ASSUME IInv, NEW t \in Syncers, SyncDropped(t)
    PROVE  IInv'
<1> USE DistinctConstants DEF IInv, SyncDropped, Goto, Return, Procs, GcTasks, diskVars, procVars, gcVars
<1>1. TypeOK'
  BY DEF TypeOK
<1>2. LocalsOK'
  BY DEF LocalsOK
<1>3. LockHeld'
  BY DEF LockHeld
<1>4. Exclusive'
  BY DEF Exclusive
<1>5. LeaseAccounting'
  BY AccountsKept DEF TypeOK
<1> QED BY <1>1, <1>2, <1>3, <1>4, <1>5

LEMMA SetSnapshotStep ==
    ASSUME IInv, NEW t \in Syncers, SetSnapshot(t)
    PROVE  IInv'
<1> USE DistinctConstants DEF IInv, SetSnapshot, Goto, Return, Procs, GcTasks, diskVars, procVars, gcVars
<1>1. TypeOK'
  BY DEF TypeOK, LocalsOK, HeadPcs, GcPcs
<1>2. LocalsOK'
  BY DEF TypeOK, LocalsOK, LockHeld, HeadPcs, ClientPcs
<1>3. LockHeld'
  BY DEF LockHeld
<1>4. Exclusive'
  BY DEF Exclusive, StagingHasOneWriter, Fills
<1>5. LeaseAccounting'
  BY AccountsKept DEF TypeOK
<1> QED BY <1>1, <1>2, <1>3, <1>4, <1>5

LEMMA ReapBeginStep ==
    ASSUME IInv, NEW t \in Reapers, NEW expired \in SUBSET Sids, ReapBegin(t, expired)
    PROVE  IInv'
<1> USE DistinctConstants DEF IInv, ReapBegin, Goto, Return, Procs, GcTasks, diskVars, procVars, gcVars
<1>1. TypeOK'
  BY DEF TypeOK, GcPcs
<1>2. LocalsOK'
  BY DEF LocalsOK, RepoPcs, HeadPcs, SyncPcs, ClientPcs
<1>3. LockHeld'
  BY DEF LockHeld
<1>4. Exclusive'
  BY DEF Exclusive, StagingHasOneWriter, Fills
<1>5. LeaseAccounting'
  BY AccountsKept DEF TypeOK
<1> QED BY <1>1, <1>2, <1>3, <1>4, <1>5

LEMMA GcScanStep ==
    ASSUME IInv, NEW t \in GcTasks, GcScan(t)
    PROVE  IInv'
<1> USE DistinctConstants DEF IInv, GcScan, Goto, Return, Procs, GcTasks, diskVars, procVars, gcVars
<1>1. TypeOK'
  <2>1. PICK unread \in SUBSET Unreadable :
            referenced' = [referenced EXCEPT ![t] = {pin[s] : s \in AliveSessions \ unread}]
    OBVIOUS
  <2>2. {pin[s] : s \in AliveSessions \ unread} \subseteq Repos \X Bases
    BY DEF TypeOK, AliveSessions
  <2>3. t \in Syncers => repo[t] \in Repos
    BY DEF LockHeld
  <2> QED BY <2>1, <2>2, <2>3 DEF TypeOK, GcPcs
<1>2. LocalsOK'
  BY DEF LocalsOK, RepoPcs, HeadPcs, SyncPcs, ClientPcs
<1>3. LockHeld'
  BY DEF TypeOK, LockHeld, HeadPcs
<1>4. Exclusive'
  BY DEF Exclusive, StagingHasOneWriter, Fills
<1>5. LeaseAccounting'
  BY AccountsKept DEF TypeOK
<1> QED BY <1>1, <1>2, <1>3, <1>4, <1>5

LEMMA GcScanFailsStep ==
    ASSUME IInv, NEW t \in GcTasks, GcScanFails(t)
    PROVE  IInv'
<1> USE DistinctConstants DEF IInv, GcScanFails, Goto, Return, Procs, GcTasks, diskVars, procVars, gcVars
<1>1. TypeOK'
  BY DEF TypeOK
<1>2. LocalsOK'
  BY DEF LocalsOK, RepoPcs, HeadPcs, SyncPcs, ClientPcs
<1>3. LockHeld'
  BY DEF TypeOK, LockHeld, GcPcs
<1>4. Exclusive'
  BY DEF Exclusive, StagingHasOneWriter, Fills
<1>5. LeaseAccounting'
  BY AccountsKept DEF TypeOK
<1> QED BY <1>1, <1>2, <1>3, <1>4, <1>5

LEMMA GcCaptureStep ==
    ASSUME IInv, NEW t \in GcTasks, NEW r \in Repos, GcCapture(t, r)
    PROVE  IInv'
<1> USE DistinctConstants DEF IInv, GcCapture, Goto, Return, Procs, GcTasks, diskVars, procVars, gcVars
<1>1. TypeOK'
  BY DEF TypeOK, Bases, Protected, GcPcs
<1>2. LocalsOK'
  BY DEF TypeOK, LocalsOK, HeadPcs, ClientPcs
<1>3. LockHeld'
  BY DEF LockHeld, HeadPcs, GcPcs
<1>4. Exclusive'
  BY DEF Exclusive, StagingHasOneWriter, Fills
<1>5. LeaseAccounting'
  BY AccountsKept DEF TypeOK
<1> QED BY <1>1, <1>2, <1>3, <1>4, <1>5

LEMMA GcListStep ==
    ASSUME IInv, NEW t \in GcTasks, GcList(t)
    PROVE  IInv'
<1> USE DistinctConstants DEF IInv, GcList, Goto, Return, Procs, GcTasks, diskVars, procVars, gcVars
<1>1. TypeOK'
  BY DEF TypeOK, OnDisk, GcPcs
<1>2. LocalsOK'
  BY DEF LocalsOK, RepoPcs, HeadPcs, ClientPcs
<1>3. LockHeld'
  BY DEF LockHeld, HeadPcs, GcPcs
<1>4. Exclusive'
  BY DEF Exclusive, StagingHasOneWriter, Fills
<1>5. LeaseAccounting'
  BY AccountsKept DEF TypeOK
<1> QED BY <1>1, <1>2, <1>3, <1>4, <1>5

LEMMA GcRemoveBeginStep ==
    ASSUME IInv, NEW t \in GcTasks, NEW b \in Bases, GcRemoveBegin(t, b)
    PROVE  IInv'
<1> USE DistinctConstants DEF IInv, GcRemoveBegin, Goto, Return, Procs, GcTasks, diskVars, procVars, gcVars
<1>1. TypeOK'
  BY DEF TypeOK, GcPcs
<1>2. LocalsOK'
  BY DEF TypeOK, LocalsOK, RepoPcs, HeadPcs, ClientPcs
<1>3. LockHeld'
  BY DEF LockHeld, HeadPcs, GcPcs
<1>4. Exclusive'
  BY DEF Exclusive, StagingHasOneWriter, Fills
<1>5. LeaseAccounting'
  BY AccountsKept DEF TypeOK
<1> QED BY <1>1, <1>2, <1>3, <1>4, <1>5

LEMMA GcRemoveEndStep ==
    ASSUME IInv, NEW t \in GcTasks, GcRemoveEnd(t)
    PROVE  IInv'
<1> USE DistinctConstants DEF IInv, GcRemoveEnd, Goto, Return, Procs, GcTasks, diskVars, procVars, gcVars
<1>1. TypeOK'
  <2>1. repo[t] \in Repos /\ base[t] \in Bases
    BY DEF LocalsOK, RepoPcs
  <2>2. tree' \in [Repos -> [Bases -> {"absent", "torn", "whole"}]]
    BY <2>1 DEF TypeOK
  <2> QED BY <2>2 DEF TypeOK, GcPcs
<1>2. LocalsOK'
  BY DEF TypeOK, LocalsOK, RepoPcs, HeadPcs, ClientPcs
<1>3. LockHeld'
  BY DEF LockHeld, HeadPcs, GcPcs
<1>4. Exclusive'
  BY DEF Exclusive, StagingHasOneWriter, Fills
<1>5. LeaseAccounting'
  BY AccountsKept DEF TypeOK
<1> QED BY <1>1, <1>2, <1>3, <1>4, <1>5

LEMMA GcRemoveFailsStep ==
    ASSUME IInv, NEW t \in GcTasks, GcRemoveFails(t)
    PROVE  IInv'
<1> USE DistinctConstants DEF IInv, GcRemoveFails, Goto, Return, Procs, GcTasks, diskVars, procVars, gcVars
<1>1. TypeOK'
  <2>1. faults' \in 0 .. MaxFaults
    BY FiniteConstants DEF TypeOK
  <2> QED BY <2>1 DEF TypeOK, GcPcs
<1>2. LocalsOK'
  BY DEF TypeOK, LocalsOK, RepoPcs, HeadPcs, ClientPcs
<1>3. LockHeld'
  BY DEF LockHeld, HeadPcs, GcPcs
<1>4. Exclusive'
  BY DEF Exclusive, StagingHasOneWriter, Fills
<1>5. LeaseAccounting'
  BY AccountsKept DEF TypeOK
<1> QED BY <1>1, <1>2, <1>3, <1>4, <1>5

LEMMA GcRepoDoneStep ==
    ASSUME IInv, NEW t \in GcTasks, GcRepoDone(t)
    PROVE  IInv'
<1> USE DistinctConstants DEF IInv, GcRepoDone, Goto, Return, Procs, GcTasks, diskVars, procVars, gcVars
<1>1. TypeOK'
  BY DEF TypeOK, GcPcs
<1>2. LocalsOK'
  BY DEF LocalsOK, RepoPcs, HeadPcs, ClientPcs
<1>3. LockHeld'
  BY DEF LockHeld, HeadPcs, GcPcs
<1>4. Exclusive'
  BY DEF Exclusive, StagingHasOneWriter, Fills
<1>5. LeaseAccounting'
  BY AccountsKept DEF TypeOK
<1> QED BY <1>1, <1>2, <1>3, <1>4, <1>5

LEMMA GcDoneStep ==
    ASSUME IInv, NEW t \in GcTasks, GcDone(t)
    PROVE  IInv'
<1> USE DistinctConstants DEF IInv, GcDone, Goto, Return, Procs, GcTasks, diskVars, procVars, gcVars
<1>1. TypeOK'
  BY DEF TypeOK
<1>2. LocalsOK'
  BY DEF LocalsOK, RepoPcs, HeadPcs, SyncPcs, ClientPcs
<1>3. LockHeld'
  BY DEF TypeOK, LockHeld
<1>4. Exclusive'
  BY DEF Exclusive, StagingHasOneWriter, Fills
<1>5. LeaseAccounting'
  BY AccountsKept DEF TypeOK
<1> QED BY <1>1, <1>2, <1>3, <1>4, <1>5

LEMMA LeaseCurrentStep ==
    ASSUME IInv, NEW c \in Clients, NEW r \in Repos,
           NEW l \in {"searching", "creating"}, LeaseCurrent(c, r, l)
    PROVE  IInv'
<1> USE DistinctConstants DEF IInv, LeaseCurrent, Goto, Procs, GcTasks, diskVars, gcVars
<1> DEFINE h == current[r]
<1>0. h \in Revs /\ leases[r][h] \in Nat
  BY DEF TypeOK
<1>1. TypeOK'
  <2>1. leases' \in [Repos -> [Revs -> Nat]]
    BY <1>0 DEF TypeOK
  <2>2. base' \in [Procs -> Bases \cup {None}]
    BY <1>0 DEF TypeOK, Bases
  <2>3. pc' \in [Procs -> {"idle"} \cup SyncPcs \cup GcPcs \cup ClientPcs]
    BY DEF TypeOK, ClientPcs
  <2> QED BY <2>1, <2>2, <2>3 DEF TypeOK
<1>2. LocalsOK'
  BY <1>0 DEF TypeOK, LocalsOK
<1>3. LockHeld' /\ Exclusive'
  BY DEF LockHeld, Exclusive, StagingHasOneWriter, Fills
<1>4. LeaseAccounting'
  <2> SUFFICES ASSUME NEW q \in Repos, NEW b \in Revs
               PROVE  leases'[q][b] = Cardinality(Holders(q, b)')
    BY DEF LeaseAccounting
  <2>1. CASE q = r /\ b = h
    <3>1. Holders(q, b)' = Holders(q, b) \cup {c} /\ c \notin Holders(q, b)
      BY <2>1 DEF Holders, HoldsLease, TypeOK
    <3>2. Cardinality(Holders(q, b)') = Cardinality(Holders(q, b)) + 1
      BY <3>1, HoldersFinite, FS_AddElement
    <3> QED BY <1>0, <2>1, <3>2 DEF LeaseAccounting, TypeOK
  <2>2. CASE ~(q = r /\ b = h)
    <3>1. Holders(q, b)' = Holders(q, b)
      BY <2>2 DEF Holders, HoldsLease, TypeOK
    <3> QED BY <1>0, <2>2, <3>1 DEF LeaseAccounting
  <2> QED BY <2>1, <2>2
<1> QED BY <1>1, <1>2, <1>3, <1>4

LEMMA CreatePersistStep ==
    ASSUME IInv, NEW c \in Clients, NEW s \in Sids, CreatePersist(c, s)
    PROVE  IInv'
<1> USE DistinctConstants DEF IInv, CreatePersist, Goto, Procs, GcTasks, diskVars, gcVars
<1>1. TypeOK'
  BY DEF TypeOK, LocalsOK, Bases, RepoPcs, ClientPcs
<1>2. LocalsOK' /\ LockHeld' /\ Exclusive'
  BY DEF LocalsOK, LockHeld, Exclusive, StagingHasOneWriter, Fills, RepoPcs, ClientPcs
<1>3. ASSUME NEW r \in Repos, NEW b \in Revs
      PROVE  Holders(r, b)' = Holders(r, b)
  BY DEF Holders, HoldsLease
<1>4. LeaseAccounting'
  BY <1>3 DEF LeaseAccounting
<1> QED BY <1>1, <1>2, <1>4

LEMMA ReleaseLeaseStep ==
    ASSUME IInv, NEW c \in Clients, ReleaseLease(c)
    PROVE  IInv'
<1> USE DistinctConstants DEF IInv, ReleaseLease, Return, Goto, Procs, GcTasks, diskVars, gcVars
<1> DEFINE r == repo[c]
           h == base[c]
<1>0. r \in Repos /\ h \in Revs /\ c \in Holders(r, h)
  BY DEF LocalsOK, HoldsLease, Holders, RepoPcs, ClientPcs
<1>1. leases[r][h] \in Nat \ {0}
  BY <1>0, HoldersFinite, FS_EmptySet DEF LeaseAccounting
<1>2. leases[r][h] - 1 \in Nat
  BY <1>1
<1>3. TypeOK'
  BY <1>0, <1>2 DEF TypeOK
<1>4. LocalsOK' /\ LockHeld' /\ Exclusive'
  BY DEF TypeOK, LocalsOK, LockHeld, Exclusive, StagingHasOneWriter, Fills, RepoPcs, HeadPcs, SyncPcs,
         ClientPcs, GcPcs
<1>5. LeaseAccounting'
  <2> SUFFICES ASSUME NEW q \in Repos, NEW b \in Revs
               PROVE  leases'[q][b] = Cardinality(Holders(q, b)')
    BY DEF LeaseAccounting
  <2>1. CASE q = r /\ b = h
    <3>1. Holders(q, b)' = Holders(q, b) \ {c}
      BY <2>1 DEF Holders, HoldsLease, TypeOK
    <3>2. Cardinality(Holders(q, b)') = Cardinality(Holders(q, b)) - 1
      <4>1. IsFiniteSet(Holders(q, b)) /\ c \in Holders(q, b)
        BY <1>0, <2>1, HoldersFinite
      <4> HIDE DEF IInv, ReleaseLease
      <4> QED BY <3>1, <4>1, FS_RemoveElement
    <3> QED BY <1>0, <2>1, <3>2 DEF LeaseAccounting, TypeOK
  <2>2. CASE ~(q = r /\ b = h)
    <3>1. Holders(q, b)' = Holders(q, b)
      BY <2>2 DEF Holders, HoldsLease, TypeOK
    <3> QED BY <1>0, <2>2, <3>1 DEF LeaseAccounting
  <2> QED BY <2>1, <2>2
<1> QED BY <1>3, <1>4, <1>5

LEMMA DeleteSessionStep ==
    ASSUME IInv, NEW s \in Sids, DeleteSession(s)
    PROVE  IInv'
<1> USE DEF IInv, DeleteSession, diskVars, procVars, gcVars
<1>1. TypeOK' /\ LocalsOK' /\ LockHeld' /\ Exclusive'
  BY DEF TypeOK, LocalsOK, LockHeld, Exclusive, StagingHasOneWriter, Fills
<1>2. LeaseAccounting'
  BY AccountsKept
<1> QED BY <1>1, <1>2

LEMMA RestartStep ==
    ASSUME IInv, Restart
    PROVE  IInv'
<1> USE DistinctConstants, FiniteConstants DEF IInv, Restart, diskVars
<1>1. TypeOK'
  BY DEF TypeOK, NoLeases, Unlocked, AllIdle, NoLocal, NoSets
<1>2. LocalsOK' /\ LockHeld' /\ Exclusive'
  BY DEF LocalsOK, LockHeld, Exclusive, StagingHasOneWriter, Fills, AllIdle, NoLocal, RepoPcs,
         HeadPcs, SyncPcs, ClientPcs, GcPcs, Procs, GcTasks
<1>3. ASSUME NEW r \in Repos, NEW b \in Revs
      PROVE  Holders(r, b)' = {}
  BY DEF AllIdle, Holders, HoldsLease, Procs
<1>4. LeaseAccounting'
  BY <1>3, FS_EmptySet DEF LeaseAccounting, NoLeases
<1> QED BY <1>1, <1>2, <1>4

LEMMA StutterStep ==
    ASSUME IInv, UNCHANGED vars
    PROVE  IInv'
<1> USE DEF IInv, vars, diskVars, procVars, gcVars
<1>1. TypeOK' /\ LocalsOK' /\ LockHeld' /\ Exclusive'
  BY DEF TypeOK, LocalsOK, LockHeld, Exclusive, StagingHasOneWriter, Fills
<1>2. LeaseAccounting'
  BY AccountsKept
<1> QED BY <1>1, <1>2

LEMMA NextIInv == IInv /\ [Next]_vars => IInv'
<1> SUFFICES ASSUME IInv, [Next]_vars PROVE IInv'
  OBVIOUS
<1>1. ASSUME NEW t \in Syncers, NEW r \in Repos, SyncBegin(t, r) PROVE IInv'
  BY <1>1, SyncBeginStep
<1>9. ASSUME NEW t \in Syncers, SyncDropped(t) PROVE IInv'
  BY <1>9, SyncDroppedStep
<1>2. ASSUME NEW t \in Syncers, SyncStep(t) PROVE IInv'
  BY <1>2, SyncFailsStep, SyncResolveStep, PublishReuseStep, CountFilesStep,
     CountFilesFailsStep, PublishStageStep, PublishFailsStep, PublishRenameStep,
     SetSnapshotStep, DetachedEndsStep DEF SyncStep
<1>3. ASSUME NEW t \in Reapers, NEW expired \in SUBSET Sids, ReapBegin(t, expired)
      PROVE  IInv'
  BY <1>3, ReapBeginStep
<1>4. ASSUME NEW t \in GcTasks, GcStep(t) PROVE IInv'
  BY <1>4, GcScanStep, GcScanFailsStep, GcCaptureStep, GcListStep, GcRemoveBeginStep,
     GcRemoveEndStep, GcRemoveFailsStep, GcRepoDoneStep, GcDoneStep DEF GcStep
<1>5. ASSUME NEW c \in Clients, ClientStep(c) PROVE IInv'
  BY <1>5, LeaseCurrentStep, CreatePersistStep, ReleaseLeaseStep
     DEF ClientStep, SearchBegin, CreateBegin
<1>6. ASSUME NEW s \in Sids, DeleteSession(s) PROVE IInv'
  BY <1>6, DeleteSessionStep
<1>7. CASE Restart
  BY <1>7, RestartStep
<1>8. CASE UNCHANGED vars
  BY <1>8, StutterStep
<1> QED BY <1>1, <1>2, <1>3, <1>4, <1>5, <1>6, <1>7, <1>8, <1>9 DEF Next

\* The inductive invariant of this module holds in every reachable state.
THEOREM Invariance == Spec => []IInv
BY InitIInv, NextIInv, PTL DEF Spec

\* Every variable keeps its type; in particular no lease count goes below zero.
THEOREM TypeCorrect == Spec => []TypeOK
BY Invariance, PTL DEF IInv

\* When no sync can lose its future, publication stays exclusive whatever the
\* number of syncs, collectors, failed removals and restarts.
THEOREM StagingExclusive ==
    ASSUME Manual = {} PROVE Spec => []StagingHasOneWriter
<1>1. IInv => StagingHasOneWriter
  BY DEF IInv, Exclusive
<1> QED BY <1>1, Invariance, PTL

\* The lease counts equal the number of live guards.
THEOREM LeasesCounted == Spec => []LeaseAccounting
BY Invariance, PTL DEF IInv

-----------------------------------------------------------------------------
(* No collector deletes a base in use by a witness it has seen.            *)

\* The steps of a collector that rely on what it has read.
SightedPcs == {"scanned", "captured", "deleting", "removing"}

\* A witness is a live session or a lease holder.
WitnessesAlive == \A t \in GcTasks : spared[t] \subseteq AliveSessions \cup LeaseHolders

\* A witness that is a session was in the scan, and still has the pin it had.
SessionsScanned ==
    \A t \in GcTasks : pc[t] \in SightedPcs =>
        \A s \in spared[t] \cap Sids : pin[s] \in referenced[t]

\* What a witness uses is in the keep-set.
UsesKept ==
    \A t \in GcTasks : pc[t] = "captured" =>
        \A w \in spared[t], b \in Bases : InUse(w) = <<repo[t], b>> => b \in keep[t]

\* What a witness uses is not to be deleted (GcSparesInUse, over bases).
UsesSpared ==
    \A t \in GcTasks : \A w \in spared[t], b \in Bases :
        InUse(w) = <<repo[t], b>> =>
            /\ pc[t] \in {"deleting", "removing"} => b \notin victims[t]
            /\ pc[t] = "removing" => b # base[t]

HInv == WitnessesAlive /\ SessionsScanned /\ UsesKept /\ UsesSpared

-----------------------------------------------------------------------------
(* What a step leaves alone.                                               *)

\* The pin of a session and the lease of a client do not change while they last.
UsesStay ==
    /\ \A s \in Sids : pin'[s] = pin[s] \/ pin[s] = None \/ pin'[s] = None
    /\ \A c \in Clients : HoldsLease(c) /\ HoldsLease(c)' =>
          repo'[c] = repo[c] /\ base'[c] = base[c]

\* Collector t takes no step: its locals stay.
Rests(t) ==
    /\ pc'[t] = pc[t] /\ repo'[t] = repo[t] /\ base'[t] = base[t]
    /\ referenced'[t] = referenced[t] /\ keep'[t] = keep[t] /\ victims'[t] = victims[t]

\* What can happen to collector t in a step.
Moves(t) ==
    \/ Rests(t)
    \/ pc'[t] \notin SightedPcs
    \/ GcScan(t) \/ (\E r \in Repos : GcCapture(t, r)) \/ GcList(t)
    \/ (\E b \in Bases : GcRemoveBegin(t, b))
    \/ GcRemoveEnd(t) \/ GcRemoveFails(t) \/ GcRepoDone(t)

LEMMA SyncsMove ==
    ASSUME TypeOK, NEW u \in Syncers,
           (\E r \in Repos : SyncBegin(u, r)) \/ SyncStep(u) \/ SyncDropped(u)
    PROVE  UsesStay /\ \A t \in GcTasks : Moves(t)
<1> USE DistinctConstants DEF TypeOK, Goto, Return, Procs, GcTasks, procVars, gcVars
<1>1. UsesStay
  BY DEF UsesStay, HoldsLease, SyncBegin, SyncStep, SyncDropped, SyncFails, SyncResolve, PublishReuse,
         CountFiles, CountFilesFails, PublishStage, PublishFails, PublishRename, SetSnapshot,
         DetachedEnds
<1>2. ASSUME NEW t \in GcTasks PROVE Rests(t) \/ pc'[t] \notin SightedPcs
  BY DEF Rests, SightedPcs, SyncBegin, SyncStep, SyncDropped, SyncFails, SyncResolve, PublishReuse,
         CountFiles, CountFilesFails, PublishStage, PublishFails, PublishRename, SetSnapshot,
         DetachedEnds
<1> QED BY <1>1, <1>2 DEF Moves

LEMMA ReapMoves ==
    ASSUME TypeOK, NEW u \in Reapers, NEW expired \in SUBSET Sids, ReapBegin(u, expired)
    PROVE  UsesStay /\ \A t \in GcTasks : Moves(t)
<1> USE DistinctConstants DEF TypeOK, Goto, Procs, GcTasks, ReapBegin, gcVars
<1>1. UsesStay
  BY DEF UsesStay, HoldsLease
<1>2. ASSUME NEW t \in GcTasks PROVE Rests(t) \/ pc'[t] \notin SightedPcs
  BY DEF Rests, SightedPcs
<1> QED BY <1>1, <1>2 DEF Moves

LEMMA GcMoves ==
    ASSUME TypeOK, NEW u \in GcTasks, GcStep(u)
    PROVE  UsesStay /\ \A t \in GcTasks : Moves(t)
<1> USE DistinctConstants DEF TypeOK, Goto, Return, Procs, GcTasks, gcVars
<1>1. UsesStay
  <2>1. pin' = pin
    BY DEF GcStep, GcScan, GcScanFails, GcCapture, GcList, GcRemoveBegin, GcRemoveEnd,
           GcRemoveFails, GcRepoDone, GcDone
  <2>2. ASSUME NEW c \in Clients PROVE c # u
    OBVIOUS
  <2>3. ASSUME NEW c \in Clients PROVE repo'[c] = repo[c] /\ base'[c] = base[c]
    BY <2>2 DEF GcStep, GcScan, GcScanFails, GcCapture, GcList, GcRemoveBegin, GcRemoveEnd,
                GcRemoveFails, GcRepoDone, GcDone
  <2> QED BY <2>1, <2>3 DEF UsesStay
<1>2. ASSUME NEW t \in GcTasks, t # u PROVE Rests(t)
  <2>1. CASE GcScan(u) \/ GcScanFails(u) \/ GcList(u) \/ \E r \in Repos : GcCapture(u, r)
    BY <1>2, <2>1 DEF Rests, GcScan, GcScanFails, GcCapture, GcList
  <2>2. CASE \/ \E b \in Bases : GcRemoveBegin(u, b)
             \/ GcRemoveEnd(u) \/ GcRemoveFails(u)
             \/ GcRepoDone(u) \/ GcDone(u)
    BY <1>2, <2>2 DEF Rests, GcRemoveBegin, GcRemoveEnd, GcRemoveFails, GcRepoDone, GcDone
  <2> QED BY <2>1, <2>2 DEF GcStep
<1>3. GcScanFails(u) \/ GcDone(u) => pc'[u] \notin SightedPcs
  BY DEF GcScanFails, GcDone, SightedPcs
<1>4. Moves(u)
  BY <1>3 DEF Moves, GcStep
<1> QED BY <1>1, <1>2, <1>4 DEF Moves

LEMMA ClientsMove ==
    ASSUME TypeOK, NEW c \in Clients, ClientStep(c)
    PROVE  UsesStay /\ \A t \in GcTasks : Moves(t)
<1> USE DistinctConstants DEF TypeOK, Goto, Return, Procs, GcTasks, gcVars
<1>1. UsesStay
  BY DEF UsesStay, HoldsLease, ClientStep, SearchBegin, CreateBegin, LeaseCurrent, CreatePersist,
         ReleaseLease
<1>2. ASSUME NEW t \in GcTasks PROVE Rests(t)
  BY DEF Rests, ClientStep, SearchBegin, CreateBegin, LeaseCurrent, CreatePersist, ReleaseLease
<1> QED BY <1>1, <1>2 DEF Moves

LEMMA NextMoves ==
    ASSUME TypeOK, [Next]_vars
    PROVE  UsesStay /\ \A t \in GcTasks : Moves(t)
<1>1. ASSUME NEW u \in Syncers,
             (\E r \in Repos : SyncBegin(u, r)) \/ SyncStep(u) \/ SyncDropped(u)
      PROVE  UsesStay /\ \A t \in GcTasks : Moves(t)
  BY <1>1, SyncsMove
<1>2. ASSUME NEW u \in Reapers, NEW expired \in SUBSET Sids, ReapBegin(u, expired)
      PROVE  UsesStay /\ \A t \in GcTasks : Moves(t)
  BY <1>2, ReapMoves
<1>3. ASSUME NEW u \in GcTasks, GcStep(u) PROVE UsesStay /\ \A t \in GcTasks : Moves(t)
  BY <1>3, GcMoves
<1>4. ASSUME NEW c \in Clients, ClientStep(c) PROVE UsesStay /\ \A t \in GcTasks : Moves(t)
  BY <1>4, ClientsMove
<1>5. ASSUME NEW s \in Sids, DeleteSession(s) PROVE UsesStay /\ \A t \in GcTasks : Moves(t)
  BY <1>5 DEF TypeOK, DeleteSession, UsesStay, HoldsLease, Moves, Rests, procVars, gcVars
<1>6. CASE Restart
  BY <1>6 DEF Restart, UsesStay, HoldsLease, Moves, SightedPcs, AllIdle, Procs, GcTasks
<1>7. CASE UNCHANGED vars
  BY <1>7 DEF vars, UsesStay, Moves, Rests, procVars, gcVars
<1> QED BY <1>1, <1>2, <1>3, <1>4, <1>5, <1>6, <1>7 DEF Next

-----------------------------------------------------------------------------
(* The invariant.                                                          *)

LEMMA InitHInv == HInit => HInv
<1> SUFFICES ASSUME HInit PROVE HInv
  OBVIOUS
<1> QED BY DEF HInit, Init, AllIdle, HInv, WitnessesAlive, SessionsScanned, UsesKept, UsesSpared,
              SightedPcs, Procs, GcTasks

\* A witness that stays uses what it used.
LEMMA UseStays ==
    ASSUME HInv, UsesStay, NEW t \in GcTasks, NEW w \in spared[t],
           w \in AliveSessions' \cup LeaseHolders'
    PROVE  InUse(w)' = InUse(w)
<1>1. w \in AliveSessions \cup LeaseHolders
  BY DEF HInv, WitnessesAlive
<1>2. CASE w \in Sids
  BY <1>1, <1>2, ClientsAreNotSessions DEF UsesStay, InUse, AliveSessions, LeaseHolders
<1>3. CASE w \notin Sids
  BY <1>1, <1>3 DEF UsesStay, InUse, AliveSessions, LeaseHolders
<1> QED BY <1>2, <1>3

\* Except when it scans or captures, a collector sees no new witness.
LEMMA WitnessesShrink ==
    ASSUME HNext, NEW t \in GcTasks,
           ~(pc[t] = "scanning" /\ pc'[t] = "scanned"),
           ~(pc[t] = "scanned" /\ pc'[t] = "captured")
    PROVE  spared'[t] \subseteq spared[t] \cap (AliveSessions' \cup LeaseHolders')
BY DEF HNext, Seen

LEMMA AliveKept == ASSUME HNext PROVE WitnessesAlive'
BY DEF HNext, WitnessesAlive

\* The three facts about one collector.
Sighted(t) ==
    /\ pc[t] \in SightedPcs => \A s \in spared[t] \cap Sids : pin[s] \in referenced[t]
    /\ pc[t] = "captured" =>
          \A w \in spared[t], b \in Bases : InUse(w) = <<repo[t], b>> => b \in keep[t]
    /\ \A w \in spared[t], b \in Bases : InUse(w) = <<repo[t], b>> =>
          /\ pc[t] \in {"deleting", "removing"} => b \notin victims[t]
          /\ pc[t] = "removing" => b # base[t]

LEMMA RestKeeps ==
    ASSUME IInv, HInv, HNext, UsesStay, NEW t \in GcTasks, Rests(t)
    PROVE  Sighted(t)'
<1>1. spared'[t] \subseteq spared[t] \cap (AliveSessions' \cup LeaseHolders')
  BY WitnessesShrink DEF Rests
<1>2. \A w \in spared'[t] : w \in spared[t] /\ InUse(w)' = InUse(w)
  BY <1>1, UseStays
<1>3. \A s \in spared'[t] \cap Sids : pin'[s] = pin[s]
  BY <1>2 DEF InUse
<1> QED BY <1>2, <1>3 DEF Sighted, Rests, HInv, SessionsScanned, UsesKept, UsesSpared

\* A step of the collection other than the scan and the capture leaves the
\* witnesses' uses and the scan alone.
LEMMA StepKeeps ==
    ASSUME IInv, HInv, HNext, UsesStay, NEW t \in GcTasks,
           \/ GcList(t) \/ (\E b \in Bases : GcRemoveBegin(t, b))
           \/ GcRemoveEnd(t) \/ GcRemoveFails(t) \/ GcRepoDone(t)
    PROVE  Sighted(t)'
<1> USE DEF IInv, TypeOK, Goto, Procs, GcTasks, gcVars
<1>0. pc[t] \in {"captured", "deleting", "removing"}
  BY DEF GcList, GcRemoveBegin, GcRemoveEnd, GcRemoveFails, GcRepoDone
<1>1. spared'[t] \subseteq spared[t] \cap (AliveSessions' \cup LeaseHolders')
  BY <1>0, WitnessesShrink
<1>2. \A w \in spared'[t] : w \in spared[t] /\ InUse(w)' = InUse(w)
  BY <1>1, UseStays
<1>3. pc'[t] \in SightedPcs => \A s \in spared'[t] \cap Sids : pin'[s] \in referenced'[t]
  <2>1. referenced'[t] = referenced[t]
    BY DEF GcList, GcRemoveBegin, GcRemoveEnd, GcRemoveFails, GcRepoDone
  <2>2. \A s \in spared'[t] \cap Sids : pin'[s] = pin[s]
    BY <1>2 DEF InUse
  <2> QED BY <1>0, <1>2, <2>1, <2>2 DEF HInv, SessionsScanned, SightedPcs
<1>4. repo'[t] = repo[t]
  BY DEF GcList, GcRemoveBegin, GcRemoveEnd, GcRemoveFails, GcRepoDone
<1>5. CASE GcList(t)
  BY <1>2, <1>3, <1>4, <1>5 DEF GcList, Sighted, HInv, UsesKept
<1>6. ASSUME NEW b \in Bases, GcRemoveBegin(t, b) PROVE Sighted(t)'
  BY <1>2, <1>3, <1>4, <1>6 DEF GcRemoveBegin, Sighted, HInv, UsesSpared
<1>7. CASE GcRemoveEnd(t) \/ GcRemoveFails(t)
  BY <1>2, <1>3, <1>4, <1>7 DEF GcRemoveEnd, GcRemoveFails, Sighted, HInv, UsesSpared
<1>8. CASE GcRepoDone(t)
  BY <1>3, <1>8 DEF GcRepoDone, Sighted
<1> QED BY <1>5, <1>6, <1>7, <1>8

\* The scan has the pin of every witness.
LEMMA ScanSees ==
    ASSUME IInv, HNext, NEW t \in GcTasks, GcScan(t)
    PROVE  Sighted(t)'
<1> USE DEF IInv, TypeOK, Goto, Procs, GcTasks
<1>1. PICK unread \in SUBSET Unreadable :
          referenced' = [referenced EXCEPT ![t] = {pin[s] : s \in AliveSessions \ unread}]
  BY DEF GcScan
<1>2. pc[t] = "scanning" /\ pc'[t] = "scanned" /\ pin' = pin
  BY DEF GcScan
<1>3. \A s \in spared'[t] : s \in AliveSessions \ Unreadable \/ pin[s] \in referenced'[t]
  BY <1>2 DEF HNext, Seen
<1>4. \A s \in spared'[t] : pin[s] \in referenced'[t]
  BY <1>1, <1>3
<1> QED BY <1>2, <1>4 DEF Sighted

\* The capture keeps the bases leased now and those in the scan.
LEMMA CaptureSees ==
    ASSUME IInv, HInv, HNext, NEW t \in GcTasks, NEW r \in Repos, GcCapture(t, r)
    PROVE  Sighted(t)'
<1> USE DistinctConstants DEF IInv, TypeOK, Goto, Procs, GcTasks
<1>1. /\ pc[t] = "scanned" /\ pc'[t] = "captured" /\ repo'[t] = r
      /\ referenced'[t] = referenced[t] /\ pin' = pin
      /\ keep'[t] = Protected(r) \cup {b \in Bases : <<r, b>> \in referenced[t]}
  BY DEF GcCapture
<1>2. spared'[t] \subseteq (spared[t] \cap Sids) \cup {c \in LeaseHolders : repo[c] = r}
  BY <1>1 DEF HNext, Seen
<1>3. \A s \in spared'[t] \cap Sids : pin[s] \in referenced[t]
  BY <1>1, <1>2, ClientsAreNotSessions DEF HInv, SessionsScanned, SightedPcs, LeaseHolders
<1>4. ASSUME NEW w \in spared'[t], NEW b \in Bases, InUse(w)' = <<r, b>>
      PROVE  b \in keep'[t]
  <2>1. CASE w \in Sids
    <3>1. pin[w] = <<r, b>> /\ pin[w] \in referenced[t]
      BY <1>1, <1>3, <1>4, <2>1 DEF InUse
    <3>2. <<r, b>> \in referenced[t]
      BY <3>1
    <3> QED BY ONLY <1>1, <3>2
  <2>2. CASE w \notin Sids
    <3>1. w \in Clients /\ HoldsLease(w) /\ repo[w] = r
      BY <1>2, <2>2 DEF LeaseHolders
    <3>2. base[w] \in Revs
      BY <3>1 DEF LocalsOK, HoldsLease, ClientPcs
    <3>3. repo'[w] = repo[w] /\ base'[w] = base[w]
      BY <3>1 DEF GcCapture
    <3>4. b = base[w]
      BY <1>4, <2>2, <3>3 DEF InUse
    <3>5. w \in Holders(r, b)
      BY <3>1, <3>4 DEF Holders
    <3>6. leases[r][b] > 0
      BY <3>2, <3>4, <3>5, HoldersFinite, FS_EmptySet DEF LeaseAccounting
    <3> QED BY <1>1, <3>2, <3>4, <3>6 DEF Protected
  <2> QED BY <2>1, <2>2
<1> QED BY <1>1, <1>3, <1>4 DEF Sighted

LEMMA NextHInv ==
    ASSUME IInv, HInv, [HNext]_hvars
    PROVE  HInv'
<1>1. CASE UNCHANGED hvars
  BY <1>1 DEF hvars, vars, procVars, gcVars, HInv, WitnessesAlive, SessionsScanned, UsesKept,
             UsesSpared, AliveSessions, LeaseHolders, HoldsLease, InUse
<1>2. CASE HNext
  <2>1. UsesStay /\ \A t \in GcTasks : Moves(t)
    BY <1>2, NextMoves DEF HNext, IInv
  <2>2. ASSUME NEW t \in GcTasks PROVE Sighted(t)'
    <3>1. CASE Rests(t)
      BY <1>2, <2>1, <3>1, RestKeeps
    <3>2. CASE pc'[t] \notin SightedPcs
      BY <3>2 DEF Sighted, SightedPcs
    <3>3. CASE GcScan(t)
      BY <1>2, <3>3, ScanSees
    <3>4. ASSUME NEW r \in Repos, GcCapture(t, r) PROVE Sighted(t)'
      BY <1>2, <3>4, CaptureSees
    <3>5. CASE \/ GcList(t) \/ (\E b \in Bases : GcRemoveBegin(t, b))
               \/ GcRemoveEnd(t) \/ GcRemoveFails(t) \/ GcRepoDone(t)
      BY <1>2, <2>1, <3>5, StepKeeps
    <3> QED BY <2>1, <3>1, <3>2, <3>3, <3>4, <3>5 DEF Moves
  <2> QED BY <1>2, <2>2, AliveKept DEF HInv, Sighted, SessionsScanned, UsesKept, UsesSpared
<1> QED BY <1>1, <1>2

\* No collector, of however many, deletes a base in use by a session alive at its
\* scan or by a lease held at its capture, whatever the syncs, clients, other
\* collectors, failed removals and restarts do meanwhile.
THEOREM InUseSpared == HSpec => []GcSparesInUse
<1>1. HInit => IInv /\ HInv
  BY InitIInv, InitHInv DEF HInit
<1>2. IInv /\ HInv /\ [HNext]_hvars => IInv' /\ HInv'
  BY NextIInv, NextHInv DEF HNext, hvars
<1>3. IInv /\ HInv => GcSparesInUse
  BY DEF IInv, TypeOK, LocalsOK, HInv, UsesSpared, GcSparesInUse, Condemned, GcTasks, Procs
<1> QED BY <1>1, <1>2, <1>3, PTL DEF HSpec

-----------------------------------------------------------------------------
(* A used directory is condemned only by the reaper, and only if a sync    *)
(* made it current again after the reaper's capture.                       *)

\* What collector t has captured or condemned lacks, or has, of the bases in use
\* only those made current since; the collection of a sync has seen none.
RevivedOK(t) ==
    /\ pc[t] = "captured" => Protected(repo[t]) \subseteq keep[t] \cup revived[t]
    /\ Condemned(t) \cap Protected(repo[t]) \subseteq revived[t]
    /\ t \in Syncers /\ pc[t] \in SightedPcs => revived[t] = {}

RInv == \A t \in GcTasks : RevivedOK(t)

\* The current base of a repository changes when the process starts again, or
\* when a sync that holds the repository's lock has published.
LEMMA CurrentMoves ==
    ASSUME TypeOK, [Next]_vars, NEW r \in Repos, current'[r] # current[r]
    PROVE  Restart \/ \E u \in Syncers : pc[u] = "published" /\ repo[u] = r /\ syncLock[r] = u
<1>1. ASSUME NEW u \in Syncers, SetSnapshot(u)
      PROVE  pc[u] = "published" /\ repo[u] = r /\ syncLock[r] = u
  BY <1>1 DEF SetSnapshot, TypeOK
<1>2. CASE \E u \in Syncers : (\E q \in Repos : SyncBegin(u, q)) \/ SyncDropped(u)
  BY <1>2 DEF SyncBegin, SyncDropped
<1>3. ASSUME NEW u \in Syncers, SyncStep(u) PROVE SetSnapshot(u)
  BY <1>3 DEF SyncStep, SyncFails, SyncResolve, PublishReuse, CountFiles, CountFilesFails,
             PublishStage, PublishFails, PublishRename, DetachedEnds
<1>4. CASE \E u \in Reapers, expired \in SUBSET Sids : ReapBegin(u, expired)
  BY <1>4 DEF ReapBegin
<1>5. CASE \E u \in GcTasks : GcStep(u)
  BY <1>5 DEF GcStep, GcScan, GcScanFails, GcCapture, GcList, GcRemoveBegin, GcRemoveEnd,
             GcRemoveFails, GcRepoDone, GcDone
<1>6. CASE \E c \in Clients : ClientStep(c)
  BY <1>6 DEF ClientStep, SearchBegin, CreateBegin, LeaseCurrent, CreatePersist, ReleaseLease
<1>7. CASE (\E s \in Sids : DeleteSession(s)) \/ UNCHANGED vars
  BY <1>7 DEF DeleteSession, vars
<1> QED BY <1>1, <1>2, <1>3, <1>4, <1>5, <1>6, <1>7 DEF Next

\* A base is leased when it was leased, or was current.
LEMMA LeasesMove ==
    ASSUME IInv, [Next]_vars, NEW r \in Repos, NEW b \in Revs, leases'[r][b] > 0
    PROVE  b \in Protected(r)
<1> USE DEF IInv, TypeOK
<1>1. CASE UNCHANGED leases
  BY <1>1 DEF Protected
<1>2. ASSUME NEW c \in Clients, NEW q \in Repos, NEW l \in {"searching", "creating"},
             LeaseCurrent(c, q, l)
      PROVE  b \in Protected(r)
  BY <1>2 DEF LeaseCurrent, Protected
<1>3. ASSUME NEW c \in Clients, ReleaseLease(c) PROVE b \in Protected(r)
  <2>1. repo[c] \in Repos /\ base[c] \in Revs
    BY <1>3 DEF ReleaseLease, HoldsLease, LocalsOK, RepoPcs, ClientPcs, Procs
  <2>2. leases[repo[c]][base[c]] \in Nat
    BY <2>1
  <2>3. leases'[r][b] = leases[r][b] \/ (r = repo[c] /\ b = base[c] /\
            leases'[r][b] = leases[repo[c]][base[c]] - 1)
    BY <1>3, <2>1 DEF ReleaseLease
  <2> QED BY <2>2, <2>3 DEF Protected
<1>4. CASE Restart
  BY <1>4 DEF Restart, NoLeases
<1>5. CASE \E u \in Syncers :
              (\E q \in Repos : SyncBegin(u, q)) \/ SyncDropped(u) \/ SyncStep(u)
  <2>1. UNCHANGED leases
    BY <1>5 DEF SyncBegin, SyncDropped, SyncStep, SyncFails, SyncResolve, PublishReuse,
                CountFiles, CountFilesFails, PublishStage, PublishFails, PublishRename,
                SetSnapshot, DetachedEnds
  <2> QED BY <1>1, <2>1
<1>6. CASE (\E u \in Reapers, expired \in SUBSET Sids : ReapBegin(u, expired))
           \/ (\E u \in GcTasks : GcStep(u))
  <2>1. UNCHANGED leases
    BY <1>6 DEF ReapBegin, GcStep, GcScan, GcScanFails, GcCapture, GcList, GcRemoveBegin,
                GcRemoveEnd, GcRemoveFails, GcRepoDone, GcDone
  <2> QED BY <1>1, <2>1
<1>7. CASE (\E s \in Sids : DeleteSession(s)) \/ UNCHANGED vars
           \/ \E c \in Clients, s \in Sids : CreatePersist(c, s)
  BY <1>1, <1>7 DEF DeleteSession, CreatePersist, vars
<1> QED BY <1>2, <1>3, <1>4, <1>5, <1>6, <1>7 DEF Next, ClientStep, SearchBegin, CreateBegin

\* What becomes used beside a collector is what a sync made current.
LEMMA UsedMoves ==
    ASSUME IInv, [Next]_vars, NEW t \in GcTasks, repo[t] \in Repos
    PROVE  Protected(repo[t])' \subseteq
               IF repo'[t] = repo[t] THEN Protected(repo[t]) \cup Revived(t) ELSE Revs
<1> SUFFICES ASSUME repo'[t] = repo[t], NEW b \in Protected(repo[t])', b \notin Protected(repo[t])
             PROVE  b \in Revived(t)
  BY DEF Protected
<1>1. b \in Revs /\ (current'[repo[t]] = b \/ leases'[repo[t]][b] > 0)
  BY DEF Protected
<1>2. current'[repo[t]] = b
  BY <1>1, LeasesMove
<1> QED BY <1>1, <1>2 DEF Revived, Protected

\* No sync makes a base current beside the collection of another sync.
LEMMA SyncSeesNoRevival ==
    ASSUME IInv, Next, NEW t \in Syncers, pc[t] \in SightedPcs, pc'[t] # "idle"
    PROVE  Revived(t) = {}
<1> SUFFICES ASSUME NEW b \in Revived(t) PROVE FALSE
  OBVIOUS
<1>1. repo[t] \in Repos /\ current'[repo[t]] # current[repo[t]]
  BY DEF Revived
<1>2. ~Restart
  BY DEF Restart, AllIdle, Procs, GcTasks
<1>3. PICK u \in Syncers : pc[u] = "published" /\ syncLock[repo[t]] = u
  BY <1>1, <1>2, CurrentMoves DEF IInv
<1>4. syncLock[repo[t]] = t
  BY DEF IInv, LockHeld, SightedPcs, HeadPcs
<1> QED BY <1>3, <1>4 DEF SightedPcs

LEMMA RevivedKept ==
    ASSUME IInv, HNext, NEW t \in GcTasks, RevivedOK(t), Moves(t)
    PROVE  RevivedOK(t)'
<1> USE DistinctConstants DEF Procs, GcTasks
<1>1. CASE pc'[t] \notin SightedPcs
  BY <1>1 DEF RevivedOK, Condemned, SightedPcs
<1>2. CASE GcScan(t) \/ GcRepoDone(t)
  <2>1. pc'[t] = "scanned" /\ revived'[t] = {}
    BY <1>2 DEF HNext, GcScan, GcRepoDone, Goto, IInv, TypeOK
  <2> QED BY <2>1 DEF RevivedOK, Condemned
<1>3. ASSUME NEW r \in Repos, GcCapture(t, r) PROVE RevivedOK(t)'
  <2>1. pc[t] = "scanned" /\ pc'[t] = "captured" /\ revived'[t] = {}
    BY <1>3 DEF HNext, GcCapture, Goto, IInv, TypeOK
  <2>2. repo'[t] = r /\ Protected(r)' = Protected(r) /\ Protected(r) \subseteq keep'[t]
    BY <1>3 DEF GcCapture, Protected, IInv, TypeOK
  <2> QED BY <2>1, <2>2 DEF RevivedOK, Condemned
<1>4. CASE /\ pc[t] \in {"captured", "deleting", "removing"}
           /\ pc'[t] \in {"captured", "deleting", "removing"} /\ repo'[t] = repo[t]
           /\ pc'[t] = "captured" => pc[t] = "captured" /\ keep'[t] = keep[t]
           /\ \/ pc[t] = "captured" /\ Condemned(t)' \cap keep[t] = {}
              \/ Condemned(t)' \subseteq Condemned(t)
  <2>1. revived'[t] = revived[t] \cup Revived(t)
    BY <1>4 DEF HNext
  <2>2. repo[t] \in Repos
    BY <1>4 DEF IInv, LocalsOK, RepoPcs
  <2>3. Protected(repo[t])' \subseteq Protected(repo[t]) \cup Revived(t)
    BY <1>4, <2>2, UsedMoves DEF HNext
  <2>4. pc'[t] = "captured" => Protected(repo[t])' \subseteq keep'[t] \cup revived'[t]
    BY <1>4, <2>1, <2>3 DEF RevivedOK
  <2>5. Condemned(t)' \cap Protected(repo[t])' \subseteq revived'[t]
    BY <1>4, <2>1, <2>3 DEF RevivedOK
  <2>6. t \in Syncers => revived'[t] = {}
    BY <1>4, <2>1, SyncSeesNoRevival DEF RevivedOK, SightedPcs, HNext
  <2> QED BY <1>4, <2>4, <2>5, <2>6 DEF RevivedOK
<1>5. CASE Rests(t) /\ pc[t] \in {"captured", "deleting", "removing"}
  BY <1>4, <1>5 DEF Rests, Condemned
<1>6. CASE Rests(t) /\ pc[t] = "scanned"
  BY <1>6 DEF Rests, RevivedOK, Condemned, HNext
<1>7. CASE GcList(t)
  <2>1. pc[t] = "captured" /\ pc'[t] = "deleting" /\ repo'[t] = repo[t]
    BY <1>7 DEF GcList, Goto, IInv, TypeOK
  <2>2. victims'[t] \cap keep[t] = {}
    BY <1>7 DEF GcList, IInv, TypeOK
  <2> QED BY <1>4, <2>1, <2>2 DEF Condemned
<1>8. CASE (\E b \in Bases : GcRemoveBegin(t, b)) \/ GcRemoveEnd(t) \/ GcRemoveFails(t)
  <2>1. Condemned(t)' \subseteq Condemned(t) /\ repo'[t] = repo[t]
    <3> USE DEF IInv, TypeOK, Goto, gcVars, Condemned
    <3>1. CASE \E b \in Bases : GcRemoveBegin(t, b)
      <4>1. PICK b \in Bases : GcRemoveBegin(t, b)
        BY <3>1
      <4>2. /\ pc[t] = "deleting" /\ pc'[t] = "removing" /\ repo'[t] = repo[t]
            /\ b \in victims[t] /\ victims'[t] = victims[t] \ {b} /\ base'[t] = b
        BY <4>1 DEF GcRemoveBegin
      <4> QED BY <4>2
    <3>2. CASE GcRemoveEnd(t)
      <4>1. /\ pc[t] = "removing" /\ pc'[t] = "deleting" /\ repo'[t] = repo[t]
            /\ victims'[t] = victims[t]
        BY <3>2 DEF GcRemoveEnd
      <4> QED BY <4>1
    <3>3. CASE GcRemoveFails(t)
      <4>1. /\ pc[t] = "removing" /\ pc'[t] = "deleting" /\ repo'[t] = repo[t]
            /\ victims'[t] = victims[t]
        BY <3>3 DEF GcRemoveFails
      <4> QED BY <4>1
    <3> QED BY <1>8, <3>1, <3>2, <3>3
  <2>2. pc[t] \in {"deleting", "removing"} /\ pc'[t] \in {"deleting", "removing"}
    BY <1>8 DEF GcRemoveBegin, GcRemoveEnd, GcRemoveFails, Goto, IInv, TypeOK
  <2> QED BY <1>4, <2>1, <2>2
<1> QED BY <1>1, <1>2, <1>3, <1>5, <1>6, <1>7, <1>8 DEF Moves, Rests, SightedPcs

\* Whatever the number of collectors, syncs, clients, sessions, failed removals,
\* dropped syncs and restarts: a directory that is current or leased is condemned
\* by the reaper only, and only if a sync revived it after the reaper's capture.
THEOREM VictimsRevived == HSpec => []VictimsUsedOnlyIfRevived
<1>1. HInit => IInv /\ RInv
  <2>1. HInit => RInv
    BY DEF HInit, Init, AllIdle, RInv, RevivedOK, Condemned, SightedPcs, Procs, GcTasks
  <2> QED BY <2>1, InitIInv DEF HInit
<1>2. IInv /\ RInv /\ [HNext]_hvars => IInv' /\ RInv'
  <2> SUFFICES ASSUME IInv, RInv, [HNext]_hvars PROVE RInv'
    BY NextIInv DEF HNext, hvars
  <2>1. CASE UNCHANGED hvars
    BY <2>1 DEF hvars, vars, procVars, gcVars, RInv, RevivedOK, Condemned, Protected
  <2>2. CASE HNext
    <3>1. ASSUME NEW t \in GcTasks PROVE Moves(t)
      BY <2>2, NextMoves DEF HNext, IInv
    <3> QED BY <2>2, <3>1, RevivedKept DEF RInv
  <2> QED BY <2>1, <2>2
<1>3. IInv /\ RInv => VictimsUsedOnlyIfRevived
  <2> SUFFICES ASSUME IInv, RInv, NEW t \in GcTasks,
                      NEW b \in Condemned(t) \cap Protected(repo[t])
               PROVE  t \in Reapers /\ b \in revived[t]
    BY DEF VictimsUsedOnlyIfRevived
  <2>1. b \in revived[t]
    BY DEF RInv, RevivedOK
  <2>2. pc[t] \in SightedPcs
    BY DEF Condemned, SightedPcs
  <2> QED BY <2>1, <2>2 DEF RInv, RevivedOK, GcTasks
<1> QED BY <1>1, <1>2, <1>3, PTL DEF HSpec

=============================================================================
