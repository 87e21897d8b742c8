--------------------------- MODULE SvnSync_proofs ---------------------------
(***************************************************************************)
(* Proofs about SvnSync, for every set of syncers, all revision numbers    *)
(* and any number of restarts and of failed exports.                       *)
(***************************************************************************)
EXTENDS SvnSync, SequenceTheorems, TLAPS

SyncPcs == {"idle", "info", "starting", "exporting", "publishing", "setting", "detached"}

Types ==
    /\ head \in Revs /\ drops \in Nat /\ gc \in Revs \cup {None}
    /\ snap \in [Revs -> Revs \cup {None, Mixed, Half}]
    /\ pc \in [Syncers -> SyncPcs]
    /\ rev \in [Syncers -> Revs \cup {None}]
    /\ child \in [Syncers -> Revs \cup {None}]

\* A sync holds the lock from its first step to its return.
LockHeld ==
    \A t \in Syncers :
        /\ pc[t] # "idle" => lock = t /\ pc[t] # "detached"
        /\ child[t] # None <=> pc[t] = "exporting"

\* The number a sync was told is no later than HEAD.
RevKnown ==
    \A t \in Syncers :
        pc[t] \in {"starting", "exporting", "publishing", "setting"} =>
            rev[t] \in Revs /\ rev[t] <= head

\* What an export left behind is there only while HEAD has no snapshot, so the next
\* sync removes it before it exports.
LeftoverUnused == export # None => snap[head] = None

\* The export of the sync at work is its own.
ExportOwn ==
    \A t \in Syncers :
        /\ pc[t] = "starting" => export = None /\ snap[head] = None
        /\ pc[t] = "exporting" => export = Part /\ child[t] \in rev[t] .. head
        /\ pc[t] = "publishing" => export = None \/ export \in rev[t] .. head

Snapshots == \A r \in Published : r <= head /\ (snap[r] = Half \/ snap[r] \in r .. head)

Undropped == LockHeld /\ RevKnown /\ LeftoverUnused /\ ExportOwn /\ Snapshots

IInv == Types /\ (drops = 0 => Undropped)

LEMMA InitIInv == Init => IInv
BY Bounds, Distinct
   DEF Init, IInv, Types, SyncPcs, Undropped, LockHeld, RevKnown, LeftoverUnused, ExportOwn,
       Snapshots, Published, Revs

\* One at a time under the lock.
LEMMA Alone ==
    ASSUME LockHeld, NEW t \in Syncers, pc[t] # "idle"
    PROVE  \A u \in Syncers \ {t} : pc[u] = "idle" /\ child[u] = None
BY DEF LockHeld

-----------------------------------------------------------------------------
LEMMA TypesStep == Types /\ [Next]_vars => Types'
<1> SUFFICES ASSUME Types, [Next]_vars PROVE Types'
  OBVIOUS
<1> USE Bounds, Distinct DEF Types, SyncPcs, Revs, Goto, Return, budget
<1>1. CASE Commit
  BY <1>1 DEF Commit
<1>2. CASE Restart
  BY <1>2 DEF Restart
<1>3. CASE GcStep
  BY <1>3 DEF GcStep, Gc, GcEnd
<1>4. ASSUME NEW t \in Syncers, SyncBegin(t) \/ Info(t) \/ ExportStart(t) PROVE Types'
  BY <1>4 DEF SyncBegin, Info, ExportStart
<1>5. ASSUME NEW t \in Syncers, ExportEnd(t) \/ ExportFails(t) \/ SyncDropped(t) PROVE Types'
  <2>1. CASE ExportEnd(t)
    BY <2>1 DEF ExportEnd
  <2>2. CASE ExportFails(t)
    BY <2>2 DEF ExportFails
  <2>3. CASE SyncDropped(t)
    BY <2>3 DEF SyncDropped
  <2> QED BY <1>5, <2>1, <2>2, <2>3
<1>6. ASSUME NEW t \in Syncers, Publish(t) PROVE Types'
  <2>1. snap' \in [Revs -> Revs \cup {None, Mixed, Half}]
    <3>1. CASE snap' = snap
      BY <3>1
    <3>2. PICK x \in Revs \cup {Mixed} : snap' = snap \/ snap' = [snap EXCEPT ![rev[t]] = x]
      BY <1>6 DEF Publish
    <3> QED BY <3>1, <3>2
  <2> QED BY <1>6, <2>1 DEF Publish
<1>7. ASSUME NEW t \in Syncers, PublishFails(t) \/ SetSnapshot(t) PROVE Types'
  BY <1>7 DEF PublishFails, SetSnapshot
<1>8. CASE UNCHANGED vars
  BY <1>8 DEF vars
<1> QED BY <1>1, <1>2, <1>3, <1>4, <1>5, <1>6, <1>7, <1>8 DEF Next, SyncStep

\* The steps of a sync.
LEMMA SyncUndropped ==
    ASSUME Types, Undropped, Types', NEW t \in Syncers, SyncStep(t), drops' = 0
    PROVE  Undropped'
<1> USE Bounds, Distinct DEF Types, SyncPcs, Revs, Goto, Return, budget
<1>0. drops = 0 /\ ~ SyncDropped(t)
  BY DEF SyncStep, SyncBegin, Info, ExportStart, ExportEnd, ExportFails, SyncDropped, Publish,
         PublishFails, SetSnapshot
<1>1. CASE SyncBegin(t)
  BY <1>1 DEF SyncBegin, Undropped, LockHeld, RevKnown, LeftoverUnused, ExportOwn, Snapshots,
              Published
<1>2. CASE Info(t)
  <2>1. \A u \in Syncers \ {t} : pc[u] = "idle" /\ child[u] = None
    BY <1>2, Alone DEF Info, Undropped
  <2>2. LockHeld' /\ RevKnown'
    BY <1>2, <2>1 DEF Info, Undropped, LockHeld, RevKnown
  <2>3. LeftoverUnused' /\ ExportOwn'
    BY <1>2, <2>1 DEF Info, Undropped, LeftoverUnused, ExportOwn
  <2>4. Snapshots'
    BY <1>2 DEF Info, Undropped, Snapshots, Published
  <2> QED BY <2>2, <2>3, <2>4 DEF Undropped
<1>3. CASE ExportStart(t)
  <2>1. \A u \in Syncers \ {t} : pc[u] = "idle" /\ child[u] = None
    BY <1>3, Alone DEF ExportStart, Undropped
  <2>2. LockHeld' /\ RevKnown'
    BY <1>3, <2>1 DEF ExportStart, Undropped, LockHeld, RevKnown
  <2>3. LeftoverUnused' /\ ExportOwn'
    BY <1>3, <2>1 DEF ExportStart, Undropped, LeftoverUnused, RevKnown, ExportOwn
  <2>4. Snapshots'
    BY <1>3 DEF ExportStart, Undropped, Snapshots, Published
  <2> QED BY <2>2, <2>3, <2>4 DEF Undropped
<1>4. CASE ExportEnd(t)
  <2>1. pc[t] = "exporting" /\ child[t] \in Revs
    BY <1>4 DEF ExportEnd, Undropped, LockHeld
  <2>2. \A u \in Syncers \ {t} : pc[u] = "idle" /\ child[u] = None
    BY <2>1, Alone DEF Undropped
  <2>3. Writers = {t}
    BY <2>1, <2>2 DEF Writers
  <2>4. export' = child[t]
    BY <1>4, <2>1, <2>3 DEF ExportEnd, Written, Undropped, ExportOwn
  <2>5. LockHeld' /\ RevKnown'
    BY <1>4, <2>1, <2>2 DEF ExportEnd, Undropped, LockHeld, RevKnown
  <2>6. LeftoverUnused' /\ ExportOwn'
    BY <1>4, <2>1, <2>2, <2>4 DEF ExportEnd, Undropped, LeftoverUnused, ExportOwn
  <2>7. Snapshots'
    BY <1>4 DEF ExportEnd, Undropped, Snapshots, Published
  <2> QED BY <2>5, <2>6, <2>7 DEF Undropped
<1>5. CASE ExportFails(t) \/ PublishFails(t) \/ SetSnapshot(t)
  <2>1. \A u \in Syncers \ {t} : pc[u] = "idle" /\ child[u] = None
    BY <1>5, Alone DEF ExportFails, PublishFails, SetSnapshot, Undropped
  <2>2. LockHeld' /\ RevKnown'
    BY <1>5, <2>1
       DEF ExportFails, PublishFails, SetSnapshot, Undropped, LockHeld, RevKnown
  <2>3. LeftoverUnused' /\ ExportOwn'
    BY <1>5, <2>1 DEF ExportFails, PublishFails, SetSnapshot, Undropped, LeftoverUnused, ExportOwn
  <2>4. Snapshots'
    BY <1>5 DEF ExportFails, PublishFails, SetSnapshot, Undropped, Snapshots, Published
  <2> QED BY <2>2, <2>3, <2>4 DEF Undropped
<1>6. CASE Publish(t)
  <2>1. \A u \in Syncers \ {t} : pc[u] = "idle" /\ child[u] = None
    BY <1>6, Alone DEF Publish, Undropped
  <2>2. LockHeld' /\ RevKnown'
    BY <1>6, <2>1 DEF Publish, Undropped, LockHeld, RevKnown
  <2>3. LeftoverUnused' /\ ExportOwn'
    BY <1>6, <2>1 DEF Publish, Undropped, LeftoverUnused, ExportOwn
  <2>4. ASSUME snap[rev[t]] # None PROVE Snapshots'
    BY <1>6, <2>4 DEF Publish, Undropped, Snapshots, Published
  <2>5. ASSUME snap[rev[t]] = None PROVE Snapshots'
    <3>1. export \in rev[t] .. head /\ rev[t] \in Revs
      BY <1>6, <2>5 DEF Publish, Undropped, ExportOwn, RevKnown
    <3>2. snap' = [snap EXCEPT ![rev[t]] = export] /\ head' = head
      BY <1>6, <2>5, <3>1 DEF Publish
    <3> QED BY <3>1, <3>2 DEF Undropped, Snapshots, Published
  <2> QED BY <2>2, <2>3, <2>4, <2>5 DEF Undropped
<1> QED BY <1>0, <1>1, <1>2, <1>3, <1>4, <1>5, <1>6 DEF SyncStep

-----------------------------------------------------------------------------
LEMMA CommitUndropped ==
    ASSUME Types, Undropped, Commit
    PROVE  Undropped'
<1> USE Bounds, Distinct DEF Types, Revs, Undropped, Commit
<1>1. snap[head + 1] = None
  BY DEF Snapshots, Published
<1>2. LockHeld' /\ RevKnown' /\ LeftoverUnused' /\ ExportOwn'
  BY <1>1 DEF LockHeld, RevKnown, LeftoverUnused, ExportOwn
<1>3. Snapshots'
  BY DEF Snapshots, Published
<1> QED BY <1>2, <1>3

LEMMA GcUndropped ==
    ASSUME Types, Undropped, GcStep
    PROVE  Undropped'
<1> USE Bounds, Distinct DEF Types, Revs, Undropped, GcStep, Gc, GcEnd
<1>1. LockHeld' /\ RevKnown'
  BY DEF LockHeld, RevKnown
<1>2. LeftoverUnused' /\ ExportOwn'
  BY DEF LeftoverUnused, ExportOwn, Published
<1>3. Snapshots'
  BY DEF Snapshots, Published
<1> QED BY <1>1, <1>2, <1>3

LEMMA RestartUndropped ==
    ASSUME Types, Undropped, Restart
    PROVE  Undropped'
BY Distinct DEF Restart, Types, Undropped, LockHeld, RevKnown, LeftoverUnused, ExportOwn, Snapshots,
                Published

LEMMA NextIInv == IInv /\ [Next]_vars => IInv'
<1> SUFFICES ASSUME IInv, [Next]_vars, drops' = 0 PROVE Undropped'
  BY TypesStep DEF IInv
<1>1. Types /\ Types'
  BY TypesStep DEF IInv
<1>2. drops = 0
  BY <1>1 DEF Types, Next, Commit, Restart, GcStep, Gc, GcEnd, SyncStep, SyncBegin, Info, ExportStart,
              ExportEnd, ExportFails, SyncDropped, Publish, PublishFails, SetSnapshot, vars, budget
<1>3. Undropped
  BY <1>2 DEF IInv
<1>4. CASE UNCHANGED vars
  BY <1>3, <1>4 DEF vars, Undropped, LockHeld, RevKnown, LeftoverUnused, ExportOwn, Snapshots,
                    Published
<1> QED BY <1>1, <1>3, <1>4, SyncUndropped, CommitUndropped, GcUndropped, RestartUndropped DEF Next

\* The inductive invariant of this module holds in every reachable state.
THEOREM Invariance == Spec => []IInv
BY InitIInv, NextIInv, PTL DEF Spec

\* Whatever exports fail and whenever the server is restarted, a snapshot is the
\* whole tree of the revision it is named for or of one committed meanwhile, as long
\* as no sync was dropped.
THEOREM SnapshotsWhole == Spec => []SnapshotAtLeastRev
<1>1. IInv => SnapshotAtLeastRev
  BY DEF IInv, Undropped, Snapshots, SnapshotAtLeastRev
<1> QED BY <1>1, Invariance, PTL

-----------------------------------------------------------------------------
(* The order of publication, drops and all.                                *)

Ordered ==
    \A i, j \in 1 .. Len(recent) :
        i < j /\ snap[recent[i]] # Half /\ snap[recent[j]] # Half => recent[i] < recent[j]

Dated == recent \in Seq(Revs) /\ ToSet(recent) = Published /\ IsInjective(recent)

\* A sync that knows its number is alone, and nothing newer is published.
NewestYet ==
    /\ \A t \in Syncers : pc[t] \notin {"idle", "detached"} <=> lock = t
    /\ \A t \in Syncers : pc[t] \in {"starting", "exporting", "publishing"} =>
          rev[t] \in Revs /\ rev[t] <= head /\ \A r \in Published : r <= rev[t]
    /\ \A r \in Published : r <= head
    /\ gc # None => snap[gc] = Half

OInv == Types /\ Dated /\ Ordered /\ NewestYet

\* A sequence without its k-th element.
LEMMA RemoveAtProperties ==
    ASSUME NEW S, NEW s \in Seq(S), NEW k \in 1 .. Len(s)
    PROVE  /\ RemoveAt(s, k) \in Seq(S) /\ Len(RemoveAt(s, k)) = Len(s) - 1
           /\ \A j \in 1 .. Len(s) - 1 : RemoveAt(s, k)[j] = s[IF j < k THEN j ELSE j + 1]
<1> DEFINE n == Len(s)
           a == SubSeq(s, 1, k - 1)
           b == SubSeq(s, k + 1, n)
<1>1. n \in Nat /\ k \in Int /\ 1 <= k /\ k <= n
  OBVIOUS
<1>2. \A j \in 1 .. n : s[j] \in S
  BY ElementOfSeq
<1>3. /\ a \in Seq(S) /\ Len(a) = k - 1
      /\ \A j \in 1 .. k - 1 : a[j] = s[j]
  <2>1. 1 \in Int /\ k - 1 \in Int /\ \A j \in 1 .. k - 1 : s[j] \in S
    BY <1>1, <1>2
  <2>2. a \in Seq(S)
    BY <2>1, SubSeqProperties
  <2>3. Len(a) = k - 1
    BY <1>1, <2>1, SubSeqProperties
  <2>4. \A j \in 1 .. k - 1 : a[j] = s[j]
    BY <1>1, <2>1, SubSeqProperties
  <2> QED BY <2>2, <2>3, <2>4
<1>4. /\ b \in Seq(S) /\ Len(b) = n - k
      /\ \A j \in 1 .. n - k : b[j] = s[k + j]
  <2>1. k + 1 \in Int /\ n \in Int /\ \A j \in k + 1 .. n : s[j] \in S
    BY <1>1, <1>2
  <2>2. b \in Seq(S)
    BY <2>1, SubSeqProperties
  <2>3. Len(b) = n - k
    BY <1>1, <2>1, SubSeqProperties
  <2>4. \A j \in 1 .. n - k : b[j] = s[k + j]
    BY <1>1, <2>1, SubSeqProperties
  <2> QED BY <2>2, <2>3, <2>4
<1>5. RemoveAt(s, k) = a \o b
  BY DEF RemoveAt
<1> HIDE DEF n, a, b
<1>6. /\ a \o b \in Seq(S) /\ Len(a \o b) = Len(a) + Len(b)
      /\ \A j \in 1 .. Len(a) + Len(b) : (a \o b)[j] = IF j <= Len(a) THEN a[j] ELSE b[j - Len(a)]
  BY <1>3, <1>4, ConcatProperties
<1>8. Len(a \o b) = n - 1
  BY <1>1, <1>3, <1>4, <1>6
<1>9. ASSUME NEW j \in 1 .. n - 1 PROVE (a \o b)[j] = s[IF j < k THEN j ELSE j + 1]
  <2>1. CASE j < k
    BY <1>1, <1>3, <1>4, <1>6, <2>1
  <2>2. CASE ~ (j < k)
    <3>1. (a \o b)[j] = b[j - k + 1] /\ j - k + 1 \in 1 .. n - k
      BY <1>1, <1>3, <1>4, <1>6, <2>2
    <3>2. b[j - k + 1] = s[k + (j - k + 1)]
      BY <1>1, <1>4, <3>1
    <3>3. k + (j - k + 1) = j + 1
      BY <1>1
    <3> QED BY <2>2, <3>1, <3>2, <3>3
  <2> QED BY <2>1, <2>2
<1> QED BY <1>5, <1>6, <1>8, <1>9 DEF n

\* The directory that is taken out was somewhere; the others keep their order.
LEMMA OthersInOrder ==
    ASSUME Dated, NEW r \in Published
    PROVE  \E i \in 1 .. Len(recent) :
              /\ recent[i] = r /\ Others(r) \in Seq(Revs) /\ Len(Others(r)) = Len(recent) - 1
              /\ \A j \in 1 .. Len(recent) - 1 :
                    Others(r)[j] = recent[IF j < i THEN j ELSE j + 1]
<1> DEFINE k == CHOOSE i \in DOMAIN recent : recent[i] = r
<1>1. recent \in Seq(Revs) /\ DOMAIN recent = 1 .. Len(recent)
  BY DEF Dated
<1>2. k \in 1 .. Len(recent) /\ recent[k] = r
  BY <1>1 DEF Dated, ToSet
<1>3. Others(r) = RemoveAt(recent, k)
  BY DEF Others
<1> HIDE DEF k
<1> QED BY <1>1, <1>2, <1>3, RemoveAtProperties

\* A sequence with one more element.
LEMMA AppendOne ==
    ASSUME NEW S, NEW s \in Seq(S), NEW e \in S \ ToSet(s), IsInjective(s)
    PROVE  /\ Append(s, e) \in Seq(S) /\ Len(Append(s, e)) = Len(s) + 1
           /\ \A i \in 1 .. Len(s) : Append(s, e)[i] = s[i]
           /\ Append(s, e)[Len(s) + 1] = e
           /\ ToSet(Append(s, e)) = ToSet(s) \cup {e} /\ IsInjective(Append(s, e))
<1>1. PICK q \in Seq(S) : q = Append(s, e)
  BY AppendProperties
<1>2. /\ Len(q) = Len(s) + 1 /\ Len(s) \in Nat /\ q[Len(s) + 1] = e
      /\ \A i \in 1 .. Len(s) : q[i] = s[i]
  BY <1>1, AppendProperties
<1>3. DOMAIN q = 1 .. Len(s) + 1 /\ DOMAIN s = 1 .. Len(s)
  BY <1>2
<1>4. \A i \in 1 .. Len(s) : s[i] \in ToSet(s)
  BY <1>3 DEF ToSet
<1>5. ToSet(q) = ToSet(s) \cup {e}
  <2>1. ToSet(q) \subseteq ToSet(s) \cup {e}
    BY <1>2, <1>3, <1>4 DEF ToSet
  <2>2. \A x \in ToSet(s) : x \in ToSet(q)
    BY <1>2, <1>3 DEF ToSet
  <2>3. e \in ToSet(q)
    BY <1>2, <1>3 DEF ToSet
  <2> QED BY <2>1, <2>2, <2>3
<1>6. IsInjective(q)
  <2> SUFFICES ASSUME NEW i \in 1 .. Len(s) + 1, NEW j \in 1 .. Len(s) + 1, q[i] = q[j]
               PROVE  i = j
    BY <1>3 DEF IsInjective
  <2>1. i \in 1 .. Len(s) /\ j \in 1 .. Len(s) => i = j
    BY <1>2, <1>3 DEF IsInjective
  <2> QED BY <1>2, <1>4, <2>1
<1> QED BY <1>1, <1>2, <1>5, <1>6

\* Steps that publish and remove nothing.
LEMMA NothingPublished ==
    ASSUME OInv, [Next]_vars, UNCHANGED <<snap, recent>>
    PROVE  Dated' /\ Ordered' /\ NewestYet'
<1> USE Bounds, Distinct DEF OInv, Types, SyncPcs, Revs, Goto, Return, budget
<1>1. Dated' /\ Ordered'
  BY DEF Dated, Ordered, Published
<1> SUFFICES NewestYet'
  BY <1>1
<1>2. Published' = Published /\ Published \subseteq Revs
  BY DEF Published
<1>3. CASE Commit
  BY <1>2, <1>3 DEF Commit, NewestYet
<1>4. CASE Restart
  BY <1>2, <1>4 DEF Restart, NewestYet
<1>5. CASE GcStep
  BY <1>2, <1>5 DEF GcStep, Gc, GcEnd, NewestYet
<1>6. ASSUME NEW t \in Syncers, SyncBegin(t) \/ Info(t) \/ ExportStart(t) \/ Publish(t)
      PROVE  NewestYet'
  BY <1>2, <1>6 DEF SyncBegin, Info, ExportStart, Publish, NewestYet
<1>7. ASSUME NEW t \in Syncers, ExportEnd(t) \/ ExportFails(t) \/ SyncDropped(t) PROVE NewestYet'
  BY <1>2, <1>7 DEF ExportEnd, ExportFails, SyncDropped, NewestYet
<1>8. ASSUME NEW t \in Syncers, PublishFails(t) \/ SetSnapshot(t) PROVE NewestYet'
  BY <1>2, <1>8 DEF PublishFails, SetSnapshot, NewestYet
<1>9. CASE UNCHANGED vars
  BY <1>2, <1>9 DEF vars, NewestYet
<1> QED BY <1>3, <1>4, <1>5, <1>6, <1>7, <1>8, <1>9 DEF Next, SyncStep

\* What is published is newer than all that was.
LEMMA PublishOrdered ==
    ASSUME OInv, NEW t \in Syncers, Publish(t), snap[rev[t]] = None
    PROVE  Dated' /\ Ordered' /\ NewestYet'
<1> USE Bounds, Distinct DEF OInv, Types, SyncPcs, Revs, Goto, budget
<1>1. PICK r \in Revs : r = rev[t]
  BY DEF Publish, NewestYet
<1>2. /\ r <= head /\ snap[r] = None /\ r \notin Published
      /\ \A x \in Published : x <= r /\ x \in Revs /\ x # r
  BY <1>1 DEF Publish, NewestYet, Published
<1>3. PICK x \in Revs \cup {Mixed} : snap' = [snap EXCEPT ![r] = x]
  BY <1>1, <1>2 DEF Publish
<1>4. recent' = Append(recent, r) /\ UNCHANGED <<head, lock, rev, gc>>
      /\ pc' = [pc EXCEPT ![t] = "setting"]
  BY <1>1, <1>2 DEF Publish
<1>5. x # None /\ Published' = Published \cup {r}
  BY <1>3 DEF Published
<1>6. recent \in Seq(Revs) /\ Len(recent) \in Nat /\ ToSet(recent) = Published
      /\ IsInjective(recent) /\ DOMAIN recent = 1 .. Len(recent)
  BY DEF Dated
<1>7. /\ recent' \in Seq(Revs) /\ Len(recent') = Len(recent) + 1
      /\ \A i \in 1 .. Len(recent) : recent'[i] = recent[i]
      /\ recent'[Len(recent) + 1] = r
      /\ ToSet(recent') = ToSet(recent) \cup {r} /\ IsInjective(recent')
  <2> HIDE DEF OInv, Types, Revs
  <2> QED BY <1>2, <1>4, <1>6, AppendOne
<1>9. \A i \in 1 .. Len(recent) : recent[i] \in Published
  BY <1>6 DEF ToSet
<1>10. Dated'
  BY <1>5, <1>6, <1>7 DEF Dated
<1>11. Ordered'
  <2> SUFFICES ASSUME NEW i \in 1 .. Len(recent) + 1, NEW j \in 1 .. Len(recent) + 1, i < j,
                      snap'[recent'[i]] # Half, snap'[recent'[j]] # Half
               PROVE  recent'[i] < recent'[j]
    BY <1>7 DEF Ordered
  <2>1. i \in 1 .. Len(recent) /\ recent'[i] = recent[i]
    BY <1>6, <1>7
  <2>2. CASE j = Len(recent) + 1
    BY <1>2, <1>7, <1>9, <2>1, <2>2
  <2>3. CASE j # Len(recent) + 1
    <3>0. j \in 1 .. Len(recent)
      BY <1>6, <2>3
    <3>1. j \in 1 .. Len(recent) /\ recent'[j] = recent[j]
      BY <1>7, <3>0
    <3>2. snap'[recent[i]] = snap[recent[i]] /\ snap'[recent[j]] = snap[recent[j]]
      BY <1>2, <1>3, <1>9, <2>1, <3>1
    <3> QED BY <2>1, <3>1, <3>2 DEF Ordered
  <2> QED BY <2>2, <2>3
<1>12. NewestYet'
  <2>1. \A u \in Syncers : pc'[u] \notin {"idle", "detached"} <=> lock' = u
    BY <1>4 DEF NewestYet, Publish
  <2>2. ASSUME NEW u \in Syncers, pc'[u] \in {"starting", "exporting", "publishing"} PROVE FALSE
    BY <1>4, <2>2 DEF NewestYet, Publish
  <2>3. \A y \in Published' : y <= head'
    BY <1>2, <1>4, <1>5 DEF NewestYet
  <2>4. gc' # None => snap'[gc'] = Half
    BY <1>2, <1>3, <1>4 DEF NewestYet
  <2> QED BY <2>1, <2>2, <2>3, <2>4 DEF NewestYet
<1> QED BY <1>10, <1>11, <1>12

\* What is left when a directory is taken out, and in which order.
LEMMA OthersKept ==
    ASSUME Dated, NEW r \in Published
    PROVE  /\ Others(r) \in Seq(Revs) /\ Len(Others(r)) \in Nat
           /\ ToSet(Others(r)) = Published \ {r} /\ IsInjective(Others(r))
           /\ \A i, j \in 1 .. Len(Others(r)) : i < j =>
                 \E a, b \in 1 .. Len(recent) :
                    a < b /\ Others(r)[i] = recent[a] /\ Others(r)[j] = recent[b]
<1>1. PICK k \in 1 .. Len(recent), q \in Seq(Revs) :
         /\ q = Others(r) /\ recent[k] = r /\ Len(q) = Len(recent) - 1
         /\ \A j \in 1 .. Len(recent) - 1 : q[j] = recent[IF j < k THEN j ELSE j + 1]
  BY OthersInOrder
<1>2. /\ Len(recent) \in Nat /\ DOMAIN recent = 1 .. Len(recent)
      /\ Len(q) \in Nat /\ DOMAIN q = 1 .. Len(q)
      /\ ToSet(recent) = Published /\ IsInjective(recent)
  BY DEF Dated
<1>3. \A a, b \in 1 .. Len(recent) : recent[a] = recent[b] => a = b
  BY <1>2 DEF IsInjective
<1> DEFINE At(j) == IF j < k THEN j ELSE j + 1
<1>4. \A j \in 1 .. Len(q) : At(j) \in 1 .. Len(recent) /\ At(j) # k /\ q[j] = recent[At(j)]
  BY <1>1, <1>2
<1>5. \A i, j \in 1 .. Len(q) : i < j => At(i) < At(j)
  BY <1>1, <1>2
<1>6. \A a \in 1 .. Len(recent) \ {k} : \E j \in 1 .. Len(q) : At(j) = a
  <2> SUFFICES ASSUME NEW a \in 1 .. Len(recent), a # k
               PROVE  \E j \in 1 .. Len(q) : At(j) = a
    OBVIOUS
  <2>1. CASE a < k
    BY <1>1, <1>2, <2>1
  <2>2. CASE ~ (a < k)
    <3>1. a - 1 \in 1 .. Len(q) /\ At(a - 1) = a
      BY <1>1, <1>2, <2>2
    <3> QED BY <3>1
  <2> QED BY <2>1, <2>2
<1>7. \A i, j \in 1 .. Len(q) : At(i) = At(j) => i = j
  BY <1>1, <1>2
<1> HIDE DEF At
<1>8. ToSet(q) = Published \ {r}
  <2>1. \A x \in ToSet(q) : x \in Published \ {r}
    <3> SUFFICES ASSUME NEW j \in 1 .. Len(q) PROVE q[j] \in Published \ {r}
      BY <1>2 DEF ToSet
    <3>1. q[j] = recent[At(j)] /\ At(j) \in 1 .. Len(recent) /\ At(j) # k
      BY <1>4
    <3>2. recent[At(j)] \in Published
      BY <1>2, <3>1 DEF ToSet
    <3> QED BY <1>1, <1>3, <3>1, <3>2
  <2>2. \A x \in Published \ {r} : x \in ToSet(q)
    <3> SUFFICES ASSUME NEW x \in Published, x # r PROVE x \in ToSet(q)
      OBVIOUS
    <3>1. PICK a \in 1 .. Len(recent) : recent[a] = x
      BY <1>2 DEF ToSet
    <3>2. PICK j \in 1 .. Len(q) : At(j) = a
      BY <1>1, <1>6, <3>1
    <3> QED BY <1>2, <1>4, <3>1, <3>2 DEF ToSet
  <2> QED BY <2>1, <2>2
<1>9. IsInjective(q)
  BY <1>2, <1>3, <1>4, <1>7 DEF IsInjective
<1>10. \A i, j \in 1 .. Len(q) : i < j =>
          \E a, b \in 1 .. Len(recent) : a < b /\ q[i] = recent[a] /\ q[j] = recent[b]
  BY <1>4, <1>5
<1> QED BY <1>1, <1>2, <1>8, <1>9, <1>10

LEMMA GcOrdered ==
    ASSUME OInv, GcStep
    PROVE  Dated' /\ Ordered' /\ NewestYet'
<1> USE Bounds, Distinct DEF OInv
<1>1. /\ UNCHANGED <<head, lock, pc, rev>> /\ Published \subseteq Revs
      /\ \E r \in Published : \A q \in Published \ {r} : snap'[q] = snap[q]
  <2>1. ASSUME NEW r \in Published, Gc(r) PROVE \A q \in Published \ {r} : snap'[q] = snap[q]
    BY <2>1 DEF Gc, Types, Published
  <2>2. CASE GcEnd
    BY <2>2 DEF GcEnd, Types, Published, NewestYet
  <2> QED BY <2>1, <2>2 DEF GcStep, Gc, GcEnd, Published
<1>2. ASSUME NEW r \in Revs, Gc(r) PROVE Dated' /\ Ordered' /\ NewestYet'
  <2>1. /\ r \in Published /\ recent' = Append(Others(r), r) /\ gc' = r /\ lock = None
        /\ snap' = [snap EXCEPT ![r] = Half]
    BY <1>2 DEF Gc, Published
  <2>2. snap'[r] = Half /\ Published' = Published /\ \A x \in Revs \ {r} : snap'[x] = snap[x]
    BY <2>1 DEF Types, Published
  <2>3. PICK q \in Seq(Revs) :
           /\ q = Others(r) /\ Len(q) \in Nat /\ ToSet(q) = Published \ {r} /\ IsInjective(q)
           /\ \A i, j \in 1 .. Len(q) : i < j =>
                 \E a, b \in 1 .. Len(recent) : a < b /\ q[i] = recent[a] /\ q[j] = recent[b]
    BY <2>1, OthersKept
  <2>4. /\ recent' \in Seq(Revs) /\ Len(recent') = Len(q) + 1
        /\ \A i \in 1 .. Len(q) : recent'[i] = q[i]
        /\ recent'[Len(q) + 1] = r
        /\ ToSet(recent') = ToSet(q) \cup {r} /\ IsInjective(recent')
    <3> HIDE DEF OInv
    <3> QED BY <2>1, <2>3, AppendOne
  <2>5. Dated'
    BY <2>1, <2>2, <2>3, <2>4 DEF Dated
  <2>6. Ordered'
    <3> SUFFICES ASSUME NEW i \in 1 .. Len(q) + 1, NEW j \in 1 .. Len(q) + 1, i < j,
                        snap'[recent'[i]] # Half, snap'[recent'[j]] # Half
                 PROVE  recent'[i] < recent'[j]
      BY <2>4 DEF Ordered
    <3>1. i \in 1 .. Len(q) /\ j \in 1 .. Len(q)
      BY <2>2, <2>3, <2>4
    <3>2. PICK a \in 1 .. Len(recent), b \in 1 .. Len(recent) :
             a < b /\ q[i] = recent[a] /\ q[j] = recent[b]
      <4> HIDE DEF OInv
      <4> QED BY <2>3, <3>1
    <3>3. recent'[i] \in Revs \ {r} /\ recent'[j] \in Revs \ {r}
      <4>1. DOMAIN q = 1 .. Len(q)
        BY <2>3
      <4>2. q[i] \in ToSet(q) /\ q[j] \in ToSet(q)
        BY <3>1, <4>1 DEF ToSet
      <4> HIDE DEF OInv
      <4> QED BY <1>1, <2>3, <2>4, <3>1, <4>2
    <3>4. recent'[i] = recent[a] /\ recent'[j] = recent[b]
      BY <2>4, <3>1, <3>2
    <3> QED BY <2>2, <3>2, <3>3, <3>4 DEF Ordered
  <2>7. NewestYet'
    <3>1. \A t \in Syncers : pc[t] \in {"idle", "detached"}
      BY <2>1 DEF NewestYet
    <3> QED BY <1>1, <2>1, <2>2, <3>1 DEF NewestYet
  <2> QED BY <2>5, <2>6, <2>7
<1>3. CASE GcEnd
  <2>1. PICK r \in Published : /\ r = gc /\ snap' = [snap EXCEPT ![r] = None] /\ gc' = None
                               /\ recent' = Others(r)
    BY <1>3 DEF GcEnd, NewestYet, Types, Published
  <2>2. Published' = Published \ {r} /\ \A x \in Published' : snap'[x] = snap[x]
    BY <2>1 DEF Types, Published
  <2>3. Dated'
    BY <2>1, <2>2, OthersKept DEF Dated
  <2>4. \A i \in 1 .. Len(recent') : recent'[i] \in Published'
    BY <2>3 DEF Dated, ToSet
  <2>5. \A i, j \in 1 .. Len(recent') : i < j =>
           \E a, b \in 1 .. Len(recent) : a < b /\ recent'[i] = recent[a] /\ recent'[j] = recent[b]
    <3>1. Dated
      OBVIOUS
    <3> HIDE DEF OInv
    <3>2. \A i, j \in 1 .. Len(Others(r)) : i < j =>
             \E a, b \in 1 .. Len(recent) :
                a < b /\ Others(r)[i] = recent[a] /\ Others(r)[j] = recent[b]
      BY <3>1, OthersKept
    <3> QED BY <2>1, <3>2
  <2>6. Ordered'
    <3> SUFFICES ASSUME NEW i \in 1 .. Len(recent'), NEW j \in 1 .. Len(recent'), i < j,
                        snap'[recent'[i]] # Half, snap'[recent'[j]] # Half
                 PROVE  recent'[i] < recent'[j]
      BY DEF Ordered
    <3>1. PICK a \in 1 .. Len(recent), b \in 1 .. Len(recent) :
             a < b /\ recent'[i] = recent[a] /\ recent'[j] = recent[b]
      BY <2>5
    <3> QED BY <2>2, <2>4, <3>1 DEF Ordered
  <2>7. NewestYet'
    BY <1>1, <2>1, <2>2 DEF NewestYet
  <2> QED BY <2>3, <2>6, <2>7
<1> QED BY <1>2, <1>3 DEF GcStep

LEMMA InitOInv == Init => OInv
<1> SUFFICES ASSUME Init PROVE OInv
  OBVIOUS
<1>1. Types /\ NewestYet /\ Published = {}
  BY Bounds, Distinct DEF Init, Types, SyncPcs, NewestYet, Published, Revs
<1>2. recent = <<>> /\ Len(recent) = 0 /\ DOMAIN recent = {} /\ recent \in Seq(Revs)
  BY DEF Init
<1>3. Dated /\ Ordered
  BY <1>1, <1>2 DEF Dated, ToSet, IsInjective, Ordered
<1> QED BY <1>1, <1>3 DEF OInv

LEMMA NextOInv == OInv /\ [Next]_vars => OInv'
<1> SUFFICES ASSUME OInv, [Next]_vars PROVE OInv'
  OBVIOUS
<1>1. Types'
  BY TypesStep DEF OInv
<1>2. \/ UNCHANGED <<snap, recent>> \/ GcStep
      \/ \E t \in Syncers : Publish(t) /\ snap[rev[t]] = None
  BY DEF Next, Commit, Restart, SyncStep, SyncBegin, Info, ExportStart, ExportEnd, ExportFails,
         SyncDropped, Publish, PublishFails, SetSnapshot, vars
<1> QED BY <1>1, <1>2, NothingPublished, PublishOrdered, GcOrdered DEF OInv

\* The dates of the published directories are in the order of their revisions in
\* every reachable state.
THEOREM OrderInvariance == Spec => []OInv
BY InitOInv, NextOInv, PTL DEF Spec

\* The restarted server serves the newest revision published, by modification times
\* alone, unless a collector was cut off half-way.
THEOREM NewestServed == Spec => RestartServesNewest
<1>1. OInv /\ [Next]_vars =>
        [Restart /\ (\A r \in Revs : snap[r] # Half) /\ Published # {} =>
            current' = Max(Published)]_vars
  <2> SUFFICES ASSUME OInv, Restart, \A r \in Revs : snap[r] # Half, Published # {}
               PROVE  current' = Max(Published)
    OBVIOUS
  <2>1. /\ recent \in Seq(Revs) /\ Len(recent) \in Nat /\ DOMAIN recent = 1 .. Len(recent)
        /\ ToSet(recent) = Published /\ Published \subseteq Revs
    BY DEF OInv, Dated, Published
  <2>2. Len(recent) \in 1 .. Len(recent)
    BY <2>1 DEF ToSet
  <2>3. PICK last \in Published : last = recent[Len(recent)]
    BY <2>1, <2>2 DEF ToSet
  <2>4. \A r \in Published : r <= last
    <3> SUFFICES ASSUME NEW i \in 1 .. Len(recent) PROVE recent[i] <= last
      BY <2>1 DEF ToSet
    <3>1. recent[i] \in Revs
      BY <2>1
    <3>2. CASE i = Len(recent)
      BY <2>3, <3>1, <3>2, Bounds DEF Revs
    <3>3. CASE i # Len(recent)
      <4>1. i < Len(recent)
        <5>1. Len(recent) \in Int
          BY <2>1
        <5> QED BY <3>3, <5>1
      <4>2. snap[recent[i]] # Half /\ snap[recent[Len(recent)]] # Half
        BY <2>1, <2>3, <3>1
      <4>3. recent[i] < recent[Len(recent)]
        BY <2>2, <4>1, <4>2 DEF OInv, Ordered
      <4> QED BY <2>1, <2>3, <3>1, <4>3, Bounds DEF Revs
    <3> QED BY <3>2, <3>3
  <2>5. \A x \in Published : (\A y \in Published : x >= y) => x = last
    BY <2>1, <2>4, Bounds DEF Revs
  <2>6. \A y \in Published : last >= y
    BY <2>1, <2>4, Bounds DEF Revs
  <2>7. Max(Published) = last
    BY <2>5, <2>6 DEF Max
  <2>8. recent # <<>>
    BY <2>2
  <2> QED BY <2>3, <2>7, <2>8 DEF Restart
<1> QED BY <1>1, OrderInvariance, PTL DEF Spec, RestartServesNewest

=============================================================================
