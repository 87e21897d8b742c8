--------------------------- MODULE AsmStore_proofs ---------------------------
(***************************************************************************)
(* Proofs about AsmStore, for every set of ids, of creators and of         *)
(* callers, every cap, limit and idle time.                                *)
(***************************************************************************)
EXTENDS AsmStore, FiniteSetTheorems, TLAPS

\* A task that is past a step has the session that step gave it.
CallsOK ==
    /\ \A c \in Creators : pc[c] \in {"idle", "creating", "inserting"}
    /\ \A t \in Tasks \ Creators : pc[t] \in {"idle", "reading", "removing"}
    /\ \A t \in Tasks : pc[t] \in {"inserting", "reading", "removing"} => sid[t] \in Ids

\* A creation keeps the id it drew to itself until its download is spawned.
Reserved ==
    \A c \in Creators : pc[c] = "inserting" =>
        /\ sid[c] \in born /\ dl[sid[c]] = None
        /\ \A d \in Creators \ {c} : pc[d] = "inserting" => sid[d] # sid[c]

\* Only sessions of the map have been, or are being, downloaded.
Started ==
    /\ \A id \in Ids : dl[id] # None => id \in born
    /\ \A id \in map \cup todo : dl[id] # None

\* What the download task has done so far, whatever has become of the session.
Progress ==
    \A id \in Ids :
        /\ dl[id] \in {None, "opening"} => got[id] = 0 /\ file[id] = None
        /\ dl[id] \in {None, "opening", "body"} => phase[id] = "downloading"
        /\ phase[id] = "terminal" <=> dl[id] = "done"
        /\ outcome[id] # None <=> dl[id] \in {"settling", "done"}
        /\ (outcome[id] = "failed" \/ dl[id] = "failing") /\ file[id] # None
               => id \in Undeletable
        /\ file[id] # None => file[id] = got[id]

ReadsReady == \A c \in Callers : pc[c] = "reading" => outcome[sid[c]] = "ready"

Capped == IsFiniteSet(map) /\ CapExceededByConcurrency

IInv == TypeOK /\ CallsOK /\ Reserved /\ Started /\ Progress /\ ReadsReady /\ Capped

LEMMA CreatingFinite ==
    /\ IsFiniteSet(Creating) /\ Cardinality(Creating) \in Nat
    /\ Cardinality(Creating) <= Cardinality(Creators)
    /\ Cardinality(Creators) \in Nat \ {0}
<1>1. Creating \in SUBSET Creators
  BY DEF Creating
<1> QED BY <1>1, SomeCreators, FS_Subset, FS_CardinalityType, FS_EmptySet

LEMMA OneMore ==
    ASSUME NEW S, NEW x, IsFiniteSet(S)
    PROVE  /\ IsFiniteSet(S \cup {x}) /\ Cardinality(S \cup {x}) \in Nat
           /\ Cardinality(S \cup {x}) <= Cardinality(S) + 1
<1>1. IsFiniteSet(S \cup {x}) /\ Cardinality(S) \in Nat
  BY FS_AddElement, FS_CardinalityType
<1>2. Cardinality(S \cup {x}) \in Nat
  BY <1>1, FS_CardinalityType
<1>3. Cardinality(S \cup {x}) <= Cardinality(S) + 1
  BY <1>1, FS_AddElement
<1> QED BY <1>1, <1>2, <1>3

\* Fewer sessions and no more creations keep the cap.
LEMMA CapKept ==
    ASSUME Capped, map' \subseteq map, Creating' \subseteq Creating
    PROVE  Capped'
<1> DEFINE m == map'
           k == Creating'
<1>1. IsFiniteSet(map) /\ Cardinality(map) \in Nat
  BY FS_CardinalityType DEF Capped
<1>2. IsFiniteSet(m) /\ Cardinality(m) \in Nat /\ Cardinality(m) <= Cardinality(map)
  BY <1>1, FS_Subset, FS_CardinalityType DEF Capped
<1>3. Cardinality(k) \in Nat /\ Cardinality(k) <= Cardinality(Creating)
  BY CreatingFinite, FS_Subset, FS_CardinalityType
<1> HIDE DEF m, k
<1>4. Cardinality(m) + Cardinality(k) <= MaxSessions + Cardinality(Creators) - 1
  BY <1>1, <1>2, <1>3, CreatingFinite, Limits DEF Capped, CapExceededByConcurrency
<1> QED BY <1>2, <1>4 DEF Capped, CapExceededByConcurrency, m, k

LEMMA InitIInv == Init => IInv
<1> SUFFICES ASSUME Init PROVE IInv
  OBVIOUS
<1> USE DEF Init
<1>1. TypeOK
  BY Limits, Distinct DEF TypeOK, Tasks
<1>2. CallsOK /\ Reserved /\ Started
  BY NoneIsNothing DEF CallsOK, Reserved, Started, Tasks
<1>3. Progress /\ ReadsReady
  BY NoneIsNothing DEF Progress, ReadsReady, Tasks
<1>4. Capped
  <2>1. Creating = {}
    BY DEF Creating, Tasks
  <2>2. Cardinality(Creating) = 0 /\ Cardinality(map) = 0 /\ IsFiniteSet(map)
    BY <2>1, FS_EmptySet
  <2> QED BY <2>2, CreatingFinite, Limits DEF Capped, CapExceededByConcurrency
<1> QED BY <1>1, <1>2, <1>3, <1>4 DEF IInv

-----------------------------------------------------------------------------
(* Creations.                                                              *)

LEMMA CheckCapStep ==
    ASSUME IInv, NEW c \in Creators, CheckCap(c)
    PROVE  IInv'
<1> USE Distinct DEF IInv, CheckCap, Goto, stateVars, diskVars, Tasks
<1>1. TypeOK' /\ CallsOK'
  BY DEF TypeOK, CallsOK
<1>2. Reserved' /\ Started' /\ Progress' /\ ReadsReady'
  BY DEF TypeOK, Reserved, Started, Progress, ReadsReady
<1>3. Capped'
  <2> DEFINE k == Creating'
  <2>1. Creating' \in SUBSET Creators
    BY DEF Creating
  <2>2. IsFiniteSet(k) /\ Cardinality(k) \in Nat /\ Cardinality(k) <= Cardinality(Creators)
    BY <2>1, SomeCreators, FS_Subset, FS_CardinalityType
  <2>3. IsFiniteSet(map) /\ Cardinality(map) \in Nat
    BY FS_CardinalityType DEF Capped
  <2> HIDE DEF k
  <2>4. Cardinality(map) + Cardinality(k) <= MaxSessions + Cardinality(Creators) - 1
    BY <2>2, <2>3, CreatingFinite, Limits
  <2> QED BY <2>3, <2>4 DEF Capped, CapExceededByConcurrency, k
<1> QED BY <1>1, <1>2, <1>3

\* The ends of a creation that leave no session.
LEMMA CreateEndsStep ==
    ASSUME IInv, NEW c \in Creators, CreateRefused(c) \/ CreateDropped(c)
    PROVE  IInv'
<1> USE Distinct DEF IInv, CreateRefused, CreateDropped, Return, Goto, stateVars, diskVars, Tasks
<1>1. TypeOK' /\ CallsOK'
  BY DEF TypeOK, CallsOK
<1>2. Reserved'
  BY DEF TypeOK, Reserved
<1>3. Started' /\ Progress' /\ ReadsReady'
  BY DEF TypeOK, Started, Progress, ReadsReady
<1>4. Capped'
  BY CapKept DEF Creating, TypeOK
<1> QED BY <1>1, <1>2, <1>3, <1>4

LEMMA MakeDirStep ==
    ASSUME IInv, NEW c \in Creators, NEW id \in Ids, MakeDir(c, id)
    PROVE  IInv'
<1> USE Distinct DEF IInv, MakeDir, Goto, stateVars, Tasks
<1>1. TypeOK' /\ CallsOK'
  BY DEF TypeOK, CallsOK
<1>2. Reserved'
  BY DEF TypeOK, Reserved, Started
<1>3. Started' /\ Progress' /\ ReadsReady'
  BY DEF TypeOK, Started, Progress, ReadsReady
<1>4. Capped'
  BY CapKept DEF Creating, TypeOK
<1> QED BY <1>1, <1>2, <1>3, <1>4

LEMMA InsertStep ==
    ASSUME IInv, NEW c \in Creators, Insert(c)
    PROVE  IInv'
<1> USE Distinct, NoneIsNothing DEF IInv, Insert, Return, Goto, diskVars, Tasks
<1>0. sid[c] \in Ids /\ sid[c] \in born /\ dl[sid[c]] = None
  BY DEF CallsOK, Reserved
<1>1. TypeOK' /\ CallsOK'
  BY <1>0 DEF TypeOK, CallsOK
<1>2. Reserved'
  BY <1>0 DEF TypeOK, CallsOK, Reserved
<1>3. Started'
  BY <1>0 DEF TypeOK, Started
<1>4. Progress' /\ ReadsReady'
  BY <1>0 DEF TypeOK, Progress, ReadsReady
<1>5. Capped'
  <2> DEFINE m == map'
             k == Creating'
  <2>1. c \in Creating /\ k = Creating \ {c} /\ m = map \cup {sid[c]}
    BY DEF Creating, TypeOK
  <2>2. Cardinality(k) = Cardinality(Creating) - 1
    BY <2>1, CreatingFinite, FS_RemoveElement
  <2>3. /\ IsFiniteSet(m) /\ Cardinality(m) \in Nat /\ Cardinality(map) \in Nat
        /\ Cardinality(m) <= Cardinality(map) + 1
    <3>1. IsFiniteSet(map) /\ Cardinality(map) \in Nat
      BY FS_CardinalityType DEF Capped
    <3>2. /\ IsFiniteSet(map \cup {sid[c]})
          /\ Cardinality(map \cup {sid[c]}) <= Cardinality(map) + 1
          /\ Cardinality(map \cup {sid[c]}) \in Nat
      BY <3>1, OneMore
    <3> QED BY <2>1, <3>1, <3>2
  <2> HIDE DEF m, k
  <2>4. Cardinality(m) + Cardinality(k) <= MaxSessions + Cardinality(Creators) - 1
    BY <2>2, <2>3, CreatingFinite, Limits DEF Capped, CapExceededByConcurrency
  <2> QED BY <2>3, <2>4 DEF Capped, CapExceededByConcurrency, m, k
<1> QED BY <1>1, <1>2, <1>3, <1>4, <1>5

-----------------------------------------------------------------------------
(* Calls, the reaper, time.                                                *)

LEMMA LookStep ==
    ASSUME IInv, NEW c \in Callers, NEW id \in Ids, Look(c, id)
    PROVE  IInv'
<1> USE Limits DEF IInv, Look, Touch, stateVars, diskVars, callVars
<1>1. TypeOK'
  BY DEF TypeOK
<1>2. CallsOK' /\ Reserved' /\ Started' /\ Progress' /\ ReadsReady'
  BY DEF CallsOK, Reserved, Started, Progress, ReadsReady
<1>3. Capped'
  BY CapKept DEF Creating
<1> QED BY <1>1, <1>2, <1>3

LEMMA QueryStep ==
    ASSUME IInv, NEW c \in Callers, NEW id \in Ids, Query(c, id)
    PROVE  IInv'
<1> USE Distinct, Limits DEF IInv, Query, Touch, Goto, stateVars, diskVars, Tasks
<1>1. TypeOK' /\ CallsOK'
  BY DEF TypeOK, CallsOK
<1>2. Reserved' /\ Started' /\ Progress'
  BY DEF TypeOK, Reserved, Started, Progress
<1>3. ReadsReady'
  BY DEF TypeOK, ReadsReady, Queryable
<1>4. Capped'
  BY CapKept DEF Creating, TypeOK
<1> QED BY <1>1, <1>2, <1>3, <1>4

LEMMA ReadStep ==
    ASSUME IInv, NEW c \in Callers, Read(c)
    PROVE  IInv'
<1> USE Distinct DEF IInv, Read, Return, Goto, stateVars, diskVars, Tasks
<1>1. TypeOK' /\ CallsOK'
  BY DEF TypeOK, CallsOK
<1>2. Reserved' /\ Started' /\ Progress' /\ ReadsReady'
  BY DEF TypeOK, Reserved, Started, Progress, ReadsReady
<1>3. Capped'
  BY CapKept DEF Creating, TypeOK
<1> QED BY <1>1, <1>2, <1>3

LEMMA RemoveStep ==
    ASSUME IInv, NEW t \in Callers \cup {Reaper}, NEW id \in Ids,
           pc[t] = "idle", Remove(t, id), todo' \subseteq todo
    PROVE  IInv'
<1> USE Distinct, Limits DEF IInv, Remove, Unlink, Goto, stateVars, Tasks
<1>1. TypeOK' /\ CallsOK'
  BY DEF TypeOK, CallsOK
<1>2. Reserved' /\ Started'
  BY DEF TypeOK, Reserved, Started
<1>3. Progress' /\ ReadsReady'
  BY DEF TypeOK, Progress, ReadsReady
<1>4. Capped'
  BY CapKept DEF Creating, TypeOK
<1> QED BY <1>1, <1>2, <1>3, <1>4

LEMMA RemoveDirStep ==
    ASSUME IInv, NEW t \in Callers \cup {Reaper}, RemoveDir(t)
    PROVE  IInv'
<1> USE Distinct DEF IInv, RemoveDir, Return, Goto, stateVars, Tasks
<1>1. TypeOK' /\ CallsOK'
  BY DEF TypeOK, CallsOK
<1>2. Reserved' /\ Started' /\ Progress' /\ ReadsReady'
  BY DEF TypeOK, Reserved, Started, Progress, ReadsReady
<1>3. Capped'
  BY CapKept DEF Creating, TypeOK
<1> QED BY <1>1, <1>2, <1>3

LEMMA ReapScanStep == ASSUME IInv, ReapScan PROVE IInv'
<1> USE DEF IInv, ReapScan, stateVars, diskVars, callVars
<1>1. TypeOK' /\ CallsOK' /\ Reserved' /\ Started' /\ Progress' /\ ReadsReady'
  BY DEF TypeOK, CallsOK, Reserved, Started, Progress, ReadsReady
<1>2. Capped'
  BY CapKept DEF Creating
<1> QED BY <1>1, <1>2

LEMMA TickStep == ASSUME IInv, Tick PROVE IInv'
<1> USE Limits DEF IInv, Tick, stateVars, diskVars, callVars
<1>1. TypeOK' /\ CallsOK' /\ Reserved' /\ Started' /\ Progress' /\ ReadsReady'
  BY DEF TypeOK, CallsOK, Reserved, Started, Progress, ReadsReady
<1>2. Capped'
  BY CapKept DEF Creating
<1> QED BY <1>1, <1>2

LEMMA StutterStep == ASSUME IInv, UNCHANGED vars PROVE IInv'
<1> USE DEF IInv, vars, stateVars, diskVars, callVars
<1>1. TypeOK' /\ CallsOK' /\ Reserved' /\ Started' /\ Progress' /\ ReadsReady'
  BY DEF TypeOK, CallsOK, Reserved, Started, Progress, ReadsReady
<1>2. Capped'
  BY CapKept DEF Creating
<1> QED BY <1>1, <1>2

-----------------------------------------------------------------------------
(* The download task: it steps one session, and no request steps with it.  *)

LEMMA DownloadKeeps ==
    ASSUME IInv, NEW id \in Ids, dl[id] # None, dl'[id] # None,
           \A x \in Ids \ {id} : dl'[x] = dl[x],
           UNCHANGED <<map, born, pc, sid, todo>>
    PROVE  CallsOK' /\ Reserved' /\ Started' /\ Capped'
<1> USE DEF IInv
<1>1. CallsOK' /\ Reserved' /\ Started'
  BY DEF TypeOK, CallsOK, Reserved, Started, Tasks
<1>2. Capped'
  BY CapKept DEF Creating
<1> QED BY <1>1, <1>2

LEMMA DownloadStepKeeps ==
    ASSUME IInv, NEW id \in Ids, DownloadStep(id)
    PROVE  IInv'
<1> USE NoneIsNothing, Limits DEF IInv, DlGoto, diskVars, callVars
<1>1. CASE OpenFile(id)
  <2>1. TypeOK' /\ Progress' /\ ReadsReady'
    BY <1>1 DEF OpenFile, TypeOK, Progress, ReadsReady
  <2> QED BY <1>1, <2>1, DownloadKeeps DEF OpenFile, TypeOK
<1>2. CASE Chunk(id)
  <2>1. TypeOK' /\ Progress' /\ ReadsReady'
    BY <1>2 DEF Chunk, TypeOK, Progress, ReadsReady
  <2> QED BY <1>2, <2>1, DownloadKeeps DEF Chunk, TypeOK
<1>3. CASE Downloaded(id)
  <2>1. TypeOK' /\ Progress' /\ ReadsReady'
    BY <1>3 DEF Downloaded, TypeOK, Progress, ReadsReady
  <2> QED BY <1>3, <2>1, DownloadKeeps DEF Downloaded, TypeOK
<1>4. CASE Validated(id)
  <2>1. TypeOK' /\ Progress' /\ ReadsReady'
    BY <1>4 DEF Validated, TypeOK, Progress, ReadsReady, CallsOK, Tasks
  <2> QED BY <1>4, <2>1, DownloadKeeps DEF Validated, TypeOK
<1>5. CASE DownloadFails(id)
  <2>1. TypeOK' /\ Progress' /\ ReadsReady'
    BY <1>5 DEF DownloadFails, TypeOK, Progress, ReadsReady
  <2> QED BY <1>5, <2>1, DownloadKeeps DEF DownloadFails, TypeOK
<1>6. CASE CleanUp(id)
  <2>1. TypeOK' /\ Progress' /\ ReadsReady'
    BY <1>6 DEF CleanUp, Unlink, TypeOK, Progress, ReadsReady
  <2> QED BY <1>6, <2>1, DownloadKeeps DEF CleanUp, TypeOK
<1>7. CASE Fail(id)
  <2>1. TypeOK' /\ Progress'
    BY <1>7 DEF Fail, TypeOK, Progress
  <2>2. ReadsReady'
    BY <1>7 DEF Fail, TypeOK, Progress, ReadsReady, CallsOK, Tasks
  <2> QED BY <1>7, <2>1, <2>2, DownloadKeeps DEF Fail, TypeOK
<1>8. CASE Settle(id)
  <2>1. TypeOK' /\ Progress' /\ ReadsReady'
    BY <1>8 DEF Settle, TypeOK, Progress, ReadsReady
  <2> QED BY <1>8, <2>1, DownloadKeeps DEF Settle, TypeOK
<1> QED BY <1>1, <1>2, <1>3, <1>4, <1>5, <1>6, <1>7, <1>8 DEF DownloadStep

-----------------------------------------------------------------------------
LEMMA NextIInv == IInv /\ [Next]_vars => IInv'
<1> SUFFICES ASSUME IInv, [Next]_vars PROVE IInv'
  OBVIOUS
<1>1. ASSUME NEW c \in Creators, CheckCap(c) \/ CreatorStep(c) PROVE IInv'
  BY <1>1, CheckCapStep, CreateEndsStep, MakeDirStep, InsertStep DEF CreatorStep
<1>2. ASSUME NEW c \in Callers, CallBegin(c) PROVE IInv'
  BY <1>2, LookStep, QueryStep, RemoveStep DEF CallBegin, Delete
<1>3. ASSUME NEW c \in Callers, CallStep(c) PROVE IInv'
  BY <1>3, ReadStep, RemoveDirStep DEF CallStep
<1>4. CASE ReaperStep
  BY <1>4, ReapScanStep, RemoveDirStep, RemoveStep DEF ReaperStep, ReapNext
<1>5. ASSUME NEW id \in Ids, DownloadStep(id) PROVE IInv'
  BY <1>5, DownloadStepKeeps
<1> QED BY <1>1, <1>2, <1>3, <1>4, <1>5, TickStep, StutterStep DEF Next

\* The inductive invariant of this module holds in every reachable state.
THEOREM Invariance == Spec => []IInv
BY InitIInv, NextIInv, PTL DEF Spec

\* Every variable keeps its type.
THEOREM TypeCorrect == Spec => []TypeOK
BY Invariance, PTL DEF IInv

\* Only creations that were under way together take the sessions past the cap, by
\* one less than there are of them.
THEOREM CapIsSoft == Spec => []CapExceededByConcurrency
BY Invariance, PTL DEF IInv, Capped

\* A query never opens the bytes of a download under way, or of one that failed.
THEOREM ReadsAreValidated == Spec => []QueriesReadValidated
<1>1. IInv => QueriesReadValidated
  BY DEF IInv, ReadsReady, Progress, CallsOK, QueriesReadValidated, Described, Tasks
<1> QED BY <1>1, Invariance, PTL

\* Whatever removals fail: a failed download leaves bytes only where the system
\* refused to remove them, and no download leaves more than the limit.
THEOREM BytesAreRemoved == Spec => []BytesLeftOnlyIfUndeletable
<1>1. IInv => BytesLeftOnlyIfUndeletable
  BY NoneIsNothing, Limits DEF IInv, TypeOK, Progress, BytesLeftOnlyIfUndeletable
<1> QED BY <1>1, Invariance, PTL

-----------------------------------------------------------------------------
(* The store implements the life of its sessions, step by step.            *)

Lives == [id \in Ids |-> Shown(id)]

\* A step after which nothing that is shown of other sessions has changed, and one
\* session has moved along its life or not at all.
LEMMA OneLife ==
    ASSUME NEW id \in Ids, \A x \in Ids \ {id} : Shown(x)' = Shown(x),
           \/ Shown(id)' = Shown(id)
           \/ Shown(id) = "unborn" /\ Shown(id)' = "downloading"
           \/ Shown(id) = "downloading" /\ Shown(id)' = "validating"
           \/ Shown(id) \in {"downloading", "validating"} /\ Shown(id)' \in {"ready", "failed"}
           \/ /\ Shown(id) \in {"downloading", "validating", "ready", "failed"}
              /\ Shown(id)' = "gone"
    PROVE  [Life!Next]_Lives
<1>1. Lives' = [Lives EXCEPT ![id] = Shown(id)']
  BY DEF Lives
<1>2. CASE Shown(id)' = Shown(id)
  BY <1>1, <1>2 DEF Lives
<1>3. CASE Shown(id) = "unborn" /\ Shown(id)' = "downloading"
  BY <1>1, <1>3 DEF Lives, Life!Next, Life!Start, Life!Change
<1>4. CASE Shown(id) = "downloading" /\ Shown(id)' = "validating"
  BY <1>1, <1>4 DEF Lives, Life!Next, Life!Validate, Life!Change
<1>5. CASE Shown(id) \in {"downloading", "validating"} /\ Shown(id)' \in {"ready", "failed"}
  BY <1>1, <1>5 DEF Lives, Life!Next, Life!Settle, Life!Change, Life!Pending, Life!Settled
<1>6. CASE /\ Shown(id) \in {"downloading", "validating", "ready", "failed"}
           /\ Shown(id)' = "gone"
  BY <1>1, <1>6 DEF Lives, Life!Next, Life!Remove, Life!Change, Life!Pending, Life!Settled
<1> QED BY <1>2, <1>3, <1>4, <1>5, <1>6

\* A step that leaves the map and the states alone shows nothing.
LEMMA LivesKept ==
    ASSUME UNCHANGED <<map, phase, outcome, dl>>
    PROVE  [Life!Next]_Lives
BY DEF Lives, Shown, Status

LEMMA RemoveLives ==
    ASSUME IInv, NEW t, NEW id \in Ids, dl[id] # None, Remove(t, id)
    PROVE  [Life!Next]_Lives
<1> USE DEF IInv, Remove, stateVars, Shown, Status
<1>1. \A x \in Ids \ {id} : Shown(x)' = Shown(x)
  OBVIOUS
<1>2. CASE id \in map
  <2>1. Shown(id)' = "gone"
    OBVIOUS
  <2>2. Shown(id) \in {"downloading", "validating", "ready", "failed"}
    BY <1>2 DEF TypeOK, Progress
  <2> HIDE DEF IInv, Remove, stateVars, Shown, Status
  <2> QED BY <1>1, <2>1, <2>2, OneLife
<1>3. CASE id \notin map
  <2>1. Shown(id)' = Shown(id)
    BY <1>3
  <2> HIDE DEF IInv, Remove, stateVars, Shown, Status
  <2> QED BY <1>1, <2>1, OneLife
<1> QED BY <1>2, <1>3

LEMMA InsertLives ==
    ASSUME IInv, NEW c \in Creators, Insert(c)
    PROVE  [Life!Next]_Lives
<1>1. sid[c] \in Ids /\ dl[sid[c]] = None /\ sid[c] \notin map
  BY DEF IInv, Insert, CallsOK, Reserved, Started, Tasks
<1>2. PICK id \in Ids : id = sid[c]
  BY <1>1
<1>3. Shown(id) = "unborn" /\ Shown(id)' = "downloading"
  BY <1>1, <1>2, NoneIsNothing DEF IInv, Insert, Shown, Status, Progress, TypeOK
<1>4. \A x \in Ids \ {id} : Shown(x)' = Shown(x)
  BY <1>1, <1>2 DEF IInv, Insert, Shown, Status, TypeOK
<1> QED BY <1>3, <1>4, OneLife

LEMMA DownloadLives ==
    ASSUME IInv, NEW id \in Ids, DownloadStep(id)
    PROVE  [Life!Next]_Lives
<1>1. /\ map' = map /\ dl[id] # None /\ dl'[id] # None
      /\ \A x \in Ids \ {id} : dl'[x] = dl[x] /\ phase'[x] = phase[x] /\ outcome'[x] = outcome[x]
  BY NoneIsNothing DEF IInv, TypeOK, DownloadStep, OpenFile, Chunk, Downloaded, Validated,
     DownloadFails, CleanUp, Fail, Settle, DlGoto, diskVars
<1>2. \A x \in Ids \ {id} : Shown(x)' = Shown(x)
  BY <1>1 DEF Shown, Status
<1>3. \/ Shown(id)' = Shown(id)
      \/ Shown(id) = "downloading" /\ Shown(id)' = "validating"
      \/ Shown(id) \in {"downloading", "validating"} /\ Shown(id)' \in {"ready", "failed"}
  <2> USE NoneIsNothing DEF IInv, TypeOK, DlGoto, Shown, Status
  <2>1. CASE OpenFile(id) \/ Chunk(id) \/ DownloadFails(id) \/ CleanUp(id)
    BY <1>1, <2>1 DEF OpenFile, Chunk, DownloadFails, CleanUp
  <2>2. CASE Downloaded(id)
    BY <1>1, <2>2 DEF Downloaded, Progress
  <2>3. CASE Validated(id) \/ Fail(id)
    BY <1>1, <2>3 DEF Validated, Fail, Progress
  <2>4. CASE Settle(id)
    BY <1>1, <2>4 DEF Settle, Progress
  <2> QED BY <2>1, <2>2, <2>3, <2>4 DEF DownloadStep
<1> QED BY <1>2, <1>3, OneLife

LEMMA NextLives == IInv /\ [Next]_vars => [Life!Next]_Lives
<1> SUFFICES ASSUME IInv, [Next]_vars PROVE [Life!Next]_Lives
  OBVIOUS
<1> USE DEF stateVars, callVars, diskVars
<1>1. ASSUME NEW c \in Creators, CheckCap(c) \/ CreatorStep(c) PROVE [Life!Next]_Lives
  BY <1>1, InsertLives, LivesKept
     DEF CreatorStep, CheckCap, CreateRefused, CreateDropped, MakeDir
<1>2. ASSUME NEW c \in Callers, CallBegin(c) PROVE [Life!Next]_Lives
  BY <1>2, RemoveLives, LivesKept DEF CallBegin, Look, Query, Delete, IInv, Started
<1>3. ASSUME NEW c \in Callers, CallStep(c) PROVE [Life!Next]_Lives
  BY <1>3, LivesKept DEF CallStep, Read, RemoveDir
<1>4. CASE ReaperStep
  BY <1>4, RemoveLives, LivesKept DEF ReaperStep, ReapScan, RemoveDir, ReapNext, IInv, Started
<1>5. ASSUME NEW id \in Ids, DownloadStep(id) PROVE [Life!Next]_Lives
  BY <1>5, DownloadLives
<1>6. CASE Tick \/ UNCHANGED vars
  BY <1>6, LivesKept DEF Tick, vars
<1> QED BY <1>1, <1>2, <1>3, <1>4, <1>5, <1>6 DEF Next

\* Whoever polls a session sees its life in order, whatever the order of the
\* download's stores, of the removals and of the reaper's stale list.
THEOREM LifeInOrder == Spec => Life!InOrder
<1>1. Init => Life!Init
  BY NoneIsNothing DEF Init, Life!Init, Shown
<1>2. IInv /\ [Next]_vars => [Life!Next]_Lives
  BY NextLives
<1> QED BY <1>1, <1>2, Invariance, PTL DEF Spec, Life!InOrder, Lives

=============================================================================
