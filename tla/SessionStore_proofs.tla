------------------------- MODULE SessionStore_proofs -------------------------
(***************************************************************************)
(* Proofs about SessionStore, for every set of sessions, paths, editors    *)
(* and readers, every time to live and any number of failed calls and      *)
(* restarts (the last results: for none).                                  *)
(***************************************************************************)
EXTENDS SessionStore, TLAPS

Content == (SUBSET Marks) \cup {None}

ContentOK == upper \in [Sids -> [Paths -> Content]] /\ new \in [Tasks -> Content]

Mutating == {"filling", "storing"}
Removing == {"removing"}
Viewing == {"opening", "resolving", "reading", "done"}

\* A call past a step has the arguments it began with, and is the kind of request
\* that takes the step.
LocalsOK ==
    \A t \in Tasks :
        /\ pc[t] \notin {"idle", "reaping"} => sid[t] \in Sids
        /\ t = Reaper => pc[t] \in {"idle", "reaping", "removing"}
        /\ pc[t] \in {"touching", "waiting"} \cup Mutating \cup Viewing => path[t] \in Paths
        /\ pc[t] \in {"waiting"} \cup Mutating => t \in Editors
        /\ pc[t] \in Viewing => t \in Readers
        /\ pc[t] = "reaping" => t = Reaper

\* The write lock is held from the first step of a mutation to its return.
LockOK ==
    \A t \in Tasks : pc[t] \in Mutating \cup Removing \cup {"reaping"} <=> lock = t

\* The record about to be stored is the one on disk but for the call's own path.
RecOK ==
    \A t \in Tasks : pc[t] \in Mutating =>
        /\ sid[t] \in live
        /\ pc[t] = "filling" => kind[t] \in {"write_file", "edit_file"}
        /\ kind[t] \in {"write_file", "edit_file"} =>
              rec[t] = deleted[sid[t]] \ {path[t]}
        /\ kind[t] \notin {"write_file", "edit_file"} =>
              /\ upper[sid[t]][path[t]] = None
              /\ rec[t] = deleted[sid[t]] \cup ({path[t]} \cap BasePaths)

\* The sessions the reaper is about to remove are still expired.
ReapOK ==
    /\ pc[Reaper] = "idle" => todo = {}
    /\ \A s \in todo : s \in live => age[s] > Ttl
    /\ pc[Reaper] = "removing" => (sid[Reaper] \in live => age[sid[Reaper]] > Ttl)

\* An id that was never used has nothing on disk.
Fresh ==
    \A s \in Sids \ born : deleted[s] = {} /\ upper[s] = [p \in Paths |-> None]

\* Without failures, a path has a whiteout and an upper file at once only under the
\* call that is replacing the whiteout, or in a session that is being removed.
Clean ==
    MaxFaults = 0 =>
        \A s \in live, p \in Paths :
            \/ upper[s][p] = None \/ p \notin deleted[s]
            \/ \E t \in Tasks :
                  /\ sid[t] = s
                  /\ \/ pc[t] = "removing"
                     \/ /\ pc[t] \in Mutating /\ path[t] = p
                        /\ kind[t] \in {"write_file", "edit_file"}

IInv == TypeOK /\ ContentOK /\ LocalsOK /\ LockOK /\ RecOK /\ ReapOK /\ Fresh /\ Clean

LEMMA InitIInv == Init => IInv
<1> SUFFICES ASSUME Init PROVE IInv
  OBVIOUS
<1> USE SomePathsInBase, DistinctValues, Bounds DEF Init, NoCalls, Tasks, Requests
<1>1. TypeOK /\ ContentOK
  BY DEF TypeOK, ContentOK, Content
<1>2. LocalsOK /\ LockOK /\ RecOK
  BY DEF LocalsOK, LockOK, RecOK, Mutating, Removing, Viewing
<1>3. ReapOK
  BY DEF ReapOK
<1>4. Fresh /\ Clean
  BY DEF Fresh, Clean
<1> QED BY <1>1, <1>2, <1>3, <1>4 DEF IInv

-----------------------------------------------------------------------------
(* Sessions come, time passes.                                             *)

LEMMA CreateStep ==
    ASSUME IInv, NEW s \in Sids, Create(s) \/ CreateFails(s)
    PROVE  IInv'
<1> USE DistinctValues, Bounds DEF IInv, Create, CreateFails, callVars
<1>1. TypeOK' /\ ContentOK'
  BY DEF TypeOK, ContentOK
<1>2. LocalsOK' /\ LockOK'
  BY DEF LocalsOK, LockOK
<1>3. RecOK'
  BY DEF RecOK
<1>4. ReapOK'
  BY DEF ReapOK, LockOK, LocalsOK, Tasks, Removing
<1>5. Fresh' /\ Clean'
  BY DEF TypeOK, Fresh, Clean
<1> QED BY <1>1, <1>2, <1>3, <1>4, <1>5

LEMMA TickStep ==
    ASSUME IInv, Tick
    PROVE  IInv'
<1> USE Bounds DEF IInv, Tick, callVars
<1>1. TypeOK' /\ ContentOK'
  BY DEF TypeOK, ContentOK
<1>2. LocalsOK' /\ LockOK' /\ RecOK' /\ Fresh' /\ Clean'
  BY DEF LocalsOK, LockOK, RecOK, Fresh, Clean
<1>3. ReapOK'
  BY DEF ReapOK, TypeOK
<1> QED BY <1>1, <1>2, <1>3

-----------------------------------------------------------------------------
(* Calls begin and return.                                                 *)

\* The lock's holder, and nobody else, is mutating.
LEMMA Free ==
    ASSUME LocalsOK, LockOK, TypeOK, lock = None
    PROVE  /\ \A t \in Tasks : pc[t] \notin Mutating \cup Removing \cup {"reaping"}
           /\ pc[Reaper] = "idle"
BY DistinctValues DEF LocalsOK, LockOK, Removing, Tasks

LEMMA AuthorizeStep ==
    ASSUME IInv, NEW t \in Requests, Begin(t)
    PROVE  IInv'
<1> USE DistinctValues DEF IInv, Tasks, Requests
<1>1. PICK k \in {"read", "write_file", "edit_file", "delete_file", "delete"},
           s \in Sids, p \in Paths : Authorize(t, k, s, p)
  BY DEF Begin
<1> USE <1>1 DEF Authorize, Goto, diskVars, metaVars
<1>2. TypeOK' /\ ContentOK'
  BY DEF TypeOK, ContentOK
<1>3. LocalsOK' /\ LockOK'
  BY DEF TypeOK, LocalsOK, LockOK, Mutating, Removing, Viewing
<1>4. RecOK'
  BY DEF TypeOK, RecOK, Mutating
<1>5. ReapOK' /\ Fresh'
  BY DEF TypeOK, ReapOK, Fresh
<1>6. Clean'
  BY DEF TypeOK, Clean, Mutating
<1> QED BY <1>2, <1>3, <1>4, <1>5, <1>6

LEMMA TouchStep ==
    ASSUME IInv, NEW t \in Requests, Touch(t)
    PROVE  IInv'
<1> USE DistinctValues, Bounds DEF IInv, Tasks, Requests, Touch, Goto, callVars
<1>1. TypeOK' /\ ContentOK'
  BY DEF TypeOK, ContentOK, LocalsOK
<1>2. LocalsOK' /\ LockOK'
  BY DEF TypeOK, LocalsOK, LockOK, Mutating, Removing, Viewing
<1>3. RecOK' /\ Fresh'
  BY DEF TypeOK, RecOK, Fresh, Mutating
<1>4. ReapOK'
  BY Free DEF TypeOK, ReapOK
<1>5. Clean'
  BY DEF TypeOK, Clean, Mutating
<1> QED BY <1>1, <1>2, <1>3, <1>4, <1>5

\* A call that returns having changed nothing on disk.
LEMMA ReturnStep ==
    ASSUME IInv, NEW t \in Requests, Return(t), pc[t] \notin Mutating \cup Removing,
           UNCHANGED <<diskVars, todo, faults>>
    PROVE  IInv'
<1> USE DistinctValues DEF IInv, Tasks, Requests, Return, Goto, diskVars, metaVars
<1>1. TypeOK' /\ ContentOK'
  BY DEF TypeOK, ContentOK, Content
<1>2. LocalsOK' /\ LockOK' /\ lock' = lock
  BY DEF TypeOK, LocalsOK, LockOK, Mutating, Removing, Viewing
<1>3. RecOK'
  BY DEF TypeOK, RecOK, Mutating
<1>4. ReapOK' /\ Fresh'
  BY DEF TypeOK, ReapOK, Fresh
<1>5. Clean'
  BY DEF TypeOK, Clean, Mutating, Removing
<1> QED BY <1>1, <1>2, <1>3, <1>4, <1>5

\* The steps of a read.
LEMMA ReaderStepKeeps ==
    ASSUME IInv, NEW t \in Readers, ViewOpen(t) \/ ReadResolve(t) \/ ReadUpper(t)
    PROVE  IInv'
<1> USE DistinctValues DEF IInv, Tasks, Requests, Goto
<1>1. /\ pc[t] \in Viewing
      /\ \E l \in Viewing : pc' = [pc EXCEPT ![t] = l]
      /\ UNCHANGED <<diskVars, lock, callVars, todo, faults>>
  BY DEF ViewOpen, ReadResolve, ReadUpper, Viewing
<1>2. \E r \in SUBSET BasePaths, f \in Content :
         rec' = [rec EXCEPT ![t] = r] /\ new' = [new EXCEPT ![t] = f]
  <2>1. sid[t] \in Sids /\ path[t] \in Paths
    BY <1>1 DEF LocalsOK, Viewing
  <2>2. /\ upper[sid[t]][path[t]] \in Content /\ deleted[sid[t]] \in SUBSET BasePaths
        /\ View(sid[t], path[t], rec[t]) \in Content /\ None \in Content
    BY <2>1 DEF TypeOK, ContentOK, Content, View, Base
  <2>3. /\ rec = [rec EXCEPT ![t] = rec[t]] /\ rec[t] \in SUBSET BasePaths
        /\ new = [new EXCEPT ![t] = new[t]] /\ new[t] \in Content
    BY DEF TypeOK, ContentOK
  <2> QED BY <2>2, <2>3 DEF ViewOpen, ReadResolve, ReadUpper
<1> USE DEF diskVars, metaVars, callVars
<1>3. TypeOK' /\ ContentOK'
  BY <1>1, <1>2 DEF TypeOK, ContentOK, Content, Viewing
<1>4. LocalsOK' /\ LockOK'
  BY <1>1 DEF TypeOK, LocalsOK, LockOK, Mutating, Removing, Viewing
<1>5. RecOK'
  BY <1>1, <1>2 DEF TypeOK, RecOK, Mutating, Viewing
<1>6. ReapOK' /\ Fresh'
  BY <1>1 DEF TypeOK, ReapOK, Fresh
<1>7. Clean'
  BY <1>1 DEF TypeOK, Clean, Mutating, Viewing
<1> QED BY <1>3, <1>4, <1>5, <1>6, <1>7

-----------------------------------------------------------------------------
(* Mutations.                                                              *)

LEMMA BeginStep ==
    ASSUME IInv, NEW t \in Editors, WriteBegin(t) \/ EditBegin(t)
    PROVE  IInv'
<1> USE DistinctValues DEF IInv, Tasks, Requests
<1>1. /\ pc[t] = "waiting" /\ kind[t] \in {"write_file", "edit_file"} /\ sid[t] \in live
      /\ lock = None /\ lock' = t /\ pc' = [pc EXCEPT ![t] = "filling"]
      /\ upper' = [upper EXCEPT ![sid[t]][path[t]] = {Torn}]
      /\ rec' = [rec EXCEPT ![t] = deleted[sid[t]] \ {path[t]}]
      /\ UNCHANGED <<dirs, live, born, deleted, age, callVars, todo, faults>>
  BY DEF WriteBegin, EditBegin, Ready, Found, Locks, Goto, Truncate, metaVars
<1>2. sid[t] \in Sids /\ path[t] \in Paths /\ {Torn} \in Content
  BY <1>1 DEF LocalsOK, Content, Marks
<1>3. \E f \in Content : new' = [new EXCEPT ![t] = f]
  <2>1. Edited(Current(sid[t], path[t]), t) \in Content
    BY <1>2 DEF TypeOK, ContentOK, Content, Edited, Current, Base, Marks
  <2> QED BY <2>1 DEF WriteBegin, EditBegin, Content, Marks
<1> USE DEF callVars
<1>4. TypeOK' /\ ContentOK'
  <2>1. ContentOK'
    BY <1>1, <1>2, <1>3 DEF ContentOK
  <2> QED BY <1>1, <1>2, <2>1 DEF TypeOK, ContentOK, Content
<1>5. LocalsOK' /\ LockOK'
  BY <1>1 DEF TypeOK, LocalsOK, LockOK, Mutating, Removing, Viewing
<1>6. RecOK'
  BY <1>1, <1>2, Free DEF TypeOK, RecOK, Mutating
<1>7. ReapOK' /\ Fresh'
  BY <1>1, <1>2, Free DEF TypeOK, ReapOK, Fresh
<1>8. Clean'
  <2> SUFFICES ASSUME MaxFaults = 0, NEW s \in live, NEW p \in Paths,
                      s # sid[t] \/ p # path[t]
               PROVE  upper'[s][p] = None \/ p \notin deleted[s]
    BY <1>1 DEF TypeOK, Clean, Mutating
  <2>1. upper'[s][p] = upper[s][p] /\ s \in Sids
    BY <1>1, <1>2 DEF TypeOK, ContentOK
  <2> QED BY <1>1, <2>1, Free DEF Clean, Removing, Mutating
<1> QED BY <1>4, <1>5, <1>6, <1>7, <1>8

LEMMA FillStep ==
    ASSUME IInv, NEW t \in Editors, Fill(t)
    PROVE  IInv'
<1> USE DistinctValues DEF IInv, Tasks, Requests, Fill, Goto, callVars, metaVars
<1>1. pc[t] \in Mutating /\ sid[t] \in Sids /\ path[t] \in Paths /\ new[t] \in Content
  BY DEF LocalsOK, ContentOK, Mutating
<1>2. \A u \in Tasks \ {t} : pc[u] \notin Mutating \cup Removing
  BY <1>1 DEF LockOK
<1>3. ContentOK'
  BY <1>1 DEF ContentOK
<1>4. TypeOK'
  BY <1>3 DEF TypeOK, ContentOK, Content
<1>5. LocalsOK' /\ LockOK'
  BY DEF TypeOK, LocalsOK, LockOK, Mutating, Removing, Viewing
<1>6. RecOK'
  BY <1>1, <1>2 DEF TypeOK, RecOK, Mutating
<1>7. ReapOK' /\ Fresh'
  BY <1>1, <1>2 DEF TypeOK, ReapOK, RecOK, Fresh
<1>8. Clean'
  BY <1>1 DEF TypeOK, ContentOK, RecOK, Clean, Mutating, Removing
<1> QED BY <1>3, <1>4, <1>5, <1>6, <1>7, <1>8

LEMMA DeleteFileStep ==
    ASSUME IInv, NEW t \in Editors, DeleteFileBegin(t)
    PROVE  IInv'
<1> USE DistinctValues DEF IInv, Tasks, Requests, DeleteFileBegin, Locks, Ready, Found, Goto,
                           callVars, metaVars
<1>1. sid[t] \in Sids /\ path[t] \in Paths /\ None \in Content
  BY DEF LocalsOK, Content
<1>2. ContentOK'
  BY <1>1 DEF ContentOK
<1>3. TypeOK'
  BY <1>1, <1>2 DEF TypeOK, ContentOK, Content
<1>4. LocalsOK' /\ LockOK'
  BY DEF TypeOK, LocalsOK, LockOK, Mutating, Removing, Viewing
<1>5. RecOK'
  BY <1>1, Free DEF TypeOK, ContentOK, RecOK, Mutating
<1>6. ReapOK' /\ Fresh'
  BY <1>1, Free DEF TypeOK, ReapOK, Fresh
<1>7. Clean'
  BY <1>1, Free DEF TypeOK, ContentOK, Clean, Mutating, Removing
<1> QED BY <1>2, <1>3, <1>4, <1>5, <1>6, <1>7

\* The record is stored into a session that is there: the lock kept it.
LEMMA StoringStep ==
    ASSUME IInv, NEW t \in Editors, Store(t)
    PROVE  IInv' /\ live' = live
<1> USE DistinctValues, SomePathsInBase DEF IInv, Tasks, Requests
<1>1. /\ pc[t] = "storing" /\ lock = t /\ sid[t] \in live /\ sid[t] \in Sids
      /\ path[t] \in Paths
  BY DEF Store, LocalsOK, LockOK, RecOK, Mutating
<1>2. /\ dirs' = dirs /\ live' = live /\ lock' = None
      /\ deleted' = [deleted EXCEPT ![sid[t]] = rec[t]]
      /\ age' = [age EXCEPT ![sid[t]] = 0]
      /\ pc' = [pc EXCEPT ![t] = "idle"] /\ kind' = [kind EXCEPT ![t] = None]
      /\ sid' = [sid EXCEPT ![t] = None] /\ path' = [path EXCEPT ![t] = None]
      /\ rec' = [rec EXCEPT ![t] = {}] /\ new' = [new EXCEPT ![t] = None]
      /\ UNCHANGED <<born, upper, todo, faults>>
  BY <1>1 DEF Store, Return, Goto, TypeOK
<1>3. \A u \in Tasks \ {t} : pc[u] \notin Mutating \cup Removing \cup {"reaping"}
  BY <1>1 DEF LockOK
<1>4. TypeOK' /\ ContentOK'
  BY <1>1, <1>2, Bounds DEF TypeOK, ContentOK, Content
<1>5. LocalsOK' /\ LockOK'
  BY <1>1, <1>2, <1>3 DEF TypeOK, LocalsOK, LockOK, Mutating, Removing, Viewing
<1>6. RecOK'
  BY <1>1, <1>2, <1>3 DEF TypeOK, RecOK, Mutating
<1>7. ReapOK' /\ Fresh'
  BY <1>1, <1>2, <1>3 DEF TypeOK, ReapOK, LocalsOK, Removing, Fresh
<1>8. Clean'
  <2> SUFFICES ASSUME MaxFaults = 0, NEW s \in live, NEW p \in Paths, p \in deleted'[s]
               PROVE  upper[s][p] = None
    BY <1>2 DEF Clean
  <2>1. CASE s # sid[t]
    BY <1>1, <1>2, <1>3, <2>1 DEF TypeOK, Clean, Mutating, Removing
  <2>2. CASE s = sid[t]
    <3>1. p \in rec[t]
      BY <1>1, <1>2, <2>2 DEF TypeOK
    <3>2. CASE p = path[t]
      BY <1>1, <2>2, <3>1, <3>2 DEF RecOK, Mutating
    <3>3. CASE p # path[t]
      BY <1>1, <1>3, <2>2, <3>1, <3>3 DEF RecOK, Clean, Mutating, Removing
    <3> QED BY <3>2, <3>3
  <2> QED BY <2>1, <2>2
<1> QED BY <1>2, <1>4, <1>5, <1>6, <1>7, <1>8

-----------------------------------------------------------------------------
(* Removals.                                                               *)

LEMMA Undisturbed ==
    ASSUME Clean, MaxFaults = 0, NEW t \in Tasks, NEW s \in live, s # sid[t], NEW p \in Paths,
           \A u \in Tasks \ {t} : pc[u] \notin Mutating \cup Removing
    PROVE  upper[s][p] = None \/ p \notin deleted[s]
BY DEF Clean, Removing

\* What a removal does to the disk, begun or ended.
LEMMA RemovedDisk ==
    ASSUME IInv, NEW s \in Sids, (RemoveSome(s) /\ dirs' = dirs) \/ RemoveAll(s)
    PROVE  /\ upper' \in [Sids -> [Paths -> Content]]
           /\ deleted' \in [Sids -> SUBSET BasePaths] /\ age' \in [Sids -> 0 .. Ttl + 1]
           /\ live' \subseteq dirs' /\ dirs' \subseteq dirs
           /\ live' = live \/ live' = live \ {s}
           /\ \A x \in Sids \ {s} :
                 upper'[x] = upper[x] /\ deleted'[x] = deleted[x] /\ age'[x] = age[x]
           /\ s \in live' => deleted'[s] = deleted[s] /\ age'[s] = age[s]
           /\ deleted[s] = {} => deleted'[s] = {}
           /\ upper[s] = [p \in Paths |-> None] => upper'[s] = [p \in Paths |-> None]
<1> USE Bounds DEF IInv, TypeOK, ContentOK, Content
<1>1. CASE RemoveSome(s) /\ dirs' = dirs
  <2>1. PICK gone \in SUBSET Paths :
           upper' = [upper EXCEPT ![s] =
                        [p \in Paths |-> IF p \in gone THEN None ELSE upper[s][p]]]
    BY <1>1 DEF RemoveSome
  <2>2. [p \in Paths |-> IF p \in gone THEN None ELSE upper[s][p]] \in [Paths -> Content]
    OBVIOUS
  <2>3. upper' \in [Sids -> [Paths -> Content]]
    BY <2>1, <2>2
  <2>4. upper[s] = [p \in Paths |-> None] => upper'[s] = [p \in Paths |-> None]
    BY <2>1
  <2>5. \A x \in Sids \ {s} : upper'[x] = upper[x]
    BY <2>1
  <2> HIDE DEF ContentOK
  <2>6. CASE Forget(s)
    BY <1>1, <2>3, <2>4, <2>5, <2>6 DEF Forget
  <2>7. CASE UNCHANGED <<live, deleted, age>>
    BY <1>1, <2>3, <2>4, <2>5, <2>7
  <2> QED BY <1>1, <2>6, <2>7 DEF RemoveSome
<1>2. CASE RemoveAll(s)
  BY <1>2 DEF RemoveAll, Forget
<1> QED BY <1>1, <1>2

LEMMA RemoveBeginStep ==
    ASSUME IInv, NEW t \in Tasks, NEW s \in Sids, RemoveSome(s),
           \A u \in Tasks \ {t} : pc[u] \notin Mutating \cup Removing \cup {"reaping"},
           pc[t] \notin Mutating \cup Removing,
           pc[t] # "waiting" => t = Reaper /\ pc[t] = "reaping",
           t # Reaper => sid' = sid /\ sid[t] = s /\ todo' = todo,
           t = Reaper => /\ sid' = [sid EXCEPT ![t] = s]
                         /\ s \in todo /\ todo' = todo \ {s},
           lock' = t, pc' = [pc EXCEPT ![t] = "removing"],
           UNCHANGED <<dirs, born, kind, path, rec, new, faults>>
    PROVE  IInv' /\ (t # Reaper => todo = {})
<1> USE DistinctValues DEF IInv, Tasks, Requests
<1>0. /\ upper' \in [Sids -> [Paths -> Content]]
      /\ deleted' \in [Sids -> SUBSET BasePaths] /\ age' \in [Sids -> 0 .. Ttl + 1]
      /\ live' \subseteq dirs' /\ dirs' \subseteq dirs
      /\ live' = live \/ live' = live \ {s}
      /\ \A x \in Sids \ {s} :
            upper'[x] = upper[x] /\ deleted'[x] = deleted[x] /\ age'[x] = age[x]
      /\ s \in live' => deleted'[s] = deleted[s] /\ age'[s] = age[s]
      /\ deleted[s] = {} => deleted'[s] = {}
      /\ upper[s] = [p \in Paths |-> None] => upper'[s] = [p \in Paths |-> None]
  BY RemovedDisk
<1>1. ContentOK' /\ TypeOK'
  <2>1. ContentOK'
    BY <1>0 DEF ContentOK
  <2> QED BY <1>0, <2>1 DEF TypeOK, ContentOK, Content
<1>2. LocalsOK' /\ LockOK'
  BY DEF TypeOK, LocalsOK, LockOK, Mutating, Removing, Viewing
<1>3. RecOK'
  BY DEF TypeOK, RecOK, Mutating
<1>4. t # Reaper => todo = {} /\ pc[Reaper] = "idle"
  BY DEF LocalsOK, ReapOK, Removing
<1>5. ReapOK'
  BY <1>0, <1>4 DEF TypeOK, ReapOK
<1>6. Fresh'
  BY <1>0 DEF TypeOK, Fresh
<1>7. Clean'
  <2> SUFFICES ASSUME MaxFaults = 0, NEW x \in live, x # s, NEW p \in Paths
               PROVE  upper[x][p] = None \/ p \notin deleted[x]
    BY <1>0 DEF TypeOK, Clean
  <2> QED BY DEF TypeOK, Clean, Mutating, Removing
<1> QED BY <1>1, <1>2, <1>3, <1>4, <1>5, <1>6, <1>7

LEMMA DeleteBeginStep ==
    ASSUME IInv, NEW t \in Editors, DeleteBegin(t)
    PROVE  IInv'
<1>1. /\ pc[t] = "waiting" /\ lock = None /\ lock' = t /\ sid[t] \in Sids /\ t \in Tasks
      /\ pc' = [pc EXCEPT ![t] = "removing"] /\ RemoveSome(sid[t]) /\ t # Reaper
      /\ UNCHANGED <<dirs, born, callVars, rec, new, todo, faults>>
  BY DistinctValues DEF DeleteBegin, Ready, Locks, Goto, IInv, LocalsOK, Tasks, Requests
<1>2. \A u \in Tasks : pc[u] \notin Mutating \cup Removing \cup {"reaping"}
  BY <1>1, Free DEF IInv
<1> QED BY <1>1, <1>2, RemoveBeginStep DEF callVars

LEMMA ReapRemoveStep ==
    ASSUME IInv, NEW s \in Sids, ReapRemoveBegin(s)
    PROVE  IInv'
<1>1. /\ pc[Reaper] = "reaping" /\ s \in todo /\ RemoveSome(s) /\ Reaper \in Tasks
      /\ todo' = todo \ {s} /\ sid' = [sid EXCEPT ![Reaper] = s]
      /\ pc' = [pc EXCEPT ![Reaper] = "removing"]
      /\ UNCHANGED <<dirs, born, lock, kind, path, rec, new, faults>>
  BY DEF ReapRemoveBegin, Goto, Tasks
<1>2. lock = Reaper /\ \A u \in Tasks \ {Reaper} :
                          pc[u] \notin Mutating \cup Removing \cup {"reaping"}
  BY <1>1 DEF IInv, LockOK
<1> QED BY <1>1, <1>2, RemoveBeginStep DEF Mutating, Removing

\* The end of a removal: the session goes with all it had.
LEMMA RemoveEndStep ==
    ASSUME IInv, NEW t \in Tasks, pc[t] = "removing", RemoveAll(sid[t]),
           sid' = [sid EXCEPT ![t] = None],
           \/ /\ t # Reaper /\ lock' = None /\ pc' = [pc EXCEPT ![t] = "idle"]
              /\ kind' = [kind EXCEPT ![t] = None] /\ path' = [path EXCEPT ![t] = None]
              /\ rec' = [rec EXCEPT ![t] = {}] /\ new' = [new EXCEPT ![t] = None]
           \/ /\ t = Reaper /\ pc' = [pc EXCEPT ![t] = "reaping"]
              /\ UNCHANGED <<lock, kind, path, rec, new>>,
           UNCHANGED <<born, todo, faults>>
    PROVE  IInv'
<1> USE DistinctValues DEF IInv, Tasks, Requests
<1>0. /\ sid[t] \in Sids /\ lock = t
      /\ \A u \in Tasks \ {t} : pc[u] \notin Mutating \cup Removing \cup {"reaping"}
  BY DEF LocalsOK, LockOK, Removing
<1>1. PICK x \in Sids : x = sid[t]
  BY <1>0
<1>2. RemoveAll(x)
  BY <1>1
<1>3. /\ upper' \in [Sids -> [Paths -> Content]]
      /\ deleted' \in [Sids -> SUBSET BasePaths] /\ age' \in [Sids -> 0 .. Ttl + 1]
      /\ live' \subseteq dirs' /\ dirs' \subseteq dirs
      /\ live' = live \/ live' = live \ {x}
      /\ \A y \in Sids \ {x} :
            upper'[y] = upper[y] /\ deleted'[y] = deleted[y] /\ age'[y] = age[y]
      /\ deleted[x] = {} => deleted'[x] = {}
      /\ upper[x] = [p \in Paths |-> None] => upper'[x] = [p \in Paths |-> None]
  BY <1>2, RemovedDisk
<1>4. live' = live \ {x} /\ None \in Content
  BY <1>2 DEF RemoveAll, Forget, Content
<1>5. ContentOK' /\ TypeOK'
  <2>1. ContentOK'
    BY <1>3, <1>4 DEF ContentOK
  <2>2. /\ \A y \in Sids, p \in Paths : upper'[y][p] = None \/ upper'[y][p] \subseteq Marks
        /\ \A u \in Tasks : new'[u] = None \/ new'[u] \subseteq Marks
    BY <2>1 DEF ContentOK, Content
  <2>3. ASSUME t # Reaper PROVE TypeOK'
    <3>1. /\ lock' \in Tasks \cup {None} /\ sid' \in [Tasks -> Sids \cup {None}]
          /\ pc' \in [Tasks -> {"idle", "touching", "waiting", "filling", "storing",
                               "removing", "reaping", "opening", "resolving", "reading", "done"}]
      BY <2>3 DEF TypeOK
    <3>2. /\ kind' \in [Tasks -> {"read", "write_file", "edit_file", "delete_file", "delete", None}]
          /\ path' \in [Tasks -> Paths \cup {None}]
          /\ rec' \in [Tasks -> SUBSET BasePaths]
      BY <2>3 DEF TypeOK
    <3>3. live' \subseteq dirs' /\ dirs' \subseteq born' /\ born' \subseteq Sids
      BY <1>3 DEF TypeOK
    <3>4. todo' \subseteq Sids /\ faults' \in 0 .. MaxFaults
      BY DEF TypeOK
    <3> HIDE DEF IInv, Tasks, Requests
    <3> QED BY <1>3, <2>2, <3>1, <3>2, <3>3, <3>4 DEF TypeOK
  <2>4. ASSUME t = Reaper PROVE TypeOK'
    BY <1>3, <1>4, <2>2, <2>4 DEF TypeOK
  <2> QED BY <2>1, <2>3, <2>4
<1>6. LocalsOK' /\ LockOK'
  BY <1>0 DEF TypeOK, LocalsOK, LockOK, Mutating, Removing, Viewing
<1>7. RecOK'
  BY <1>0 DEF TypeOK, RecOK, Mutating
<1>8. ReapOK'
  BY <1>0, <1>3, <1>4 DEF TypeOK, ReapOK, LocalsOK, Removing
<1>9. Fresh'
  BY <1>3 DEF TypeOK, Fresh
<1>10. Clean'
  <2> SUFFICES ASSUME MaxFaults = 0, NEW y \in live, y # x, NEW p \in Paths
               PROVE  upper[y][p] = None \/ p \notin deleted[y]
    BY <1>3, <1>4 DEF TypeOK, Clean
  <2>1. /\ \A u \in Tasks \ {t} : pc[u] \notin Mutating \cup Removing
        /\ Clean /\ y # sid[t]
    BY <1>0, <1>1
  <2> HIDE DEF IInv, Tasks, Requests
  <2> QED BY <2>1, Undisturbed
<1> QED BY <1>5, <1>6, <1>7, <1>8, <1>9, <1>10

LEMMA DeleteEndStep ==
    ASSUME IInv, NEW t \in Tasks, DeleteEnd(t)
    PROVE  IInv'
<1>1. lock = t
  BY DEF IInv, LockOK, DeleteEnd, Removing
<1> QED BY <1>1, RemoveEndStep DEF DeleteEnd, Return, Goto

LEMMA ReapRemoveEndStep ==
    ASSUME IInv, ReapRemoveEnd
    PROVE  IInv'
BY RemoveEndStep DEF ReapRemoveEnd, Goto, Tasks

-----------------------------------------------------------------------------
(* The reaper's pass, failures, restart.                                   *)

LEMMA ReapBeginStep ==
    ASSUME IInv, ReapBegin
    PROVE  IInv'
<1> USE DistinctValues DEF IInv, Tasks, Requests, ReapBegin, Locks, Goto, diskVars, metaVars,
                           callVars
<1>1. TypeOK' /\ ContentOK'
  BY DEF TypeOK, ContentOK
<1>2. LocalsOK' /\ LockOK'
  BY DEF TypeOK, LocalsOK, LockOK, Mutating, Removing, Viewing
<1>3. RecOK' /\ Fresh'
  BY DEF TypeOK, RecOK, Fresh, Mutating
<1>4. ReapOK'
  BY DEF TypeOK, ReapOK
<1>5. Clean'
  BY DEF TypeOK, Clean, Mutating, Removing
<1> QED BY <1>1, <1>2, <1>3, <1>4, <1>5

LEMMA ReapEndStep ==
    ASSUME IInv, ReapEnd
    PROVE  IInv'
<1> USE DistinctValues DEF IInv, Tasks, Requests, ReapEnd, Return, Goto, diskVars, metaVars
<1>1. TypeOK' /\ ContentOK'
  BY DEF TypeOK, ContentOK, Content
<1>2. LocalsOK' /\ LockOK'
  BY DEF TypeOK, LocalsOK, LockOK, Mutating, Removing, Viewing
<1>3. RecOK' /\ Fresh'
  BY DEF TypeOK, RecOK, Fresh, Mutating
<1>4. ReapOK'
  BY DEF TypeOK, ReapOK
<1>5. Clean'
  BY DEF TypeOK, Clean, Mutating, Removing
<1> QED BY <1>1, <1>2, <1>3, <1>4, <1>5

\* What is half done stays on disk, whole or not; the lock is released.
LEMMA CallFailsStep ==
    ASSUME IInv, NEW t \in Tasks, CallFails(t)
    PROVE  IInv'
<1> USE DistinctValues, Bounds DEF IInv, CallFails, Return, Goto, diskVars, metaVars
<1>1. TypeOK' /\ ContentOK'
  BY DEF TypeOK, ContentOK, Content
<1>2. LocalsOK' /\ LockOK'
  BY DEF TypeOK, LocalsOK, LockOK, Mutating, Removing, Viewing, Tasks, Requests
<1>3. RecOK' /\ Fresh'
  BY DEF TypeOK, RecOK, Fresh, Mutating
<1>4. ReapOK'
  BY DEF TypeOK, ReapOK, LockOK, Removing, Tasks
<1>5. Clean'
  BY DEF TypeOK, Clean
<1> QED BY <1>1, <1>2, <1>3, <1>4, <1>5

LEMMA RestartStep ==
    ASSUME IInv, Restart
    PROVE  IInv'
<1> USE DistinctValues, Bounds DEF IInv, Restart, NoCalls, diskVars, metaVars
<1>1. TypeOK' /\ ContentOK'
  BY DEF TypeOK, ContentOK, Content
<1>2. LocalsOK' /\ LockOK' /\ RecOK' /\ Fresh'
  BY DEF LocalsOK, LockOK, RecOK, Fresh, Mutating, Removing, Viewing
<1>3. ReapOK'
  BY DEF ReapOK, Tasks
<1>4. Clean'
  BY DEF TypeOK, Clean
<1> QED BY <1>1, <1>2, <1>3, <1>4

LEMMA StutterStep ==
    ASSUME IInv, UNCHANGED vars
    PROVE  IInv'
<1> USE DEF IInv, vars, diskVars, metaVars, callVars
<1>1. TypeOK' /\ ContentOK'
  BY DEF TypeOK, ContentOK
<1>2. LocalsOK' /\ LockOK' /\ RecOK' /\ ReapOK' /\ Fresh' /\ Clean'
  BY DEF LocalsOK, LockOK, RecOK, ReapOK, Fresh, Clean
<1> QED BY <1>1, <1>2

\* Steps that are a request's return and nothing else.
LEMMA JustReturns ==
    ASSUME IInv, NEW t \in Requests,
           \/ NotFound(t)
           \/ t \in Editors /\ (EditFails(t) \/ DeleteFileNotFound(t))
           \/ t \in Readers /\ ReadEnd(t)
    PROVE  /\ Return(t) /\ pc[t] \notin Mutating \cup Removing
           /\ UNCHANGED <<diskVars, todo, faults>>
BY DEF NotFound, EditFails, DeleteFileNotFound, ReadEnd, Ready, Mutating, Removing

LEMMA EditorStepKeeps ==
    ASSUME IInv, NEW t \in Editors, EditorStep(t)
    PROVE  IInv'
<1>1. t \in Requests /\ t \in Tasks
  BY DEF Requests, Tasks
<1>2. CASE EditFails(t) \/ DeleteFileNotFound(t)
  BY <1>1, <1>2, JustReturns, ReturnStep
<1> QED BY <1>1, <1>2, BeginStep, FillStep, DeleteFileStep, StoringStep, DeleteBeginStep,
           DeleteEndStep DEF EditorStep

LEMMA ReaperStepKeeps ==
    ASSUME IInv, ReaperStep
    PROVE  IInv'
BY ReapBeginStep, ReapRemoveStep, ReapRemoveEndStep, ReapEndStep DEF ReaperStep

LEMMA NextIInv == IInv /\ [Next]_vars => IInv'
<1> SUFFICES ASSUME IInv, [Next]_vars PROVE IInv'
  OBVIOUS
<1>1. ASSUME NEW s \in Sids, Create(s) \/ CreateFails(s) PROVE IInv'
  BY <1>1, CreateStep
<1>2. ASSUME NEW t \in Requests, Begin(t) \/ Touch(t) PROVE IInv'
  BY <1>2, AuthorizeStep, TouchStep
<1>3. ASSUME NEW t \in Requests, NotFound(t) PROVE IInv'
  BY <1>3, JustReturns, ReturnStep
<1>4. ASSUME NEW t \in Readers, ReaderStep(t) PROVE IInv'
  BY <1>4, JustReturns, ReturnStep, ReaderStepKeeps DEF ReaderStep, Requests
<1> QED BY <1>1, <1>2, <1>3, <1>4, EditorStepKeeps, ReaperStepKeeps, TickStep, CallFailsStep,
           RestartStep, StutterStep DEF Next

\* The inductive invariant of this module holds in every reachable state.
THEOREM Invariance == Spec => []IInv
BY InitIInv, NextIInv, PTL DEF Spec

\* Every variable keeps its type.
THEOREM TypeCorrect == Spec => []TypeOK
BY Invariance, PTL DEF IInv

-----------------------------------------------------------------------------
(* What a step may never do.                                               *)

\* A step that is no creation makes no session live.
LEMMA LiveShrinks ==
    ASSUME IInv, [Next]_vars, \A s \in Sids : ~ Create(s)
    PROVE  live' \subseteq live
<1> USE DEF diskVars, metaVars
<1>1. ASSUME NEW s \in Sids, CreateFails(s) PROVE live' \subseteq live
  BY <1>1 DEF CreateFails
<1>2. ASSUME NEW t \in Requests, Begin(t) \/ Touch(t) PROVE live' \subseteq live
  BY <1>2 DEF Begin, Authorize, Touch
<1>3. ASSUME NEW t \in Requests, NotFound(t) PROVE live' \subseteq live
  BY <1>3 DEF NotFound
<1>4. ASSUME NEW t \in Editors, EditorStep(t) PROVE live' \subseteq live
  <2>1. CASE Store(t)
    BY <2>1, StoringStep
  <2> QED BY <1>4, <2>1 DEF EditorStep, WriteBegin, EditBegin, EditFails, Fill, DeleteFileBegin,
             DeleteFileNotFound, DeleteBegin, DeleteEnd, RemoveSome, RemoveAll, Forget
<1>5. ASSUME NEW t \in Readers, ReaderStep(t) PROVE live' \subseteq live
  BY <1>5 DEF ReaderStep, ViewOpen, ReadResolve, ReadUpper, ReadEnd
<1>6. CASE ReaperStep
  BY <1>6 DEF ReaperStep, ReapBegin, ReapRemoveBegin, ReapRemoveEnd, ReapEnd, RemoveSome,
              RemoveAll, Forget
<1>7. ASSUME NEW t \in Tasks, CallFails(t) PROVE live' \subseteq live
  BY <1>7 DEF CallFails
<1>8. CASE Tick \/ Restart \/ UNCHANGED vars
  BY <1>8 DEF Tick, Restart, vars
<1> QED BY <1>1, <1>2, <1>3, <1>4, <1>5, <1>6, <1>7, <1>8 DEF Next

\* A session that is gone stays gone, failures and restarts included.
THEOREM GoneForGood == Spec => NoResurrection
<1>1. IInv /\ [Next]_vars => [\A s \in born : s \notin live => s \notin live']_vars
  <2> SUFFICES ASSUME IInv, [Next]_vars, NEW s \in born, s \notin live PROVE s \notin live'
    OBVIOUS
  <2>1. CASE \E x \in Sids : Create(x)
    BY <2>1 DEF Create
  <2> QED BY <2>1, LiveShrinks
<1> QED BY <1>1, Invariance, PTL DEF Spec, NoResurrection

\* What the reaper takes has been idle for longer than the time to live, at the
\* moment it is taken.
THEOREM ReapsIdle == Spec => ReapsOnlyIdle
<1>1. IInv /\ [Next]_vars => [ReaperStep => \A s \in live \ live' : age[s] > Ttl]_vars
  <2> SUFFICES ASSUME IInv, ReaperStep, NEW s \in live \ live' PROVE age[s] > Ttl
    OBVIOUS
  <2>1. CASE \E x \in Sids : ReapRemoveBegin(x)
    BY <2>1 DEF ReapRemoveBegin, RemoveSome, Forget, IInv, ReapOK
  <2>2. CASE ReapRemoveEnd
    BY <2>2 DEF ReapRemoveEnd, RemoveAll, Forget, IInv, ReapOK
  <2>3. CASE ReapBegin \/ ReapEnd
    BY <2>3 DEF ReapBegin, ReapEnd, diskVars, metaVars
  <2> QED BY <2>1, <2>2, <2>3 DEF ReaperStep
<1> QED BY <1>1, Invariance, PTL DEF Spec, ReapsOnlyIdle

-----------------------------------------------------------------------------
(* The layers of a session, without failures.                              *)

\* Between mutations, no path has both a whiteout and an upper file.
LEMMA QuietClean ==
    ASSUME IInv, MaxFaults = 0, lock = None, NEW s \in live, NEW p \in Paths
    PROVE  upper[s][p] = None \/ p \notin deleted[s]
BY Free DEF IInv, Clean, Removing

LEMMA QuietAgree ==
    ASSUME IInv, MaxFaults = 0
    PROVE  ResolversAgree
<1> SUFFICES ASSUME lock = None, NEW s \in live, NEW p \in Paths
             PROVE  /\ Current(s, p) = View(s, p, deleted[s])
                    /\ p \in Listed(s) <=> View(s, p, deleted[s]) # None
  BY DEF ResolversAgree
<1>1. upper[s][p] = None \/ p \notin deleted[s]
  BY QuietClean
<1>2. Base(p) # None <=> p \in BasePaths
  BY DistinctValues DEF Base
<1> QED BY <1>1, <1>2, SomePathsInBase DEF Current, View, Listed

LEMMA QuietStatus ==
    ASSUME IInv, MaxFaults = 0
    PROVE  StatusExact
<1> SUFFICES ASSUME lock = None, NEW s \in live
             PROVE  Status(s) = {<<p, CASE Base(p) = None -> "added"
                                        [] View(s, p, deleted[s]) = None -> "deleted"
                                        [] OTHER -> "modified">> :
                                    p \in {q \in Paths : View(s, q, deleted[s]) # Base(q)}}
  BY DEF StatusExact
<1> DEFINE Kind(p) == CASE Base(p) = None -> "added"
                        [] View(s, p, deleted[s]) = None -> "deleted"
                        [] OTHER -> "modified"
           Changed == {q \in Paths : View(s, q, deleted[s]) # Base(q)}
           Put == {q \in Paths : upper[s][q] # None /\ upper[s][q] # Base(q)}
           Gone == deleted[s] \cap BasePaths
<1>1. \A p \in Paths : upper[s][p] = None \/ p \notin deleted[s]
  BY QuietClean
<1>2. \A p : Base(p) = None <=> p \notin BasePaths
  BY DistinctValues DEF Base
<1>3. Changed = Put \cup Gone
  BY <1>1, <1>2, SomePathsInBase DEF View
<1>4. \A p \in Put : Kind(p) = IF Base(p) = None THEN "added" ELSE "modified"
  BY <1>1 DEF View
<1>5. \A p \in Gone : Kind(p) = "deleted"
  BY <1>2 DEF View
<1>6. Status(s) = {<<p, IF Base(p) = None THEN "added" ELSE "modified">> : p \in Put}
                  \cup {<<p, "deleted">> : p \in Gone}
  BY DEF Status
<1>7. {<<p, Kind(p)>> : p \in Changed} = Status(s)
  <2> HIDE DEF Kind, Put, Gone, Changed
  <2> QED BY <1>3, <1>4, <1>5, <1>6
<1> QED BY <1>7

\* The two orders in which the layers of a file are looked through agree.
THEOREM OrdersAgree == MaxFaults = 0 /\ Spec => []ResolversAgree
<1>1. MaxFaults = 0 /\ IInv => ResolversAgree
  BY QuietAgree
<1>2. ASSUME MaxFaults = 0 PROVE IInv => ResolversAgree
  BY <1>1, <1>2
<1>3. ASSUME MaxFaults = 0 PROVE Spec => []ResolversAgree
  BY <1>2, <1>3, Invariance, PTL
<1> QED BY <1>3

\* Status names each changed path once, with the right kind, and no other.
THEOREM StatusIsExact == MaxFaults = 0 /\ Spec => []StatusExact
<1>1. ASSUME MaxFaults = 0 PROVE IInv => StatusExact
  BY <1>1, QuietStatus
<1>2. ASSUME MaxFaults = 0 PROVE Spec => []StatusExact
  BY <1>1, <1>2, Invariance, PTL
<1> QED BY <1>2

=============================================================================
