-------------------------- MODULE WholeFiles_proofs --------------------------
(***************************************************************************)
(* The session store implements WholeFiles as long as nothing fails, for   *)
(* every set of sessions, paths, editors and readers: the calls' several   *)
(* steps on the disk appear as one step each on whole files.               *)
(***************************************************************************)
EXTENDS SessionStore_proofs

Pcs == {"idle", "touching", "waiting", "filling", "storing", "removing", "reaping", "opening",
        "resolving", "reading", "done"}
Kinds == {"read", "write_file", "edit_file", "delete_file", "delete", None}

Storing(t) == pc[t] \in Mutating /\ kind[t] \in {"write_file", "edit_file"}

\* A request has new content exactly while it writes it, and the upper file is that
\* content once it is filled.
NewOK ==
    \A t \in Editors :
        /\ new[t] # None <=> Storing(t)
        /\ pc[t] = "storing" /\ Storing(t) => upper[sid[t]][path[t]] = new[t]

RInv == IInv /\ NewOK

LEMMA Functions ==
    ASSUME RInv
    PROVE  /\ pc \in [Tasks -> Pcs] /\ kind \in [Tasks -> Kinds]
           /\ sid \in [Tasks -> Sids \cup {None}] /\ path \in [Tasks -> Paths \cup {None}]
           /\ new \in [Tasks -> Content] /\ upper \in [Sids -> [Paths -> Content]]
           /\ Editors \subseteq Tasks /\ Editors \subseteq Requests /\ Reaper \notin Editors
BY DistinctValues DEF RInv, IInv, TypeOK, ContentOK, Pcs, Kinds, Tasks, Requests

LEMMA InitRInv == Init => RInv
BY InitIInv DEF Init, RInv, NewOK, Storing, Mutating, NoCalls, Tasks, Requests

\* What a step of another task leaves alone.
LEMMA NewKept ==
    ASSUME RInv, NEW t \in Editors,
           pc'[t] = pc[t], kind'[t] = kind[t], sid'[t] = sid[t], path'[t] = path[t],
           new'[t] = new[t],
           pc[t] = "storing" => upper'[sid[t]][path[t]] = upper[sid[t]][path[t]]
    PROVE  /\ new'[t] # None <=> Storing(t)'
           /\ pc'[t] = "storing" /\ Storing(t)' => upper'[sid'[t]][path'[t]] = new'[t]
BY DEF RInv, NewOK, Storing

\* A step on the disk under the lock is on nobody else's file.
LEMMA OthersKept ==
    ASSUME RInv, NEW t \in Editors,
           \A u \in Editors \ {t} :
              /\ pc'[u] = pc[u] /\ kind'[u] = kind[u] /\ sid'[u] = sid[u]
              /\ path'[u] = path[u] /\ new'[u] = new[u],
           lock = t \/ lock = None \/ upper' = upper,
           new'[t] # None <=> Storing(t)',
           pc'[t] = "storing" /\ Storing(t)' => upper'[sid'[t]][path'[t]] = new'[t]
    PROVE  NewOK'
<1> SUFFICES ASSUME NEW u \in Editors, u # t
             PROVE  /\ new'[u] # None <=> Storing(u)'
                    /\ pc'[u] = "storing" /\ Storing(u)' =>
                          upper'[sid'[u]][path'[u]] = new'[u]
  BY DEF NewOK
<1>1. pc[u] = "storing" => upper' = upper
  BY DistinctValues DEF RInv, IInv, LockOK, Mutating, Tasks, Requests
<1> QED BY <1>1, NewKept

LEMMA EditorNew ==
    ASSUME RInv, NEW t \in Editors, EditorStep(t)
    PROVE  NewOK'
<1> USE DistinctValues DEF Tasks, Requests, Goto
<1>0. /\ pc \in [Tasks -> Pcs] /\ kind \in [Tasks -> Kinds]
      /\ sid \in [Tasks -> Sids \cup {None}] /\ path \in [Tasks -> Paths \cup {None}]
      /\ new \in [Tasks -> Content] /\ upper \in [Sids -> [Paths -> Content]]
  BY Functions
<1>1. CASE WriteBegin(t) \/ EditBegin(t)
  <2>1. /\ pc[t] = "waiting" /\ kind[t] \in {"write_file", "edit_file"} /\ lock = None
        /\ pc' = [pc EXCEPT ![t] = "filling"]
        /\ UNCHANGED callVars
    BY <1>1 DEF WriteBegin, EditBegin, Ready, Locks
  <2>2. \E f \in Content \ {None} : new' = [new EXCEPT ![t] = f]
    <3>1. Edited(Current(sid[t], path[t]), t) \in Content \ {None}
      <4>1. sid[t] \in Sids /\ path[t] \in Paths
        BY <2>1 DEF RInv, IInv, LocalsOK
      <4> QED BY <1>0, <4>1 DEF Content, Edited, Current, Base, Marks
    <3> QED BY <1>1, <3>1 DEF WriteBegin, EditBegin, Content, Marks
  <2>3. new'[t] # None /\ Storing(t)' /\ pc'[t] = "filling"
    BY <1>0, <2>1, <2>2 DEF Storing, Mutating, callVars
  <2>4. \A u \in Editors \ {t} :
              /\ pc'[u] = pc[u] /\ kind'[u] = kind[u] /\ sid'[u] = sid[u]
              /\ path'[u] = path[u] /\ new'[u] = new[u]
    BY <1>0, <2>1, <2>2 DEF callVars
  <2> QED BY <2>1, <2>3, <2>4, OthersKept
<1>2. CASE Fill(t)
  <2>1. /\ pc[t] = "filling" /\ lock = t /\ sid[t] \in Sids /\ path[t] \in Paths
    BY <1>2 DEF Fill, RInv, IInv, LocalsOK, LockOK, Mutating
  <2>2. new'[t] # None /\ Storing(t)'
    BY <1>0, <1>2, <2>1 DEF Fill, RInv, NewOK, IInv, RecOK, Storing, Mutating, callVars
  <2>3. upper'[sid'[t]][path'[t]] = new'[t]
    BY <1>0, <1>2, <2>1 DEF Fill, callVars
  <2>4. \A u \in Editors \ {t} :
              /\ pc'[u] = pc[u] /\ kind'[u] = kind[u] /\ sid'[u] = sid[u]
              /\ path'[u] = path[u] /\ new'[u] = new[u]
    BY <1>0, <1>2 DEF Fill, callVars
  <2> QED BY <2>1, <2>2, <2>3, <2>4, OthersKept
<1>3. CASE DeleteFileBegin(t) \/ DeleteBegin(t)
  <2>1. /\ pc[t] = "waiting" /\ kind[t] \in {"delete_file", "delete"} /\ lock = None
        /\ \E l \in {"storing", "removing"} : pc' = [pc EXCEPT ![t] = l]
        /\ new' = new /\ UNCHANGED callVars
    BY <1>3 DEF DeleteFileBegin, DeleteBegin, Ready, Locks
  <2>2. new'[t] = None /\ ~ Storing(t)'
    BY <1>0, <2>1 DEF RInv, NewOK, Storing, Mutating, callVars
  <2>3. \A u \in Editors \ {t} :
              /\ pc'[u] = pc[u] /\ kind'[u] = kind[u] /\ sid'[u] = sid[u]
              /\ path'[u] = path[u] /\ new'[u] = new[u]
    BY <1>0, <2>1 DEF callVars
  <2> QED BY <2>1, <2>2, <2>3, OthersKept
<1>4. CASE EditFails(t) \/ DeleteFileNotFound(t) \/ Store(t) \/ DeleteEnd(t)
  <2>1. Return(t) /\ (lock = t \/ lock = None \/ upper' = upper)
    BY <1>4 DEF EditFails, DeleteFileNotFound, Store, DeleteEnd, RInv, IInv, LockOK, Removing,
                diskVars
  <2>2. new'[t] = None /\ ~ Storing(t)'
    BY <1>0, <2>1 DEF Return, Storing, Mutating
  <2>3. \A u \in Editors \ {t} :
              /\ pc'[u] = pc[u] /\ kind'[u] = kind[u] /\ sid'[u] = sid[u]
              /\ path'[u] = path[u] /\ new'[u] = new[u]
    BY <1>0, <2>1 DEF Return
  <2> QED BY <2>1, <2>2, <2>3, OthersKept
<1> QED BY <1>1, <1>2, <1>3, <1>4 DEF EditorStep

\* The steps that are on no editor's file.
LEMMA NobodysFile ==
    ASSUME RInv, upper' = upper \/ lock = Reaper,
           \A t \in Editors :
              \/ new'[t] = None /\ ~ Storing(t)'
              \/ /\ pc'[t] = pc[t] /\ kind'[t] = kind[t] /\ sid'[t] = sid[t]
                 /\ path'[t] = path[t] /\ new'[t] = new[t]
    PROVE  NewOK'
<1> SUFFICES ASSUME NEW t \in Editors
             PROVE  /\ new'[t] # None <=> Storing(t)'
                    /\ pc'[t] = "storing" /\ Storing(t)' =>
                          upper'[sid'[t]][path'[t]] = new'[t]
  BY DEF NewOK
<1>1. pc[t] = "storing" => upper' = upper
  BY DistinctValues DEF RInv, IInv, LockOK, Mutating, Tasks, Requests
<1> QED BY <1>1, NewKept

LEMMA RequestNew ==
    ASSUME RInv, NEW t \in Requests, Begin(t) \/ Touch(t) \/ NotFound(t)
    PROVE  NewOK'
<1> USE Functions DEF Goto, diskVars
<1>0. t \in Tasks
  BY DEF Tasks
<1>1. upper' = upper
  BY DEF Begin, Authorize, Touch, NotFound
<1>2. \A u \in Editors \ {t} :
          /\ pc'[u] = pc[u] /\ kind'[u] = kind[u] /\ sid'[u] = sid[u]
          /\ path'[u] = path[u] /\ new'[u] = new[u]
  BY <1>0 DEF Begin, Authorize, Touch, NotFound, Return, callVars
<1>3. pc[t] \notin Mutating
  BY DEF Begin, Authorize, Touch, NotFound, Mutating
<1>4. t \in Editors => new[t] = None
  BY <1>3 DEF RInv, NewOK, Storing
<1>5. new' = new \/ new'[t] = None
  BY <1>0 DEF Begin, Authorize, Touch, NotFound, Return
<1>6. pc'[t] \notin Mutating
  BY <1>0 DEF Begin, Authorize, Touch, NotFound, Return, Mutating
<1>7. \A u \in Editors :
          \/ new'[u] = None /\ ~ Storing(u)'
          \/ /\ pc'[u] = pc[u] /\ kind'[u] = kind[u] /\ sid'[u] = sid[u]
             /\ path'[u] = path[u] /\ new'[u] = new[u]
  BY <1>2, <1>4, <1>5, <1>6 DEF Storing
<1> QED BY <1>1, <1>7, NobodysFile

LEMMA ReaderNew ==
    ASSUME RInv, NEW t \in Readers, ReaderStep(t)
    PROVE  NewOK'
<1>1. upper' = upper
  BY DEF ReaderStep, ViewOpen, ReadResolve, ReadUpper, ReadEnd, diskVars
<1>2. \A u \in Editors :
          /\ pc'[u] = pc[u] /\ kind'[u] = kind[u] /\ sid'[u] = sid[u]
          /\ path'[u] = path[u] /\ new'[u] = new[u]
  BY Functions, DistinctValues
     DEF ReaderStep, ViewOpen, ReadResolve, ReadUpper, ReadEnd, Return, Goto, callVars
<1> QED BY <1>1, <1>2, NobodysFile

LEMMA ReaperNew ==
    ASSUME RInv, ReaperStep
    PROVE  NewOK'
<1>1. upper' = upper \/ lock = Reaper
  BY DEF ReaperStep, ReapBegin, ReapRemoveBegin, ReapRemoveEnd, ReapEnd, diskVars, RInv, IInv,
         LockOK, Removing, Tasks
<1>2. \A u \in Editors :
          /\ pc'[u] = pc[u] /\ kind'[u] = kind[u] /\ sid'[u] = sid[u]
          /\ path'[u] = path[u] /\ new'[u] = new[u]
  BY Functions DEF ReaperStep, ReapBegin, ReapRemoveBegin, ReapRemoveEnd, ReapEnd, Locks, Return,
                   Goto, callVars
<1> QED BY <1>1, <1>2, NobodysFile

LEMMA FailureNew ==
    ASSUME RInv, NEW t \in Tasks, CallFails(t) \/ Restart
    PROVE  NewOK'
<1>1. upper' = upper
  BY DEF CallFails, Restart, diskVars
<1>2. \A u \in Editors :
          \/ new'[u] = None /\ ~ Storing(u)'
          \/ /\ pc'[u] = pc[u] /\ kind'[u] = kind[u] /\ sid'[u] = sid[u]
             /\ path'[u] = path[u] /\ new'[u] = new[u]
  BY Functions DEF CallFails, Restart, NoCalls, Return, Goto, Storing, Mutating
<1> QED BY <1>1, <1>2, NobodysFile

LEMMA IdleNew ==
    ASSUME RInv, \/ \E s \in Sids : Create(s) \/ CreateFails(s)
                 \/ Tick \/ UNCHANGED vars
    PROVE  NewOK'
<1>1. upper' = upper
  BY DEF Create, CreateFails, Tick, vars, diskVars
<1>2. \A u \in Editors :
          /\ pc'[u] = pc[u] /\ kind'[u] = kind[u] /\ sid'[u] = sid[u]
          /\ path'[u] = path[u] /\ new'[u] = new[u]
  BY DEF Create, CreateFails, Tick, vars, callVars
<1> QED BY <1>1, <1>2, NobodysFile

LEMMA NextRInv == RInv /\ [Next]_vars => RInv'
<1> SUFFICES ASSUME RInv, [Next]_vars PROVE NewOK'
  BY NextIInv DEF RInv
<1>1. Reaper \in Tasks
  BY DEF Tasks
<1> QED BY <1>1, EditorNew, RequestNew, ReaderNew, ReaperNew, FailureNew, IdleNew DEF Next

\* The inductive invariant of this module holds in every reachable state.
THEOREM RInvariance == Spec => []RInv
BY InitRInv, NextRInv, PTL DEF Spec

-----------------------------------------------------------------------------
(* What the mapping shows: the content of the lock's holder for the file   *)
(* it is at, the view for every other.                                     *)

Shape ==
    /\ lock = None \/ pc[Reaper] = "reaping" =>
          Kept = live /\ \A s \in Sids, p \in Paths : Settled(s, p) = View(s, p, deleted[s])
    /\ \A t \in Editors : pc[t] \in Mutating =>
          /\ Kept = live
          /\ \A s \in Sids, p \in Paths :
                Settled(s, p) = IF sid[t] = s /\ path[t] = p THEN new[t]
                                ELSE View(s, p, deleted[s])
    /\ \A t \in Tasks : pc[t] = "removing" =>
          /\ Kept = live \ {sid[t]}
          /\ \A s \in Sids, p \in Paths : Settled(s, p) = View(s, p, deleted[s])

LEMMA Shaped == RInv => Shape
<1> SUFFICES ASSUME RInv PROVE Shape
  OBVIOUS
<1> USE DistinctValues DEF RInv, IInv, LockOK, Mutating, Removing, Tasks, Requests
<1>1. ASSUME lock = None \/ pc[Reaper] = "reaping"
      PROVE  Kept = live /\ \A s \in Sids, p \in Paths : Settled(s, p) = View(s, p, deleted[s])
  BY <1>1 DEF Kept, Settled
<1>2. ASSUME NEW t \in Editors, pc[t] \in Mutating
      PROVE  /\ Kept = live
             /\ \A s \in Sids, p \in Paths :
                   Settled(s, p) = IF sid[t] = s /\ path[t] = p THEN new[t]
                                   ELSE View(s, p, deleted[s])
  <2>1. lock = t /\ \A u \in Tasks : pc[u] \in Mutating \cup Removing => u = t
    BY <1>2
  <2>2. Kept = live
    BY <1>2, <2>1 DEF Kept
  <2>3. ASSUME NEW s \in Sids, NEW p \in Paths
        PROVE  Settled(s, p) = IF sid[t] = s /\ path[t] = p THEN new[t]
                               ELSE View(s, p, deleted[s])
    BY <1>2, <2>1 DEF Settled
  <2> QED BY <2>2, <2>3
<1>3. ASSUME NEW t \in Tasks, pc[t] = "removing"
      PROVE  /\ Kept = live \ {sid[t]}
             /\ \A s \in Sids, p \in Paths : Settled(s, p) = View(s, p, deleted[s])
  <2>1. \A u \in Tasks : pc[u] \in Mutating \cup Removing => u = t
    BY <1>3
  <2>2. Kept = live \ {sid[t]}
    BY <1>3, <2>1 DEF Kept
  <2>3. \A u \in Editors : pc[u] \notin Mutating
    BY <1>3, <2>1
  <2> QED BY <2>2, <2>3 DEF Settled
<1> QED BY <1>1, <1>2, <1>3 DEF Shape

LEMMA ShapedNext == RInv' => Shape'
BY Shaped, PTL

LEMMA BarKept ==
    ASSUME Kept' = Kept, \A s \in Kept, p \in Paths : Settled(s, p)' = Settled(s, p)
    PROVE  Bar' = Bar
BY DEF Bar

\* One file of one session changes.
LEMMA OneFile ==
    ASSUME Kept' = Kept, Kept \subseteq Sids, NEW s \in Kept, NEW p \in Paths, NEW f,
           Settled(s, p)' = f,
           \A x \in Kept, q \in Paths : x # s \/ q # p => Settled(x, q)' = Settled(x, q)
    PROVE  Bar' = [Bar EXCEPT ![s][p] = f]
<1>1. Bar[s] = [q \in Paths |-> Settled(s, q)] /\ DOMAIN Bar = Sids
  BY DEF Bar
<1>2. Bar'[s] = [Bar[s] EXCEPT ![p] = f]
  BY <1>1 DEF Bar
<1>3. \A x \in Sids \ {s} : Bar'[x] = Bar[x]
  BY DEF Bar
<1>4. Bar' = [x \in Sids |-> Bar'[x]] /\ Bar = [x \in Sids |-> Bar[x]]
  BY DEF Bar
<1>5. [Bar EXCEPT ![s][p] = f] = [x \in Sids |-> IF x = s THEN [Bar[s] EXCEPT ![p] = f] ELSE Bar[x]]
  BY <1>1, <1>4
<1> QED BY <1>2, <1>3, <1>4, <1>5

-----------------------------------------------------------------------------
(* Each step is a step of WholeFiles, or none.                             *)

AbstractVars == <<Kept, born, Bar>>

LEMMA KeptSids == RInv => Kept \subseteq live /\ live \subseteq Sids
BY DEF RInv, IInv, TypeOK, Kept

\* A step that leaves the disk alone, and the mutations under way.
LEMMA QuietMap ==
    ASSUME RInv, UNCHANGED <<live, deleted, upper, born>>,
           \A t \in Tasks : pc[t] = "removing" \/ pc'[t] = "removing" =>
               pc'[t] = pc[t] /\ sid'[t] = sid[t],
           \A t \in Editors :
               /\ pc'[t] \in Mutating <=> pc[t] \in Mutating
               /\ pc[t] \in Mutating =>
                     sid'[t] = sid[t] /\ path'[t] = path[t] /\ new'[t] = new[t] /\ lock' = lock
    PROVE  UNCHANGED AbstractVars
<1>1. Kept' = Kept
  BY DEF Kept
<1>2. ASSUME NEW s \in Kept, NEW p \in Paths PROVE Settled(s, p)' = Settled(s, p)
  <2>1. CASE \E t \in Editors : pc[t] \in Mutating /\ sid[t] = s /\ path[t] = p
    <3>1. PICK t \in Editors : pc[t] \in Mutating /\ sid[t] = s /\ path[t] = p
      BY <2>1
    <3>2. lock = t /\ lock' = t /\ new'[t] = new[t]
      BY <3>1, Functions DEF RInv, IInv, LockOK
    <3>3. pc'[t] \in Mutating /\ sid'[t] = s /\ path'[t] = p
      BY <3>1
    <3> QED BY <3>1, <3>2, <3>3 DEF Settled, Mutating
  <2>2. CASE ~ \E t \in Editors : pc[t] \in Mutating /\ sid[t] = s /\ path[t] = p
    BY <2>2 DEF Settled, View, Mutating
  <2> QED BY <2>1, <2>2
<1> QED BY <1>1, <1>2, BarKept DEF AbstractVars

LEMMA RequestMap ==
    ASSUME RInv, NEW t \in Requests, Begin(t) \/ Touch(t) \/ NotFound(t)
    PROVE  UNCHANGED AbstractVars
<1>0. t \in Tasks /\ pc[t] \in {"idle", "touching", "waiting", "opening"} /\ lock # t
  BY DEF Tasks, Begin, Authorize, Touch, NotFound, RInv, IInv, LockOK, Mutating, Removing
<1>1. /\ UNCHANGED <<live, deleted, upper, born>> /\ lock' = lock
      /\ \A u \in Tasks \ {t} :
            pc'[u] = pc[u] /\ sid'[u] = sid[u] /\ path'[u] = path[u] /\ new'[u] = new[u]
      /\ pc'[t] \in {"touching", "waiting", "opening", "idle"}
  BY <1>0, Functions
     DEF Begin, Authorize, Touch, NotFound, Return, Goto, diskVars, metaVars, callVars
<1> QED BY <1>0, <1>1, QuietMap, Functions DEF Mutating

LEMMA ReturnMap ==
    ASSUME RInv, NEW t \in Requests, Return(t), pc[t] \notin Mutating \cup Removing,
           UNCHANGED diskVars
    PROVE  UNCHANGED AbstractVars
<1>0. t \in Tasks /\ lock # t
  BY DistinctValues DEF Tasks, RInv, IInv, LockOK, Mutating, Removing, LocalsOK
<1>1. /\ UNCHANGED <<live, deleted, upper, born>> /\ lock' = lock
      /\ \A u \in Tasks \ {t} :
            pc'[u] = pc[u] /\ sid'[u] = sid[u] /\ path'[u] = path[u] /\ new'[u] = new[u]
      /\ pc'[t] = "idle" /\ pc[t] # "removing"
  BY <1>0, Functions DEF Return, Goto, diskVars, metaVars, Removing
<1> QED BY <1>0, <1>1, QuietMap, Functions DEF Mutating

LEMMA ReaderMap ==
    ASSUME RInv, NEW t \in Readers, ReaderStep(t)
    PROVE  UNCHANGED AbstractVars
<1>0. /\ t \in Tasks /\ t \notin Editors /\ pc[t] \in Viewing /\ lock # t
  BY DistinctValues DEF Tasks, Requests, ReaderStep, ViewOpen, ReadResolve, ReadUpper, ReadEnd,
     RInv, IInv, LockOK, Mutating, Removing, Viewing
<1>1. /\ UNCHANGED <<live, deleted, upper, born>> /\ lock' = lock
      /\ \A u \in Tasks \ {t} :
            pc'[u] = pc[u] /\ sid'[u] = sid[u] /\ path'[u] = path[u] /\ new'[u] = new[u]
      /\ pc'[t] \in Viewing \cup {"idle"}
  <2>1. CASE ReadEnd(t)
    BY <1>0, <2>1, Functions DEF ReadEnd, Return, Goto, diskVars, metaVars, Viewing
  <2>2. CASE ViewOpen(t) \/ ReadResolve(t) \/ ReadUpper(t)
    BY <1>0, <2>2, Functions DEF ViewOpen, ReadResolve, ReadUpper, Goto, diskVars, metaVars,
                                 callVars, Viewing
  <2> QED BY <2>1, <2>2 DEF ReaderStep
<1> QED BY <1>0, <1>1, QuietMap, Functions DEF Mutating, Viewing

LEMMA ReapQuietMap ==
    ASSUME RInv, ReapBegin \/ ReapEnd
    PROVE  UNCHANGED AbstractVars
<1>1. Reaper \in Tasks
  BY DEF Tasks
<1>2. /\ UNCHANGED <<live, deleted, upper, born>>
      /\ \A u \in Tasks \ {Reaper} :
            pc'[u] = pc[u] /\ sid'[u] = sid[u] /\ path'[u] = path[u] /\ new'[u] = new[u]
      /\ pc[Reaper] \in {"idle", "reaping"} /\ pc'[Reaper] \in {"idle", "reaping"}
      /\ lock \in {None, Reaper}
  BY <1>1, Functions DEF ReapBegin, ReapEnd, Locks, Return, Goto, diskVars, metaVars, callVars,
                         RInv, IInv, LockOK
<1>3. \A u \in Editors : pc[u] \notin Mutating
  BY <1>2, Functions, DistinctValues DEF RInv, IInv, LockOK
<1> QED BY <1>2, <1>3, QuietMap, Functions

LEMMA IdleMap ==
    ASSUME RInv, Tick \/ UNCHANGED vars
    PROVE  UNCHANGED AbstractVars
<1>1. UNCHANGED <<live, deleted, upper, born, lock, pc, sid, path, new>>
  BY DEF Tick, vars, diskVars, metaVars, callVars
<1> QED BY <1>1, QuietMap

LEMMA CreateMap ==
    ASSUME RInv, NEW s \in Sids, Create(s)
    PROVE  Abstract!Create(s)
<1>1. /\ lock = None /\ lock' = None /\ s \notin born /\ born' = born \cup {s}
      /\ live' = live \cup {s} /\ deleted' = deleted /\ upper' = upper /\ s \notin live
      /\ RInv'
  BY NextRInv DEF Create, Next, RInv, IInv, TypeOK
<1>2. /\ Kept = live /\ Kept' = live \cup {s}
      /\ \A x \in Sids, p \in Paths :
            /\ Settled(x, p) = View(x, p, deleted[x])
            /\ Settled(x, p)' = View(x, p, deleted[x])
  <2>1. \A x \in Sids, p \in Paths : View(x, p, deleted[x])' = View(x, p, deleted[x])
    BY <1>1 DEF View
  <2> QED BY <1>1, <2>1, Shaped, ShapedNext DEF Shape
<1>3. \A p \in Paths : View(s, p, deleted[s]) = Abstract!Base(p)
  BY <1>1 DEF RInv, IInv, Fresh, View, Base, Abstract!Base
<1>4. Bar'[s] = [p \in Paths |-> Abstract!Base(p)]
  BY <1>2, <1>3 DEF Bar
<1>5. \A x \in Sids \ {s} : Bar'[x] = Bar[x]
  BY <1>2 DEF Bar
<1>6. Bar' = [Bar EXCEPT ![s] = [p \in Paths |-> Abstract!Base(p)]]
  <2>1. Bar' = [x \in Sids |-> Bar'[x]] /\ Bar = [x \in Sids |-> Bar[x]]
    BY DEF Bar
  <2> HIDE DEF Bar
  <2> QED BY <1>4, <1>5, <2>1
<1> QED BY <1>1, <1>2, <1>6 DEF Abstract!Create

\* A write or an edit takes effect when it opens the file; the text an edit starts
\* from is the one the view shows.
LEMMA BeginMap ==
    ASSUME RInv, MaxFaults = 0, NEW t \in Editors, WriteBegin(t) \/ EditBegin(t)
    PROVE  Abstract!Next
<1>1. /\ pc[t] = "waiting" /\ lock = None /\ lock' = t /\ pc' = [pc EXCEPT ![t] = "filling"]
      /\ UNCHANGED <<live, born, deleted, sid, path>>
      /\ upper' = [upper EXCEPT ![sid[t]][path[t]] = {Torn}] /\ sid[t] \in live
  BY DEF WriteBegin, EditBegin, Ready, Found, Locks, Goto, Truncate, metaVars, callVars
<1>2. PICK s \in live, p \in Paths : s = sid[t] /\ p = path[t]
  BY <1>1, Functions DEF RInv, IInv, LocalsOK
<1>3. s \in Sids /\ RInv'
  BY KeptSids, NextRInv, Functions DEF Next, EditorStep
<1>4. pc'[t] \in Mutating
  BY <1>1, Functions DEF Mutating
<1>5. /\ Kept = live /\ Kept' = live
      /\ \A x \in Sids, q \in Paths : Settled(x, q) = View(x, q, deleted[x])
      /\ \A x \in Sids, q \in Paths :
            Settled(x, q)' = IF x = s /\ q = p THEN new'[t] ELSE View(x, q, deleted[x])'
  BY <1>1, <1>2, <1>3, <1>4, Shaped, ShapedNext DEF Shape
<1>6. \A x \in Sids, q \in Paths : x # s \/ q # p => View(x, q, deleted[x])' = View(x, q, deleted[x])
  BY <1>1, <1>2, Functions DEF View
<1>7. Bar' = [Bar EXCEPT ![s][p] = new'[t]]
  BY <1>3, <1>5, <1>6, KeptSids, OneFile
<1>8. CASE WriteBegin(t)
  <2>1. new'[t] \in {{}, {Written}}
    BY <1>8, Functions DEF WriteBegin
  <2>2. Abstract!Write(s, p)
    BY <1>1, <1>5, <1>7, <2>1 DEF Abstract!Write, Abstract!SetFile
  <2> QED BY <1>3, <2>2 DEF Abstract!Next
<1>9. CASE EditBegin(t)
  <2>1. new'[t] = Edited(Current(s, p), t)
    BY <1>2, <1>9, Functions DEF EditBegin
  <2>2. Current(s, p) = Bar[s][p]
    BY <1>1, <1>3, <1>5, QuietAgree DEF RInv, ResolversAgree, Bar
  <2>3. new'[t] = Abstract!Marks(Bar[s][p]) \cup {t}
    BY <2>1, <2>2 DEF Edited, Abstract!Marks
  <2>4. Abstract!Edit(s, p, t)
    BY <1>1, <1>5, <1>7, <2>3 DEF Abstract!Edit, Abstract!SetFile
  <2> QED BY <1>3, <2>4 DEF Abstract!Next
<1> QED BY <1>8, <1>9

LEMMA DeleteFileMap ==
    ASSUME RInv, NEW t \in Editors, DeleteFileBegin(t)
    PROVE  Abstract!Next \/ UNCHANGED AbstractVars
<1>1. /\ pc[t] = "waiting" /\ kind[t] = "delete_file" /\ lock = None /\ lock' = t
      /\ pc' = [pc EXCEPT ![t] = "storing"]
      /\ UNCHANGED <<live, born, deleted, sid, path, new>>
      /\ upper' = [upper EXCEPT ![sid[t]][path[t]] = None] /\ sid[t] \in live
  BY DEF DeleteFileBegin, Ready, Found, Locks, Goto, metaVars, callVars
<1>2. PICK s \in live, p \in Paths : s = sid[t] /\ p = path[t]
  BY <1>1, Functions DEF RInv, IInv, LocalsOK
<1>3. s \in Sids /\ RInv'
  BY KeptSids, NextRInv, Functions DEF Next, EditorStep
<1>4. pc'[t] \in Mutating /\ new'[t] = None
  BY <1>1, Functions DEF Mutating, RInv, NewOK, Storing
<1>5. /\ Kept = live /\ Kept' = live
      /\ \A x \in Sids, q \in Paths : Settled(x, q) = View(x, q, deleted[x])
      /\ \A x \in Sids, q \in Paths :
            Settled(x, q)' = IF x = s /\ q = p THEN None ELSE View(x, q, deleted[x])'
  BY <1>1, <1>2, <1>3, <1>4, Shaped, ShapedNext DEF Shape
<1>6. \A x \in Sids, q \in Paths : x # s \/ q # p => View(x, q, deleted[x])' = View(x, q, deleted[x])
  BY <1>1, <1>2, Functions DEF View
<1>7. Bar' = [Bar EXCEPT ![s][p] = None]
  BY <1>3, <1>5, <1>6, KeptSids, OneFile
<1>8. CASE Bar[s][p] # None
  BY <1>1, <1>3, <1>5, <1>7, <1>8 DEF Abstract!Next, Abstract!Delete, Abstract!SetFile
<1>9. CASE Bar[s][p] = None
  <2>1. Settled(s, p) = None
    BY <1>3, <1>5, <1>9 DEF Bar
  <2>2. \A x \in Kept, q \in Paths : Settled(x, q)' = Settled(x, q)
    BY <1>5, <1>6, <2>1, KeptSids
  <2> QED BY <1>1, <1>5, <2>2, BarKept DEF AbstractVars
<1> QED BY <1>8, <1>9

LEMMA FillMap ==
    ASSUME RInv, NEW t \in Editors, Fill(t)
    PROVE  UNCHANGED AbstractVars
<1>1. /\ pc[t] = "filling" /\ pc' = [pc EXCEPT ![t] = "storing"]
      /\ UNCHANGED <<live, born, deleted, sid, path, new>>
      /\ upper' = [upper EXCEPT ![sid[t]][path[t]] = new[t]]
  BY DEF Fill, Goto, metaVars, callVars
<1>2. RInv' /\ pc[t] \in Mutating /\ pc'[t] \in Mutating
  BY <1>1, NextRInv, Functions DEF Next, EditorStep, Mutating
<1>3. /\ Kept = live /\ Kept' = live
      /\ \A s \in Sids, p \in Paths :
            Settled(s, p) = IF sid[t] = s /\ path[t] = p THEN new[t] ELSE View(s, p, deleted[s])
      /\ \A s \in Sids, p \in Paths :
            Settled(s, p)' = IF sid[t] = s /\ path[t] = p THEN new[t] ELSE View(s, p, deleted[s])'
  BY <1>1, <1>2, Shaped, ShapedNext DEF Shape
<1>4. \A s \in Sids, p \in Paths :
         sid[t] # s \/ path[t] # p => View(s, p, deleted[s])' = View(s, p, deleted[s])
  BY <1>1, Functions DEF View
<1>5. \A s \in Kept, p \in Paths : Settled(s, p)' = Settled(s, p)
  BY <1>3, <1>4, KeptSids
<1> QED BY <1>1, <1>3, <1>5, BarKept DEF AbstractVars

\* Storing the record makes the view what the mapping has shown since the call began.
LEMMA StoreMap ==
    ASSUME RInv, NEW t \in Editors, Store(t)
    PROVE  UNCHANGED AbstractVars
<1>1. /\ pc[t] = "storing" /\ lock = t /\ lock' = None /\ sid[t] \in live /\ sid[t] \in Sids
      /\ path[t] \in Paths /\ born' = born /\ upper' = upper
      /\ deleted' = [deleted EXCEPT ![sid[t]] = rec[t]]
  BY Functions DEF Store, Return, RInv, IInv, LockOK, LocalsOK, RecOK, Mutating
<1>2. RInv' /\ live' = live /\ pc[t] \in Mutating
  BY <1>1, NextRInv, StoringStep, Functions DEF Next, EditorStep, Mutating, RInv
<1>3. /\ Kept = live /\ Kept' = live
      /\ \A s \in Sids, p \in Paths :
            Settled(s, p) = IF sid[t] = s /\ path[t] = p THEN new[t] ELSE View(s, p, deleted[s])
      /\ \A s \in Sids, p \in Paths : Settled(s, p)' = View(s, p, deleted[s])'
  BY <1>1, <1>2, Shaped, ShapedNext DEF Shape
<1>4. /\ deleted \in [Sids -> SUBSET BasePaths] /\ t \in Tasks
      /\ Storing(t) => new[t] # None /\ upper[sid[t]][path[t]] = new[t]
      /\ ~ Storing(t) => new[t] = None
  BY <1>1, Functions DEF RInv, IInv, TypeOK, NewOK
<1>5. \A s \in Sids, p \in Paths :
         sid[t] # s \/ path[t] # p => View(s, p, deleted[s])' = View(s, p, deleted[s])
  <2>1. \A p \in Paths \ {path[t]} : p \in rec[t] <=> p \in deleted[sid[t]]
    BY <1>2, <1>4 DEF RInv, IInv, RecOK
  <2> QED BY <1>1, <1>4, <2>1 DEF View
<1>6. View(sid[t], path[t], rec[t]) = new[t]
  <2>1. CASE Storing(t)
    BY <1>2, <1>4, <2>1 DEF RInv, IInv, RecOK, Storing, View
  <2>2. CASE ~ Storing(t)
    BY <1>2, <1>4, <2>2 DEF RInv, IInv, RecOK, Storing, View, Base
  <2> QED BY <2>1, <2>2
<1>7. ASSUME NEW s \in Kept, NEW p \in Paths PROVE Settled(s, p)' = Settled(s, p)
  <2>1. s \in Sids
    BY KeptSids
  <2>2. CASE sid[t] = s /\ path[t] = p
    <3>1. View(s, p, deleted[s])' = new[t]
      BY <1>1, <1>4, <1>6, <2>2 DEF View
    <3> QED BY <1>3, <2>1, <2>2, <3>1
  <2>3. CASE sid[t] # s \/ path[t] # p
    BY <1>3, <1>5, <2>1, <2>3
  <2> QED BY <2>2, <2>3
<1> QED BY <1>1, <1>3, <1>7, BarKept DEF AbstractVars

\* A session goes when its removal begins.
LEMMA RemoveBeginMap ==
    ASSUME RInv, RInv', NEW t \in Tasks, NEW s \in Sids, RemoveSome(s), dirs' = dirs,
           lock = None \/ pc[Reaper] = "reaping", born' = born,
           pc'[t] = "removing", sid'[t] = s
    PROVE  Abstract!Next \/ UNCHANGED AbstractVars
<1>1. /\ live' = live \/ live' = live \ {s}
      /\ \A x \in Sids \ {s} : upper'[x] = upper[x] /\ deleted'[x] = deleted[x]
  BY RemovedDisk DEF RInv
<1>2. /\ Kept = live /\ Kept' = live \ {s}
      /\ \A x \in Sids, p \in Paths : Settled(x, p) = View(x, p, deleted[x])
      /\ \A x \in Sids, p \in Paths : Settled(x, p)' = View(x, p, deleted[x])'
  BY <1>1, Shaped, ShapedNext DEF Shape
<1>3. \A x \in Sids \ {s}, p \in Paths : Settled(x, p)' = Settled(x, p)
  BY <1>1, <1>2 DEF View
<1>4. CASE s \in live
  <2>1. Bar'[s] = [p \in Paths |-> None] /\ \A x \in Sids \ {s} : Bar'[x] = Bar[x]
    BY <1>2, <1>3 DEF Bar
  <2>2. Bar' = [x \in Sids |-> Bar'[x]] /\ Bar = [x \in Sids |-> Bar[x]]
    BY DEF Bar
  <2>3. Bar' = [Bar EXCEPT ![s] = [p \in Paths |-> None]]
    BY <2>1, <2>2
  <2> QED BY <1>2, <1>4, <2>3 DEF Abstract!Next, Abstract!Drop
<1>5. CASE s \notin live
  BY <1>2, <1>3, <1>5, KeptSids, BarKept DEF AbstractVars
<1> QED BY <1>4, <1>5

LEMMA RemoveEndMap ==
    ASSUME RInv, RInv', NEW t \in Tasks, pc[t] = "removing", RemoveAll(sid[t]),
           lock' = None \/ pc'[Reaper] = "reaping", born' = born
    PROVE  UNCHANGED AbstractVars
<1>1. PICK s \in Sids : s = sid[t]
  BY DEF RInv, IInv, LocalsOK
<1>2. RemoveAll(s) /\ live' = live \ {s}
  BY <1>1 DEF RemoveAll, Forget
<1>3. \A x \in Sids \ {s} : upper'[x] = upper[x] /\ deleted'[x] = deleted[x]
  BY <1>2, RemovedDisk DEF RInv
<1>4. /\ Kept = live \ {s} /\ Kept' = live \ {s}
      /\ \A x \in Sids, p \in Paths : Settled(x, p) = View(x, p, deleted[x])
      /\ \A x \in Sids, p \in Paths : Settled(x, p)' = View(x, p, deleted[x])'
  BY <1>1, <1>2, Shaped, ShapedNext DEF Shape
<1>5. \A x \in Kept, p \in Paths : Settled(x, p)' = Settled(x, p)
  BY <1>3, <1>4, KeptSids DEF View
<1> QED BY <1>4, <1>5, BarKept DEF AbstractVars

LEMMA EditorMap ==
    ASSUME RInv, RInv', MaxFaults = 0, NEW t \in Editors, EditorStep(t)
    PROVE  Abstract!Next \/ UNCHANGED AbstractVars
<1>0. t \in Requests /\ t \in Tasks
  BY Functions
<1>1. CASE EditFails(t) \/ DeleteFileNotFound(t)
  <2>1. Return(t) /\ pc[t] \notin Mutating \cup Removing /\ UNCHANGED diskVars
    BY <1>0, <1>1, JustReturns DEF RInv
  <2> QED BY <1>0, <2>1, ReturnMap
<1>2. CASE DeleteBegin(t)
  <2>1. /\ lock = None /\ RemoveSome(sid[t]) /\ dirs' = dirs /\ born' = born
        /\ pc'[t] = "removing" /\ sid' = sid /\ sid[t] \in Sids
    BY <1>0, <1>2, Functions
       DEF DeleteBegin, Locks, Goto, Ready, callVars, RInv, IInv, LocalsOK
  <2> QED BY <1>0, <2>1, RemoveBeginMap
<1>3. CASE DeleteEnd(t)
  <2>1. pc[t] = "removing" /\ RemoveAll(sid[t]) /\ lock' = None /\ born' = born
    BY <1>0, <1>3 DEF DeleteEnd, Return, RInv, IInv, LockOK, Removing
  <2> QED BY <1>0, <2>1, RemoveEndMap
<1> QED BY <1>1, <1>2, <1>3, BeginMap, DeleteFileMap, FillMap, StoreMap DEF EditorStep

LEMMA ReaperMap ==
    ASSUME RInv, RInv', ReaperStep
    PROVE  Abstract!Next \/ UNCHANGED AbstractVars
<1>0. Reaper \in Tasks
  BY DEF Tasks
<1>1. ASSUME NEW s \in Sids, ReapRemoveBegin(s)
      PROVE  Abstract!Next \/ UNCHANGED AbstractVars
  <2>1. /\ pc[Reaper] = "reaping" /\ RemoveSome(s) /\ dirs' = dirs /\ born' = born
        /\ pc'[Reaper] = "removing" /\ sid'[Reaper] = s
    BY <1>0, <1>1, Functions DEF ReapRemoveBegin, Goto
  <2> QED BY <1>0, <2>1, RemoveBeginMap
<1>2. CASE ReapRemoveEnd
  <2>1. /\ pc[Reaper] = "removing" /\ RemoveAll(sid[Reaper]) /\ pc'[Reaper] = "reaping"
        /\ born' = born
    BY <1>0, <1>2, Functions DEF ReapRemoveEnd, Goto
  <2> QED BY <1>0, <2>1, RemoveEndMap
<1> QED BY <1>1, <1>2, ReapQuietMap DEF ReaperStep

LEMMA NextMap ==
    ASSUME MaxFaults = 0, RInv, [Next]_vars
    PROVE  [Abstract!Next]_AbstractVars
<1>1. RInv'
  BY NextRInv
<1>2. faults = 0
  BY DEF RInv, IInv, TypeOK
<1>3. ASSUME NEW s \in Sids, Create(s) \/ CreateFails(s) PROVE Abstract!Next
  BY <1>2, <1>3, CreateMap DEF CreateFails, Abstract!Next
<1>4. ASSUME NEW t \in Tasks, CallFails(t) \/ Restart PROVE FALSE
  BY <1>2, <1>4 DEF CallFails, Restart
<1>5. Reaper \in Tasks
  BY DEF Tasks
<1> QED BY <1>1, <1>3, <1>4, <1>5, RequestMap, EditorMap, ReaderMap, ReaperMap, IdleMap DEF Next

LEMMA InitMap == Init => Abstract!Init
BY DEF Init, Abstract!Init, Kept, Bar

\* As long as nothing fails, the calls on a session, several steps on the disk each
\* and interleaved with all the others, are whole-file steps in one order.
THEOREM CallsAreWhole == MaxFaults = 0 /\ Spec => ImplementsWholeFiles
<1>1. ASSUME MaxFaults = 0 PROVE RInv /\ [Next]_vars => [Abstract!Next]_AbstractVars
  BY <1>1, NextMap
<1>2. ASSUME MaxFaults = 0 PROVE Spec => ImplementsWholeFiles
  <2>1. RInv /\ [Next]_vars => [Abstract!Next]_<<Kept, born, Bar>>
    BY <1>1, <1>2 DEF AbstractVars
  <2> QED BY <2>1, InitMap, RInvariance, PTL DEF Spec, ImplementsWholeFiles, Abstract!Spec
<1> QED BY <1>2

=============================================================================
