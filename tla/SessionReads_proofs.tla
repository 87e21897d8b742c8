------------------------- MODULE SessionReads_proofs -------------------------
(***************************************************************************)
(* Proofs about the two ways a session is read without the store's lock,   *)
(* the read of a file (SessionStoreHistory) and the search of all files    *)
(* (SessionSearch), for every set of sessions, paths, editors and readers. *)
(***************************************************************************)
EXTENDS SessionStoreHistory, SessionSearch, SessionStore_proofs

\* A session's files and whiteouts change only in a step that begins, goes on
\* with, or ends a mutation of it.
LEMMA QuietStep ==
    ASSUME IInv, [Next]_vars, NEW s \in Sids, ~ Busy(s), ~ Busy(s)'
    PROVE  upper'[s] = upper[s] /\ deleted'[s] = deleted[s]
<1> USE DEF diskVars, metaVars, Busy
<1>1. ASSUME NEW t \in Tasks, pc[t] \in Mutating \cup Removing PROVE sid[t] # s
  BY <1>1 DEF Mutating, Removing
<1>2. ASSUME NEW t \in Tasks, pc'[t] \in Mutating \cup Removing PROVE sid'[t] # s
  BY <1>2 DEF Mutating, Removing
<1>3. ASSUME NEW x \in Sids, Create(x) \/ CreateFails(x)
      PROVE  upper' = upper /\ deleted' = deleted
  BY <1>3 DEF Create, CreateFails
<1>4. ASSUME NEW t \in Requests, Begin(t) \/ Touch(t) \/ NotFound(t)
      PROVE  upper' = upper /\ deleted' = deleted
  BY <1>4 DEF Begin, Authorize, Touch, NotFound
<1>5. ASSUME NEW t \in Editors, EditorStep(t)
      PROVE  upper'[s] = upper[s] /\ deleted'[s] = deleted[s]
  <2> USE DEF Tasks, Requests
  <2>1. CASE WriteBegin(t) \/ EditBegin(t) \/ DeleteFileBegin(t)
    <3>1. pc'[t] \in Mutating /\ sid' = sid
      BY <2>1 DEF WriteBegin, EditBegin, DeleteFileBegin, Locks, Goto, Mutating, IInv, TypeOK,
                  callVars
    <3> QED BY <2>1, <3>1, <1>2 DEF WriteBegin, EditBegin, DeleteFileBegin, Truncate,
                                    IInv, ContentOK
  <2>2. CASE DeleteBegin(t)
    <3>1. pc'[t] \in Removing /\ sid' = sid
      BY <2>2 DEF DeleteBegin, Locks, Goto, Removing, IInv, TypeOK, callVars
    <3> QED BY <2>2, <3>1, <1>2 DEF DeleteBegin, RemoveSome, Forget, IInv, TypeOK, ContentOK
  <2>3. CASE Fill(t) \/ Store(t) \/ DeleteEnd(t)
    <3>1. sid[t] # s
      BY <2>3, <1>1 DEF Fill, Store, DeleteEnd, Mutating, Removing
    <3> QED BY <2>3, <3>1 DEF Fill, Store, DeleteEnd, RemoveAll, Forget, IInv, TypeOK, ContentOK
  <2> QED BY <1>5, <2>1, <2>2, <2>3 DEF EditorStep, EditFails, DeleteFileNotFound
<1>6. ASSUME NEW t \in Readers, ReaderStep(t) PROVE upper' = upper /\ deleted' = deleted
  BY <1>6 DEF ReaderStep, ViewOpen, ReadResolve, ReadUpper, ReadEnd
<1>7. CASE ReaperStep
  <2> USE DEF Tasks
  <2>1. ASSUME NEW x \in Sids, ReapRemoveBegin(x)
        PROVE  upper'[s] = upper[s] /\ deleted'[s] = deleted[s]
    <3>1. pc'[Reaper] \in Removing /\ sid'[Reaper] = x
      BY <2>1 DEF ReapRemoveBegin, Goto, Removing, IInv, TypeOK
    <3> QED BY <2>1, <3>1, <1>2 DEF ReapRemoveBegin, RemoveSome, Forget, IInv, TypeOK, ContentOK
  <2>2. CASE ReapRemoveEnd
    <3>1. sid[Reaper] # s
      BY <2>2, <1>1 DEF ReapRemoveEnd, Removing
    <3> QED BY <2>2, <3>1 DEF ReapRemoveEnd, RemoveAll, Forget, IInv, TypeOK, ContentOK
  <2> QED BY <1>7, <2>1, <2>2 DEF ReaperStep, ReapBegin, ReapEnd
<1>8. CASE Tick \/ Restart \/ UNCHANGED vars \/ \E t \in Tasks : CallFails(t)
  BY <1>8 DEF Tick, Restart, vars, CallFails
<1> QED BY <1>3, <1>4, <1>5, <1>6, <1>7, <1>8 DEF Next

-----------------------------------------------------------------------------
(* The read of a file.                                                     *)

\* A reader that has its view, or its answer, after a step took one of three steps,
\* or none.
LEMMA ReaderMoves ==
    ASSUME IInv, [Next]_vars, NEW t \in Readers, pc'[t] \in {"resolving", "reading", "done"}
    PROVE  /\ sid'[t] = sid[t] /\ path'[t] = path[t]
           /\ \/ ViewOpen(t) \/ ReadResolve(t) \/ ReadUpper(t)
              \/ UNCHANGED <<pc[t], rec[t], new[t]>>
<1> USE DistinctValues DEF Goto, IInv, TypeOK, ContentOK, Tasks, Requests
<1>1. ASSUME NEW s \in Sids, Create(s) \/ CreateFails(s)
      PROVE  UNCHANGED <<pc, sid, path, rec, new>>
  BY <1>1 DEF Create, CreateFails, callVars
<1>2. ASSUME NEW u \in Requests, Begin(u) \/ Touch(u) \/ NotFound(u)
      PROVE  UNCHANGED <<pc[t], sid[t], path[t], rec[t], new[t]>>
  BY <1>2 DEF Begin, Authorize, Touch, NotFound, Return, callVars
<1>3. ASSUME NEW u \in Editors, EditorStep(u)
      PROVE  UNCHANGED <<pc[t], sid[t], path[t], rec[t], new[t]>>
  <2>1. u # t
    OBVIOUS
  <2> QED BY <1>3, <2>1 DEF EditorStep, WriteBegin, EditBegin, EditFails, Fill, DeleteFileBegin,
             DeleteFileNotFound, Store, DeleteBegin, DeleteEnd, Locks, Return, callVars
<1>4. ASSUME NEW u \in Readers, u # t, ReaderStep(u)
      PROVE  UNCHANGED <<pc[t], sid[t], path[t], rec[t], new[t]>>
  BY <1>4 DEF ReaderStep, ViewOpen, ReadResolve, ReadUpper, ReadEnd, Return, callVars
<1>5. CASE ViewOpen(t) \/ ReadResolve(t) \/ ReadUpper(t)
  BY <1>5 DEF ViewOpen, ReadResolve, ReadUpper, callVars
<1>6. ~ ReadEnd(t)
  BY DEF ReadEnd, Return
<1>7. CASE ReaperStep
  BY <1>7 DEF ReaperStep, ReapBegin, ReapRemoveBegin, ReapRemoveEnd, ReapEnd, Locks, Return,
              callVars
<1>8. CASE Tick \/ UNCHANGED vars
  BY <1>8 DEF Tick, vars, callVars
<1>9. ASSUME NEW u \in Tasks, CallFails(u)
      PROVE  UNCHANGED <<pc[t], sid[t], path[t], rec[t], new[t]>>
  BY <1>9 DEF CallFails, Return
<1>10. ~ Restart
  BY DEF Restart
<1> HIDE DEF Goto, IInv, TypeOK, ContentOK, Tasks, Requests
<1> QED BY <1>1, <1>2, <1>3, <1>4, <1>5, <1>6, <1>7, <1>8, <1>9, <1>10 DEF Next, ReaderStep

\* A read that no mutation has overlapped still has the whiteouts of its session,
\* and the files it looks at are those it is expected to show.
QuietOK ==
    \A t \in Readers \ overlapped :
        /\ pc[t] \in {"resolving", "reading"} =>
              /\ rec[t] = deleted[sid[t]]
              /\ expected[t] = View(sid[t], path[t], deleted[sid[t]])
        /\ pc[t] = "reading" => path[t] \notin rec[t] /\ upper[sid[t]][path[t]] # None
        /\ pc[t] = "done" => new[t] = expected[t]

LEMMA QuietOKStep ==
    ASSUME IInv, QuietOK, [HNext]_hvars
    PROVE  QuietOK'
<1>1. CASE UNCHANGED hvars
  BY <1>1 DEF hvars, vars, diskVars, metaVars, callVars, QuietOK, View
<1>2. CASE HNext
  <2> SUFFICES ASSUME NEW t \in Readers, t \notin overlapped',
                      pc'[t] \in {"resolving", "reading", "done"}
               PROVE  /\ pc'[t] \in {"resolving", "reading"} =>
                            /\ rec'[t] = deleted'[sid'[t]]
                            /\ expected'[t] = View(sid[t], path[t], deleted[sid[t]])'
                      /\ pc'[t] = "reading" =>
                            path'[t] \notin rec'[t] /\ upper'[sid'[t]][path'[t]] # None
                      /\ pc'[t] = "done" => new'[t] = expected'[t]
    BY DEF QuietOK
  <2>1. [Next]_vars /\ Observe
    BY <1>2 DEF HNext
  <2>2. /\ sid'[t] = sid[t] /\ path'[t] = path[t]
        /\ \/ ViewOpen(t) \/ ReadResolve(t) \/ ReadUpper(t)
           \/ UNCHANGED <<pc[t], rec[t], new[t]>>
    BY <2>1, ReaderMoves
  <2>3. sid[t] \in Sids /\ t \in Tasks
    BY <2>2 DEF ViewOpen, ReadResolve, ReadUpper, IInv, LocalsOK, Tasks, Requests
  <2>4. t \notin overlapped /\ ~ Busy(sid[t]) /\ ~ Busy(sid[t])'
    BY <2>1 DEF Observe
  <2>5. PICK s \in Sids : s = sid[t]
    BY <2>3
  <2>6. ~ Busy(s) /\ ~ Busy(s)'
    BY <2>2, <2>4, <2>5 DEF Busy
  <2>7. upper'[s] = upper[s] /\ deleted'[s] = deleted[s]
    BY <2>1, <2>6, QuietStep
  <2>8. expected'[t] = IF pc'[t] = "resolving" THEN View(s, path[t], deleted[s]) ELSE expected[t]
    BY <2>1, <2>5 DEF Observe
  <2>9. \A p, w : View(s, p, w)' = View(s, p, w)
    BY <2>7 DEF View, Base
  <2>10. \A l : pc' = [pc EXCEPT ![t] = l] => pc'[t] = l
    BY <2>3 DEF IInv, TypeOK
  <2>11. \A v : /\ rec' = [rec EXCEPT ![t] = v] => rec'[t] = v
                /\ new' = [new EXCEPT ![t] = v] => new'[t] = v
    BY <2>3 DEF IInv, TypeOK, ContentOK
  <2>12. View(sid[t], path[t], deleted[sid[t]])' = View(s, path[t], deleted[s])
    BY <2>2, <2>5, <2>7 DEF View, Base
  <2>13. CASE ViewOpen(t)
    BY <2>2, <2>5, <2>7, <2>8, <2>10, <2>11, <2>12, <2>13 DEF ViewOpen, Goto
  <2>14. CASE ReadResolve(t)
    <3>1. /\ rec[t] = deleted[s] /\ expected[t] = View(s, path[t], deleted[s]) /\ rec' = rec
          /\ pc'[t] \in {"reading", "done"}
      BY <2>4, <2>5, <2>10, <2>14 DEF ReadResolve, QuietOK, Goto
    <3>2. /\ rec'[t] = deleted'[sid'[t]]
          /\ expected'[t] = View(sid[t], path[t], deleted[sid[t]])'
      BY <2>2, <2>5, <2>7, <2>8, <2>12, <3>1
    <3>3. pc'[t] = "reading" => path[t] \notin rec[t] /\ upper[s][path[t]] # None
      BY <2>5, <2>10, <2>14 DEF ReadResolve, Goto
    <3>4. pc'[t] = "done" => new'[t] = View(s, path[t], rec[t])
      BY <2>5, <2>10, <2>11, <2>14 DEF ReadResolve, Goto
    <3> QED BY <2>2, <2>5, <2>7, <2>8, <2>14, <3>1, <3>2, <3>3, <3>4 DEF ReadResolve
  <2>15. CASE ReadUpper(t)
    <3>1. /\ expected[t] = upper[s][path[t]] /\ pc'[t] = "done"
      BY <2>4, <2>5, <2>10, <2>15 DEF ReadUpper, QuietOK, Goto, View
    <3> QED BY <2>5, <2>8, <2>11, <2>15, <3>1 DEF ReadUpper
  <2>16. CASE UNCHANGED <<pc[t], rec[t], new[t]>>
    BY <2>2, <2>4, <2>5, <2>7, <2>8, <2>12, <2>16 DEF QuietOK
  <2> QED BY <2>2, <2>13, <2>14, <2>15, <2>16
<1> QED BY <1>1, <1>2

\* A file read without the lock is the committed one unless a mutation of its session
\* was under way meanwhile, whatever fails or restarts.
THEOREM QuietReadsCommitted == HSpec => []QuietReads
<1>1. HInit => IInv /\ QuietOK
  <2>1. HInit => IInv
    BY InitIInv DEF HInit
  <2>2. HInit => QuietOK
    BY DEF HInit, Init, QuietOK, Tasks, Requests
  <2> QED BY <2>1, <2>2
<1>2. IInv /\ [HNext]_hvars => IInv'
  BY NextIInv DEF HNext, hvars
<1>3. IInv /\ QuietOK /\ [HNext]_hvars => QuietOK'
  BY QuietOKStep
<1>4. QuietOK => QuietReads
  BY DEF QuietOK, QuietReads
<1> QED BY <1>1, <1>2, <1>3, <1>4, PTL DEF HSpec

-----------------------------------------------------------------------------
(* The search of a session, and a collector of its base.                   *)

SearchTypeOK ==
    /\ step \in {"idle", "touching", "opening", "listing", "listing_upper", "walking",
                "resolved", "reading", "ended"}
    /\ step # "idle" => ses \in born
    /\ step # "ended" => outcome = None
    /\ current \in BOOLEAN /\ pinned \in BOOLEAN
    /\ gc \in {"idle", "scanned", "removing", "gone"} /\ leased \subseteq Sids
    /\ disk \subseteq BasePaths /\ (BaseWhole => disk = BasePaths)
    /\ candidates \subseteq Paths
    /\ step \in {"resolved", "reading"} => file \in Paths
    /\ step \notin {"walking", "resolved", "reading", "ended"} => found = {}

\* What the view shows of a file, and in which layer while the base is whole.
Shown(p) == View(ses, p, deleted[ses])
ShownIn(p) ==
    IF p \in hidden THEN None
    ELSE IF upper[ses][p] # None THEN "upper"
    ELSE IF p \in BasePaths THEN "base" ELSE None

\* A file that a collector may have taken.
Lost(p) == upper[ses][p] = None /\ ~ BaseWhole

Listing == {"listing", "listing_upper"}
Walking == {"walking", "resolved", "reading"}

\* The files that are still to be searched, the one in hand included.
Ahead == candidates \cup IF step \in {"resolved", "reading"} THEN {file} ELSE {}

\* A search of a session that is not being removed: for each file that nobody changed
\* it knows whether the view shows a match, or is still to look.
SearchOK ==
    step \in Listing \cup Walking \cup {"ended"} /\ ~ Leaving(ses) =>
        /\ step = "ended" =>
              outcome = "ok" \/ (outcome = "error" /\ (touched # {} \/ ~ BaseWhole))
        /\ step = "listing_upper" /\ BaseWhole => candidates = BasePaths \ hidden
        /\ step \in {"resolved", "reading"} => file \notin candidates
        /\ step # "ended" =>
              \A p \in Paths \ touched : p \in hidden <=> p \in deleted[ses]
        /\ step \in {"resolved", "reading"} /\ file \notin touched => ShownIn(file) # None
        /\ step = "reading" /\ file \notin touched => layer = ShownIn(file)
        /\ step \in Walking =>
              \A p \in Paths \ touched :
                  /\ p \in found => IsMatch(Shown(p))
                  /\ IsMatch(Shown(p)) => p \in found \cup Ahead \/ Lost(p)
        /\ step = "ended" /\ outcome = "ok" =>
              \A p \in Paths \ touched :
                  /\ p \in found => IsMatch(Shown(p))
                  /\ IsMatch(Shown(p)) => p \in found \/ Lost(p)

SInv == IInv /\ SearchTypeOK /\ SearchOK

\* No session comes back, in any step.
LEMMA NoReturn ==
    ASSUME IInv, [Next]_vars, NEW s \in born, s \notin live
    PROVE  s \notin live'
<1>1. CASE \E x \in Sids : Create(x)
  BY <1>1 DEF Create
<1> QED BY <1>1, LiveShrinks

\* The removal of a session goes on until the session is gone, when nothing fails.
LEMMA LeavingStays ==
    ASSUME IInv, [Next]_vars, faults' = faults, NEW s \in born, Leaving(s)
    PROVE  Leaving(s)'
<1> SUFFICES ASSUME NEW t \in Tasks, pc[t] = "removing", sid[t] = s, s \in live'
             PROVE  pc'[t] = "removing" /\ sid'[t] = s
  BY NoReturn DEF Leaving
<1> USE DEF Goto, Locks, Return, callVars
<1>1. ASSUME NEW x \in Sids, Create(x) \/ CreateFails(x) PROVE UNCHANGED <<pc, sid>>
  BY <1>1 DEF Create, CreateFails
<1>2. ASSUME NEW u \in Requests, Begin(u) \/ Touch(u) \/ NotFound(u)
      PROVE  UNCHANGED <<pc[t], sid[t]>>
  <2>1. u # t
    BY <1>2 DEF Begin, Authorize, Touch, NotFound
  <2> QED BY <1>2, <2>1 DEF Begin, Authorize, Touch, NotFound, IInv, TypeOK
<1>3. ASSUME NEW u \in Editors, EditorStep(u) PROVE UNCHANGED <<pc[t], sid[t]>>
  <2>1. CASE DeleteEnd(u)
    <3>1. u # t
      BY <2>1 DEF DeleteEnd, RemoveAll, Forget
    <3> QED BY <2>1, <3>1 DEF DeleteEnd, IInv, TypeOK
  <2>2. CASE ~ DeleteEnd(u)
    <3>1. u # t
      BY <1>3, <2>2 DEF EditorStep, WriteBegin, EditBegin, EditFails, Fill, DeleteFileBegin,
             DeleteFileNotFound, Store, DeleteBegin, Ready
    <3> QED BY <1>3, <2>2, <3>1 DEF EditorStep, WriteBegin, EditBegin, EditFails, Fill,
             DeleteFileBegin, DeleteFileNotFound, Store, DeleteBegin, IInv, TypeOK
  <2> QED BY <2>1, <2>2
<1>4. ASSUME NEW u \in Readers, ReaderStep(u) PROVE UNCHANGED <<pc[t], sid[t]>>
  <2>1. u # t
    BY <1>4 DEF ReaderStep, ViewOpen, ReadResolve, ReadUpper, ReadEnd
  <2> QED BY <1>4, <2>1 DEF ReaderStep, ViewOpen, ReadResolve, ReadUpper, ReadEnd, IInv, TypeOK
<1>5. CASE ReaperStep
  <2>1. t # Reaper
    BY <1>5 DEF ReaperStep, ReapBegin, ReapRemoveBegin, ReapRemoveEnd, ReapEnd, RemoveAll, Forget
  <2> QED BY <1>5, <2>1 DEF ReaperStep, ReapBegin, ReapRemoveBegin, ReapRemoveEnd, ReapEnd,
             IInv, TypeOK
<1>6. CASE Tick \/ UNCHANGED vars
  BY <1>6 DEF Tick, vars
<1>7. ~ Restart /\ ~ \E u \in Tasks : CallFails(u)
  BY DEF Restart, CallFails, IInv, TypeOK
<1> QED BY <1>1, <1>2, <1>3, <1>4, <1>5, <1>6, <1>7 DEF Next

-----------------------------------------------------------------------------
(* The store under a search.                                               *)

LEMMA SInitSInv == SInit => SInv
<1> SUFFICES ASSUME SInit PROVE SInv
  OBVIOUS
<1>1. IInv
  BY InitIInv DEF SInit
<1>2. SearchTypeOK /\ SearchOK
  BY DEF SInit, SearchTypeOK, SearchOK, Listing, Walking, BaseWhole
<1> QED BY <1>1, <1>2 DEF SInv

\* A step of the search or of a collector is none of the store's, but for the touch.
LEMMA NotStore ==
    ASSUME [SNext]_allVars
    PROVE  StoreStep \/ SearchTouch \/ UNCHANGED storeVars
BY DEF SNext, SearchBegin, SearchStep, SearchNotFound, SearchOpen, ListBase, ListUpper, ListFails,
       Resolve, ResolveAgain, ReadFile, WalkEnds, SearchReturn, CreateLease, CreateDropped,
       SetSnapshot, GcStep, GcScan, GcCapture, GcRemoveSome, allVars

LEMMA SIInvStep ==
    ASSUME IInv, SearchTypeOK, [SNext]_allVars
    PROVE  IInv'
<1>1. CASE StoreStep
  BY <1>1, NextIInv DEF StoreStep
<1>2. CASE SearchTouch
  <2> USE Bounds DEF IInv, SearchTouch, callVars
  <2>1. TypeOK' /\ ContentOK'
    BY <1>2 DEF SearchTypeOK, TypeOK, ContentOK
  <2>2. LocalsOK' /\ LockOK' /\ RecOK' /\ Fresh' /\ Clean'
    BY <1>2 DEF LocalsOK, LockOK, RecOK, Fresh, Clean
  <2>3. ReapOK'
    BY <1>2, Free DEF ReapOK
  <2> QED BY <2>1, <2>2, <2>3
<1>3. CASE UNCHANGED storeVars
  BY <1>3, StutterStep DEF storeVars
<1> QED BY <1>1, <1>2, <1>3, NotStore

\* A base that is being taken, or gone, stays so.
LEMMA BaseStaysLost ==
    ASSUME [SNext]_allVars, BaseWhole'
    PROVE  BaseWhole
<1>1. UNCHANGED gc \/ GcStep
  BY DEF SNext, StoreStep, SearchBegin, SearchStep, SearchTouch, SearchNotFound,
         SearchOpen, ListBase, ListUpper, ListFails, Resolve, ResolveAgain, ReadFile, WalkEnds,
         SearchReturn, CreateLease, CreateDropped, SetSnapshot, allVars, gcStepVars
<1> QED BY <1>1 DEF BaseWhole, GcStep, GcScan, GcCapture, GcRemoveSome

LEMMA SearchTypeStep ==
    ASSUME SInv, [SNext]_allVars
    PROVE  SearchTypeOK'
<1> USE DEF SInv, SearchTypeOK, BaseWhole
<1>1. born \subseteq born' /\ live \subseteq born
  <2>1. CASE StoreStep
    BY <2>1 DEF StoreStep, Next, Create, CreateFails, Begin, Authorize, Touch, NotFound, EditorStep,
         WriteBegin, EditBegin, EditFails, Fill, DeleteFileBegin, DeleteFileNotFound, Store,
         DeleteBegin, DeleteEnd, ReaderStep, ViewOpen, ReadResolve, ReadUpper, ReadEnd, ReaperStep,
         ReapBegin, ReapRemoveBegin, ReapRemoveEnd, ReapEnd, Tick, CallFails, Restart, diskVars,
         metaVars, IInv, TypeOK
  <2>2. CASE SearchTouch \/ UNCHANGED storeVars
    BY <2>2 DEF SearchTouch, storeVars, vars, diskVars, metaVars, IInv, TypeOK
  <2> QED BY <2>1, <2>2, NotStore
<1>2. CASE StoreStep
  BY <1>1, <1>2 DEF StoreStep, walkVars
<1>3. ASSUME NEW s \in Sids, SearchBegin(s) PROVE SearchTypeOK'
  BY <1>1, <1>3 DEF SearchBegin, gcStepVars, walkVars
<1>4. CASE SearchTouch \/ SearchNotFound \/ SearchOpen \/ ListFails \/ WalkEnds
  BY <1>1, <1>4 DEF SearchTouch, SearchNotFound, SearchOpen, ListFails, WalkEnds, End, gcStepVars,
                    walkVars, viewVars
<1>5. CASE ListBase \/ ListUpper
  BY <1>1, <1>5, SomePathsInBase DEF ListBase, ListUpper, gcStepVars, viewVars
<1>6. CASE (\E p \in Paths : Resolve(p)) \/ ResolveAgain \/ ReadFile
  BY <1>1, <1>6 DEF Resolve, ResolveAgain, ReadFile, End, gcStepVars, viewVars
<1>7. CASE SearchReturn
  BY <1>7 DEF SearchReturn, gcStepVars
<1>8. CASE SetSnapshot \/ (\E s \in Sids : CreateLease(s) \/ CreateDropped(s)) \/ GcStep
  <2>1. UNCHANGED searchVars /\ UNCHANGED storeVars
    BY <1>8 DEF SetSnapshot, CreateLease, CreateDropped, GcStep, GcScan, GcCapture, GcRemoveSome
  <2>2. /\ current' \in BOOLEAN /\ pinned' \in BOOLEAN /\ leased' \subseteq Sids
        /\ gc' \in {"idle", "scanned", "removing", "gone"}
        /\ disk' \subseteq BasePaths /\ (BaseWhole' => disk' = BasePaths)
    <3>1. CASE SetSnapshot \/ (\E s \in Sids : CreateLease(s) \/ CreateDropped(s))
      BY <3>1 DEF SetSnapshot, CreateLease, CreateDropped
    <3>2. CASE GcScan \/ GcCapture
      BY <3>2 DEF GcScan, GcCapture
    <3>3. CASE \E lost \in SUBSET disk : GcRemoveSome(lost)
      BY <3>3 DEF GcRemoveSome
    <3> QED BY <1>8, <3>1, <3>2, <3>3 DEF GcStep
  <2> QED BY <1>1, <2>1, <2>2 DEF searchVars, viewVars, walkVars
<1>9. CASE UNCHANGED allVars
  BY <1>1, <1>9 DEF allVars, searchVars, walkVars, viewVars, gcStepVars
<1> QED BY <1>2, <1>3, <1>4, <1>5, <1>6, <1>7, <1>8, <1>9 DEF SNext, SearchStep

-----------------------------------------------------------------------------
(* The steps of a search.                                                  *)

\* Where resolve finds a file is where the view shows it, unless the base is taken.
LEMMA ShownLayer ==
    ASSUME SearchTypeOK, NEW p \in Paths, p \in hidden <=> p \in deleted[ses]
    PROVE  /\ ShownIn(p) = None <=> Shown(p) = None
           /\ ShownIn(p) = "upper" => Shown(p) = upper[ses][p]
           /\ ShownIn(p) = "base" => Shown(p) = {} /\ (~ BaseWhole => Lost(p))
           /\ ShownIn(p) \in {"upper", "base", None}
           /\ Layer(p) = ShownIn(p) \/ (Layer(p) = None /\ Lost(p))
<1>1. {} # None
  BY DistinctValues
<1> QED BY <1>1, LayersAreNotNone DEF Layer, ShownIn, Shown, View, Base, Lost, SearchTypeOK

\* A step that leaves the search alone changes what it should answer only for the
\* files it makes changed ones.
LEMMA SearchKept ==
    ASSUME SearchOK, SearchTypeOK, Leaving(ses) => Leaving(ses)', BaseWhole' => BaseWhole,
           UNCHANGED <<step, ses, hidden, outcome>>,
           UNCHANGED walkVars, touched \subseteq touched',
           \A p \in Paths \ touched' :
              upper'[ses][p] = upper[ses][p] /\ (p \in deleted'[ses] <=> p \in deleted[ses])
    PROVE  SearchOK'
<1> SUFFICES ASSUME step \in Listing \cup Walking \cup {"ended"}, ~ Leaving(ses)
             PROVE  SearchOK'
  BY DEF SearchOK
<1>1. \A p \in Paths \ touched' :
         Shown(p)' = Shown(p) /\ ShownIn(p)' = ShownIn(p) /\ (Lost(p) => Lost(p)')
  BY DEF Shown, View, Base, ShownIn, Lost
<1>2. UNCHANGED <<candidates, file, layer, found>>
  BY DEF walkVars
<1>3. Ahead' = Ahead
  BY <1>2 DEF Ahead
<1>4. \A p \in Paths \ touched' : p \notin touched
  OBVIOUS
<1> HIDE DEF Shown, ShownIn, Lost
<1>5. /\ step' = "ended" =>
            outcome' = "ok" \/ (outcome' = "error" /\ (touched' # {} \/ ~ BaseWhole'))
      /\ step' = "listing_upper" /\ BaseWhole' => candidates' = BasePaths \ hidden'
      /\ step' \in {"resolved", "reading"} => file' \notin candidates'
  BY <1>2 DEF SearchOK
<1>6. step' # "ended" => \A p \in Paths \ touched' : p \in hidden' <=> p \in deleted'[ses']
  BY <1>4 DEF SearchOK
<1>7. /\ step' \in {"resolved", "reading"} /\ file' \notin touched' => ShownIn(file)' # None
      /\ step' = "reading" /\ file' \notin touched' => layer' = ShownIn(file)'
  BY <1>1, <1>2, <1>4 DEF SearchOK, SearchTypeOK
<1>8. step' \in Walking =>
         \A p \in Paths \ touched' :
             /\ p \in found' => IsMatch(Shown(p)')
             /\ IsMatch(Shown(p)') => p \in found' \cup Ahead' \/ Lost(p)'
  BY <1>1, <1>2, <1>3, <1>4 DEF SearchOK
<1>9. step' = "ended" /\ outcome' = "ok" =>
         \A p \in Paths \ touched' :
             /\ p \in found' => IsMatch(Shown(p)')
             /\ IsMatch(Shown(p)') => p \in found' \/ Lost(p)'
  BY <1>1, <1>2, <1>4 DEF SearchOK
<1> QED BY <1>5, <1>6, <1>7, <1>8, <1>9 DEF SearchOK, IsMatch

LEMMA SearchStoreStep ==
    ASSUME SInv, StoreStep
    PROVE  SearchOK'
<1> USE DEF SInv
<1>1. CASE step = "idle"
  BY <1>1 DEF StoreStep, SearchOK, Listing, Walking
<1>2. CASE step # "idle"
  <2>1. ses \in born /\ ses # None
    BY <1>2, DistinctValues DEF SearchTypeOK, IInv, TypeOK
  <2>2. PICK s \in born : s = ses
    BY <2>1
  <2>3. Leaving(s) => Leaving(s)'
    BY LeavingStays DEF StoreStep
  <2>4. Leaving(ses) => Leaving(ses)'
    BY <2>2, <2>3 DEF StoreStep, Leaving
  <2>5. touched' = touched \cup {p \in Paths : \/ upper'[ses][p] # upper[ses][p]
                                               \/ (p \in deleted[ses]) # (p \in deleted'[ses])}
    BY <2>1 DEF StoreStep
  <2>6. /\ UNCHANGED <<step, ses, hidden, outcome>> /\ UNCHANGED walkVars
        /\ BaseWhole' => BaseWhole
    BY DEF StoreStep, BaseWhole
  <2>7. \A p \in Paths \ touched' :
           upper'[ses][p] = upper[ses][p] /\ (p \in deleted'[ses] <=> p \in deleted[ses])
    BY <2>5
  <2> QED BY <2>4, <2>5, <2>6, <2>7, SearchKept
<1> QED BY <1>1, <1>2

LEMMA SearchGcStep ==
    ASSUME SInv, \/ \E s \in Sids : CreateLease(s) \/ CreateDropped(s)
                 \/ SetSnapshot \/ GcStep \/ UNCHANGED allVars
    PROVE  SearchOK'
<1>1. /\ UNCHANGED <<step, ses, hidden, outcome, touched, upper, deleted, live, pc, sid>>
      /\ UNCHANGED walkVars
  BY DEF CreateLease, CreateDropped, SetSnapshot, GcStep, GcScan, GcCapture, GcRemoveSome,
         allVars, storeVars, searchVars, viewVars, vars, diskVars, metaVars, callVars
<1>2. Leaving(ses)' <=> Leaving(ses)
  BY <1>1 DEF Leaving
<1>3. BaseWhole' => BaseWhole
  BY BaseStaysLost DEF SNext
<1> QED BY <1>1, <1>2, <1>3, SearchKept DEF SInv

\* What a step of the search leaves alone.
LEMMA StoreAlone ==
    ASSUME UNCHANGED storeVars, UNCHANGED gcStepVars
    PROVE  UNCHANGED <<upper, deleted, live, pc, sid, disk, gc, born>>
BY DEF storeVars, vars, diskVars, metaVars, callVars, gcStepVars

LEMMA SearchOpenStep ==
    ASSUME SInv, \/ \E s \in Sids : SearchBegin(s)
                 \/ SearchTouch \/ SearchNotFound \/ SearchReturn
    PROVE  SearchOK'
<1>1. CASE SearchNotFound
  <2>1. Leaving(ses)'
    BY <1>1, StoreAlone DEF SearchNotFound, viewVars, Leaving
  <2> QED BY <2>1 DEF SearchOK
<1> QED BY <1>1 DEF SearchBegin, SearchTouch, SearchReturn, SearchOK, Listing, Walking

LEMMA SearchListStep ==
    ASSUME SInv, SearchOpen \/ ListBase \/ ListUpper \/ ListFails
    PROVE  SearchOK'
<1>1. /\ UNCHANGED <<upper, deleted, live, pc, sid, disk, gc, ses>>
      /\ \/ step = "opening"
         \/ step \in Listing /\ UNCHANGED <<hidden, touched>>
  BY StoreAlone DEF SearchOpen, ListBase, ListUpper, ListFails, viewVars, Listing
<1> SUFFICES ASSUME ~ Leaving(ses) PROVE SearchOK'
  BY <1>1 DEF SearchOK, Leaving
<1>2. BaseWhole' <=> BaseWhole
  BY <1>1 DEF BaseWhole
<1>3. step \in Listing => \A p \in Paths \ touched : p \in hidden <=> p \in deleted[ses]
  BY DEF SInv, SearchOK, Listing
<1>4. CASE SearchOpen
  BY <1>1, <1>4 DEF SearchOpen, SearchOK, Listing, Walking
<1>5. CASE ListBase
  <2>1. step' = "listing_upper" /\ (BaseWhole => candidates' = BasePaths \ hidden)
    BY <1>5 DEF ListBase, SInv, SearchTypeOK
  <2> QED BY <1>1, <1>2, <1>3, <1>5, <2>1 DEF ListBase, SearchOK, Listing, Walking
<1>6. CASE ListUpper
  <2>1. step' = "walking" /\ found' = {} /\ UNCHANGED <<hidden, touched>>
    BY <1>6 DEF ListUpper, viewVars, SInv, SearchTypeOK
  <2>2. (BaseWhole => candidates = BasePaths \ hidden)
        /\ candidates' = candidates \cup {p \in Paths : upper[ses][p] # None}
        /\ \A p \in Paths \ touched : p \in hidden <=> p \in deleted[ses]
    BY <1>3, <1>6 DEF SInv, SearchOK, ListUpper, Listing
  <2>3. \A p \in Paths \ touched : IsMatch(Shown(p)) => p \in candidates' \/ Lost(p)
    BY <2>2 DEF IsMatch, Shown, View, Base, Lost
  <2>4. \A p : Shown(p)' = Shown(p) /\ (Lost(p)' <=> Lost(p))
    BY <1>1, <1>2 DEF Shown, View, Base, Lost
  <2>5. Ahead' = candidates'
    BY <2>1 DEF Ahead
  <2> HIDE DEF Shown, Lost
  <2> QED BY <1>1, <2>1, <2>2, <2>3, <2>4, <2>5 DEF SearchOK, Listing, Walking
<1>7. CASE ListFails
  <2>1. ~ BaseWhole /\ step' = "ended" /\ outcome' = "error"
    BY <1>7 DEF ListFails, BaseWhole, End
  <2> QED BY <1>2, <2>1 DEF SearchOK, Listing, Walking
<1> QED BY <1>4, <1>5, <1>6, <1>7

\* In the walk, each step settles one file.
LEMMA SearchWalkStep ==
    ASSUME SInv, \/ \E p \in Paths : Resolve(p)
                 \/ ResolveAgain \/ ReadFile \/ WalkEnds
    PROVE  SearchOK'
<1>1. /\ UNCHANGED <<upper, deleted, live, pc, sid, disk, gc, ses, hidden, touched>>
      /\ step \in Walking /\ step # "idle"
  BY StoreAlone DEF Resolve, ResolveAgain, ReadFile, WalkEnds, viewVars, Walking
<1> SUFFICES ASSUME ~ Leaving(ses) PROVE SearchOK'
  BY <1>1 DEF SearchOK, Leaving
<1>2. BaseWhole' <=> BaseWhole
  BY <1>1 DEF BaseWhole
<1>3. \A p : Shown(p)' = Shown(p) /\ ShownIn(p)' = ShownIn(p) /\ (Lost(p)' <=> Lost(p))
  BY <1>1, <1>2 DEF Shown, View, Base, ShownIn, Lost
<1>4. \A p \in Paths \ touched : p \in hidden <=> p \in deleted[ses]
  BY <1>1 DEF SInv, SearchOK, Walking
<1>5. \A p \in Paths \ touched : p \in found => IsMatch(Shown(p))
  BY <1>1 DEF SInv, SearchOK
<1>6. \A p \in Paths \ touched : IsMatch(Shown(p)) => p \in found \cup Ahead \/ Lost(p)
  BY <1>1 DEF SInv, SearchOK
<1>7. \A p \in Paths \ touched :
         /\ ShownIn(p) = None <=> Shown(p) = None
         /\ ShownIn(p) = "upper" => Shown(p) = upper[ses][p]
         /\ ShownIn(p) = "base" => Shown(p) = {} /\ (~ BaseWhole => Lost(p))
         /\ ShownIn(p) \in {"upper", "base", None}
         /\ Layer(p) = ShownIn(p) \/ (Layer(p) = None /\ Lost(p))
  BY <1>4, ShownLayer DEF SInv
<1>8. candidates \subseteq Paths /\ (step # "walking" => file \in Paths /\ file \notin candidates)
  BY <1>1 DEF SInv, SearchTypeOK, SearchOK, Walking
<1>9. ~ IsMatch(None)
  BY DEF IsMatch
<1>a. \A p : Lost(p) => ~ BaseWhole
  BY DEF Lost
<1> HIDE DEF Shown, ShownIn, Lost
<1>10. ASSUME NEW p \in Paths, Resolve(p) PROVE SearchOK'
  <2>1. /\ step = "walking" /\ p \in candidates /\ candidates' = candidates \ {p}
        /\ found' = found
        /\ \/ Layer(p) = None /\ step' = "walking"
           \/ Layer(p) # None /\ step' = "resolved" /\ file' = p
    BY <1>10 DEF Resolve
  <2>2. \A q \in Paths \ touched : IsMatch(Shown(q)) => q \in found \cup Ahead' \/ Lost(q)
    <3> SUFFICES ASSUME NEW q \in Paths \ touched, IsMatch(Shown(q)), ~ Lost(q)
                 PROVE  q \in found \cup Ahead'
      OBVIOUS
    <3>1. q \in found \cup candidates /\ Layer(q) # None
      BY <1>6, <1>7, <1>9, <2>1 DEF Ahead
    <3> QED BY <2>1, <3>1 DEF Ahead
  <2>3. step' = "resolved" /\ p \notin touched => ShownIn(p) # None
    BY <1>7, <2>1
  <2> QED BY <1>1, <1>3, <1>4, <1>5, <2>1, <2>2, <2>3 DEF SearchOK, Listing, Walking
<1>11. CASE ResolveAgain
  <2>1. step = "resolved" /\ layer' = Layer(file)
        /\ UNCHANGED <<candidates, file, found>>
        /\ \/ Layer(file) = None /\ step' = "ended" /\ outcome' = "error"
           \/ Layer(file) # None /\ step' = "reading"
    BY <1>11 DEF ResolveAgain, End
  <2>2. /\ file \in touched \/ ShownIn(file) # None
        /\ file \in Paths
    BY <1>8, <2>1 DEF SInv, SearchOK, Walking
  <2>3. CASE step' = "ended"
    <3>1. touched # {} \/ ~ BaseWhole
      BY <1>7, <1>a, <2>1, <2>2, <2>3
    <3> QED BY <1>1, <1>2, <2>1, <2>3, <3>1 DEF SearchOK, Listing, Walking
  <2>4. CASE step' = "reading"
    <3>1. Ahead' = Ahead
      BY <2>1, <2>4 DEF Ahead
    <3>2. file \notin touched => layer' = ShownIn(file)
      BY <1>7, <2>1, <2>2, <2>4
    <3> QED BY <1>1, <1>3, <1>4, <1>5, <1>6, <1>8, <2>1, <2>2, <2>4, <3>1, <3>2
            DEF SearchOK, Listing, Walking
  <2> QED BY <2>1, <2>3, <2>4
<1>12. CASE ReadFile
  <2> DEFINE content == IF layer = "upper" THEN upper[ses][file]
                        ELSE IF file \in disk THEN {} ELSE None
  <2>1. /\ step = "reading" /\ UNCHANGED <<candidates, file, layer>>
        /\ found' = IF IsMatch(content) THEN found \cup {file} ELSE found
        /\ \/ content = None /\ step' = "ended" /\ outcome' = "error"
           \/ content # None /\ step' = "walking"
    BY <1>12 DEF ReadFile, End
  <2>2. file \in Paths /\ file \notin candidates
    BY <1>8, <2>1
  <2>3. \/ file \in touched
        \/ content = Shown(file) /\ content # None
        \/ content = None /\ Lost(file)
    <3>1. file \in touched \/ (layer = ShownIn(file) /\ ShownIn(file) # None)
      BY <2>1 DEF SInv, SearchOK, Walking
    <3>2. BaseWhole => disk = BasePaths
      BY DEF SInv, SearchTypeOK
    <3>3. ShownIn(file) = "base" => file \in BasePaths
      BY LayersAreNotNone DEF ShownIn
    <3> QED BY <1>7, <2>2, <3>1, <3>2, <3>3, LayersAreNotNone
  <2> HIDE DEF content
  <2>4. CASE step' = "ended"
    <3>1. touched # {} \/ ~ BaseWhole
      BY <1>a, <2>1, <2>3, <2>4
    <3> QED BY <1>1, <1>2, <2>1, <2>4, <3>1 DEF SearchOK, Listing, Walking
  <2>5. CASE step' = "walking"
    <3>1. \A p \in Paths \ touched : p \in found' => IsMatch(Shown(p))
      BY <1>5, <1>9, <2>1, <2>3
    <3>2. Ahead = candidates \cup {file} /\ Ahead' = candidates
      BY <2>1, <2>5 DEF Ahead
    <3>3. \A p \in Paths \ touched : IsMatch(Shown(p)) => p \in found' \cup Ahead' \/ Lost(p)
      BY <1>6, <2>1, <2>3, <3>2
    <3> QED BY <1>1, <1>3, <1>4, <2>5, <3>1, <3>3 DEF SearchOK, Listing, Walking
  <2> QED BY <2>1, <2>4, <2>5
<1>13. CASE WalkEnds
  <2>1. step = "walking" /\ candidates = {} /\ found' = found /\ step' = "ended"
        /\ outcome' = "ok"
    BY <1>13 DEF WalkEnds, End, walkVars
  <2>2. Ahead = {}
    BY <2>1 DEF Ahead
  <2> QED BY <1>1, <1>3, <1>5, <1>6, <2>1, <2>2 DEF SearchOK, Listing, Walking
<1> QED BY <1>10, <1>11, <1>12, <1>13

LEMMA NextSInv == SInv /\ [SNext]_allVars => SInv'
<1> SUFFICES ASSUME SInv, [SNext]_allVars PROVE SInv'
  OBVIOUS
<1>1. IInv' /\ SearchTypeOK'
  BY SIInvStep, SearchTypeStep DEF SInv
<1>2. SearchOK'
  BY SearchStoreStep, SearchGcStep, SearchOpenStep, SearchListStep, SearchWalkStep
     DEF SNext, SearchStep
<1> QED BY <1>1, <1>2 DEF SInv

\* What the search and the collector know of the session holds in every reachable
\* state.
THEOREM SearchInvariance == SSpec => []SInv
BY SInitSInv, NextSInv, PTL DEF SSpec

\* A search answers rightly for every file that nobody changed while it ran, and
\* fails only if a file changed or the session went; of a base that is being taken
\* it may miss files, and nothing else.
THEOREM UntouchedAnswered == SSpec => []UntouchedFilesAnswered
<1>1. SInv => UntouchedFilesAnswered
  <2> SUFFICES ASSUME SInv, outcome # None, ~ Leaving(ses) PROVE UntouchedFilesAnswered
    BY DEF UntouchedFilesAnswered
  <2>1. step = "ended"
    BY DEF SInv, SearchTypeOK
  <2> QED BY <2>1 DEF SInv, SearchOK, Shown, Lost, UntouchedFilesAnswered
<1> QED BY <1>1, SearchInvariance, PTL

=============================================================================
