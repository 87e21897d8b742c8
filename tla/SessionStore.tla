---------------------------- MODULE SessionStore ----------------------------
(***************************************************************************)
(* The disk-backed copy-on-write session store.                            *)
(*                                                                         *)
(* A session is a metadata file (whiteouts, last access) and an upper      *)
(* directory over a read-only base.  Every mutation holds the store's      *)
(* write lock across several file-system calls; reads take no lock, and a  *)
(* crash can fall between any two calls.  Each call that names a session   *)
(* first loads it and then touches it (Services::authorize), so the        *)
(* session can be gone by the time the call takes the lock.                *)
(***************************************************************************)
EXTENDS Naturals, FiniteSets

CONSTANTS
    Sids,       \* session ids
    Paths,      \* logical paths
    BasePaths,  \* those that exist in the base tree
    Editors,    \* requests that write, edit, delete a file or a session
    Readers,    \* requests that read a file through the overlay view
    Reaper,     \* the scheduler's reaper job
    Written,    \* the mark of a full write (an edit's mark is its task)
    Torn,       \* the mark of a file between truncation and the last byte
    None,       \* absent
    Ttl,        \* idle time, in ticks, a session survives
    MaxFaults   \* bound on crashes and failed file-system calls

Requests == Editors \cup Readers
Tasks == Requests \cup {Reaper}
Marks == Editors \cup {Written, Torn}

ASSUME SomePathsInBase == BasePaths \subseteq Paths
ASSUME DistinctValues ==
    /\ None \notin Tasks \cup Paths \cup Sids /\ \A f \in SUBSET Marks : f # None
    /\ Reaper \notin Requests /\ Editors \cap Readers = {}
    /\ Torn # Written /\ {Torn, Written} \cap Editors = {}
ASSUME Bounds == Ttl \in Nat /\ MaxFaults \in Nat

VARIABLES
    dirs, live,     \* sessions that have a directory; a meta.json
    born,           \* ids ever used
    deleted, age,   \* meta.json: whiteouts; ticks since last_accessed
    upper,          \* the upper directory
    lock,           \* holder of write_lock
    pc, kind, sid, path,    \* per task: step, and the call's arguments
    rec,            \* per task: whiteouts loaded, or to be stored
    new,            \* per task: content to be written, or read
    todo,           \* the reaper's expired sessions still to remove
    faults

metaVars == <<dirs, live, born, deleted, age>>
diskVars == <<metaVars, upper>>
callVars == <<kind, sid, path>>
vars == <<diskVars, lock, pc, callVars, rec, new, todo, faults>>

Base(p) == IF p \in BasePaths THEN {} ELSE None

\* OverlayFileView::resolve + read, over a given set of whiteouts.
View(s, p, whiteouts) ==
    IF p \in whiteouts THEN None
    ELSE IF upper[s][p] # None THEN upper[s][p] ELSE Base(p)

\* current_overlay_bytes, which edit_file works from.
Current(s, p) ==
    IF upper[s][p] # None THEN upper[s][p]
    ELSE IF p \in deleted[s] THEN None ELSE Base(p)

\* OverlayFileView::list_files.
Listed(s) == (BasePaths \ deleted[s]) \cup {p \in Paths : upper[s][p] # None}

\* Mutant: a write of the base's own bytes is a change.
StatusEveryWrite(s) ==
    {<<p, IF Base(p) = None THEN "added" ELSE "modified">> :
        p \in {q \in Paths : upper[s][q] # None}}
    \cup {<<p, "deleted">> : p \in deleted[s] \cap BasePaths}

\* compute_status: byte-equal writes and whiteouts of nothing are skipped.
Status(s) ==
    {<<p, IF Base(p) = None THEN "added" ELSE "modified">> :
        p \in {q \in Paths : upper[s][q] # None /\ upper[s][q] # Base(q)}}
    \cup {<<p, "deleted">> : p \in deleted[s] \cap BasePaths}

Goto(t, l) == pc' = [pc EXCEPT ![t] = l]

\* The call returns; the guard of the write lock it may hold is dropped.
Return(t) ==
    /\ Goto(t, "idle")
    /\ lock' = IF lock = t THEN None ELSE lock
    /\ kind' = [kind EXCEPT ![t] = None]
    /\ sid' = [sid EXCEPT ![t] = None]
    /\ path' = [path EXCEPT ![t] = None]
    /\ rec' = [rec EXCEPT ![t] = {}]
    /\ new' = [new EXCEPT ![t] = None]

Locks(t, l) == lock = None /\ lock' = t /\ Goto(t, l)

\* No metadata: the session's values on disk are those of a new one.
Forget(s) ==
    /\ live' = live \ {s}
    /\ deleted' = [deleted EXCEPT ![s] = {}]
    /\ age' = [age EXCEPT ![s] = 0]

-----------------------------------------------------------------------------
(* Calls begin: create, or authorize = get, then touch.                    *)

\* Nobody knows the id before create returns, so its two writes are one step.
Create(s) ==
    /\ lock = None /\ s \notin born
    /\ dirs' = dirs \cup {s} /\ live' = live \cup {s} /\ born' = born \cup {s}
    /\ UNCHANGED <<deleted, age, upper, lock, pc, callVars, rec, new, todo, faults>>

\* A crash or an error after create_dir_all: a directory without metadata.
CreateFails(s) ==
    /\ lock = None /\ s \notin born /\ faults < MaxFaults
    /\ dirs' = dirs \cup {s} /\ born' = born \cup {s} /\ faults' = faults + 1
    /\ UNCHANGED <<live, deleted, age, upper, lock, pc, callVars, rec, new, todo>>

Authorize(t, k, s, p) ==
    /\ pc[t] = "idle" /\ s \in live
    /\ kind' = [kind EXCEPT ![t] = k]
    /\ sid' = [sid EXCEPT ![t] = s]
    /\ path' = [path EXCEPT ![t] = p]
    /\ Goto(t, "touching")
    /\ UNCHANGED <<diskVars, lock, rec, new, todo, faults>>

\* Mutant: the record touched is the one loaded before the lock was taken.
TouchLoadedBefore(t) ==
    /\ pc[t] = "touching" /\ lock = None
    /\ age' = [age EXCEPT ![sid[t]] = 0]
    /\ live' = live \cup {sid[t]} /\ dirs' = dirs \cup {sid[t]}
    /\ Goto(t, IF t \in Readers THEN "opening" ELSE "waiting")
    /\ UNCHANGED <<born, deleted, upper, lock, callVars, rec, new, todo, faults>>

\* The outcome of touch is ignored, a store that fails with it; the call goes on
\* to the store either way.
Touch(t) ==
    /\ pc[t] = "touching" /\ lock = None
    /\ \/ age' = [age EXCEPT ![sid[t]] = 0] /\ UNCHANGED faults
       \/ faults < MaxFaults /\ faults' = faults + 1 /\ UNCHANGED age
    /\ Goto(t, IF t \in Readers THEN "opening" ELSE "waiting")
    /\ UNCHANGED <<dirs, live, born, deleted, upper, lock, callVars, rec, new, todo>>

-----------------------------------------------------------------------------
(* Mutations, under the write lock: load_record, the files, store_record.  *)

\* What the call looks for first: the metadata, or (delete) the directory.
Found(t) == sid[t] \in IF kind[t] = "delete" THEN dirs ELSE live
Ready(t, k) == pc[t] = "waiting" /\ kind[t] = k /\ Found(t)

\* Mutant: a call that finds nothing is tried again.
NotFoundRetried(t) ==
    /\ \/ pc[t] = "waiting" /\ lock = None
       \/ pc[t] = "opening"
    /\ ~Found(t)
    /\ Goto(t, "touching")
    /\ UNCHANGED <<diskVars, lock, callVars, rec, new, todo, faults>>

NotFound(t) ==
    /\ \/ pc[t] = "waiting" /\ lock = None
       \/ pc[t] = "opening"
    /\ ~Found(t)
    /\ Return(t)
    /\ UNCHANGED <<diskVars, todo, faults>>

\* The upper file is opened for writing: its old content is gone.
Truncate(t) == upper' = [upper EXCEPT ![sid[t]][path[t]] = {Torn}]

WriteBegin(t) ==
    /\ Ready(t, "write_file")
    /\ Locks(t, "filling")
    /\ Truncate(t)
    /\ rec' = [rec EXCEPT ![t] = deleted[sid[t]] \ {path[t]}]
    /\ \E f \in {{}, {Written}} : new' = [new EXCEPT ![t] = f]
    /\ UNCHANGED <<metaVars, callVars, todo, faults>>

\* What an edit makes of the current content; a partial text stays partial.
Edited(f, t) == IF f = None THEN {t} ELSE f \cup {t}

\* Mutant: the content is read through a view opened before the lock was taken,
\* here the base.
EditBeginStale(t) ==
    /\ Ready(t, "edit_file")
    /\ Locks(t, "filling")
    /\ Truncate(t)
    /\ rec' = [rec EXCEPT ![t] = deleted[sid[t]] \ {path[t]}]
    /\ new' = [new EXCEPT ![t] = Edited(Base(path[t]), t)]
    /\ UNCHANGED <<metaVars, callVars, todo, faults>>

EditBegin(t) ==
    /\ Ready(t, "edit_file")
    /\ Locks(t, "filling")
    /\ Truncate(t)
    /\ rec' = [rec EXCEPT ![t] = deleted[sid[t]] \ {path[t]}]
    /\ new' = [new EXCEPT ![t] = Edited(Current(sid[t], path[t]), t)]
    /\ UNCHANGED <<metaVars, callVars, todo, faults>>

\* The edit does not apply: Conflict or InvalidInput, nothing touched.
EditFails(t) ==
    /\ Ready(t, "edit_file") /\ lock = None
    /\ Return(t)
    /\ UNCHANGED <<diskVars, todo, faults>>

Fill(t) ==
    /\ pc[t] = "filling"
    /\ upper' = [upper EXCEPT ![sid[t]][path[t]] = new[t]]
    /\ Goto(t, "storing")
    /\ UNCHANGED <<metaVars, lock, callVars, rec, new, todo, faults>>

\* remove_file, then a whiteout if the base has the path.
DeleteFileBegin(t) ==
    /\ Ready(t, "delete_file")
    /\ upper[sid[t]][path[t]] # None \/ path[t] \in BasePaths
    /\ Locks(t, "storing")
    /\ upper' = [upper EXCEPT ![sid[t]][path[t]] = None]
    /\ rec' = [rec EXCEPT ![t] = deleted[sid[t]] \cup ({path[t]} \cap BasePaths)]
    /\ UNCHANGED <<metaVars, callVars, new, todo, faults>>

DeleteFileNotFound(t) ==
    /\ Ready(t, "delete_file") /\ lock = None
    /\ upper[sid[t]][path[t]] = None /\ path[t] \notin BasePaths
    /\ Return(t)
    /\ UNCHANGED <<diskVars, todo, faults>>

\* Mutant: a write leaves the whiteout of its path in place.
StoreWhiteout(t) ==
    /\ pc[t] = "storing"
    /\ dirs' = dirs \cup {sid[t]} /\ live' = live \cup {sid[t]}
    /\ deleted' = [deleted EXCEPT ![sid[t]] = @ \cup rec[t]]
    /\ age' = [age EXCEPT ![sid[t]] = 0]
    /\ Return(t)
    /\ UNCHANGED <<born, upper, todo, faults>>

\* Directory and metadata are made whether or not they were there.
Store(t) ==
    /\ pc[t] = "storing"
    /\ dirs' = dirs \cup {sid[t]} /\ live' = live \cup {sid[t]}
    /\ deleted' = [deleted EXCEPT ![sid[t]] = rec[t]]
    /\ age' = [age EXCEPT ![sid[t]] = 0]
    /\ Return(t)
    /\ UNCHANGED <<born, upper, todo, faults>>

\* remove_dir_all deletes the metadata and the files in the directory's order.
RemoveSome(s) ==
    /\ \/ Forget(s)
       \/ UNCHANGED <<live, deleted, age>>
    /\ \E gone \in SUBSET Paths :
          upper' = [upper EXCEPT ![s] =
                       [p \in Paths |-> IF p \in gone THEN None ELSE upper[s][p]]]

DeleteBegin(t) ==
    /\ Ready(t, "delete")
    /\ Locks(t, "removing")
    /\ RemoveSome(sid[t])
    /\ UNCHANGED <<dirs, born, callVars, rec, new, todo, faults>>

RemoveAll(s) ==
    /\ Forget(s) /\ dirs' = dirs \ {s}
    /\ upper' = [upper EXCEPT ![s] = [p \in Paths |-> None]]

DeleteEnd(t) ==
    /\ pc[t] = "removing" /\ t # Reaper
    /\ RemoveAll(sid[t])
    /\ Return(t)
    /\ UNCHANGED <<born, todo, faults>>

-----------------------------------------------------------------------------
(* reap_expired: one pass under the write lock.                            *)

\* Mutant: the sessions are only listed under the lock.
ReapBeginUnlocked ==
    /\ pc[Reaper] = "idle" /\ Goto(Reaper, "reaping") /\ UNCHANGED lock
    /\ todo' = {s \in live : age[s] > Ttl}
    /\ UNCHANGED <<diskVars, callVars, rec, new, faults>>

\* Mutant: a directory without metadata ends the pass.
ReapBeginStrict ==
    /\ pc[Reaper] = "idle" /\ Locks(Reaper, "reaping")
    /\ todo' = {s \in live : age[s] > Ttl /\ dirs = live}
    /\ UNCHANGED <<diskVars, callVars, rec, new, faults>>

\* `now` is read once: the sessions expired by then are those removed.
ReapBegin ==
    /\ pc[Reaper] = "idle" /\ Locks(Reaper, "reaping")
    /\ todo' = {s \in live : age[s] > Ttl}
    /\ UNCHANGED <<diskVars, callVars, rec, new, faults>>

ReapRemoveBegin(s) ==
    /\ pc[Reaper] = "reaping" /\ s \in todo
    /\ RemoveSome(s)
    /\ todo' = todo \ {s}
    /\ sid' = [sid EXCEPT ![Reaper] = s]
    /\ Goto(Reaper, "removing")
    /\ UNCHANGED <<dirs, born, lock, kind, path, rec, new, faults>>

ReapRemoveEnd ==
    /\ pc[Reaper] = "removing"
    /\ RemoveAll(sid[Reaper])
    /\ sid' = [sid EXCEPT ![Reaper] = None]
    /\ Goto(Reaper, "reaping")
    /\ UNCHANGED <<born, lock, kind, path, rec, new, todo, faults>>

ReapEnd ==
    /\ pc[Reaper] = "reaping" /\ todo = {}
    /\ Return(Reaper)
    /\ UNCHANGED <<diskVars, todo, faults>>

-----------------------------------------------------------------------------
(* read_session_file: no lock.                                             *)

\* Mutant: the view is given no whiteouts.
ViewOpenBare(t) ==
    /\ pc[t] = "opening" /\ sid[t] \in live
    /\ rec' = [rec EXCEPT ![t] = {}]
    /\ Goto(t, "resolving")
    /\ UNCHANGED <<diskVars, lock, callVars, new, todo, faults>>

\* The view keeps its own copy of the whiteouts.
ViewOpen(t) ==
    /\ pc[t] = "opening" /\ sid[t] \in live
    /\ rec' = [rec EXCEPT ![t] = deleted[sid[t]]]
    /\ Goto(t, "resolving")
    /\ UNCHANGED <<diskVars, lock, callVars, new, todo, faults>>

\* resolve: an upper file is only found here, and read in a later call.
ReadResolve(t) ==
    /\ pc[t] = "resolving"
    /\ LET inUpper == path[t] \notin rec[t] /\ upper[sid[t]][path[t]] # None
       IN  /\ new' = [new EXCEPT ![t] =
                         IF inUpper THEN None ELSE View(sid[t], path[t], rec[t])]
           /\ Goto(t, IF inUpper THEN "reading" ELSE "done")
    /\ UNCHANGED <<diskVars, lock, callVars, rec, todo, faults>>

\* The file may have been removed meanwhile, which reads as an error.
ReadUpper(t) ==
    /\ pc[t] = "reading"
    /\ new' = [new EXCEPT ![t] = upper[sid[t]][path[t]]]
    /\ Goto(t, "done")
    /\ UNCHANGED <<diskVars, lock, callVars, rec, todo, faults>>

ReadEnd(t) ==
    /\ pc[t] = "done"
    /\ Return(t)
    /\ UNCHANGED <<diskVars, todo, faults>>

-----------------------------------------------------------------------------
(* Time, failures, restart.                                                *)

Tick ==
    /\ \E s \in live : age[s] <= Ttl
    /\ age' = [s \in Sids |-> IF s \in live /\ age[s] <= Ttl THEN age[s] + 1 ELSE age[s]]
    /\ UNCHANGED <<dirs, live, born, deleted, upper, lock, pc, callVars, rec, new, todo, faults>>

\* A file-system call of a mutation or of a removal fails: `?` returns, and what
\* was done stays done.
CallFails(t) ==
    /\ faults < MaxFaults /\ lock = t
    /\ pc[t] \in {"filling", "storing", "removing"}
    /\ faults' = faults + 1
    /\ todo' = {}
    /\ Return(t)
    /\ UNCHANGED diskVars

NoCalls == [t \in Tasks |-> None]

Restart ==
    /\ faults < MaxFaults
    /\ faults' = faults + 1
    /\ lock' = None
    /\ pc' = [t \in Tasks |-> "idle"]
    /\ kind' = NoCalls /\ sid' = NoCalls /\ path' = NoCalls /\ new' = NoCalls
    /\ rec' = [t \in Tasks |-> {}]
    /\ todo' = {}
    /\ UNCHANGED diskVars

Init ==
    /\ dirs = {} /\ live = {} /\ born = {}
    /\ deleted = [s \in Sids |-> {}]
    /\ age = [s \in Sids |-> 0]
    /\ upper = [s \in Sids |-> [p \in Paths |-> None]]
    /\ lock = None
    /\ pc = [t \in Tasks |-> "idle"]
    /\ kind = NoCalls /\ sid = NoCalls /\ path = NoCalls /\ new = NoCalls
    /\ rec = [t \in Tasks |-> {}]
    /\ todo = {}
    /\ faults = 0

EditorStep(t) ==
    \/ WriteBegin(t) \/ EditBegin(t) \/ EditFails(t) \/ Fill(t)
    \/ DeleteFileBegin(t) \/ DeleteFileNotFound(t) \/ Store(t)
    \/ DeleteBegin(t) \/ DeleteEnd(t)

ReaderStep(t) == ViewOpen(t) \/ ReadResolve(t) \/ ReadUpper(t) \/ ReadEnd(t)

ReaperStep ==
    \/ ReapBegin
    \/ \E s \in Sids : ReapRemoveBegin(s)
    \/ ReapRemoveEnd \/ ReapEnd

Begin(t) ==
    \E s \in Sids, p \in Paths :
        IF t \in Readers THEN Authorize(t, "read", s, p)
        ELSE \E k \in {"write_file", "edit_file", "delete_file", "delete"} :
                Authorize(t, k, s, p)

Next ==
    \/ \E s \in Sids : Create(s) \/ CreateFails(s)
    \/ \E t \in Requests : Begin(t) \/ Touch(t) \/ NotFound(t)
    \/ \E t \in Editors : EditorStep(t)
    \/ \E t \in Readers : ReaderStep(t)
    \/ ReaperStep
    \/ Tick
    \/ \E t \in Tasks : CallFails(t)
    \/ Restart

Spec == Init /\ [][Next]_vars

\* A call under way runs on; tokio's mutex is fair, and the job comes round again.
Fairness ==
    /\ \A t \in Editors :
          /\ WF_vars(Fill(t) \/ Store(t) \/ DeleteEnd(t))
          /\ SF_vars(Touch(t))
          /\ SF_vars(NotFound(t) \/ EditorStep(t))
    /\ \A t \in Readers : SF_vars(Touch(t)) /\ WF_vars(NotFound(t) \/ ReaderStep(t))
    /\ SF_vars(ReapBegin)
    /\ WF_vars(ReaperStep /\ lock = Reaper)

FairSpec == Spec /\ Fairness

-----------------------------------------------------------------------------
(* Properties.                                                             *)

\* Each variable has its type.
TypeOK ==
    /\ live \subseteq dirs /\ dirs \subseteq born /\ born \subseteq Sids
    /\ deleted \in [Sids -> SUBSET BasePaths]
    /\ age \in [Sids -> 0..(Ttl + 1)]
    /\ \A s \in Sids, p \in Paths : upper[s][p] = None \/ upper[s][p] \subseteq Marks
    /\ lock \in Tasks \cup {None}
    /\ pc \in [Tasks -> {"idle", "touching", "waiting", "filling", "storing", "removing",
                         "reaping", "opening", "resolving", "reading", "done"}]
    /\ kind \in [Tasks -> {"read", "write_file", "edit_file", "delete_file", "delete", None}]
    /\ sid \in [Tasks -> Sids \cup {None}]
    /\ path \in [Tasks -> Paths \cup {None}]
    /\ rec \in [Tasks -> SUBSET BasePaths]
    /\ \A t \in Tasks : new[t] = None \/ new[t] \subseteq Marks
    /\ todo \subseteq Sids
    /\ faults \in 0..MaxFaults

\* Between mutations, what edit_file starts from, what the overlay view reads and
\* what it lists are the same files: the two resolution orders (upper first,
\* whiteout first) cannot be told apart.
ResolversAgree ==
    lock = None =>
        \A s \in live, p \in Paths :
            /\ Current(s, p) = View(s, p, deleted[s])
            /\ p \in Listed(s) <=> View(s, p, deleted[s]) # None

\* Between mutations, status has one entry for each path whose visible content
\* differs from the base, of the right kind, and no other.
StatusExact ==
    lock = None =>
        \A s \in live :
            Status(s) = {<<p, CASE Base(p) = None -> "added"
                                [] View(s, p, deleted[s]) = None -> "deleted"
                                [] OTHER -> "modified">> :
                            p \in {q \in Paths : View(s, q, deleted[s]) # Base(q)}}

\* A session that was deleted or reaped never comes back, although the requests
\* that named it are still touching it, waiting for the lock, or storing.
NoResurrection == [][\A s \in born : s \notin live => s \notin live']_vars

\* The reaper removes no session that was used within its time to live, even
\* one touched while the reaper was running.
ReapsOnlyIdle == [][ReaperStep => \A s \in live \ live' : age[s] > Ttl]_vars

\* A session that outlived its time to live is removed or used again.
ExpiredReaped ==
    \A s \in Sids : (s \in live /\ age[s] > Ttl) ~> ~(s \in live /\ age[s] > Ttl)

\* A request that began returns: nobody waits for the write lock for ever.
RequestsReturn == \A t \in Requests : pc[t] # "idle" ~> pc[t] = "idle"

-----------------------------------------------------------------------------
(* Each session is a set of whole files, and each call is one step on one  *)
(* of them: it takes effect when it first touches the disk.                *)

Kept == live \ {sid[t] : t \in {u \in Tasks : pc[u] = "removing"}}

\* The content under way, or what the view shows.
Settled(s, p) ==
    IF \E t \in Editors : pc[t] \in {"filling", "storing"} /\ sid[t] = s /\ path[t] = p
    THEN new[lock]
    ELSE View(s, p, deleted[s])

Bar == [s \in Sids |-> [p \in Paths |-> IF s \in Kept THEN Settled(s, p) ELSE None]]

Abstract == INSTANCE WholeFiles WITH alive <- Kept, file <- Bar

\* Without crashes, the store's reads-modify-writes, whiteouts and removals
\* appear to every session as whole-file steps, in an order of all the calls.
ImplementsWholeFiles == Abstract!Spec

=============================================================================
