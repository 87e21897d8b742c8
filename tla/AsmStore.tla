------------------------------ MODULE AsmStore ------------------------------
(***************************************************************************)
(* The in-memory assembly-session store.                                   *)
(*                                                                         *)
(* A session is an entry of a map that refers to a shared state (phase,    *)
(* outcome, last access) and a directory holding the downloaded binary.    *)
(* The download runs as a task of its own and keeps the state alive after  *)
(* the entry is removed; calls and the reaper hold the map's lock only for *)
(* a lookup, never across a call of the file system.                       *)
(***************************************************************************)
EXTENDS Naturals, FiniteSets

CONSTANTS
    Ids,            \* session ids (fresh uuids: an id is used once)
    Creators,       \* requests that create a session
    Callers,        \* requests that query or delete one
    Reaper,         \* the scheduler's reaper job
    Undeletable,    \* ids whose file and directory the system may refuse to remove
    None,           \* absent
    MaxSessions,    \* policy.max_sessions
    MaxBytes,       \* policy.max_download_bytes, in chunks
    Ttl             \* idle time, in ticks, a session survives

Tasks == Creators \cup Callers \cup {Reaper}

ASSUME Distinct ==
    Reaper \notin Creators \cup Callers /\ Creators \cap Callers = {} /\ None \notin Ids
ASSUME UndeletableAreIds == Undeletable \subseteq Ids
ASSUME NoneIsNothing ==
    /\ None \notin 0 .. MaxBytes
    /\ None \notin {"ready", "failed"}
    /\ None \notin {"opening", "body", "validating", "cleaning", "failing", "settling", "done"}
ASSUME Limits == MaxSessions \in Nat \ {0} /\ MaxBytes \in Nat /\ Ttl \in Nat
ASSUME SomeCreators == IsFiniteSet(Creators) /\ Creators # {}

VARIABLES
    map,            \* ids with an entry in the map
    born,           \* ids drawn so far
    idle,           \* ticks since last_accessed
    phase, outcome, \* the state's atomic and its mutex
    got,            \* chunks downloaded
    dirs,           \* <download_dir>/<id> that exist
    file,           \* chunks in the file on disk, or None
    dl,             \* step of the session's download task
    pc, sid,        \* per task: step, and the session it is about
    todo            \* the reaper's expired sessions still to remove

callVars == <<pc, sid>>
stateVars == <<phase, outcome, got, dl>>
diskVars == <<dirs, file>>
vars == <<map, born, idle, stateVars, diskVars, callVars, todo>>

\* AsmSessionState::status.  A terminal phase without outcome reads as validating.
Status(id) ==
    IF phase[id] = "terminal" /\ outcome[id] = None THEN "validating"
    ELSE IF phase[id] = "terminal" THEN outcome[id] ELSE phase[id]

\* ready_bytes goes by the phase, metadata by the outcome.
Queryable(id) == phase[id] = "terminal" /\ outcome[id] = "ready"
Described(id) == outcome[id] = "ready"

\* remove_file, or remove_dir_all on the file: an error is ignored.
Unlink(id) ==
    \/ file' = [file EXCEPT ![id] = None]
    \/ id \in Undeletable /\ UNCHANGED file

Touch(id) == idle' = [idle EXCEPT ![id] = 0]
Goto(t, l) == pc' = [pc EXCEPT ![t] = l]
Return(t) == Goto(t, "idle") /\ sid' = [sid EXCEPT ![t] = None]

-----------------------------------------------------------------------------
(* create: the cap is checked under the read lock, the entry added later.  *)

\* Mutant: the cap is off by one.
CheckCapLoose(c) ==
    /\ pc[c] = "idle" /\ Cardinality(map) <= MaxSessions
    /\ Goto(c, "creating")
    /\ UNCHANGED <<map, born, idle, stateVars, diskVars, sid, todo>>

CheckCap(c) ==
    /\ pc[c] = "idle" /\ Cardinality(map) < MaxSessions
    /\ Goto(c, "creating")
    /\ UNCHANGED <<map, born, idle, stateVars, diskVars, sid, todo>>

\* An invalid url, a scheme or a host the policy refuses, a directory that fails.
CreateRefused(c) ==
    /\ pc[c] = "creating" /\ Return(c)
    /\ UNCHANGED <<map, born, idle, stateVars, diskVars, todo>>

MakeDir(c, id) ==
    /\ pc[c] = "creating" /\ id \notin born
    /\ born' = born \cup {id} /\ dirs' = dirs \cup {id}
    /\ sid' = [sid EXCEPT ![c] = id]
    /\ Goto(c, "inserting")
    /\ UNCHANGED <<map, idle, stateVars, file, todo>>

\* The client hangs up during create_dir_all: a directory that no session owns.
CreateDropped(c) ==
    /\ pc[c] = "inserting" /\ Return(c)
    /\ UNCHANGED <<map, born, idle, stateVars, diskVars, todo>>

Insert(c) ==
    /\ pc[c] = "inserting"
    /\ map' = map \cup {sid[c]}
    /\ dl' = [dl EXCEPT ![sid[c]] = "opening"]
    /\ Return(c)
    /\ UNCHANGED <<born, idle, phase, outcome, got, diskVars, todo>>

-----------------------------------------------------------------------------
(* Calls that name a session: authorize_asm gets and touches it, then the  *)
(* call looks it up again.  A session that goes in between is the caller's *)
(* NotFound and no more, so both lookups are one step.                     *)

\* get and metadata answer and return; a call that finds the session gone, a query
\* that finds it not ready, or a stranger who is refused, has touched it.
Look(c, id) ==
    /\ pc[c] = "idle" /\ id \in map
    /\ Touch(id)
    /\ UNCHANGED <<map, born, stateVars, diskVars, callVars, todo>>

\* Mutant: a download that is being validated is good enough.
QueryUnchecked(c, id) ==
    /\ pc[c] = "idle" /\ id \in map /\ phase[id] # "downloading"
    /\ Touch(id)
    /\ Goto(c, "reading") /\ sid' = [sid EXCEPT ![c] = id]
    /\ UNCHANGED <<map, born, stateVars, diskVars, todo>>

\* disassemble, resolve_function: a conflict unless the phase is ready.
Query(c, id) ==
    /\ pc[c] = "idle" /\ id \in map /\ Queryable(id)
    /\ Touch(id)
    /\ Goto(c, "reading") /\ sid' = [sid EXCEPT ![c] = id]
    /\ UNCHANGED <<map, born, stateVars, diskVars, todo>>

\* The read, on the blocking pool: the file, or the error that it is gone.
Read(c) ==
    /\ pc[c] = "reading" /\ Return(c)
    /\ UNCHANGED <<map, born, idle, stateVars, diskVars, todo>>

-----------------------------------------------------------------------------
(* delete and reap_expired: the entry goes, then remove_dir_all unlinks    *)
(* what it lists and removes the directory, which stays if it was given a  *)
(* file meanwhile.  What a download does between the entry's removal and   *)
(* the listing it could as well have done before, so these are one step.   *)

Remove(t, id) ==
    /\ map' = map \ {id}
    /\ idle' = [idle EXCEPT ![id] = 0]
    /\ Unlink(id)
    /\ sid' = [sid EXCEPT ![t] = id]
    /\ Goto(t, "removing")
    /\ UNCHANGED <<born, stateVars, dirs>>

Delete(c, id) == pc[c] = "idle" /\ id \in map /\ Remove(c, id) /\ UNCHANGED todo

\* Its failure is ignored.
RemoveDir(t) ==
    /\ pc[t] = "removing"
    /\ \/ file[sid[t]] = None /\ dirs' = dirs \ {sid[t]}
       \/ (file[sid[t]] # None \/ sid[t] \in Undeletable) /\ UNCHANGED dirs
    /\ Return(t)
    /\ UNCHANGED <<map, born, idle, stateVars, file, todo>>

\* Mutant: a session idle for exactly the limit is never expired.
ReapScanLate ==
    /\ pc[Reaper] = "idle" /\ todo = {}
    /\ todo' = {id \in map : idle[id] > Ttl + 1} /\ todo' # {}
    /\ UNCHANGED <<map, born, idle, stateVars, diskVars, callVars>>

ReapScan ==
    /\ pc[Reaper] = "idle" /\ todo = {}
    /\ todo' = {id \in map : idle[id] > Ttl} /\ todo' # {}
    /\ UNCHANGED <<map, born, idle, stateVars, diskVars, callVars>>

\* The next of the list, whatever has happened to it since the scan.
ReapNext(id) ==
    pc[Reaper] = "idle" /\ id \in todo /\ todo' = todo \ {id} /\ Remove(Reaper, id)

Tick ==
    /\ idle' = [id \in Ids |-> IF id \in map /\ idle[id] <= Ttl THEN idle[id] + 1
                               ELSE idle[id]]
    /\ UNCHANGED <<map, born, stateVars, diskVars, callVars, todo>>

-----------------------------------------------------------------------------
(* download_into and try_download.                                         *)

DlGoto(id, l) == dl' = [dl EXCEPT ![id] = l]

\* File::create: an i/o error when the directory was removed.
OpenFile(id) ==
    /\ dl[id] = "opening"
    /\ IF id \in dirs
       THEN file' = [file EXCEPT ![id] = 0] /\ DlGoto(id, "body")
       ELSE UNCHANGED file /\ DlGoto(id, "cleaning")
    /\ UNCHANGED <<map, born, idle, phase, outcome, got, dirs, callVars, todo>>

\* One chunk; one too many ends the download.  A removed file is written unseen.
Chunk(id) ==
    /\ dl[id] = "body"
    /\ IF got[id] < MaxBytes
       THEN /\ got' = [got EXCEPT ![id] = @ + 1]
            /\ file' = [file EXCEPT ![id] = IF @ = None THEN None ELSE @ + 1]
            /\ UNCHANGED dl
       ELSE DlGoto(id, "cleaning") /\ UNCHANGED <<got, file>>
    /\ UNCHANGED <<map, born, idle, phase, outcome, dirs, callVars, todo>>

Downloaded(id) ==
    /\ dl[id] = "body"
    /\ phase' = [phase EXCEPT ![id] = "validating"]
    /\ DlGoto(id, "validating")
    /\ UNCHANGED <<map, born, idle, outcome, got, diskVars, callVars, todo>>

\* set_ready stores the outcome, then the phase.
Validated(id) ==
    /\ dl[id] = "validating" /\ file[id] # None
    /\ outcome' = [outcome EXCEPT ![id] = "ready"]
    /\ DlGoto(id, "settling")
    /\ UNCHANGED <<map, born, idle, phase, got, diskVars, callVars, todo>>

\* Mutant: only an oversized download is cleaned up.
DownloadFailsUncleaned(id) ==
    /\ dl[id] \in {"opening", "body", "validating"}
    /\ DlGoto(id, "failing")
    /\ UNCHANGED <<map, born, idle, phase, outcome, got, diskVars, callVars, todo>>

\* A transport or file error, too large, the client's timeout, not a binary.
DownloadFails(id) ==
    /\ dl[id] \in {"opening", "body", "validating"}
    /\ DlGoto(id, "cleaning")
    /\ UNCHANGED <<map, born, idle, phase, outcome, got, diskVars, callVars, todo>>

\* Mutant: an error of remove_file ends the task.
CleanUpFallible(id) ==
    /\ dl[id] = "cleaning" /\ Unlink(id)
    /\ DlGoto(id, IF file[id] = None \/ file'[id] # None THEN "done" ELSE "failing")
    /\ UNCHANGED <<map, born, idle, phase, outcome, got, dirs, callVars, todo>>

CleanUp(id) ==
    /\ dl[id] = "cleaning" /\ Unlink(id)
    /\ DlGoto(id, "failing")
    /\ UNCHANGED <<map, born, idle, phase, outcome, got, dirs, callVars, todo>>

\* set_failed stores the outcome, then the phase.
Fail(id) ==
    /\ dl[id] = "failing"
    /\ outcome' = [outcome EXCEPT ![id] = "failed"]
    /\ DlGoto(id, "settling")
    /\ UNCHANGED <<map, born, idle, phase, got, diskVars, callVars, todo>>

Settle(id) ==
    /\ dl[id] = "settling"
    /\ phase' = [phase EXCEPT ![id] = "terminal"]
    /\ DlGoto(id, "done")
    /\ UNCHANGED <<map, born, idle, outcome, got, diskVars, callVars, todo>>

-----------------------------------------------------------------------------
Init ==
    /\ map = {} /\ born = {} /\ dirs = {} /\ todo = {}
    /\ idle = [id \in Ids |-> 0]
    /\ phase = [id \in Ids |-> "downloading"]
    /\ outcome = [id \in Ids |-> None]
    /\ got = [id \in Ids |-> 0]
    /\ file = [id \in Ids |-> None]
    /\ dl = [id \in Ids |-> None]
    /\ pc = [t \in Tasks |-> "idle"]
    /\ sid = [t \in Tasks |-> None]

CreatorStep(c) ==
    \/ CreateRefused(c) \/ CreateDropped(c) \/ Insert(c)
    \/ \E id \in Ids : MakeDir(c, id)

CallBegin(c) == \E id \in Ids : Look(c, id) \/ Query(c, id) \/ Delete(c, id)

CallStep(c) == Read(c) \/ RemoveDir(c)

ReaperStep ==
    \/ ReapScan \/ RemoveDir(Reaper)
    \/ \E id \in Ids : ReapNext(id)

DownloadStep(id) ==
    \/ OpenFile(id) \/ Chunk(id) \/ Downloaded(id) \/ Validated(id)
    \/ DownloadFails(id) \/ CleanUp(id) \/ Fail(id) \/ Settle(id)

Next ==
    \/ \E c \in Creators : CheckCap(c) \/ CreatorStep(c)
    \/ \E c \in Callers : CallBegin(c) \/ CallStep(c)
    \/ ReaperStep \/ Tick
    \/ \E id \in Ids : DownloadStep(id)

Spec == Init /\ [][Next]_vars

\* Calls and downloads run to their end (reqwest bounds a download by the policy's
\* timeout), and the scheduler runs the reaper again and again.
Fairness ==
    /\ WF_vars(ReaperStep)
    /\ \A c \in Creators : WF_vars(CreatorStep(c))
    /\ \A c \in Callers : WF_vars(CallStep(c))
    /\ \A id \in Ids : WF_vars(DownloadStep(id))

FairSpec == Spec /\ Fairness

-----------------------------------------------------------------------------
TypeOK ==
    /\ map \subseteq born /\ born \subseteq Ids /\ dirs \subseteq born /\ todo \subseteq born
    /\ idle \in [Ids -> 0 .. Ttl + 1]
    /\ phase \in [Ids -> {"downloading", "validating", "terminal"}]
    /\ outcome \in [Ids -> {None, "ready", "failed"}]
    /\ got \in [Ids -> 0 .. MaxBytes]
    /\ dl \in [Ids -> {None, "opening", "body", "validating", "cleaning", "failing", "settling",
                        "done"}]
    /\ file \in [Ids -> 0 .. MaxBytes \cup {None}]
    /\ pc \in [Tasks -> {"idle", "creating", "inserting", "reading", "removing"}]
    /\ sid \in [Tasks -> Ids \cup {None}]

\* The cap is soft: creations under way were each admitted by a check that saw room,
\* so sessions and creations together exceed it by at most the other creations.
Creating == {c \in Creators : pc[c] \in {"creating", "inserting"}}

CapExceededByConcurrency ==
    Cardinality(map) + Cardinality(Creating) <= MaxSessions + Cardinality(Creators) - 1

\* A query that opens the binary finds the whole, validated one, or no file at all:
\* never the bytes of a download under way or of one that failed.
QueriesReadValidated ==
    \A c \in Callers : pc[c] = "reading" /\ file[sid[c]] # None =>
        Described(sid[c]) /\ file[sid[c]] = got[sid[c]]

\* download_into removes the file "so a failed/oversized download leaves no bytes on
\* disk", and ignores the error.  What holds: a failed download leaves bytes only where
\* the system refused to remove them, and no download ever leaves more than the limit,
\* removals and the file's creation in any order.
BytesLeftOnlyIfUndeletable ==
    \A id \in Ids : /\ outcome[id] = "failed" /\ file[id] # None => id \in Undeletable
                    /\ file[id] # None => file[id] <= MaxBytes

\* Polling `get` shows a session's life in order, and every session settles unless
\* it is removed, whatever the order of the task's stores and of the removals.
Shown(id) ==
    IF id \in map THEN Status(id) ELSE IF dl[id] = None THEN "unborn" ELSE "gone"

Life == INSTANCE AsmLifecycle WITH status <- [id \in Ids |-> Shown(id)]

ImplementsLifecycle == Life!Spec

\* A session that nobody uses is removed in the end, the reaper's stale list and
\* the removals of others notwithstanding.
IdleReaped ==
    \A id \in Ids : id \in map /\ idle[id] > Ttl ~> id \notin map \/ idle[id] <= Ttl

=============================================================================
