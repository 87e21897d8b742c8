--------------------------- MODULE SessionSearch ----------------------------
(***************************************************************************)
(* Services::search_session beside the session store and a collector of the *)
(* session's base.                                                         *)
(*                                                                         *)
(* Unlike a search of a repository, the search of a session leases no      *)
(* tree: what keeps the base is the pin of the session's metadata.  The    *)
(* walk lists both layers, and resolves, resolves again and reads each     *)
(* file, while requests edit the session, requests and the reaper remove   *)
(* it, and a collector whose scan missed its pin takes the base away:      *)
(* because it could not read the record, or because the session was stored *)
(* after the scan.  A base that is superseded does not become current      *)
(* again, which is SnapshotGC's subject, as the failures of the store are  *)
(* SessionStore's and the token of a search that is dropped SearchAll's.   *)
(***************************************************************************)
EXTENDS SessionStore

ASSUME LayersAreNotNone == None \notin {"upper", "base"}

VARIABLES
    current,    \* whether the sessions' base is the repository's current one
    leased,     \* sessions that are being created, with a lease on it
    disk,       \* the files of the base that are on disk
    gc,         \* collector: idle, scanned, removing; gone when it is done
    pinned,     \* whether its scan found a session
    step, ses,  \* search: its step; its session
    hidden,     \* the view's copy of the whiteouts
    candidates, \* files listed and not yet searched
    file, layer,    \* the file in hand; where resolve found it
    found,      \* files with a match
    outcome,
    touched     \* history: paths whose file or whiteout changed since the view opened

storeVars == vars
gcStepVars == <<current, leased, disk, gc, pinned>>
viewVars == <<ses, hidden, touched>>
walkVars == <<candidates, file, layer, found>>
searchVars == <<step, viewVars, walkVars, outcome>>
allVars == <<storeVars, gcStepVars, searchVars>>

\* The pattern is in the base's text; a full write or an unfinished one loses it.
IsMatch(f) == f # None /\ f \cap {Written, Torn} = {}

Leaving(s) == s \notin live \/ \E t \in Tasks : pc[t] = "removing" /\ sid[t] = s

-----------------------------------------------------------------------------
(* search_session: authorize, view, and the walk (search_streaming).       *)

SearchBegin(s) ==
    /\ step = "idle" /\ s \in live
    /\ step' = "touching" /\ ses' = s
    /\ UNCHANGED <<storeVars, gcStepVars, hidden, touched, walkVars, outcome>>

\* The outcome of touch is ignored.
SearchTouch ==
    /\ step = "touching" /\ lock = None
    /\ age' = [age EXCEPT ![ses] = 0]
    /\ step' = "opening"
    /\ UNCHANGED <<dirs, live, born, deleted, upper, lock, pc, callVars, rec, new, todo, faults,
                   gcStepVars, viewVars, walkVars, outcome>>

End(result) == step' = "ended" /\ outcome' = result

SearchNotFound ==
    /\ step = "opening" /\ ses \notin live
    /\ End("error")
    /\ UNCHANGED <<storeVars, gcStepVars, viewVars, walkVars>>

SearchOpen ==
    /\ step = "opening" /\ ses \in live
    /\ hidden' = deleted[ses] /\ touched' = {}
    /\ step' = "listing"
    /\ UNCHANGED <<storeVars, gcStepVars, ses, walkVars, outcome>>

\* list_files walks the base, then the upper layer; a directory that is gone has no
\* files, and one that goes under the walk fails it.
ListBase ==
    /\ step = "listing"
    /\ candidates' = disk \ hidden
    /\ step' = "listing_upper"
    /\ UNCHANGED <<storeVars, gcStepVars, viewVars, file, layer, found, outcome>>

ListUpper ==
    /\ step = "listing_upper"
    /\ candidates' = candidates \cup {p \in Paths : upper[ses][p] # None}
    /\ step' = "walking"
    /\ UNCHANGED <<storeVars, gcStepVars, viewVars, file, layer, found, outcome>>

ListFails ==
    /\ \/ step = "listing" /\ gc = "removing"
       \/ step = "listing_upper" /\ Leaving(ses)
    /\ End("error")
    /\ UNCHANGED <<storeVars, gcStepVars, viewVars, walkVars>>

Layer(p) ==
    IF p \in hidden THEN None
    ELSE IF upper[ses][p] # None THEN "upper"
    ELSE IF p \in disk THEN "base" ELSE None

\* Mutant: a file that vanished since it was listed fails the search.
ResolveOrFail(p) ==
    /\ step = "walking" /\ p \in candidates
    /\ candidates' = candidates \ {p}
    /\ IF Layer(p) = None THEN End("error") ELSE step' = "resolved" /\ UNCHANGED outcome
    /\ file' = p
    /\ UNCHANGED <<storeVars, gcStepVars, viewVars, layer, found>>

\* A file that vanished from the view since it was listed is passed over.
Resolve(p) ==
    /\ step = "walking" /\ p \in candidates
    /\ candidates' = candidates \ {p}
    /\ IF Layer(p) = None THEN UNCHANGED <<step, file>> ELSE step' = "resolved" /\ file' = p
    /\ UNCHANGED <<storeVars, gcStepVars, viewVars, layer, found, outcome>>

\* FileView::read resolves for itself, and answers NotFound.
ResolveAgain ==
    /\ step = "resolved"
    /\ layer' = Layer(file)
    /\ IF layer' = None THEN End("error") ELSE step' = "reading" /\ UNCHANGED outcome
    /\ UNCHANGED <<storeVars, gcStepVars, viewVars, candidates, file, found>>

\* The file of that layer is read whole, and searched.
ReadFile ==
    /\ step = "reading"
    /\ LET content == IF layer = "upper" THEN upper[ses][file]
                      ELSE IF file \in disk THEN {} ELSE None
       IN  /\ found' = IF IsMatch(content) THEN found \cup {file} ELSE found
           /\ IF content = None THEN End("error") ELSE step' = "walking" /\ UNCHANGED outcome
    /\ UNCHANGED <<storeVars, gcStepVars, viewVars, candidates, file, layer>>

WalkEnds ==
    /\ step = "walking" /\ candidates = {}
    /\ End("ok")
    /\ UNCHANGED <<storeVars, gcStepVars, viewVars, walkVars>>

SearchReturn ==
    /\ step = "ended"
    /\ step' = "idle" /\ ses' = None /\ hidden' = {} /\ touched' = {}
    /\ candidates' = {} /\ file' = None /\ layer' = None /\ found' = {} /\ outcome' = None
    /\ UNCHANGED <<storeVars, gcStepVars>>

SearchStep ==
    \/ SearchTouch \/ SearchNotFound \/ SearchOpen
    \/ ListBase \/ ListUpper \/ ListFails
    \/ (\E p \in Paths : Resolve(p)) \/ ResolveAgain \/ ReadFile \/ WalkEnds
    \/ SearchReturn

-----------------------------------------------------------------------------
(* create_session: the base is leased until the session is on disk.        *)

CreateLease(s) ==
    /\ current /\ s \notin born \cup leased
    /\ leased' = leased \cup {s}
    /\ UNCHANGED <<storeVars, searchVars, current, disk, gc, pinned>>

\* create fails, or its client goes.
CreateDropped(s) ==
    /\ s \in leased
    /\ leased' = leased \ {s}
    /\ UNCHANGED <<storeVars, searchVars, current, disk, gc, pinned>>

-----------------------------------------------------------------------------
(* A sync that supersedes the base, and a collector, its own or the        *)
(* reaper's.                                                               *)

SetSnapshot ==
    /\ current /\ current' = FALSE
    /\ UNCHANGED <<storeVars, searchVars, leased, disk, gc, pinned>>

\* referenced_bases, under the store's write lock; a record that cannot be read is
\* passed over.
GcScan ==
    /\ gc = "idle" /\ lock = None
    /\ gc' = "scanned"
    /\ \E unread \in SUBSET live : pinned' = (live \ unread # {})
    /\ UNCHANGED <<storeVars, searchVars, current, leased, disk>>

\* gc_protected: a base that is pinned, leased or current is kept.
GcCapture ==
    /\ gc = "scanned"
    /\ gc' = IF pinned \/ current \/ leased # {} THEN "idle" ELSE "removing"
    /\ UNCHANGED <<storeVars, searchVars, current, leased, disk, pinned>>

GcRemoveSome(lost) ==
    /\ gc = "removing"
    /\ gc' = IF lost = disk THEN "gone" ELSE "removing"
    /\ disk' = disk \ lost
    /\ UNCHANGED <<storeVars, searchVars, current, leased, pinned>>

GcStep == GcScan \/ GcCapture \/ \E lost \in SUBSET disk : GcRemoveSome(lost)

-----------------------------------------------------------------------------
\* The store's own step; a session that it stores was being created, and its lease
\* ends.
StoreStep ==
    /\ Next
    /\ faults' = faults
    /\ born' \ born \subseteq leased
    /\ leased' = leased \ born'
    /\ touched' = IF ses = None THEN {}
                  ELSE touched \cup {p \in Paths : \/ upper'[ses][p] # upper[ses][p]
                                                   \/ (p \in deleted[ses]) # (p \in deleted'[ses])}
    /\ UNCHANGED <<current, disk, gc, pinned, step, ses, hidden, walkVars, outcome>>

SInit ==
    /\ Init
    /\ step = "idle" /\ ses = None /\ hidden = {} /\ touched = {}
    /\ candidates = {} /\ file = None /\ layer = None /\ found = {} /\ outcome = None
    /\ current = TRUE /\ leased = {} /\ disk = BasePaths /\ gc = "idle" /\ pinned = FALSE

SNext ==
    \/ StoreStep
    \/ (\E s \in Sids : SearchBegin(s)) \/ SearchStep
    \/ (\E s \in Sids : CreateLease(s) \/ CreateDropped(s))
    \/ SetSnapshot \/ GcStep

SSpec == SInit /\ [][SNext]_allVars

-----------------------------------------------------------------------------
BaseWhole == gc \notin {"removing", "gone"}

\* A search of a session that is not removed meanwhile has the right answer for every
\* file that nobody changed since it opened its view, whatever was done to the others:
\* a match if the view shows one, and none otherwise.  It fails only if a file changed.
\* If a collector missed the session and takes its base, the search may fail, or miss
\* files of the base, but the session's own files are still answered, and nothing is
\* found that the view does not show.
UntouchedFilesAnswered ==
    outcome # None /\ ~ Leaving(ses) =>
        \/ outcome = "error" /\ (touched # {} \/ ~ BaseWhole)
        \/ /\ outcome = "ok"
           /\ \A p \in Paths \ touched :
                 /\ p \in found => IsMatch(View(ses, p, deleted[ses]))
                 /\ IsMatch(View(ses, p, deleted[ses])) =>
                       p \in found \/ (upper[ses][p] = None /\ ~ BaseWhole)

=============================================================================
