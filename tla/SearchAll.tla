----------------------------- MODULE SearchAll -----------------------------
(***************************************************************************)
(* Services::search_all: one search of every repository, in id order, a    *)
(* bounded number at a time.                                               *)
(*                                                                         *)
(* Each repository's future leases its tree and starts a walk on the       *)
(* blocking pool, which no one can stop but which polls a cancel token     *)
(* between files.  The stream yields the futures' results in id order; the *)
(* search ends early at the cap, at the first error, or when the client    *)
(* goes, and the futures in flight are dropped, their walks are not.       *)
(***************************************************************************)
EXTENDS Naturals, Sequences, FiniteSets, SequencesExt

CONSTANTS
    N,          \* the number of repositories
    Trees,      \* trees a repository may have: per file the matches in it, or Bad
    Bad,        \* a file that cannot be read
    Caps,       \* values of max_results, None for no cap
    None,
    Fanout      \* limits.repo_fanout

ASSUME Bounds == N \in Nat /\ Fanout \in Nat \ {0}
ASSUME TreesAreFiles == Trees \subseteq Seq(Nat \cup {Bad})
ASSUME CapsAreNumbers == Caps \subseteq Nat \cup {None} /\ None \notin Nat
ASSUME NoneIsNothing == None \notin {"polling", "reading", "ok", "error", "dropped"}

Repos == 1 .. N     \* in id order

VARIABLES
    tree,       \* per repository, as a walk finds it; <<>> when it is not synced
    max,        \* the query's max_results
    head,       \* the repository the stream yields next
    fut,        \* per future: queued, walking, ready (in the buffer), dropped
    leased,     \* trees the search holds a lease on
    cancelled,  \* tokens that are set
    walk,       \* per walk: polling, reading, ok, error
    file,       \* per walk: files done
    hits,       \* per walk: matches found
    late,       \* per walk: files it read after its token was set
    all, outcome

futVars == <<head, fut, leased>>
walkVars == <<walk, file, hits, late>>
vars == <<tree, max, futVars, cancelled, walkVars, all, outcome>>

Capped(n) == max # None /\ n >= max

\* search_cancellable: a match is kept, then the cap is looked at.
Limit == IF max = 0 THEN 1 ELSE max

Kept(found, new) ==
    LET both == found \o new
    IN  IF max = None \/ Len(both) <= Limit THEN both ELSE SubSeq(both, 1, Limit)

Matches(r, f) == IF tree[r][f] = Bad THEN <<>> ELSE [k \in 1 .. tree[r][f] |-> <<r, f, k>>]

Walking == {r \in Repos : walk[r] \in {"polling", "reading"}}

-----------------------------------------------------------------------------
(* The futures.                                                            *)

\* First poll of a future the buffer has room for: lease_current, then the walk.
Start(r) ==
    /\ outcome = None /\ r < head + Fanout
    /\ fut[r] = "queued" /\ \A q \in 1 .. r - 1 : fut[q] # "queued"
    /\ fut' = [fut EXCEPT ![r] = "walking"]
    /\ leased' = leased \cup {r}
    /\ walk' = [walk EXCEPT ![r] = "polling"]
    /\ UNCHANGED <<tree, max, head, cancelled, file, hits, late, all, outcome>>

\* Mutant: the result of a walk that failed is lost.
FinishOk(r) ==
    /\ outcome = None /\ fut[r] = "walking" /\ walk[r] = "ok"
    /\ fut' = [fut EXCEPT ![r] = "ready"]
    /\ leased' = leased \ {r}
    /\ cancelled' = cancelled \cup {r}
    /\ UNCHANGED <<tree, max, head, walkVars, all, outcome>>

\* The walk has ended: its result waits in the buffer, the lease is dropped.
Finish(r) ==
    /\ outcome = None /\ fut[r] = "walking" /\ walk[r] \in {"ok", "error"}
    /\ fut' = [fut EXCEPT ![r] = "ready"]
    /\ leased' = leased \ {r}
    /\ cancelled' = cancelled \cup {r}
    /\ UNCHANGED <<tree, max, head, walkVars, all, outcome>>

\* Mutant: the leases of dropped futures are left to their walks.
DropAllButLeases(result) ==
    /\ outcome' = result
    /\ fut' = [r \in Repos |-> "dropped"]
    /\ leased' = leased \cap Walking
    /\ cancelled' = cancelled \cup {r \in Repos : fut[r] = "walking"}

\* The search returns or is dropped: so are the stream and the futures in it, each
\* with its lease and its CancelOnDrop.
DropAll(result) ==
    /\ outcome' = result
    /\ fut' = [r \in Repos |-> "dropped"]
    /\ leased' = {}
    /\ cancelled' = cancelled \cup {r \in Repos : fut[r] = "walking"}

\* Mutant: results are taken as they come.
YieldAny ==
    \E r \in Repos :
        /\ outcome = None /\ fut[r] = "ready" /\ walk[r] = "ok"
        /\ head' = head + 1
        /\ all' = all \o hits[r]
        /\ fut' = [fut EXCEPT ![r] = "dropped"]
        /\ UNCHANGED <<tree, max, leased, cancelled, walkVars, outcome>>

\* The next repository's matches, the cap not yet reached.
Yield ==
    /\ outcome = None /\ head \in Repos /\ fut[head] = "ready" /\ walk[head] = "ok"
    /\ ~ Capped(Len(all \o hits[head]))
    /\ all' = all \o hits[head]
    /\ head' = head + 1
    /\ fut' = [fut EXCEPT ![head] = "dropped"]
    /\ UNCHANGED <<tree, max, leased, cancelled, walkVars, outcome>>

\* The cap is reached: truncate and break.
YieldLast ==
    /\ outcome = None /\ head \in Repos /\ fut[head] = "ready" /\ walk[head] = "ok"
    /\ Capped(Len(all \o hits[head]))
    /\ all' = SubSeq(all \o hits[head], 1, max)
    /\ DropAll("ok")
    /\ UNCHANGED <<tree, max, head, walkVars>>

\* `hits?`: the first error in id order ends the search.
YieldError ==
    /\ outcome = None /\ head \in Repos /\ fut[head] = "ready" /\ walk[head] = "error"
    /\ DropAll("error")
    /\ UNCHANGED <<tree, max, head, walkVars, all>>

Exhausted ==
    /\ outcome = None /\ head \notin Repos
    /\ DropAll("ok")
    /\ UNCHANGED <<tree, max, head, walkVars, all>>

HangUp ==
    /\ outcome = None
    /\ DropAll("dropped")
    /\ UNCHANGED <<tree, max, head, walkVars, all>>

-----------------------------------------------------------------------------
(* The walks (search_streaming), and GC.                                   *)

WalkGoto(r, l) == walk' = [walk EXCEPT ![r] = l]
WalkRest == <<tree, max, futVars, cancelled, all, outcome>>

\* Mutant: the token is polled once, before the first file.
PollOnce(r) ==
    /\ walk[r] = "polling"
    /\ WalkGoto(r, IF file[r] = Len(tree[r]) \/ (file[r] = 0 /\ r \in cancelled)
                   THEN "ok" ELSE "reading")
    /\ UNCHANGED <<WalkRest, file, hits, late>>

\* Between two files: the end of the list, or the token.
Poll(r) ==
    /\ walk[r] = "polling"
    /\ WalkGoto(r, IF file[r] = Len(tree[r]) \/ r \in cancelled THEN "ok" ELSE "reading")
    /\ UNCHANGED <<WalkRest, file, hits, late>>

\* One file is resolved, read and searched, the sink stopping at the cap.
ReadFile(r) ==
    /\ walk[r] = "reading"
    /\ file' = [file EXCEPT ![r] = @ + 1]
    /\ late' = [late EXCEPT ![r] = IF r \in cancelled THEN @ + 1 ELSE @]
    /\ LET f == file[r] + 1
           found == Kept(hits[r], Matches(r, f))
       IN  IF tree[r][f] = Bad
           THEN WalkGoto(r, "error") /\ UNCHANGED hits
           ELSE /\ hits' = [hits EXCEPT ![r] = found]
                /\ WalkGoto(r, IF Capped(Len(found)) /\ found # hits[r] THEN "ok" ELSE "polling")
    /\ UNCHANGED WalkRest

\* A collector takes a file of a tree that a walk has yet to read: an abandoned walk
\* has no lease, and a lease does not stop a reaper that captured its keep-set before a
\* sync made the tree current again.  The walk passes over the file, or had resolved it
\* and fails.
Reclaim(r, f) ==
    /\ r \in Walking /\ f \in file[r] + 1 .. Len(tree[r])
    /\ \E gone \in {0, Bad} : tree' = [tree EXCEPT ![r][f] = gone]
    /\ UNCHANGED <<max, futVars, cancelled, walkVars, all, outcome>>

-----------------------------------------------------------------------------
Init ==
    /\ tree \in [Repos -> Trees] /\ max \in Caps
    /\ head = 1 /\ leased = {} /\ cancelled = {}
    /\ fut = [r \in Repos |-> "queued"]
    /\ walk = [r \in Repos |-> None]
    /\ file = [r \in Repos |-> 0]
    /\ hits = [r \in Repos |-> <<>>]
    /\ late = [r \in Repos |-> 0]
    /\ all = <<>> /\ outcome = None

SearchStep ==
    \/ \E r \in Repos : Start(r) \/ Finish(r)
    \/ Yield \/ YieldLast \/ YieldError \/ Exhausted

WalkStep(r) == Poll(r) \/ ReadFile(r)

Next ==
    \/ SearchStep \/ HangUp
    \/ \E r \in Repos : WalkStep(r) \/ \E f \in 1 .. Len(tree[r]) : Reclaim(r, f)

\* The runtime polls the search, and the blocking pool runs every walk to its end.
Spec == Init /\ [][Next]_vars /\ WF_vars(SearchStep) /\ \A r \in Repos : WF_vars(WalkStep(r))

-----------------------------------------------------------------------------
TypeOK ==
    /\ head \in Nat \ {0} /\ outcome \in {None, "ok", "error", "dropped"}
    /\ fut \in [Repos -> {"queued", "walking", "ready", "dropped"}]
    /\ walk \in [Repos -> {None, "polling", "reading", "ok", "error"}]
    /\ leased = {r \in Repos : fut[r] = "walking"} /\ cancelled \subseteq Repos
    /\ \A r \in Repos : file[r] \in 0 .. Len(tree[r])

\* Matches come by repository, by file, and by place in the file.
Before(m, n) ==
    \/ m[1] < n[1]
    \/ m[1] = n[1] /\ m[2] < n[2]
    \/ m[1] = n[1] /\ m[2] = n[2] /\ m[3] < n[3]

FileMatches(r, f) == {<<r, f, k>> : k \in IF tree[r][f] = Bad THEN {} ELSE 1 .. tree[r][f]}
AllMatches == UNION {UNION {FileMatches(r, f) : f \in 1 .. Len(tree[r])} : r \in Repos}

\* The first matches of a set, in order, one that is missing coming after a full answer.
FirstOf(s, matches, cap) ==
    /\ \A i, j \in DOMAIN s : i < j => Before(s[i], s[j])
    /\ ToSet(s) \subseteq matches
    /\ cap # None => Len(s) <= cap
    /\ \A m \in matches \ ToSet(s) : cap # None /\ Len(s) = cap /\ \A n \in ToSet(s) : Before(n, m)

\* The answer is the start of all the matches in id order, as long as the cap allows,
\* in whatever order the walks end, a file that a collector took before its walk read
\* it having none.
AnswerIsFirstMatches == outcome = "ok" => FirstOf(all, AllMatches, max)

\* While the search runs it holds a lease on every tree that a walk of its is in, and
\* whatever ends it, walks still running or not, it keeps none.
LeasesBracketSearch ==
    /\ outcome = None => Walking \subseteq leased
    /\ outcome # None => leased = {}

\* A walk whose search is over reads one more file at most.
LateReadsBounded == \A r \in Repos : late[r] <= 1

\* The repositories before r do not fill the answer.
Needed(r) == max = None \/ Cardinality({m \in AllMatches : m[1] < r}) < Limit

\* Every search ends, and so does every walk.  It ends in an error only if a repository
\* that is needed to fill the answer has a file that could not be read.
SearchEnds ==
    <>(/\ outcome # None /\ Walking = {}
       /\ outcome = "error" => \E r \in Repos : Needed(r) /\ Bad \in ToSet(tree[r]))

=============================================================================
