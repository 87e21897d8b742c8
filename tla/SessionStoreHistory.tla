------------------------- MODULE SessionStoreHistory -------------------------
(***************************************************************************)
(* SessionStore with a memory of what its files last were: the content the *)
(* view showed when no mutation was under way, and, for each read, what it *)
(* should return and whether a mutation of its session overlapped it.      *)
(***************************************************************************)
EXTENDS SessionStore

VARIABLES
    committed,  \* per session and path: the view when the lock was last free
    expected,   \* per read: the committed content of its path as it opened its view
    overlapped  \* reads during which a mutation of their session was under way

hvars == <<vars, committed, expected, overlapped>>

\* A mutation of the session is between its first and its last step on the disk.
Busy(s) == \E t \in Tasks : pc[t] \in {"filling", "storing", "removing"} /\ sid[t] = s

HInit ==
    /\ Init
    /\ committed = [s \in Sids |-> [p \in Paths |-> Base(p)]]
    /\ expected = [t \in Readers |-> None]
    /\ overlapped = {}

Observe ==
    /\ committed' = IF lock = None
                    THEN [s \in Sids |-> [p \in Paths |-> View(s, p, deleted[s])]]
                    ELSE committed
    /\ expected' = [t \in Readers |->
                       IF pc'[t] = "resolving" THEN View(sid[t], path[t], deleted[sid[t]])
                       ELSE IF pc'[t] = "idle" THEN None ELSE expected[t]]
    /\ overlapped' = {t \in Readers :
                         /\ pc'[t] \in {"resolving", "reading", "done"}
                         /\ t \in overlapped \/ Busy(sid[t]) \/ Busy(sid[t])'}

HNext == Next /\ Observe

HSpec == HInit /\ [][HNext]_hvars

\* A read that no mutation of its session overlaps returns the content that was
\* committed when it opened its view: whiteouts, upper layer and base included.
QuietReads ==
    \A t \in Readers : pc[t] = "done" /\ t \notin overlapped => new[t] = expected[t]

\* After a restart, a file of a session that had been edited reads as it did before
\* the call the restart cut off, or as that call would have left it (unless the
\* call was removing the whole session).
EditsSurviveRestart ==
    [][Restart /\ lock # None =>
          \A s \in Kept : \A p \in {q \in Paths : committed[s][q] # Base(q)} :
              View(s, p, deleted[s]) \in {committed[s][p], Settled(s, p)}]_hvars

=============================================================================
