----------------------------- MODULE WholeFiles -----------------------------
(***************************************************************************)
(* What a session store promises its users: each session is a set of       *)
(* whole files that starts as the base tree, and every call takes effect   *)
(* at once, on one file of one session.  A file is the set of the marks    *)
(* left by what was written to it, so an edit that is lost shows.          *)
(***************************************************************************)
CONSTANTS
    Sids,       \* session ids
    Paths,      \* logical paths
    BasePaths,  \* those that exist in the base tree
    Editors,    \* tasks that edit; each leaves its own mark
    Written,    \* the mark of a full write
    None        \* absent file

VARIABLES alive, born, file

Base(p) == IF p \in BasePaths THEN {} ELSE None
Marks(f) == IF f = None THEN {} ELSE f

Init ==
    /\ alive = {} /\ born = {}
    /\ file = [s \in Sids |-> [p \in Paths |-> None]]

\* A session id is a fresh UUID.
Create(s) ==
    /\ s \notin born
    /\ alive' = alive \cup {s}
    /\ born' = born \cup {s}
    /\ file' = [file EXCEPT ![s] = [p \in Paths |-> Base(p)]]

SetFile(s, p, f) ==
    /\ s \in alive
    /\ file' = [file EXCEPT ![s][p] = f]
    /\ UNCHANGED <<alive, born>>

Write(s, p) == \E f \in {{}, {Written}} : SetFile(s, p, f)
Edit(s, p, t) == SetFile(s, p, Marks(file[s][p]) \cup {t})
Delete(s, p) == file[s][p] # None /\ SetFile(s, p, None)

Drop(s) ==
    /\ s \in alive
    /\ alive' = alive \ {s}
    /\ file' = [file EXCEPT ![s] = [p \in Paths |-> None]]
    /\ UNCHANGED born

Next ==
    \E s \in Sids :
        \/ Create(s) \/ Drop(s)
        \/ \E p \in Paths : \/ Write(s, p) \/ Delete(s, p)
                            \/ \E t \in Editors : Edit(s, p, t)

Spec == Init /\ [][Next]_<<alive, born, file>>

=============================================================================
