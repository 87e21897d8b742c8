---------------------------- MODULE AsmLifecycle ----------------------------
(***************************************************************************)
(* What the assembly-session store promises a client that polls `get`:     *)
(* a session starts downloading, may be seen validating, ends ready or     *)
(* failed and stays so, and is gone for good once deleted or reaped.       *)
(***************************************************************************)
CONSTANT Ids

VARIABLE status     \* per id: what `get` answers

Pending == {"downloading", "validating"}
Settled == {"ready", "failed"}

Change(id, from, to) ==
    /\ status[id] \in from
    /\ \E s \in to : status' = [status EXCEPT ![id] = s]

Start(id) == Change(id, {"unborn"}, {"downloading"})
Validate(id) == Change(id, {"downloading"}, {"validating"})
Settle(id) == Change(id, Pending, Settled)
Remove(id) == Change(id, Pending \cup Settled, {"gone"})

Init == status = [id \in Ids |-> "unborn"]

Next == \E id \in Ids : Start(id) \/ Validate(id) \/ Settle(id) \/ Remove(id)

InOrder == Init /\ [][Next]_status

\* Every session settles unless it is removed first.
Spec == InOrder /\ \A id \in Ids : WF_status(Settle(id))

=============================================================================
