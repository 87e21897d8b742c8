------------------------- MODULE SnapshotGCHistory --------------------------
(***************************************************************************)
(* SnapshotGC with two history variables.  One holds, for each collector,  *)
(* the witnesses it has seen and must spare: the sessions alive when it    *)
(* scanned the store, less those whose record it could not read, and the   *)
(* clients holding a lease when it captured the keep-set of the repository *)
(* it is collecting.  A witness is forgotten when its session or its lease *)
(* ends.  The other holds the revisions of that repository that a sync has *)
(* made current since the capture.                                         *)
(***************************************************************************)
EXTENDS SnapshotGC

ASSUME ClientsAreNotSessions == Clients \cap Sids = {}

VARIABLES spared, revived

hvars == <<vars, spared, revived>>

LeaseHolders == {c \in Clients : HoldsLease(c)}
InUse(w) == IF w \in Sids THEN pin[w] ELSE <<repo[w], base[w]>>

\* What collector t adds to its witnesses in this step.
Seen(t) ==
    CASE pc[t] = "scanning" /\ pc'[t] = "scanned" ->
            (AliveSessions \ Unreadable) \cup {s \in AliveSessions : pin[s] \in referenced'[t]}
      [] pc[t] = "scanned" /\ pc'[t] = "captured" ->
            (spared[t] \cap Sids) \cup {c \in LeaseHolders : repo[c] = repo'[t]}
      [] OTHER -> IF pc'[t] = "idle" THEN {} ELSE spared[t]

\* The revisions a sync makes current beside collector t.
Revived(t) ==
    {b \in Revs : repo[t] \in Repos /\ current'[repo[t]] = b /\ current[repo[t]] # b}

HInit ==
    /\ Init
    /\ spared = [t \in GcTasks |-> {}]
    /\ revived = [t \in GcTasks |-> {}]

HNext ==
    /\ Next
    /\ spared' = [t \in GcTasks |-> Seen(t) \cap (AliveSessions' \cup LeaseHolders')]
    /\ revived' = [t \in GcTasks |->
                      IF pc'[t] \in {"captured", "deleting", "removing"} /\ pc[t] # "scanned"
                      THEN revived[t] \cup Revived(t) ELSE {}]

HSpec == HInit /\ [][HNext]_hvars
FairHSpec == HSpec /\ Fairness

\* The directories collector t is removing, or about to.
Condemned(t) ==
    CASE pc[t] = "deleting" -> victims[t]
      [] pc[t] = "removing" -> victims[t] \cup {base[t]}
      [] OTHER -> {}

\* A collector never deletes a base that a session whose record its scan read
\* still pins, nor one that a lease held at its capture still holds: not a base
\* whose lease was taken while it was current and whose head has since moved, not
\* one leased by two readers of whom one has finished, and whatever syncs, other
\* collectors, failed removals and restarts do meanwhile (referenced_bases,
\* gc_protected, gc_entry).
GcSparesInUse ==
    \A t \in GcTasks : \A w \in spared[t], b \in Condemned(t) : InUse(w) # <<repo[t], b>>

\* gc_entry says of a directory it has marked that it "can never gain a lease
\* before we remove it".  It can, and it can be current, in one way only: the
\* collector is the reaper, which holds no sync lock, and a sync has made the
\* directory current again since the reaper captured its keep-set.  A collection
\* at the end of a sync never has a used directory in hand.
VictimsUsedOnlyIfRevived ==
    \A t \in GcTasks : \A b \in Condemned(t) :
        b \in Protected(repo[t]) => t \in Reapers /\ b \in revived[t]
=============================================================================
