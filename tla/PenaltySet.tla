----------------------------- MODULE PenaltySet -----------------------------
(***************************************************************************)
(* What the penalty log promises ("Merge = set union of penalty events",   *)
(* core/src/penalty_log.rs): every replica knows a set of events, an event *)
(* enters the system only where it is observed, and a replica that hears   *)
(* from the others only adds events that somebody already knows.           *)
(***************************************************************************)
CONSTANTS Replica, Event

VARIABLE known   \* known[r]: the events that replica r knows

Init == known = [r \in Replica |-> {}]

Observe(r, e) == known' = [known EXCEPT ![r] = @ \cup {e}]

Learn(r, S) == known' = [known EXCEPT ![r] = @ \cup S]

Next ==
    \E r \in Replica :
        \/ \E e \in Event : Observe(r, e)
        \/ \E S \in SUBSET UNION {known[q] : q \in Replica} : Learn(r, S)

Spec == Init /\ [][Next]_known
=============================================================================
