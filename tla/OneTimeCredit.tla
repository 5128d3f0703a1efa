--------------------------- MODULE OneTimeCredit ---------------------------
(***************************************************************************)
(* What a relay credit promises its verifiers: it is earned before it is   *)
(* spent, spent once, at one verifier, and redeemed at most once, there.   *)
(***************************************************************************)
EXTENDS Naturals

CONSTANTS
    Credit, Verifier,
    Nowhere   \* not a verifier

VARIABLES
    earned,    \* the credits whose relay work is done
    spentAt,   \* the verifier each credit was sent to, or Nowhere
    redeemed   \* how often each credit was accepted

creditVars == <<earned, spentAt, redeemed>>

Init ==
    /\ earned = {}
    /\ spentAt = [c \in Credit |-> Nowhere]
    /\ redeemed = [c \in Credit |-> 0]

Earn(c) ==
    /\ earned' = earned \cup {c}
    /\ UNCHANGED <<spentAt, redeemed>>

Spend(c, v) ==
    /\ c \in earned /\ spentAt[c] = Nowhere
    /\ spentAt' = [spentAt EXCEPT ![c] = v]
    /\ UNCHANGED <<earned, redeemed>>

Redeem(c, v) ==
    /\ spentAt[c] = v /\ redeemed[c] = 0
    /\ redeemed' = [redeemed EXCEPT ![c] = 1]
    /\ UNCHANGED <<earned, spentAt>>

Next == \E c \in Credit : Earn(c) \/ \E v \in Verifier : Spend(c, v) \/ Redeem(c, v)

Spec == Init /\ [][Next]_creditVars
=============================================================================
