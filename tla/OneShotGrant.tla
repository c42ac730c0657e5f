---------------------------- MODULE OneShotGrant ----------------------------
(***************************************************************************)
(* What the OAuth server promises: an approval by a user is worth at most  *)
(* one bearer, which acts for that user and, once over, is over for good.  *)
(***************************************************************************)
CONSTANTS Grants, Users, None

VARIABLES
    stage,  \* none, open (approved), live (its bearer works), over
    actsFor \* the user a live bearer acts for

vars == <<stage, actsFor>>

Stages == {"none", "open", "live", "over"}

Init ==
    /\ stage = [g \in Grants |-> "none"]
    /\ actsFor = [g \in Grants |-> None]

\* A user approves: whom the bearer will act for is settled here.
Approve(g, u) ==
    /\ stage[g] = "none"
    /\ stage' = [stage EXCEPT ![g] = "open"]
    /\ actsFor' = [actsFor EXCEPT ![g] = u]

Redeem(g) ==
    /\ stage[g] = "open"
    /\ stage' = [stage EXCEPT ![g] = "live"]
    /\ UNCHANGED actsFor

\* Grants end unredeemed (burnt, lost) or with their bearer (revoked, expired).
End(S) ==
    /\ \A g \in S : stage[g] \in {"open", "live"}
    /\ stage' = [g \in Grants |-> IF g \in S THEN "over" ELSE stage[g]]
    /\ UNCHANGED actsFor

Next ==
    \/ \E g \in Grants, u \in Users : Approve(g, u)
    \/ \E g \in Grants : Redeem(g)
    \/ \E S \in SUBSET Grants : End(S)

Spec == Init /\ [][Next]_vars
=============================================================================
