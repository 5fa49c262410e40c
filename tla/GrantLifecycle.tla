--------------------------- MODULE GrantLifecycle ---------------------------
(***************************************************************************)
(* What the grant store promises whoever looks at it: every grant is       *)
(* requested, approved and revoked at most once each, in that order; the   *)
(* approval, one atomic step, sets the expiry for good, counted from a     *)
(* moment that is past by then; a revocation is final; and no step touches *)
(* two grants, or a grant and the clock.                                   *)
(***************************************************************************)
EXTENDS Naturals

CONSTANTS Grants, TTL

VARIABLES now, status, expiresAt

gvars == <<now, status, expiresAt>>

Init == /\ now = 1
        /\ status = [g \in Grants |-> "ABSENT"]
        /\ expiresAt = [g \in Grants |-> 0]

Request(g) ==
    /\ status[g] = "ABSENT"
    /\ status' = [status EXCEPT ![g] = "PENDING"]
    /\ UNCHANGED <<now, expiresAt>>

Approve(g) ==
    /\ status[g] = "PENDING"
    /\ status' = [status EXCEPT ![g] = "ACTIVE"]
    /\ \E t \in 1..now : expiresAt' = [expiresAt EXCEPT ![g] = t + TTL]
    /\ UNCHANGED now

Revoke(g) ==
    /\ status[g] \in {"PENDING", "ACTIVE"}
    /\ status' = [status EXCEPT ![g] = "REVOKED"]
    /\ UNCHANGED <<now, expiresAt>>

Pass == now' = now + 1 /\ UNCHANGED <<status, expiresAt>>

Next == \/ \E g \in Grants : Request(g) \/ Approve(g) \/ Revoke(g)
        \/ Pass

Spec == Init /\ [][Next]_gvars

=============================================================================
