----------------------------- MODULE AuditTrail -----------------------------
(***************************************************************************)
(* What the audit log promises its reader (docs/security.md, "Audit        *)
(* logging"): entries are numbered in the order they are made, the trail   *)
(* grows at its new end only, and what is forgotten at a time is one       *)
(* stretch of it that does not reach the new end.                          *)
(***************************************************************************)
EXTENDS Naturals

VARIABLES
    made,   \* how many entries have been made
    trail   \* those a reader finds

Init ==
    /\ made = 0
    /\ trail = {}

\* An entry is made; whether it is ever written is not promised.
Make ==
    /\ made' = made + 1
    /\ UNCHANGED trail

\* The newest entry joins the trail.
Append ==
    /\ made \notin trail
    /\ trail' = trail \cup {made}
    /\ UNCHANGED made

\* Entries are forgotten that follow one another, and there is a newer one.
Forget ==
    /\ trail' \subseteq trail
    /\ \A c, d \in trail \ trail' : \A e \in trail' : ~(c < e /\ e < d)
    /\ \A d \in trail \ trail' : \E e \in trail' : d < e
    /\ UNCHANGED made

Next == Make \/ Append \/ Forget

Spec == Init /\ [][Next]_<<made, trail>>
=============================================================================
