---------------------------- MODULE MCApprovals -----------------------------
(***************************************************************************)
(* Instances of Approvals for TLC: who may say what, message by message.   *)
(***************************************************************************)
EXTENDS Approvals, TLC

CONSTANTS u1, u2, u3, u4

Owner(text)  == [owner |-> TRUE, text |-> text]
Worker(text) == [owner |-> FALSE, text |-> text]
Requests     == {Worker("danger"), Worker("get")}

\* Two requests of workers and two answers, the first by anybody.
AnswersMenu == u1 :> Requests
            @@ u2 :> Requests \cup {Owner("danger")}
            @@ u3 :> {Owner("yes"), Owner("no"), Worker("yes"), Owner("plain")}
            @@ u4 :> {Owner("yes"), Owner("no")}

\* Two requests of owners, of one kind or of both.
OwnerRequests == {Owner("danger"), Owner("get")}
RequestsMenu  == u1 :> OwnerRequests @@ u2 :> OwnerRequests
=============================================================================
