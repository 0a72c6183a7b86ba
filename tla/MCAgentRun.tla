----------------------------- MODULE MCAgentRun -----------------------------
(***************************************************************************)
(* Instances of AgentRun for TLC: what each message may be.                *)
(***************************************************************************)
EXTENDS AgentRun, TLC

CONSTANTS u1, u2, u3

Ask(kinds) == {[kind |-> k, owner |-> TRUE] : k \in kinds}

\* A start; another one, which may fail to write its prompt to the first, or a
\* stop; and the end of the gateway.
LifeMenu == u1 :> Ask({"agent"})
         @@ u2 :> Ask({"agent", "stop"})
         @@ u3 :> Ask({"shutdown"})
=============================================================================
