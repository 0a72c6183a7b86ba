----------------------------- MODULE MCGateway ------------------------------
(***************************************************************************)
(* Instances of Gateway for TLC: a home directory, one project, and what   *)
(* each of the updates may be.                                             *)
(***************************************************************************)
EXTENDS Gateway, TLC

CONSTANTS u1, u2, u3, home, work, proj

MCPath == [p \in Projects |-> work]

OwnerRun == [kind |-> "run", owner |-> TRUE, cd |-> FALSE]
AnyRun   == RunRequest
Control  == ProjectRequest \cup PlainRequest \cup InputRequest

StopReq == [kind |-> "stop"]
ExitReq == [kind |-> "exit"]

\* A command, another one, and something to interrupt them with or to close
\* their shell.
CommandsMenu == u1 :> {OwnerRun} @@ u2 :> {OwnerRun}
             @@ u3 :> {StopReq, ExitReq} \cup InputRequest

\* Commands of owners and workers, and one update of any kind.
ContextMenu == u1 :> AnyRun @@ u2 :> Control \cup {OwnerRun}

\* A command, an /exit, and another party that stops it or closes the shell; or
\* exactly a /stop.
ClosersMenu == u1 :> {OwnerRun} @@ u2 :> {StopReq, [kind |-> "shutdown"]}
            @@ u3 :> {ExitReq}
RaceMenu == u1 :> {OwnerRun} @@ u2 :> {StopReq} @@ u3 :> {ExitReq}

\* A command and a /stop, or a /exit.
StopMenu == u1 :> {OwnerRun} @@ u2 :> {StopReq}
ExitMenu == u1 :> {OwnerRun} @@ u2 :> {ExitReq}

NewSession == [cwd |-> None, project |-> None]
NewOnly    == {NewSession}
=============================================================================
