---------------------------- MODULE MCAgentTurns ----------------------------
(***************************************************************************)
(* AgentView with a history variable: for which turn the relay has created *)
(* the newest message it can edit.                                         *)
(***************************************************************************)
EXTENDS MCAgentView

VARIABLE madeIn     \* the turn in which that message was created

TurnInit == Init /\ madeIn = 0

TurnNext ==
    /\ Next
    /\ madeIn' = IF live' # live THEN turns ELSE madeIn

TurnSpec == TurnInit /\ [][TurnNext]_<<vars, madeIn>>

\* One line at a time is enough for frames that differ.
TurnChunks == {<<"a", "cr", "lf">>, <<"b", "cr", "lf">>}

\* "One conversation message per user turn is live-edited": the message that is
\* edited is one created in this turn.  A prompt that comes while the first frame
\* of the turn before it is being sent clears an id that is stored afterwards
\* (agent.go:620-628, resetTurn at 110-114).
MessageOfItsTurn == msgID # 0 => madeIn = turns
=============================================================================
