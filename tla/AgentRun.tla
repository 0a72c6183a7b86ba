------------------------------ MODULE AgentRun ------------------------------
(***************************************************************************)
(* The agent sessions of a chat: their start, the messages typed into      *)
(* them, and the many ways they end (internal/telegram/agent.go, the       *)
(* host's Session of internal/agent/host.go).                              *)
(*                                                                         *)
(* A run is named by the message that started it.  Two kinds of goroutine  *)
(* meet: the handler of each message, and the relay of each run, which     *)
(* notices that its process has ended.  Whoever claims a run finishes    *)
(* it and tells the chat; agentCleanup, captureAgentExitScreen and         *)
(* announceAgentExit are therefore actions of either kind.                 *)
(***************************************************************************)
CONSTANTS
    Updates,    \* the messages of the chat
    None,       \* no run
    Menu        \* what each message may ask for

Request == [kind : {"agent", "text", "stop", "exit", "shutdown"},
            owner : BOOLEAN]

ASSUME AgentAssumption ==
    /\ None \notin Updates
    /\ Menu \in [Updates -> SUBSET Request]

Handler(u) == <<u, "handler">>
Relay(r)   == <<r, "relay">>
Goroutines == Updates \X {"handler", "relay"}

VARIABLES
    up,         \* the gateway's process runs, and its goroutines with it
    pc,         \* where each goroutine is
    req,        \* what each message asks for
    held,       \* the run a goroutine holds a pointer to
    screen,     \* what a goroutine has captured of its run's screen
    agents,     \* h.agents[chatID]
    replaced,   \* the runs taken out of the map by a later start
    stopped,    \* agentRun.stopped
    told,       \* how the run's end was told to the chat, and by whom
    proc,       \* the agent process: "none", "up", "interrupted", "exited"
    torn,       \* its screen was redrawn on being interrupted
    closed,     \* Session.closed
    done        \* Session.done is closed

runVars  == <<replaced, stopped, told>>
hostVars == <<proc, torn, closed, done>>
vars == <<up, pc, req, held, screen, agents, runVars, hostVars>>

-----------------------------------------------------------------------------
Goto(g, l) == pc' = [pc EXCEPT ![g] = l]

\* A step of g from label l to label m.
Step(g, l, m) ==
    /\ pc[g] = l
    /\ Goto(g, m)
    /\ UNCHANGED <<req, held, screen>>

Init ==
    /\ up = TRUE
    /\ pc = [g \in Goroutines |-> IF g[2] = "relay" THEN "none" ELSE "idle"]
    /\ req = [u \in Updates |-> [kind |-> "text", owner |-> FALSE]]
    /\ held = [g \in Goroutines |-> IF g[2] = "relay" THEN g[1] ELSE None]
    /\ screen = [g \in Goroutines |-> "none"]
    /\ agents = None
    /\ replaced = {}
    /\ stopped = [r \in Updates |-> FALSE]
    /\ told = [r \in Updates |-> {}]
    /\ proc = [r \in Updates |-> "none"]
    /\ torn = [r \in Updates |-> FALSE]
    /\ closed = [r \in Updates |-> FALSE]
    /\ done = [r \in Updates |-> FALSE]

\* A plausible error: a request that is routed to no handler.
EntryUnrouted(k) == k

\* The first label of the handler of a request.
Entry(k) == CASE k \in {"agent", "text"} -> "route"
              [] k = "shutdown"          -> "takeAll"
              [] OTHER                   -> "find"

Receive(u) ==
    /\ up /\ up' = up
    /\ pc[Handler(u)] = "idle"
    /\ \E q \in Menu[u] :
          /\ req' = [req EXCEPT ![u] = q]
          /\ Goto(Handler(u), Entry(q.kind))
    /\ UNCHANGED <<held, screen, agents, runVars, hostVars>>

\* A goroutine reads the map: the run found is what it works on from now on.
Hold(u, l, m) ==
    /\ pc[Handler(u)] = l
    /\ agents # None
    /\ held' = [held EXCEPT ![Handler(u)] = agents]
    /\ Goto(Handler(u), m)
    /\ UNCHANGED <<req, screen>>

-----------------------------------------------------------------------------
(* handle and handleAgentStart                                              *)

\* With an agent running, a message is its owner's input.
RouteToAgent(u) ==
    /\ Hold(u, "route", IF req[u].owner THEN "write" ELSE "done")
    /\ UNCHANGED <<agents, runVars, hostVars>>

\* With none, "agent ..." starts one, and the rest is not this module's.
RouteToStart(u) ==
    /\ agents = None
    /\ Step(Handler(u), "route",
            IF req[u].kind = "agent" /\ req[u].owner THEN "look" ELSE "done")
    /\ UNCHANGED <<agents, runVars, hostVars>>

\* The map is read again.
LookBeforeStart(u) ==
    /\ Step(Handler(u), "look", IF agents = None THEN "spawn" ELSE "done")
    /\ UNCHANGED <<agents, runVars, hostVars>>

\* No project is selected or reachable, no binary found, or the pty fails.
FailToStart(u) ==
    /\ Step(Handler(u), "spawn", "done")
    /\ UNCHANGED <<agents, runVars, hostVars>>

Spawn(u) ==
    /\ Step(Handler(u), "spawn", "register")
    /\ proc' = [proc EXCEPT ![u] = "up"]
    /\ UNCHANGED <<agents, runVars, torn, closed, done>>

\* The run is entered whatever the map holds by now.
Register(u) ==
    /\ Step(Handler(u), "register", "goRelay")
    /\ agents' = u
    /\ replaced' = replaced \cup ({agents} \ {None})
    /\ UNCHANGED <<stopped, told, hostVars>>

\* The relay is started, and the prompt, if any, will be the first input.
StartRelay(u) ==
    /\ pc[Handler(u)] = "goRelay"
    /\ \E l \in {"write", "done"} :
          pc' = [pc EXCEPT ![Handler(u)] = l, ![Relay(u)] = "wait"]
    /\ held' = [held EXCEPT ![Handler(u)] = u]
    /\ UNCHANGED <<req, screen, agents, runVars, hostVars>>

Start(u) ==
    \/ RouteToAgent(u) \/ RouteToStart(u) \/ LookBeforeStart(u)
    \/ FailToStart(u) \/ Spawn(u) \/ Register(u) \/ StartRelay(u)

-----------------------------------------------------------------------------
(* deliverAgentInput                                                        *)

\* Session.Write refuses when the session is closed.  The pty of a process
\* that has exited by itself may take the bytes or not.
WriteInput(u) ==
    /\ Step(Handler(u), "write", "done")
    /\ ~closed[held[Handler(u)]]
    /\ UNCHANGED <<agents, runVars, hostVars>>

WriteFails(u) ==
    /\ Step(Handler(u), "write", "remove")
    /\ LET r == held[Handler(u)] IN closed[r] \/ proc[r] = "exited"
    /\ UNCHANGED <<agents, runVars, hostVars>>

Deliver(u) == WriteInput(u) \/ WriteFails(u)

-----------------------------------------------------------------------------
(* handleAgentStop, the agent part of handleExit, and Handler.Close         *)

FindAgent(u) ==
    /\ \/ Hold(u, "find", "remove")
       \/ Step(Handler(u), "find", "done") /\ agents = None
    /\ UNCHANGED <<agents, runVars, hostVars>>

\* Shutdown empties the map and closes what was in it, claiming nothing.
TakeAll(u) ==
    /\ \/ Hold(u, "takeAll", "close")
       \/ Step(Handler(u), "takeAll", "done") /\ agents = None
    /\ agents' = None
    /\ UNCHANGED <<runVars, hostVars>>

\* Once the session is closed its end is told; shutdown tells nobody.
AfterClose(u) == IF req[u].kind = "shutdown" THEN "done" ELSE "announce"

\* Session.Close marks the session closed, once ...
CloseSession(u) ==
    /\ LET r == held[Handler(u)]
       IN  /\ Step(Handler(u), "close",
                   IF closed[r] THEN AfterClose(u) ELSE "hangUp")
           /\ closed' = [closed EXCEPT ![r] = TRUE]
    /\ UNCHANGED <<agents, runVars, proc, torn, done>>

\* ... and interrupts the process and hangs up on it.
HangUp(u) ==
    /\ Step(Handler(u), "hangUp", AfterClose(u))
    /\ LET r == held[Handler(u)]
       IN  proc' = [proc EXCEPT ![r] = IF @ = "up" THEN "interrupted" ELSE @]
    /\ UNCHANGED <<agents, runVars, torn, closed, done>>

Stop(u) == FindAgent(u) \/ TakeAll(u) \/ CloseSession(u) \/ HangUp(u)

-----------------------------------------------------------------------------
(* agentCleanup, captureAgentExitScreen and announceAgentExit, by whoever   *)
(* has found its run at an end or wants it ended.                           *)

\* What the winner of a claim does next: a message that could not be written
\* says so and is done with it.
Winner(g) == IF g[2] = "handler" /\ req[g[1]].kind \in {"agent", "text"}
             THEN "fail" ELSE "capture"

\* A plausible error: whatever run is in the map goes.
RemoveAny(g) ==
    /\ Step(g, "remove", "claim")
    /\ agents' = None
    /\ UNCHANGED <<runVars, hostVars>>

\* The run leaves the map, unless a newer one has taken its place.
Remove(g) ==
    /\ Step(g, "remove", "claim")
    /\ agents' = IF agents = held[g] THEN None ELSE agents
    /\ UNCHANGED <<runVars, hostVars>>

\* A plausible error: claim does not ask who was there first.
ClaimAlways(g) ==
    /\ Step(g, "claim", Winner(g))
    /\ stopped' = [stopped EXCEPT ![held[g]] = TRUE]
    /\ UNCHANGED <<agents, replaced, told, hostVars>>

\* claim: the first to come finishes the run.
Claim(g) ==
    /\ Step(g, "claim", IF stopped[held[g]] THEN "done" ELSE Winner(g))
    /\ stopped' = [stopped EXCEPT ![held[g]] = TRUE]
    /\ UNCHANGED <<agents, replaced, told, hostVars>>

\* What the agent's screen shows at the moment.
Frame(r) == IF torn[r] THEN "torn" ELSE "session"

\* The screen is read before the session is closed.  The relay has nothing
\* left to close.
Capture(g) ==
    /\ pc[g] = "capture"
    /\ screen' = [screen EXCEPT ![g] = Frame(held[g])]
    /\ Goto(g, IF g[2] = "relay" THEN "announce" ELSE "close")
    /\ UNCHANGED <<req, held, agents, runVars, hostVars>>

\* A plausible error: the screen is read when the end is told.
TellLate(g) ==
    /\ Step(g, "announce", "done")
    /\ told' = [told EXCEPT ![held[g]] =
                  @ \cup {[by |-> g, screen |-> Frame(held[g])]}]
    /\ UNCHANGED <<agents, replaced, stopped, hostVars>>

\* The end of the run is told, with its screen, or as a failure to write.
Tell(g) ==
    /\ \/ Step(g, "announce", "done")
       \/ Step(g, "fail", "done")
    /\ told' = [told EXCEPT ![held[g]] =
                  @ \cup {[by |-> g, screen |-> screen[g]]}]
    /\ UNCHANGED <<agents, replaced, stopped, hostVars>>

Finish(g) == Remove(g) \/ Claim(g) \/ Capture(g) \/ Tell(g)

-----------------------------------------------------------------------------
(* relay                                                                    *)

\* A plausible error: the relay ends with its agent and does no more.
RelayReturns(r) ==
    /\ Step(Relay(r), "wait", "done")
    /\ done[r]
    /\ UNCHANGED <<agents, runVars, hostVars>>

\* The process is gone, and select has picked that.  (On its ticks the relay
\* posts or edits the live screen, which is not part of this module.)
SeeDone(r) ==
    /\ Step(Relay(r), "wait", "remove")
    /\ done[r]
    /\ UNCHANGED <<agents, runVars, hostVars>>

-----------------------------------------------------------------------------
(* The agent process and the goroutine that waits for it.  Agents end with   *)
(* the gateway, whose pty they are on.                                      *)

ExitAgent(r) ==
    /\ up
    /\ proc[r] \in {"up", "interrupted"}
    /\ proc' = [proc EXCEPT ![r] = "exited"]
    /\ UNCHANGED <<up, pc, req, held, screen, agents, runVars, torn, closed,
                   done>>

\* An interrupted agent clears its screen before it goes.
Redraw(r) ==
    /\ up /\ proc[r] = "interrupted" /\ ~torn[r]
    /\ torn' = [torn EXCEPT ![r] = TRUE]
    /\ UNCHANGED <<up, pc, req, held, screen, agents, runVars, proc, closed,
                   done>>

MarkDone(r) ==
    /\ proc[r] = "exited" /\ ~done[r]
    /\ done' = [done EXCEPT ![r] = TRUE]
    /\ UNCHANGED <<pc, req, held, screen, agents, runVars, proc, torn, closed>>

-----------------------------------------------------------------------------
\* The goroutines of the gateway end with its process.
Handle(u) ==
    /\ up /\ up' = up
    /\ Start(u) \/ Deliver(u) \/ Stop(u) \/ Finish(Handler(u))

Watch(r) ==
    /\ up /\ up' = up
    /\ SeeDone(r) \/ Finish(Relay(r)) \/ MarkDone(r)

\* Once Handler.Close has returned, so do Run and start, and the process ends:
\* nobody waits for the handlers and relays that are still at work.
EndProcess ==
    /\ up
    /\ \E u \in Updates : req[u].kind = "shutdown" /\ pc[Handler(u)] = "done"
    /\ up' = FALSE
    /\ UNCHANGED <<pc, req, held, screen, agents, runVars, hostVars>>

AllDone ==
    /\ ~up \/ \A u \in Updates : pc[Handler(u)] = "done"
    /\ UNCHANGED vars

Next ==
    \/ \E u \in Updates : \/ Receive(u) \/ Handle(u) \/ Watch(u)
                          \/ ExitAgent(u) \/ Redraw(u)
    \/ EndProcess
    \/ AllDone

Spec == Init /\ [][Next]_vars

\* While the gateway runs, the scheduler runs every goroutine that can run: each
\* takes a few steps and ends.  The agent process owes nothing: it may live for
\* ever, also when it has been told to go; nor does the gateway's own end.
Fairness == \A u \in Updates : WF_vars(Handle(u)) /\ WF_vars(Watch(u))

FairSpec == Spec /\ Fairness

-----------------------------------------------------------------------------
(* Properties                                                               *)

Labels == {"none", "idle", "route", "look", "spawn", "register", "goRelay",
           "write", "find", "takeAll", "close", "hangUp",
           "remove", "claim", "capture", "announce", "fail",
           "wait", "done"}

Told == [by : Goroutines, screen : {"none", "session", "torn"}]

SessionsTypeOK ==
    /\ pc \in [Goroutines -> Labels]
    /\ req \in [Updates -> Request]
    /\ held \in [Goroutines -> Updates \cup {None}]
    /\ screen \in [Goroutines -> {"none", "session", "torn"}]
    /\ agents \in Updates \cup {None}
    /\ replaced \subseteq Updates
    /\ stopped \in [Updates -> BOOLEAN]
    /\ told \in [Updates -> SUBSET Told]
    /\ proc \in [Updates -> {"none", "up", "interrupted", "exited"}]
    /\ torn \in [Updates -> BOOLEAN]
    /\ closed \in [Updates -> BOOLEAN]
    /\ done \in [Updates -> BOOLEAN]

TypeOK == up \in BOOLEAN /\ SessionsTypeOK

\* The end of an agent is told once, whichever of its relay, /agent stop, /exit
\* and failing messages notice it.
OneAnnouncement == \A r \in Updates : \A a, b \in told[r] : a = b

\* The last screen told is the session's, not what the agent drew on being
\* interrupted, unless it was the shutdown of the gateway that interrupted it.
ScreenIsSession ==
    \A r \in Updates : \A t \in told[r] :
        t.screen = "torn" => \E u \in Updates : /\ req[u].kind = "shutdown"
                                               /\ held[Handler(u)] = r

\* No teardown takes a run other than its own out of the map: a run whose relay
\* watches it can be found, unless a later start has replaced it, the gateway
\* shuts it down, or a goroutine is just about to claim it.
NewerRunStays ==
    \A r \in Updates :
        pc[Relay(r)] = "wait" /\ ~stopped[r] =>
            \/ agents = r
            \/ r \in replaced
            \/ \E g \in Goroutines : pc[g] = "claim" /\ held[g] = r
            \/ \E u \in Updates : /\ req[u].kind = "shutdown"
                                  /\ held[Handler(u)] = r

\* The chat has been told of r's end: with the last screen, or by a message that
\* could not be written to r.
EndTold(r) ==
    \E t \in told[r] :
        \/ t.screen # "none"
        \/ \E u \in Updates : t.by = Handler(u) /\ req[u].kind \in {"agent", "text"}

\* When an agent's process has ended, the chat is told, however it ended and
\* whoever else is ending it, unless the gateway itself goes first.
EndIsTold == \A r \in Updates : proc[r] = "exited" ~> (~up \/ EndTold(r))

-----------------------------------------------------------------------------
(* What the repository says of this code, and the code does not do          *)

\* "every path that ends an agent session [...] leaves a readable record
\* behind": an end is told with the last screen.  A message that could not be
\* written tells it without (agent.go:252-261).
RecordIsLeft ==
    \A r \in Updates : \A t \in told[r] : t.screen # "none"

\* One agent at a time: a second one is refused while the first runs.  The look
\* into the map and the entry are two critical sections (agent.go:165, 216-218).
OneAgent ==
    \A r, s \in Updates :
        /\ pc[Relay(r)] = "wait" /\ proc[r] = "up"
        /\ pc[Relay(s)] = "wait" /\ proc[s] = "up"
        => r = s
=============================================================================
