--------------------------- MODULE AgentRunProofs ---------------------------
(***************************************************************************)
(* The end of an agent is told once, with the screen of the session, and a *)
(* run that has not ended can be found.                                    *)
(*                                                                         *)
(* The types are strengthened by what a goroutine needs in order to end a  *)
(* run: it holds one (HasRun), a relay its own (RelayHolds), and shutdown  *)
(* claims nothing (ShutdownAway).  On top of these, the invariant of the   *)
(* end itself: who is finishing a run has claimed it, alone, and has not   *)
(* told its end yet (Sole, Untold); what was told was claimed (ToldOnce).  *)
(* That a run can be found until it is claimed (Findable), and that its    *)
(* screen is captured before anyone but the shutdown interrupts it         *)
(* (Interrupted), rest on a handler having no run at first (Fresh) and     *)
(* keeping the one it gets (HandsKeep).                                    *)
(***************************************************************************)
EXTENDS AgentRun, TLAPS

\* The labels at which a goroutine has a run in its hands.
Ending == {"capture", "close", "hangUp", "announce", "fail"}
Using  == Ending \cup {"write", "remove", "claim"}

HasRun == \A g \in Goroutines : pc[g] \in Using => held[g] # None

RelayHolds == \A r \in Updates : held[Relay(r)] = r

ShutdownAway ==
    \A u \in Updates :
        /\ pc[Handler(u)] = "takeAll" => req[u].kind = "shutdown"
        /\ req[u].kind = "shutdown" =>
               pc[Handler(u)] \in {"takeAll", "close", "hangUp", "done"}

Shape == SessionsTypeOK /\ HasRun /\ RelayHolds /\ ShutdownAway

\* g has claimed its run and has not told its end yet.
Finishing(g) ==
    /\ pc[g] \in Ending
    /\ g[2] = "handler" => req[g[1]].kind # "shutdown"

Sole ==
    \A g, h \in Goroutines :
        Finishing(g) /\ Finishing(h) /\ held[g] = held[h] => g = h

Untold ==
    \A g \in Goroutines :
        Finishing(g) => stopped[held[g]] /\ told[held[g]] = {}

ToldOnce ==
    \A r \in Updates : /\ told[r] # {} => stopped[r]
                       /\ \A a, b \in told[r] : a = b

EndInv == Sole /\ Untold /\ ToldOnce

-----------------------------------------------------------------------------
LEMMA Names ==
    /\ \A u \in Updates : /\ Handler(u) \in Goroutines /\ Relay(u) \in Goroutines
                          /\ Handler(u)[1] = u /\ Handler(u)[2] = "handler"
                          /\ Relay(u)[1] = u /\ Relay(u)[2] = "relay"
    /\ \A u, v \in Updates : Handler(u) # Relay(v)
    /\ \A u, v \in Updates : Handler(u) = Handler(v) => u = v
    /\ \A u, v \in Updates : Relay(u) = Relay(v) => u = v
    /\ \A g \in Goroutines :
          \E u \in Updates : g = Handler(u) \/ g = Relay(u)
BY DEF Handler, Relay, Goroutines

LEMMA InitShape == Init => Shape
<1> SUFFICES ASSUME Init PROVE Shape
  OBVIOUS
<1>1. SessionsTypeOK
  BY AgentAssumption DEF Init, SessionsTypeOK, Goroutines, Labels, Request
<1>2. HasRun
  BY DEF Init, HasRun, Using, Ending
<1>3. RelayHolds
  BY Names DEF Init, RelayHolds
<1>4. ShutdownAway
  BY Names DEF Init, ShutdownAway
<1> QED
  BY <1>1, <1>2, <1>3, <1>4 DEF Shape

-----------------------------------------------------------------------------
(* The types and the shape of every step, action by action.                 *)

LEMMA ReceiveShape ==
    ASSUME Shape, NEW u \in Updates, Receive(u)
    PROVE  Shape'
<1>1. PICK q \in Menu[u] : req' = [req EXCEPT ![u] = q]
                           /\ Goto(Handler(u), Entry(q.kind))
  BY DEF Receive
<1>2. q \in Request
  BY AgentAssumption
<1>3. /\ Entry(q.kind) \in {"route", "takeAll", "find"}
      /\ q.kind = "shutdown" <=> Entry(q.kind) = "takeAll"
  BY <1>2 DEF Entry, Request
<1>4. SessionsTypeOK'
  BY <1>1, <1>2, <1>3, Names
  DEF Receive, Goto, Shape, SessionsTypeOK, Labels, runVars, hostVars
<1>5. HasRun'
  BY <1>1, <1>3, Names
  DEF Receive, Goto, Shape, SessionsTypeOK, HasRun, Using, Ending
<1>6. RelayHolds' /\ ShutdownAway'
  BY <1>1, <1>2, <1>3, Names
  DEF Receive, Goto, Shape, SessionsTypeOK, RelayHolds, ShutdownAway
<1> QED
  BY <1>4, <1>5, <1>6 DEF Shape

LEMMA StartShape ==
    ASSUME Shape, NEW u \in Updates, Start(u)
    PROVE  Shape'
<1>1. CASE RouteToAgent(u)
  BY <1>1, AgentAssumption, Names
  DEF RouteToAgent, Hold, Goto, Shape, SessionsTypeOK, HasRun, RelayHolds,
      ShutdownAway, Labels, Using, Ending, runVars, hostVars
<1>2. CASE RouteToStart(u)
  BY <1>2, Names
  DEF RouteToStart, Step, Goto, Shape, SessionsTypeOK, HasRun, RelayHolds,
      ShutdownAway, Labels, Using, Ending, runVars, hostVars
<1>3. CASE LookBeforeStart(u)
  BY <1>3, Names
  DEF LookBeforeStart, Step, Goto, Shape, SessionsTypeOK, HasRun, RelayHolds,
      ShutdownAway, Labels, Using, Ending, runVars, hostVars
<1>4. CASE FailToStart(u)
  BY <1>4, Names
  DEF FailToStart, Step, Goto, Shape, SessionsTypeOK, HasRun, RelayHolds,
      ShutdownAway, Labels, Using, Ending, runVars, hostVars
<1>5. CASE Spawn(u)
  BY <1>5, Names
  DEF Spawn, Step, Goto, Shape, SessionsTypeOK, HasRun, RelayHolds,
      ShutdownAway, Labels, Using, Ending, runVars, hostVars
<1>6. CASE Register(u)
  BY <1>6, Names
  DEF Register, Step, Goto, Shape, SessionsTypeOK, HasRun, RelayHolds,
      ShutdownAway, Labels, Using, Ending, runVars, hostVars
<1>7. CASE StartRelay(u)
  <2>1. SessionsTypeOK'
    BY <1>7, AgentAssumption, Names
    DEF StartRelay, Goto, Shape, SessionsTypeOK, Labels, runVars, hostVars
  <2>2. HasRun'
    BY <1>7, AgentAssumption, Names
    DEF StartRelay, Goto, Shape, SessionsTypeOK, HasRun, Using, Ending
  <2>3. RelayHolds' /\ ShutdownAway'
    BY <1>7, Names
    DEF StartRelay, Goto, Shape, SessionsTypeOK, RelayHolds, ShutdownAway
  <2> QED
    BY <2>1, <2>2, <2>3 DEF Shape
<1> QED
  BY <1>1, <1>2, <1>3, <1>4, <1>5, <1>6, <1>7 DEF Start

LEMMA DeliverShape ==
    ASSUME Shape, NEW u \in Updates, Deliver(u)
    PROVE  Shape'
<1>1. CASE WriteInput(u)
  <2>1. SessionsTypeOK'
    BY <1>1, AgentAssumption, Names
    DEF WriteInput, Step, Goto, Shape, SessionsTypeOK, Labels, runVars, hostVars
  <2>2. HasRun'
    BY <1>1, Names
    DEF WriteInput, Step, Goto, Shape, SessionsTypeOK, HasRun, Using, Ending
  <2>3. RelayHolds' /\ ShutdownAway'
    BY <1>1, Names
    DEF WriteInput, Step, Goto, Shape, SessionsTypeOK, RelayHolds, ShutdownAway
  <2> QED
    BY <2>1, <2>2, <2>3 DEF Shape
<1>2. CASE WriteFails(u)
  <2>1. SessionsTypeOK'
    BY <1>2, AgentAssumption, Names
    DEF WriteFails, Step, Goto, Shape, SessionsTypeOK, Labels, runVars, hostVars
  <2>2. HasRun'
    BY <1>2, Names
    DEF WriteFails, Step, Goto, Shape, SessionsTypeOK, HasRun, Using, Ending
  <2>3. RelayHolds' /\ ShutdownAway'
    BY <1>2, Names
    DEF WriteFails, Step, Goto, Shape, SessionsTypeOK, RelayHolds, ShutdownAway
  <2> QED
    BY <2>1, <2>2, <2>3 DEF Shape
<1> QED
  BY <1>1, <1>2 DEF Deliver

LEMMA StopShape ==
    ASSUME Shape, NEW u \in Updates, Stop(u)
    PROVE  Shape'
<1>1. CASE FindAgent(u)
  <2>0. /\ pc[Handler(u)] = "find" /\ UNCHANGED <<req, screen>>
        /\ \E l \in {"remove", "done"} : pc' = [pc EXCEPT ![Handler(u)] = l]
        /\ \/ UNCHANGED held
           \/ held' = [held EXCEPT ![Handler(u)] = agents]
    BY <1>1 DEF FindAgent, Hold, Step, Goto
  <2>1. SessionsTypeOK'
    BY <1>1, <2>0, AgentAssumption, Names
    DEF FindAgent, Shape, SessionsTypeOK, Labels, runVars, hostVars
  <2>2. HasRun'
    BY <1>1, Names
    DEF FindAgent, Hold, Step, Goto, Shape, SessionsTypeOK, HasRun, Using, Ending
  <2>3. RelayHolds' /\ ShutdownAway'
    BY <2>0, Names
    DEF Shape, SessionsTypeOK, RelayHolds, ShutdownAway
  <2> QED
    BY <2>1, <2>2, <2>3 DEF Shape
<1>2. CASE TakeAll(u)
  <2>0. /\ pc[Handler(u)] = "takeAll" /\ UNCHANGED <<req, screen>>
        /\ \E l \in {"close", "done"} : pc' = [pc EXCEPT ![Handler(u)] = l]
        /\ \/ UNCHANGED held
           \/ held' = [held EXCEPT ![Handler(u)] = agents]
    BY <1>2 DEF TakeAll, Hold, Step, Goto
  <2>1. SessionsTypeOK'
    BY <1>2, <2>0, AgentAssumption, Names
    DEF TakeAll, Shape, SessionsTypeOK, Labels, runVars, hostVars
  <2>2. HasRun'
    BY <1>2, Names
    DEF TakeAll, Hold, Step, Goto, Shape, SessionsTypeOK, HasRun, Using, Ending
  <2>3. RelayHolds' /\ ShutdownAway'
    BY <2>0, Names
    DEF Shape, SessionsTypeOK, RelayHolds, ShutdownAway
  <2> QED
    BY <2>1, <2>2, <2>3 DEF Shape
<1>3. CASE CloseSession(u)
  BY <1>3, Names
  DEF CloseSession, AfterClose, Step, Goto, Shape, SessionsTypeOK, HasRun,
      RelayHolds, ShutdownAway, Labels, Using, Ending, runVars, hostVars
<1>4. CASE HangUp(u)
  BY <1>4, Names
  DEF HangUp, AfterClose, Step, Goto, Shape, SessionsTypeOK, HasRun, RelayHolds,
      ShutdownAway, Labels, Using, Ending, runVars, hostVars
<1> QED
  BY <1>1, <1>2, <1>3, <1>4 DEF Stop

LEMMA FinishShape ==
    ASSUME Shape, NEW g \in Goroutines, Finish(g)
    PROVE  Shape'
<1>1. CASE Remove(g)
  BY <1>1, Names
  DEF Remove, Step, Goto, Shape, SessionsTypeOK, HasRun, RelayHolds, ShutdownAway,
      Labels, Using, Ending, runVars, hostVars
<1>2. CASE Claim(g)
  BY <1>2, Names
  DEF Claim, Winner, Step, Goto, Shape, SessionsTypeOK, HasRun, RelayHolds,
      ShutdownAway, Labels, Using, Ending, hostVars
<1>3. CASE Capture(g)
  BY <1>3, Names
  DEF Capture, Frame, Goto, Shape, SessionsTypeOK, HasRun, RelayHolds, ShutdownAway,
      Labels, Using, Ending, runVars, hostVars
<1>4. CASE Tell(g)
  <2>0. [by |-> g, screen |-> screen[g]] \in Told
    BY DEF Told, Shape, SessionsTypeOK
  <2>1. SessionsTypeOK'
    BY <1>4, <2>0 DEF Tell, Step, Goto, Shape, SessionsTypeOK, Labels, hostVars
  <2>2. HasRun'
    BY <1>4, Names
    DEF Tell, Step, Goto, Shape, SessionsTypeOK, HasRun, Using, Ending
  <2>3. RelayHolds' /\ ShutdownAway'
    BY <1>4, Names
    DEF Tell, Step, Goto, Shape, SessionsTypeOK, RelayHolds, ShutdownAway
  <2> QED
    BY <2>1, <2>2, <2>3 DEF Shape
<1> QED
  BY <1>1, <1>2, <1>3, <1>4 DEF Finish

LEMMA AgentShape ==
    ASSUME Shape, NEW r \in Updates,
           SeeDone(r) \/ ExitAgent(r) \/ Redraw(r) \/ MarkDone(r)
    PROVE  Shape'
<1>1. CASE SeeDone(r)
  BY <1>1, AgentAssumption, Names
  DEF SeeDone, Step, Goto, Shape, SessionsTypeOK, HasRun, RelayHolds, ShutdownAway,
      Labels, Using, Ending, runVars, hostVars
<1>2. CASE ExitAgent(r) \/ Redraw(r) \/ MarkDone(r)
  BY <1>2
  DEF ExitAgent, Redraw, MarkDone, Shape, SessionsTypeOK, HasRun, RelayHolds,
      ShutdownAway, runVars
<1> QED
  BY <1>1, <1>2

LEMMA NextShape == Shape /\ [Next]_vars => Shape'
<1> SUFFICES ASSUME Shape, [Next]_vars PROVE Shape'
  OBVIOUS
<1>1. ASSUME NEW u \in Updates, Receive(u) \/ Handle(u) \/ Watch(u)
                                  \/ ExitAgent(u) \/ Redraw(u)
      PROVE  Shape'
  BY <1>1, Names, ReceiveShape, StartShape, DeliverShape, StopShape,
     FinishShape, AgentShape DEF Handle, Watch
<1>2. CASE UNCHANGED vars \/ EndProcess
  BY <1>2
  DEF EndProcess, vars, runVars, hostVars, Shape, SessionsTypeOK, HasRun,
      RelayHolds, ShutdownAway
<1> QED
  BY <1>1, <1>2 DEF Next, AllDone, EndProcess

LEMMA AgentShaped == Spec => []Shape
BY InitShape, NextShape, PTL DEF Spec

\* Every variable of the agent sessions keeps its type, for any number of
\* messages and whatever they ask for.
THEOREM AgentsTyped == Spec => []TypeOK
<1>1. Init => TypeOK
  BY InitShape DEF Init, TypeOK, Shape
<1>2. Shape' /\ TypeOK /\ [Next]_vars => TypeOK'
  <2> SUFFICES ASSUME Shape', TypeOK, [Next]_vars PROVE up' \in BOOLEAN
    BY DEF TypeOK, Shape
  <2> QED
    BY DEF TypeOK, Next, Receive, Handle, Watch, ExitAgent, Redraw, EndProcess,
           AllDone, vars
<1> QED
  BY <1>1, <1>2, AgentShaped, PTL DEF Spec

-----------------------------------------------------------------------------
(* The end of a run.                                                        *)

LEMMA FinishersHold ==
    ASSUME Shape, NEW g \in Goroutines, Finishing(g)
    PROVE  held[g] \in Updates
BY DEF Shape, SessionsTypeOK, HasRun, Finishing, Using

\* A step after which nobody finishes who did not before, and which neither
\* claims nor tells, keeps the invariant.
LEMMA PassiveKeeps ==
    ASSUME EndInv, UNCHANGED <<stopped, told>>,
           \A g \in Goroutines :
               Finishing(g)' => Finishing(g) /\ held'[g] = held[g]
    PROVE  EndInv'
BY DEF EndInv, Sole, Untold, ToldOnce

LEMMA StartPassive ==
    ASSUME Shape, EndInv, NEW u \in Updates,
           Receive(u) \/ Start(u) \/ Deliver(u)
    PROVE  EndInv'
<1>1. CASE Receive(u)
  <2>1. PICK q \in Menu[u] : Goto(Handler(u), Entry(q.kind))
    BY <1>1 DEF Receive
  <2>2. Entry(q.kind) \notin Ending
    BY DEF Entry, Ending
  <2>3. \A g \in Goroutines :
            Finishing(g)' => Finishing(g) /\ held'[g] = held[g]
    <3> SUFFICES ASSUME NEW g \in Goroutines, Finishing(g)'
                 PROVE  Finishing(g) /\ held'[g] = held[g]
      OBVIOUS
    <3>1. g # Handler(u)
      BY <2>1, <2>2 DEF Goto, Finishing, Shape, SessionsTypeOK
    <3>2. g[2] = "handler" => g[1] # u
      BY <3>1, Names
    <3>3. pc'[g] = pc[g]
      BY <2>1, <3>1 DEF Goto, Shape, SessionsTypeOK
    <3>4. held' = held /\ \A v \in Updates \ {u} : req'[v] = req[v]
      BY <1>1 DEF Receive, Shape, SessionsTypeOK
    <3>5. g[1] \in Updates
      BY DEF Goroutines
    <3> QED
      BY <3>2, <3>3, <3>4, <3>5 DEF Finishing
  <2> QED
    BY <1>1, <2>3, PassiveKeeps DEF Receive, runVars
<1>2. CASE Start(u) /\ ~StartRelay(u)
  <2>1. \E m \in Labels \ Ending : pc' = [pc EXCEPT ![Handler(u)] = m]
    BY <1>2 DEF Start, RouteToAgent, RouteToStart, LookBeforeStart,
        FailToStart, Spawn, Register, Hold, Step, Goto, Labels, Ending
  <2>2. /\ UNCHANGED <<req, stopped, told>>
        /\ \A g \in Goroutines \ {Handler(u)} : held'[g] = held[g]
    BY <1>2 DEF Start, RouteToAgent, RouteToStart, LookBeforeStart,
        FailToStart, Spawn, Register, Hold, Step, runVars, Shape, SessionsTypeOK
  <2> QED
    BY <2>1, <2>2, PassiveKeeps DEF Finishing, Shape, SessionsTypeOK
<1>3. CASE StartRelay(u)
  <2>1. \A g \in Goroutines :
            Finishing(g)' => Finishing(g) /\ held'[g] = held[g]
    BY <1>3, Names DEF StartRelay, Finishing, Ending, Shape, SessionsTypeOK
  <2> QED
    BY <1>3, <2>1, PassiveKeeps DEF StartRelay, runVars
<1>4. CASE Deliver(u)
  <2>1. \A g \in Goroutines :
            Finishing(g)' => Finishing(g) /\ held'[g] = held[g]
    BY <1>4 DEF Deliver, WriteInput, WriteFails, Step, Goto, Finishing, Ending,
                Shape, SessionsTypeOK
  <2> QED
    BY <1>4, <2>1, PassiveKeeps DEF Deliver, WriteInput, WriteFails, runVars
<1> QED
  BY <1>1, <1>2, <1>3, <1>4

\* /agent stop, /exit and shutdown: a session is closed by who has claimed it
\* already, or by shutdown, which claims nothing.
LEMMA StopPassive ==
    ASSUME Shape, EndInv, NEW u \in Updates, Stop(u)
    PROVE  EndInv'
<1>1. CASE FindAgent(u)
  <2>1. \E m \in {"remove", "done"} : pc' = [pc EXCEPT ![Handler(u)] = m]
    BY <1>1 DEF FindAgent, Hold, Step, Goto
  <2>2. /\ UNCHANGED <<req, stopped, told>>
        /\ \A g \in Goroutines \ {Handler(u)} : held'[g] = held[g]
    BY <1>1 DEF FindAgent, Hold, Step, runVars, Shape, SessionsTypeOK
  <2> QED
    BY <2>1, <2>2, PassiveKeeps DEF Finishing, Ending, Shape, SessionsTypeOK
<1>2. CASE TakeAll(u)
  <2>1. /\ pc[Handler(u)] = "takeAll"
        /\ \E m \in {"close", "done"} : pc' = [pc EXCEPT ![Handler(u)] = m]
    BY <1>2 DEF TakeAll, Hold, Step, Goto
  <2>2. /\ UNCHANGED <<req, stopped, told>>
        /\ \A g \in Goroutines \ {Handler(u)} : held'[g] = held[g]
    BY <1>2 DEF TakeAll, Hold, Step, runVars, Shape, SessionsTypeOK
  <2>3. req[u].kind = "shutdown"
    BY <2>1 DEF Shape, ShutdownAway
  <2> QED
    BY <2>1, <2>2, <2>3, Names, PassiveKeeps DEF Finishing, Shape, SessionsTypeOK
<1>3. CASE CloseSession(u) \/ HangUp(u)
  <2>1. /\ pc[Handler(u)] \in Ending
        /\ \E m \in Labels : pc' = [pc EXCEPT ![Handler(u)] = m]
        /\ UNCHANGED <<req, held, stopped, told>>
    BY <1>3 DEF CloseSession, HangUp, AfterClose, Step, Goto, Ending, Labels,
        runVars
  <2> QED
    BY <2>1, PassiveKeeps DEF Finishing, Shape, SessionsTypeOK
<1> QED
  BY <1>1, <1>2, <1>3 DEF Stop

LEMMA ClaimKeeps ==
    ASSUME Shape, EndInv, NEW g \in Goroutines, Claim(g)
    PROVE  EndInv'
<1> DEFINE r == held[g]
<1>0. r \in Updates /\ UNCHANGED <<req, held, told>>
  BY DEF Claim, Step, Shape, SessionsTypeOK, HasRun, Using
<1>1. CASE stopped[r]
  <2>1. pc' = [pc EXCEPT ![g] = "done"]
    BY <1>1 DEF Claim, Step, Goto
  <2>2. UNCHANGED stopped
    BY <1>0, <1>1 DEF Claim, Shape, SessionsTypeOK
  <2> QED
    BY <1>0, <2>1, <2>2, PassiveKeeps DEF Finishing, Ending, Shape, SessionsTypeOK
<1>2. CASE ~stopped[r]
  <2>1. \A h \in Goroutines \ {g} :
            Finishing(h)' => Finishing(h) /\ held[h] # r
    BY <1>0, <1>2 DEF Claim, Step, Goto, Finishing, EndInv, Untold, Shape,
                      SessionsTypeOK
  <2>2. told[r] = {}
    BY <1>0, <1>2 DEF EndInv, ToldOnce
  <2>3. stopped' = [stopped EXCEPT ![r] = TRUE]
    BY DEF Claim
  <2>4. Sole'
    BY <1>0, <2>1 DEF EndInv, Sole
  <2>5. Untold'
    BY <1>0, <2>1, <2>2, <2>3, FinishersHold
    DEF EndInv, Untold, Shape, SessionsTypeOK
  <2>6. ToldOnce'
    BY <1>0, <2>3 DEF EndInv, ToldOnce, Shape, SessionsTypeOK
  <2> QED
    BY <2>4, <2>5, <2>6 DEF EndInv
<1> QED
  BY <1>1, <1>2

LEMMA TellKeeps ==
    ASSUME Shape, EndInv, NEW g \in Goroutines, Tell(g)
    PROVE  EndInv'
<1> DEFINE r == held[g]
           t == [by |-> g, screen |-> screen[g]]
<1>1. /\ pc[g] \in {"announce", "fail"}
      /\ pc' = [pc EXCEPT ![g] = "done"]
      /\ UNCHANGED <<req, held, stopped>>
  BY DEF Tell, Step, Goto
<1>2. Finishing(g)
  <2>1. CASE g[2] = "handler"
    BY <1>1, <2>1, Names DEF Finishing, Ending, Shape, ShutdownAway
  <2> QED
    BY <1>1, <2>1 DEF Finishing, Ending
<1>3. r \in Updates /\ stopped[r] /\ told[r] = {}
  BY <1>2, FinishersHold DEF EndInv, Untold
<1>4. told' = [told EXCEPT ![r] = {t}]
  BY <1>3 DEF Tell, Shape, SessionsTypeOK
<1>5. \A h \in Goroutines : Finishing(h)' => Finishing(h) /\ held[h] # r
  BY <1>1, <1>2 DEF Finishing, Ending, EndInv, Sole, Shape, SessionsTypeOK
<1>6. Sole' /\ Untold'
  BY <1>1, <1>3, <1>4, <1>5, FinishersHold
  DEF EndInv, Sole, Untold, Shape, SessionsTypeOK
<1>7. ToldOnce'
  BY <1>1, <1>3, <1>4 DEF EndInv, ToldOnce, Shape, SessionsTypeOK
<1> QED
  BY <1>6, <1>7 DEF EndInv

LEMMA NextEnd == Shape /\ EndInv /\ [Next]_vars => EndInv'
<1> SUFFICES ASSUME Shape, EndInv, [Next]_vars PROVE EndInv'
  OBVIOUS
<1>1. ASSUME NEW g \in Goroutines, Finish(g) PROVE EndInv'
  <2>1. CASE Remove(g) \/ Capture(g)
    <3>1. \A h \in Goroutines :
              Finishing(h)' => Finishing(h) /\ held'[h] = held[h]
      BY <2>1
      DEF Remove, Capture, Step, Goto, Finishing, Ending, Shape, SessionsTypeOK
    <3> QED
      BY <2>1, <3>1, PassiveKeeps DEF Remove, Capture, runVars
  <2> QED
    BY <1>1, <2>1, ClaimKeeps, TellKeeps DEF Finish
<1>2. ASSUME NEW r \in Updates,
             SeeDone(r) \/ MarkDone(r) \/ ExitAgent(r) \/ Redraw(r)
      PROVE  EndInv'
  <2>1. \A h \in Goroutines :
            Finishing(h)' => Finishing(h) /\ held'[h] = held[h]
    BY <1>2 DEF SeeDone, MarkDone, ExitAgent, Redraw, Step, Goto, Finishing,
                Ending, Shape, SessionsTypeOK
  <2> QED
    BY <1>2, <2>1, PassiveKeeps DEF SeeDone, MarkDone, ExitAgent, Redraw,
                                    runVars
<1>3. CASE UNCHANGED vars \/ EndProcess
  BY <1>3, PassiveKeeps DEF EndProcess, vars, runVars, Finishing
<1> QED
  BY <1>1, <1>2, <1>3, Names, StartPassive, StopPassive
  DEF Next, Handle, Watch, AllDone

\* The end of an agent is told once, however many messages, stops, exits and
\* starts of other agents meet, and whether its own process has ended or not:
\* the winner of agentRun.claim is alone in finishing the run.
THEOREM AnnouncedOnce == Spec => []OneAnnouncement
<1>1. Init => EndInv
  BY DEF Init, EndInv, Sole, Untold, ToldOnce, Finishing, Ending
<1>2. EndInv => OneAnnouncement
  BY DEF EndInv, ToldOnce, OneAnnouncement
<1> QED
  BY <1>1, <1>2, NextEnd, AgentShaped, PTL DEF Spec

-----------------------------------------------------------------------------
(* What a goroutine keeps in its hands.                                     *)

\* The labels before a handler has a run, and its own is watched.
Early == {"idle", "route", "look", "spawn", "register", "goRelay", "find",
          "takeAll"}

Fresh ==
    \A u \in Updates :
        pc[Handler(u)] \in Early =>
            /\ held[Handler(u)] = None /\ screen[Handler(u)] = "none"
            /\ pc[Relay(u)] = "none"

\* The gateway that shuts down has taken r out of the map.
Doomed(r) ==
    \E u \in Updates : req[u].kind = "shutdown" /\ held[Handler(u)] = r

\* A run in the hands of a goroutine, and a request, stay.
HandsKeep ==
    /\ \A g \in Goroutines : held[g] # None => held'[g] = held[g]
    /\ \A u \in Updates : pc[Handler(u)] # "idle" => req'[u] = req[u]

LEMMA HandsStep == Shape /\ Fresh /\ [Next]_vars => Fresh' /\ HandsKeep
<1> SUFFICES ASSUME Shape, Fresh, [Next]_vars PROVE Fresh' /\ HandsKeep
  OBVIOUS
<1> USE Names DEF Shape, SessionsTypeOK, Fresh, HandsKeep, Early
<1>1. ASSUME NEW u \in Updates, Receive(u) PROVE Fresh' /\ HandsKeep
  <2>1. PICK q \in Menu[u] : req' = [req EXCEPT ![u] = q]
                             /\ Goto(Handler(u), Entry(q.kind))
    BY <1>1 DEF Receive
  <2>2. pc[Handler(u)] = "idle" /\ UNCHANGED <<held, screen>>
    BY <1>1 DEF Receive
  <2> QED
    BY <2>1, <2>2 DEF Goto
<1>2. ASSUME NEW u \in Updates, Start(u) PROVE Fresh' /\ HandsKeep
  <2>1. CASE RouteToAgent(u)
    BY <2>1 DEF RouteToAgent, Hold, Goto
  <2>2. CASE StartRelay(u)
    BY <2>2 DEF StartRelay
  <2>3. CASE RouteToStart(u) \/ LookBeforeStart(u) \/ FailToStart(u)
             \/ Spawn(u) \/ Register(u)
    BY <2>3 DEF RouteToStart, LookBeforeStart, FailToStart, Spawn, Register,
                Step, Goto
  <2> QED
    BY <1>2, <2>1, <2>2, <2>3 DEF Start
<1>3. ASSUME NEW u \in Updates, Deliver(u) PROVE Fresh' /\ HandsKeep
  BY <1>3 DEF Deliver, WriteInput, WriteFails, Step, Goto
<1>4. ASSUME NEW u \in Updates, Stop(u) PROVE Fresh' /\ HandsKeep
  BY <1>4 DEF Stop, FindAgent, TakeAll, CloseSession, HangUp, AfterClose,
              Hold, Step, Goto
<1>5. ASSUME NEW g \in Goroutines, Finish(g) PROVE Fresh' /\ HandsKeep
  <2>1. CASE Remove(g) \/ Claim(g) \/ Tell(g)
    BY <2>1 DEF Remove, Claim, Winner, Tell, Step, Goto
  <2>2. CASE Capture(g)
    BY <2>2 DEF Capture, Goto
  <2> QED
    BY <1>5, <2>1, <2>2 DEF Finish
<1>6. ASSUME NEW r \in Updates,
             SeeDone(r) \/ MarkDone(r) \/ ExitAgent(r) \/ Redraw(r)
      PROVE  Fresh' /\ HandsKeep
  BY <1>6 DEF SeeDone, MarkDone, ExitAgent, Redraw, Step, Goto
<1>7. CASE UNCHANGED vars \/ EndProcess
  BY <1>7 DEF EndProcess, vars
<1> QED
  BY <1>1, <1>2, <1>3, <1>4, <1>5, <1>6, <1>7 DEF Next, Handle, Watch, AllDone

LEMMA DoomedStays ==
  ASSUME Shape, HandsKeep, NEW r \in Updates, Doomed(r)
  PROVE  Doomed(r)'
<1>1. PICK u \in Updates : req[u].kind = "shutdown" /\ held[Handler(u)] = r
  BY DEF Doomed
<1>2. pc[Handler(u)] # "idle" /\ Handler(u) \in Goroutines /\ r # None
  BY <1>1, Names, AgentAssumption DEF Shape, ShutdownAway
<1> QED
  BY <1>1, <1>2 DEF HandsKeep, Doomed

-----------------------------------------------------------------------------
(* A run that is watched can be found.                                      *)

\* A goroutine is just about to claim r.
Claimed(r) == \E g \in Goroutines : pc[g] = "claim" /\ held[g] = r

Findable ==
    \A r \in Updates :
        /\ pc[Relay(r)] = "wait" \/ pc[Handler(r)] = "goRelay"
        /\ ~stopped[r]
        => agents = r \/ r \in replaced \/ Claimed(r) \/ Doomed(r)

LEMMA ClaimedStays ==
  ASSUME HandsKeep, NEW r \in Updates, Claimed(r),
         \A g \in Goroutines : pc[g] = "claim" => pc'[g] = "claim"
  PROVE  Claimed(r)'
BY AgentAssumption DEF Claimed, HandsKeep

\* No step loses a run that has not been claimed.
LEMMA FindableStep ==
  Shape /\ Fresh /\ Findable /\ [Next]_vars => Findable'
<1> SUFFICES ASSUME Shape, Fresh, Findable, [Next]_vars PROVE Findable'
  OBVIOUS
<1>h. HandsKeep
  BY HandsStep
<1>d. \A r \in Updates : Doomed(r) => Doomed(r)'
  BY <1>h, DoomedStays
<1>c. (\A g \in Goroutines : pc[g] = "claim" => pc'[g] = "claim")
        => \A r \in Updates : Claimed(r) => Claimed(r)'
  BY <1>h, ClaimedStays
<1> USE Names DEF Shape, SessionsTypeOK
<1>1. ASSUME NEW u \in Updates, Receive(u) PROVE Findable'
  <2>1. PICK q \in Menu[u] : Goto(Handler(u), Entry(q.kind))
    BY <1>1 DEF Receive
  <2>2. /\ pc[Handler(u)] = "idle" /\ UNCHANGED <<agents, replaced, stopped>>
        /\ \A g \in Goroutines : g # Handler(u) => pc'[g] = pc[g]
        /\ pc'[Handler(u)] \notin {"goRelay"}
    BY <1>1, <2>1 DEF Receive, Goto, Entry, runVars
  <2> QED
    BY <1>c, <1>d, <2>2 DEF Findable
<1>2. ASSUME NEW u \in Updates, Start(u) PROVE Findable'
  <2>1. CASE RouteToAgent(u)
    <3>1. /\ pc[Handler(u)] = "route" /\ pc'[Handler(u)] \in {"write", "done"}
          /\ UNCHANGED <<agents, replaced, stopped>>
          /\ \A g \in Goroutines : g # Handler(u) => pc'[g] = pc[g]
      BY <2>1 DEF RouteToAgent, Hold, Goto, runVars
    <3> QED
      BY <1>c, <1>d, <3>1 DEF Findable
  <2>2. CASE StartRelay(u)
    <3>1. /\ pc[Handler(u)] = "goRelay" /\ pc[Relay(u)] = "none"
          /\ pc'[Handler(u)] \in {"write", "done"}
          /\ UNCHANGED <<agents, replaced, stopped>>
          /\ \A g \in Goroutines :
                g # Handler(u) /\ g # Relay(u) => pc'[g] = pc[g]
      BY <2>2 DEF StartRelay, runVars, Fresh, Early
    <3> QED
      BY <1>c, <1>d, <3>1 DEF Findable
  <2>3. CASE RouteToStart(u) \/ LookBeforeStart(u) \/ FailToStart(u) \/ Spawn(u)
    <3>1. /\ pc[Handler(u)] \in {"route", "look", "spawn"}
          /\ pc'[Handler(u)] # "goRelay"
          /\ UNCHANGED <<agents, replaced, stopped>>
          /\ \A g \in Goroutines : g # Handler(u) => pc'[g] = pc[g]
      BY <2>3 DEF RouteToStart, LookBeforeStart, FailToStart, Spawn, Step, Goto,
                  runVars
    <3> QED
      BY <1>c, <1>d, <3>1 DEF Findable
  <2>4. CASE Register(u)
    <3>1. /\ pc[Handler(u)] = "register"
          /\ agents' = u /\ replaced' = replaced \cup ({agents} \ {None})
          /\ stopped' = stopped
          /\ \A g \in Goroutines : g # Handler(u) => pc'[g] = pc[g]
      BY <2>4 DEF Register, Step, Goto
    <3>2. \A r \in Updates : Claimed(r) => Claimed(r)'
      BY <1>c, <3>1
    <3>3. \A r \in Updates : agents = r \/ r \in replaced => r \in replaced'
      BY <3>1, AgentAssumption
    <3>4. ASSUME NEW r \in Updates, r # u,
                 pc'[Relay(r)] = "wait" \/ pc'[Handler(r)] = "goRelay",
                 ~stopped[r]
          PROVE  r \in replaced' \/ Claimed(r)' \/ Doomed(r)'
      <4>1. pc'[Relay(r)] = pc[Relay(r)] /\ pc'[Handler(r)] = pc[Handler(r)]
        BY <3>1, <3>4
      <4> QED
        BY <1>d, <3>2, <3>3, <3>4, <4>1 DEF Findable
    <3> QED
      BY <3>1, <3>4 DEF Findable
  <2> QED
    BY <1>2, <2>1, <2>2, <2>3, <2>4 DEF Start
<1>3. ASSUME NEW u \in Updates, Deliver(u) PROVE Findable'
  <2>1. /\ pc[Handler(u)] = "write" /\ pc'[Handler(u)] \in {"done", "remove"}
        /\ UNCHANGED <<agents, replaced, stopped>>
        /\ \A g \in Goroutines : g # Handler(u) => pc'[g] = pc[g]
    BY <1>3 DEF Deliver, WriteInput, WriteFails, Step, Goto, runVars
  <2> QED
    BY <1>c, <1>d, <2>1 DEF Findable
<1>4. ASSUME NEW u \in Updates, Stop(u) PROVE Findable'
  <2>1. /\ pc[Handler(u)] \in {"find", "takeAll", "close", "hangUp"}
        /\ pc'[Handler(u)] \notin {"goRelay", "wait"}
        /\ UNCHANGED <<replaced, stopped>>
        /\ \A g \in Goroutines : g # Handler(u) => pc'[g] = pc[g]
    BY <1>4 DEF Stop, FindAgent, TakeAll, CloseSession, HangUp, AfterClose,
                Hold, Step, Goto, runVars
  <2>2. \A r \in Updates : agents = r => agents' = r \/ Doomed(r)'
    <3>1. CASE TakeAll(u) /\ agents # None
      <4>1. /\ req[u].kind = "shutdown" /\ req' = req
            /\ held' = [held EXCEPT ![Handler(u)] = agents]
        BY <3>1 DEF TakeAll, Hold, Step, ShutdownAway
      <4> QED
        BY <4>1 DEF Doomed
    <3>2. CASE ~ (TakeAll(u) /\ agents # None)
      BY <1>4, <3>2, AgentAssumption
      DEF Stop, FindAgent, TakeAll, CloseSession, HangUp
    <3> QED
      BY <3>1, <3>2
  <2>3. \A r \in Updates : Claimed(r) => Claimed(r)'
    BY <1>c, <2>1
  <2> QED
    BY <1>d, <2>1, <2>2, <2>3 DEF Findable
<1>5. ASSUME NEW g \in Goroutines, Finish(g) PROVE Findable'
  <2>1. CASE Remove(g)
    <3>1. /\ pc[g] = "remove" /\ pc' = [pc EXCEPT ![g] = "claim"]
          /\ held' = held /\ UNCHANGED <<replaced, stopped>>
          /\ agents' = IF agents = held[g] THEN None ELSE agents
      BY <2>1 DEF Remove, Step, Goto, runVars
    <3>2. \A r \in Updates : agents = r => agents' = r \/ Claimed(r)'
      BY <3>1 DEF Claimed
    <3>3. \A r \in Updates : Claimed(r) => Claimed(r)'
      BY <1>c, <3>1
    <3> QED
      BY <1>d, <3>1, <3>2, <3>3 DEF Findable
  <2>2. CASE Claim(g)
    <3>1. /\ pc[g] = "claim" /\ pc'[g] \notin {"wait", "goRelay"}
          /\ stopped' = [stopped EXCEPT ![held[g]] = TRUE]
          /\ UNCHANGED <<agents, replaced, held>>
          /\ \A h \in Goroutines : h # g => pc'[h] = pc[h]
      BY <2>2 DEF Claim, Winner, Step, Goto
    <3>2. \A r \in Updates : r # held[g] =>
             stopped'[r] = stopped[r] /\ (Claimed(r) => Claimed(r)')
      BY <3>1 DEF Claimed
    <3>3. held[g] \in Updates => stopped'[held[g]] = TRUE
      BY <3>1
    <3> QED
      BY <1>d, <3>1, <3>2, <3>3 DEF Findable
  <2>3. CASE Capture(g) \/ Tell(g)
    <3>1. /\ pc[g] \in {"capture", "announce", "fail"}
          /\ pc'[g] \notin {"wait", "goRelay"}
          /\ UNCHANGED <<agents, replaced, stopped>>
          /\ \A h \in Goroutines : h # g => pc'[h] = pc[h]
      BY <2>3 DEF Capture, Tell, Step, Goto, runVars
    <3> QED
      BY <1>c, <1>d, <3>1 DEF Findable
  <2> QED
    BY <1>5, <2>1, <2>2, <2>3 DEF Finish
<1>6. ASSUME NEW r \in Updates,
             SeeDone(r) \/ MarkDone(r) \/ ExitAgent(r) \/ Redraw(r)
      PROVE  Findable'
  <2>1. /\ UNCHANGED <<agents, replaced, stopped>>
        /\ pc' = pc \/ (pc[Relay(r)] = "wait"
                        /\ pc' = [pc EXCEPT ![Relay(r)] = "remove"])
    BY <1>6 DEF SeeDone, MarkDone, ExitAgent, Redraw, Step, Goto, runVars
  <2> QED
    BY <1>c, <1>d, <2>1 DEF Findable
<1>7. CASE UNCHANGED vars \/ EndProcess
  BY <1>c, <1>d, <1>7 DEF EndProcess, vars, runVars, Findable
<1> QED
  BY <1>1, <1>2, <1>3, <1>4, <1>5, <1>6, <1>7, Names
  DEF Next, Handle, Watch, AllDone

LEMMA FreshInvariant == Spec => []Fresh
<1>1. Init => Fresh
  BY Names DEF Init, Fresh
<1> QED
  BY <1>1, HandsStep, AgentShaped, PTL DEF Spec

\* No teardown takes a run other than its own out of the map: a run that is
\* watched can be found until it has been claimed, whatever the order of
\* starts, stops, failing messages and exits (agent.go, agentCleanup).
THEOREM WatchedCanBeFound == Spec => []NewerRunStays
<1>1. Init => Findable
  BY Names DEF Init, Findable
<1>2. Findable => NewerRunStays
  BY DEF Findable, Claimed, Doomed, NewerRunStays
<1> QED
  BY <1>1, <1>2, FindableStep, FreshInvariant, AgentShaped, PTL DEF Spec

-----------------------------------------------------------------------------
(* The last screen told.                                                    *)

\* h has interrupted the process of r and is about to tell its end.
Telling(h, r) == Finishing(h) /\ pc[h] = "announce" /\ held[h] = r

\* Why a process has been interrupted.
Cause(r) == Doomed(r) \/ told[r] # {} \/ \E h \in Goroutines : Telling(h, r)

\* The process of r has been interrupted and is still there, or was when it
\* cleared its screen.
Broken(r) == proc[r] = "interrupted" \/ torn[r]

Interrupted == \A r \in Updates : Broken(r) => Cause(r)

Screens ==
    \A g \in Goroutines :
        screen[g] = "torn" => held[g] \in Updates /\ Doomed(held[g])

ScreenInv == Interrupted /\ Screens /\ ScreenIsSession

LEMMA TellingStays ==
  ASSUME Shape, HandsKeep, NEW h \in Goroutines, NEW r \in Updates,
         Telling(h, r), pc'[h] = pc[h]
  PROVE  Telling(h, r)'
<1>1. held'[h] = r
  BY AgentAssumption DEF Telling, HandsKeep
<1>2. ASSUME NEW u \in Updates, h = Handler(u) PROVE req'[u] = req[u]
  BY <1>2 DEF Telling, HandsKeep
<1>3. h[2] = "handler" => h[1] \in Updates /\ h = Handler(h[1])
  BY DEF Goroutines, Handler
<1> QED
  BY <1>1, <1>2, <1>3 DEF Telling, Finishing

\* Who captures a run's screen is the first to touch its process, but for the
\* shutdown.
LEMMA CaptureIsFirst ==
  ASSUME Shape, EndInv, Interrupted, NEW g \in Goroutines, pc[g] = "capture",
         torn[held[g]]
  PROVE  Doomed(held[g])
<1>1. Finishing(g)
  BY Names DEF Finishing, Ending, Shape, ShutdownAway
<1>2. held[g] \in Updates /\ told[held[g]] = {}
  BY <1>1, FinishersHold DEF EndInv, Untold
<1>3. ASSUME NEW h \in Goroutines, Telling(h, held[g]) PROVE FALSE
  BY <1>1, <1>3 DEF Telling, EndInv, Sole
<1> QED
  BY <1>2, <1>3 DEF Interrupted, Broken, Cause

\* A step that tells nothing, captures nothing and interrupts nothing.
LEMMA ScreenKeeps ==
  ASSUME Shape, HandsKeep, ScreenInv, UNCHANGED <<told, screen>>,
         \A h \in Goroutines : pc[h] = "announce" => pc'[h] = pc[h],
         \A r \in Updates : Broken(r)' => Broken(r)
  PROVE  ScreenInv'
<1>d. \A r \in Updates : Doomed(r) => Doomed(r)'
  BY DoomedStays
<1>1. \A r \in Updates : Cause(r) => Cause(r)'
  <2> SUFFICES ASSUME NEW r \in Updates, Cause(r) PROVE Cause(r)'
    OBVIOUS
  <2>1. ASSUME NEW h \in Goroutines, Telling(h, r) PROVE Telling(h, r)'
    BY <2>1, TellingStays DEF Telling
  <2> QED
    BY <1>d, <2>1 DEF Cause
<1>2. Interrupted'
  BY <1>1 DEF ScreenInv, Interrupted
<1>3. Screens'
  BY <1>d, AgentAssumption DEF ScreenInv, Screens, HandsKeep
<1>4. ScreenIsSession'
  BY <1>d DEF ScreenInv, ScreenIsSession, Doomed
<1> QED
  BY <1>2, <1>3, <1>4 DEF ScreenInv

LEMMA HangUpKeeps ==
  ASSUME Shape, HandsKeep, ScreenInv, NEW u \in Updates, HangUp(u)
  PROVE  ScreenInv'
<1>0. pc[Handler(u)] = "hangUp" /\ Handler(u) \in Goroutines
  BY Names DEF HangUp, Step
<1>r. held[Handler(u)] \in Updates
  BY <1>0 DEF Shape, SessionsTypeOK, HasRun, Using, Ending
<1> SUFFICES ASSUME NEW r \in Updates, r = held[Handler(u)] PROVE ScreenInv'
  BY <1>r
<1>d. \A q \in Updates : Doomed(q) => Doomed(q)'
  BY DoomedStays
<1>1. /\ pc[Handler(u)] = "hangUp" /\ Handler(u) \in Goroutines
      /\ pc' = [pc EXCEPT ![Handler(u)] = AfterClose(u)]
      /\ UNCHANGED <<req, held, screen, told, torn>>
      /\ proc' = [proc EXCEPT ![r] = IF @ = "up" THEN "interrupted" ELSE @]
  BY Names DEF HangUp, Step, Goto, runVars
<1>3. Cause(r)'
  <2>1. CASE req[u].kind = "shutdown"
    BY <1>1, <2>1 DEF Cause, Doomed
  <2>2. CASE req[u].kind # "shutdown"
    <3>1. pc'[Handler(u)] = "announce"
      BY <1>1, <2>2 DEF AfterClose, Shape, SessionsTypeOK
    <3>2. Telling(Handler(u), r)'
      BY <1>1, <2>2, <3>1, Names DEF Telling, Finishing, Ending
    <3> QED
      BY <1>1, <3>2 DEF Cause
  <2> QED
    BY <2>1, <2>2
<1>4. \A q \in Updates : Cause(q) => Cause(q)'
  <2> SUFFICES ASSUME NEW q \in Updates, Cause(q) PROVE Cause(q)'
    OBVIOUS
  <2>1. ASSUME NEW h \in Goroutines, Telling(h, q) PROVE Telling(h, q)'
    <3>1. pc'[h] = pc[h]
      BY <1>1, <2>1 DEF Telling, Shape, SessionsTypeOK
    <3> QED
      BY <2>1, <3>1, TellingStays
  <2> QED
    BY <1>d, <1>1, <2>1 DEF Cause
<1>5. ASSUME NEW q \in Updates, q # r, Broken(q)' PROVE Broken(q)
  <2>1. proc'[q] = proc[q] /\ torn' = torn
    BY <1>1, <1>5 DEF Shape, SessionsTypeOK
  <2> QED
    BY <1>5, <2>1 DEF Broken
<1>6. Interrupted'
  BY <1>3, <1>4, <1>5 DEF ScreenInv, Interrupted
<1>7. Screens' /\ ScreenIsSession'
  BY <1>1, <1>d DEF ScreenInv, Screens, ScreenIsSession, Doomed
<1> QED
  BY <1>6, <1>7 DEF ScreenInv

LEMMA CaptureKeeps ==
  ASSUME Shape, EndInv, HandsKeep, ScreenInv, NEW g \in Goroutines, Capture(g)
  PROVE  ScreenInv'
<1>d. \A q \in Updates : Doomed(q) => Doomed(q)'
  BY DoomedStays
<1>1. /\ pc[g] = "capture" /\ UNCHANGED <<req, held, told, proc, torn>>
      /\ screen' = [screen EXCEPT ![g] = Frame(held[g])]
      /\ \A h \in Goroutines : h # g => pc'[h] = pc[h]
  BY DEF Capture, Goto, runVars, hostVars, Shape, SessionsTypeOK
<1>2. \A q \in Updates : Cause(q) => Cause(q)'
  <2> SUFFICES ASSUME NEW q \in Updates, Cause(q) PROVE Cause(q)'
    OBVIOUS
  <2>1. ASSUME NEW h \in Goroutines, Telling(h, q) PROVE Telling(h, q)'
    <3>1. pc'[h] = pc[h]
      BY <1>1, <2>1 DEF Telling
    <3> QED
      BY <2>1, <3>1, TellingStays
  <2> QED
    BY <1>d, <1>1, <2>1 DEF Cause
<1>3. Interrupted'
  BY <1>1, <1>2 DEF ScreenInv, Interrupted, Broken
<1>4. held[g] \in Updates
  BY <1>1 DEF Shape, SessionsTypeOK, HasRun, Using, Ending
<1>5. screen'[g] = "torn" => Doomed(held[g])
  BY <1>1, CaptureIsFirst DEF Frame, ScreenInv, Shape, SessionsTypeOK
<1>6. \A h \in Goroutines : h # g => screen'[h] = screen[h]
  BY <1>1 DEF Shape, SessionsTypeOK
<1>7. Screens'
  BY <1>d, <1>1, <1>4, <1>5, <1>6 DEF ScreenInv, Screens
<1>8. ScreenIsSession'
  BY <1>1 DEF ScreenInv, ScreenIsSession
<1> QED
  BY <1>3, <1>7, <1>8 DEF ScreenInv

LEMMA TellScreen ==
  ASSUME Shape, HandsKeep, ScreenInv, NEW g \in Goroutines, Tell(g)
  PROVE  ScreenInv'
<1>d. \A q \in Updates : Doomed(q) => Doomed(q)'
  BY DoomedStays
<1>1. /\ pc[g] \in {"announce", "fail"}
      /\ UNCHANGED <<req, held, screen, proc, torn>>
      /\ told' = [told EXCEPT ![held[g]] = @ \cup {[by |-> g, screen |-> screen[g]]}]
      /\ \A h \in Goroutines : h # g => pc'[h] = pc[h]
  BY DEF Tell, Step, Goto, hostVars, Shape, SessionsTypeOK
<1>2. held[g] \in Updates
  BY <1>1 DEF Shape, SessionsTypeOK, HasRun, Using, Ending
<1>3. /\ told'[held[g]] = told[held[g]] \cup {[by |-> g, screen |-> screen[g]]}
      /\ \A q \in Updates : q # held[g] => told'[q] = told[q]
  BY <1>1, <1>2 DEF Shape, SessionsTypeOK
<1>4. \A q \in Updates : Cause(q) => Cause(q)'
  <2> SUFFICES ASSUME NEW q \in Updates, Cause(q) PROVE Cause(q)'
    OBVIOUS
  <2>1. told[q] # {} \/ q = held[g] => told'[q] # {}
    BY <1>3
  <2>2. ASSUME NEW h \in Goroutines, Telling(h, q), q # held[g]
        PROVE  Telling(h, q)'
    <3>1. pc'[h] = pc[h]
      BY <1>1, <2>2 DEF Telling
    <3> QED
      BY <2>2, <3>1, TellingStays
  <2> QED
    BY <1>d, <2>1, <2>2 DEF Cause
<1>5. Interrupted'
  BY <1>1, <1>4 DEF ScreenInv, Interrupted, Broken
<1>6. Screens'
  BY <1>d, <1>1 DEF ScreenInv, Screens
<1>7. ASSUME NEW q \in Updates, NEW t \in told'[q], t.screen = "torn"
      PROVE  Doomed(q)'
  <2>1. CASE t \in told[q]
    BY <1>d, <1>7, <2>1 DEF ScreenInv, ScreenIsSession, Doomed
  <2>2. CASE t \notin told[q]
    <3>1. q = held[g] /\ t.screen = screen[g]
      BY <1>3, <1>7, <2>2
    <3> QED
      BY <1>d, <1>7, <3>1 DEF ScreenInv, Screens
  <2> QED
    BY <2>1, <2>2
<1>8. ScreenIsSession'
  BY <1>7 DEF ScreenIsSession, Doomed
<1> QED
  BY <1>5, <1>6, <1>8 DEF ScreenInv

LEMMA ScreenStep ==
  Shape /\ Fresh /\ EndInv /\ ScreenInv /\ [Next]_vars => ScreenInv'
<1> SUFFICES ASSUME Shape, Fresh, EndInv, ScreenInv, [Next]_vars PROVE ScreenInv'
  OBVIOUS
<1>h. HandsKeep
  BY HandsStep
<1> DEFINE Calm ==
      /\ UNCHANGED <<told, screen>>
      /\ \A h \in Goroutines : pc[h] = "announce" => pc'[h] = pc[h]
      /\ \A r \in Updates : Broken(r)' => Broken(r)
<1>k. Calm => ScreenInv'
  BY <1>h, ScreenKeeps
<1> USE Names DEF Shape, SessionsTypeOK
<1>1. ASSUME NEW u \in Updates, Receive(u) PROVE Calm
  <2>1. PICK q \in Menu[u] : Goto(Handler(u), Entry(q.kind))
    BY <1>1 DEF Receive
  <2> QED
    BY <1>1, <2>1 DEF Receive, Goto, runVars, hostVars, Broken
<1>2. ASSUME NEW u \in Updates, Start(u) PROVE Calm
  <2>1. CASE RouteToAgent(u)
    BY <2>1 DEF RouteToAgent, Hold, Goto, runVars, hostVars, Broken
  <2>2. CASE StartRelay(u)
    <3>1. pc[Relay(u)] = "none"
      BY <2>2 DEF StartRelay, Fresh, Early
    <3> QED
      BY <2>2, <3>1 DEF StartRelay, runVars, hostVars, Broken
  <2>3. CASE RouteToStart(u) \/ LookBeforeStart(u) \/ FailToStart(u)
             \/ Spawn(u) \/ Register(u)
    BY <2>3 DEF RouteToStart, LookBeforeStart, FailToStart, Spawn, Register,
                Step, Goto, runVars, hostVars, Broken
  <2> QED
    BY <1>2, <2>1, <2>2, <2>3 DEF Start
<1>3. ASSUME NEW u \in Updates, Deliver(u) PROVE Calm
  BY <1>3 DEF Deliver, WriteInput, WriteFails, Step, Goto, runVars, hostVars, Broken
<1>4. ASSUME NEW u \in Updates, FindAgent(u) \/ TakeAll(u) \/ CloseSession(u)
      PROVE  Calm
  BY <1>4 DEF FindAgent, TakeAll, CloseSession, Hold, Step, Goto, runVars,
              hostVars, Broken
<1>5. ASSUME NEW g \in Goroutines, Remove(g) \/ Claim(g) PROVE Calm
  BY <1>5 DEF Remove, Claim, Step, Goto, runVars, hostVars, Broken
<1>6. ASSUME NEW r \in Updates,
             SeeDone(r) \/ MarkDone(r) \/ ExitAgent(r) \/ Redraw(r)
      PROVE  Calm
  <2>1. CASE SeeDone(r)
    BY <2>1 DEF SeeDone, Step, Goto, runVars, hostVars, Broken
  <2>2. CASE MarkDone(r)
    BY <2>2 DEF MarkDone, runVars, Broken
  <2>3. CASE ExitAgent(r)
    <3>1. ASSUME NEW q \in Updates, proc'[q] = "interrupted"
          PROVE  proc[q] = "interrupted"
      <4>1. q # r
        BY <2>3, <3>1 DEF ExitAgent
      <4> QED
        BY <2>3, <3>1, <4>1 DEF ExitAgent
    <3>2. UNCHANGED <<pc, told, screen, torn>>
      BY <2>3 DEF ExitAgent, runVars
    <3>3. \A q \in Updates : Broken(q)' => Broken(q)
      BY <3>1, <3>2 DEF Broken
    <3> QED
      BY <3>2, <3>3
  <2>4. CASE Redraw(r)
    <3>1. \A q \in Updates : q # r => torn'[q] = torn[q]
      BY <2>4 DEF Redraw
    <3>2. Broken(r)
      BY <2>4 DEF Redraw, Broken
    <3>3. UNCHANGED <<pc, told, screen, proc>>
      BY <2>4 DEF Redraw, runVars
    <3>4. ASSUME NEW q \in Updates, Broken(q)' PROVE Broken(q)
      <4>1. CASE q = r
        BY <3>2, <4>1
      <4>2. CASE q # r
        BY <3>1, <3>3, <3>4, <4>2 DEF Broken
      <4> QED
        BY <4>1, <4>2
    <3> QED
      BY <3>3, <3>4
  <2> QED
    BY <1>6, <2>1, <2>2, <2>3, <2>4
<1>7. ASSUME UNCHANGED vars \/ EndProcess PROVE Calm
  BY <1>7 DEF EndProcess, vars, runVars, hostVars, Broken
<1> HIDE DEF Calm
<1>8. ASSUME NEW u \in Updates, Stop(u) PROVE ScreenInv'
  BY <1>h, <1>k, <1>4, <1>8, HangUpKeeps DEF Stop
<1>9. ASSUME NEW g \in Goroutines, Finish(g) PROVE ScreenInv'
  BY <1>h, <1>k, <1>5, <1>9, CaptureKeeps, TellScreen DEF Finish
<1> QED
  BY <1>k, <1>1, <1>2, <1>3, <1>6, <1>7, <1>8, <1>9
  DEF Next, Handle, Watch, AllDone

\* The last screen told is the one the agent showed before anyone interrupted
\* it, unless the gateway was shutting down (agent.go, captureAgentExitScreen).
THEOREM ExitScreenIsSession == Spec => []ScreenIsSession
<1>1. Init => EndInv /\ ScreenInv
  <2>1. Init => EndInv
    BY DEF Init, EndInv, Sole, Untold, ToldOnce, Finishing, Ending
  <2>2. Init => ScreenInv
    BY DEF Init, ScreenInv, Interrupted, Broken, Screens, ScreenIsSession
  <2> QED
    BY <2>1, <2>2
<1>2. ScreenInv => ScreenIsSession
  BY DEF ScreenInv
<1> QED
  BY <1>1, <1>2, NextEnd, ScreenStep, FreshInvariant, AgentShaped, PTL DEF Spec
=============================================================================
