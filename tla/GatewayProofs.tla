---------------------------- MODULE GatewayProofs ---------------------------
(***************************************************************************)
(* The safety of a chat session, for every set of updates, of directories  *)
(* and of projects, and every menu: its types, one command at a time, the  *)
(* Active flag never left behind, a project always at its working          *)
(* directory, every shell accounted for and closed once, no stop flag left *)
(* over from a /stop that has ended, and no result of another command.     *)
(*                                                                         *)
(* TypeOK is not inductive by itself: a frame that is being executed must  *)
(* be there (StageInv), a handler that dereferences its shell pointer must *)
(* have one (HasShell), and only /project binds a project (BoundKind).     *)
(* The shell's part and the handlers' part of the invariant are proved     *)
(* apart: the first by one lemma per action of PtyShell, the second by one *)
(* per action of Gateway.                                                  *)
(*                                                                         *)
(* OneCommand and ActiveIsHeld are inductive together, given the types:    *)
(* the first says who holds the run lock and whose capture is installed,   *)
(* the second where that holder is when the flag is up.  Most steps are    *)
(* quiet for both: they neither take nor release the lock, nor install     *)
(* anything, nor raise the flag.  The other invariants are proved in the   *)
(* same way, LifeInv with the steps that are Steady, StopInv with those    *)
(* that are Unheard, FrameInv with those that are Plain.                   *)
(***************************************************************************)
EXTENDS Gateway, DataLemmas

USE DEF Silent

\* A frame in progress is the first one of the shell's input.
StageInv == \A s \in Updates : stage[s] # "idle" => input[s] # <<>>

ShellInv == ShellTypeOK /\ StageInv

\* The labels at which a handler uses the shell it has found or opened.
NeedsShell == ActiveLabels \cup {"active", "stopAlive", "flag", "channel",
                  "select", "closeChannel", "ctrlC", "type", "close",
                  "closeCurStop", "release"}

HasShell == \A u \in Updates : pc[u] \in NeedsShell => sh[u] # None

BoundKind == \A u \in Updates : pc[u] = "bind" => req[u].kind = "project"

HandlerInv == HandlerTypeOK /\ HasShell /\ BoundKind

TypeInv == ShellInv /\ HandlerInv

-----------------------------------------------------------------------------
(* The shell's part: no action of PtyShell breaks it.                       *)

LEMMA OpenShellKeeps ==
    ASSUME ShellInv, NEW s \in Updates, NEW d \in Dirs, OpenShell(s, d)
    PROVE  ShellInv'
BY DEF OpenShell, ShellInv, ShellTypeOK, StageInv

LEMMA InstallKeeps ==
    ASSUME ShellInv, NEW u \in Updates, NEW s \in Updates, Install(u, s)
    PROVE  ShellInv'
BY DEF Install, ShellInv, ShellTypeOK, StageInv

LEMMA SetStoppedKeeps ==
    ASSUME ShellInv, NEW s \in Updates, NEW b \in BOOLEAN, SetStopped(s, b)
    PROVE  ShellInv'
BY DEF SetStopped, ShellInv, ShellTypeOK, StageInv

LEMMA UninstallKeeps ==
    ASSUME ShellInv, NEW u \in Updates, NEW s \in Updates, Uninstall(u, s)
    PROVE  ShellInv'
BY DEF Uninstall, ShellInv, ShellTypeOK, StageInv

LEMMA TypeLineKeeps ==
    ASSUME ShellInv, NEW s \in Updates, TypeLine(s)
    PROVE  ShellInv'
<1>1. dir' \in [Updates -> Dirs]
  BY DEF TypeLine, ShellInv, ShellTypeOK
<1>2. echo' \in [Updates -> BOOLEAN]
  BY DEF TypeLine, ShellInv, ShellTypeOK
<1> QED
  BY <1>1, <1>2 DEF TypeLine, ShellInv, ShellTypeOK, StageInv

LEMMA CloseChannelKeeps ==
    ASSUME ShellInv, NEW c, CloseChannel(c)
    PROVE  ShellInv'
BY DEF CloseChannel, ShellInv, ShellTypeOK, StageInv

LEMMA MarkClosedKeeps ==
    ASSUME ShellInv, NEW u \in Updates, NEW s \in Updates, MarkClosed(u, s)
    PROVE  ShellInv'
BY DEF MarkClosed, ShellInv, ShellTypeOK, StageInv

LEMMA ReleaseKeeps ==
    ASSUME ShellInv, NEW s \in Updates, Release(s)
    PROVE  ShellInv'
BY DEF Release, ShellInv, ShellTypeOK, StageInv

LEMMA OverflowKeeps ==
    ASSUME ShellInv, NEW s \in Updates, Overflow(s)
    PROVE  ShellInv'
BY DEF Overflow, ShellInv, ShellTypeOK, StageInv

LEMMA ExitKeeps ==
    ASSUME ShellInv, NEW s \in Updates, Exit(s)
    PROVE  ShellInv'
BY DEF Exit, ShellInv, ShellTypeOK, StageInv

LEMMA PrefixType ==
    ASSUME NEW q \in Seq(Updates), NEW n \in 0..Len(q)
    PROVE  /\ SubSeq(q, 1, n) \in Seq(Updates)
           /\ n # 0 => SubSeq(q, 1, n) # <<>>
<1>1. SubSeq(q, 1, n) = [i \in 1..n |-> q[i]]
  BY SMT
<1>2. Len(SubSeq(q, 1, n)) = n
  BY SMT
<1> QED
  BY <1>1, <1>2, SMT

LEMMA InterruptKeeps ==
    ASSUME ShellInv, NEW s \in Updates, Interrupt(s)
    PROVE  ShellInv'
<1>1. PICK n \in 0..Len(input[s]) :
        /\ input' = [input EXCEPT ![s] = SubSeq(@, 1, n)]
        /\ stage' = [stage EXCEPT ![s] = IF n = 0 THEN "idle" ELSE @]
  <2>1. input[s] \in Seq(Updates)
    BY DEF ShellInv, ShellTypeOK
  <2>2. Len(input[s]) \in 0..Len(input[s])
    BY <2>1
  <2> QED
    BY <2>2 DEF Interrupt
<1>2. input' \in [Updates -> Seq(Updates)]
  <2>1. SubSeq(input[s], 1, n) \in Seq(Updates)
    BY PrefixType DEF ShellInv, ShellTypeOK
  <2> QED
    BY <1>1, <2>1 DEF ShellInv, ShellTypeOK
<1>3. StageInv'
  <2>1. n # 0 => SubSeq(input[s], 1, n) # <<>>
    BY PrefixType DEF ShellInv, ShellTypeOK
  <2> QED
    BY <1>1, <2>1 DEF ShellInv, ShellTypeOK, StageInv
<1>4. stage' \in [Updates -> {"idle", "body", "tail"}]
  BY <1>1 DEF ShellInv, ShellTypeOK
<1>5. PICK d \in Dirs : dir' = [dir EXCEPT ![s] = d]
  BY DEF Interrupt, ShellInv, ShellTypeOK
<1> QED
  BY <1>2, <1>3, <1>4, <1>5 DEF ShellInv, ShellTypeOK, Interrupt

LEMMA FrameTokens ==
    \A u \in Updates : /\ Start(u) \in Token
                       /\ End(u) \in Token
                       /\ \A d \in Dirs : Trailer(u, d) \in Token
BY SMT DEF Token

LEMMA PumpKeeps ==
    ASSUME ShellInv, NEW s \in Updates, NEW t \in Token, Pump(s, t)
    PROVE  capture' \in [Updates -> Seq(Token)]
<1>1. \A q \in Seq(Token) : Append(q, t) \in Seq(Token)
  OBVIOUS
<1> QED
  BY <1>1 DEF Pump, ShellInv, ShellTypeOK

LEMMA TalkBackKeeps ==
    ASSUME ShellInv, NEW s \in Updates, NEW u \in Updates, TalkBack(u, s)
    PROVE  /\ capture' \in [Updates -> Seq(Token)]
           /\ talked' \subseteq Updates
<1>1. Start(u) \in Token /\ End(u) \in Token
  BY FrameTokens
<1>2. \A q \in Seq(Token) : Append(Append(q, Start(u)), End(u)) \in Seq(Token)
  <2> SUFFICES ASSUME NEW q \in Seq(Token)
               PROVE  Append(Append(q, Start(u)), End(u)) \in Seq(Token)
    OBVIOUS
  <2>1. Append(q, Start(u)) \in Seq(Token)
    BY <1>1, AppendOf
  <2> QED
    BY <1>1, <2>1, AppendOf
<1> QED
  BY <1>2 DEF TalkBack, ShellInv, ShellTypeOK

LEMMA WriteFrameKeeps ==
    ASSUME ShellInv, NEW s \in Updates, NEW u \in Updates, WriteFrame(u, s)
    PROVE  ShellInv'
<1>1. Append(input[s], u) \in Seq(Updates) /\ Append(input[s], u) # <<>>
  <2>1. input[s] \in Seq(Updates)
    BY DEF ShellInv, ShellTypeOK
  <2>2. Len(Append(input[s], u)) = Len(input[s]) + 1
    BY <2>1
  <2>3. Len(input[s]) \in Nat /\ Append(input[s], u) \in Seq(Updates)
    BY <2>1
  <2>4. Append(input[s], u) = <<>> => Len(Append(input[s], u)) = 0
    OBVIOUS
  <2> QED
    BY <2>2, <2>3, <2>4
<1>2. input' \in [Updates -> Seq(Updates)] /\ StageInv'
  <2>1. CASE proc[s] = "up"
    <3>1. input' = [input EXCEPT ![s] = Append(input[s], u)]
      BY <2>1 DEF WriteFrame
    <3> QED
      BY <1>1, <3>1 DEF WriteFrame, ShellInv, ShellTypeOK, StageInv
  <2>2. CASE proc[s] # "up"
    <3>1. input' = input
      BY <2>2 DEF WriteFrame, ShellInv, ShellTypeOK
    <3> QED
      BY <3>1 DEF WriteFrame, ShellInv, ShellTypeOK, StageInv
  <2> QED
    BY <2>1, <2>2
<1>3. capture' \in [Updates -> Seq(Token)] /\ talked' \subseteq Updates
  BY TalkBackKeeps DEF WriteFrame, ShellInv, ShellTypeOK
<1> QED
  BY <1>2, <1>3 DEF WriteFrame, ShellInv, ShellTypeOK

LEMMA CloseUnderLockKeeps ==
    ASSUME ShellInv, NEW s \in Updates, CloseUnderLock(s)
    PROVE  ShellInv'
<1>1. chan' \in [Updates -> {"none", "open", "closed"}]
  BY DEF CloseUnderLock, ShellInv, ShellTypeOK
<1>2. mu' \in [Updates -> Updates \cup {None}]
  BY DEF CloseUnderLock, ShellInv, ShellTypeOK
<1> QED
  BY <1>1, <1>2 DEF CloseUnderLock, ShellInv, ShellTypeOK, StageInv

LEMMA BeginFrameKeeps ==
    ASSUME ShellInv, NEW s \in Updates, BeginFrame(s)
    PROVE  ShellInv'
<1>1. Head(input[s]) \in Updates
  BY SMT DEF BeginFrame, ShellInv, ShellTypeOK
<1>2. capture' \in [Updates -> Seq(Token)]
  BY <1>1, FrameTokens, PumpKeeps DEF BeginFrame
<1> QED
  BY <1>2 DEF BeginFrame, ShellInv, ShellTypeOK, StageInv

LEMMA EndBodyKeeps ==
    ASSUME ShellInv, NEW s \in Updates, EndBody(s)
    PROVE  ShellInv'
<1>1. Head(input[s]) \in Updates
  BY SMT DEF EndBody, ShellInv, ShellTypeOK, StageInv
<1>2. PICK d \in Dirs : dir' = [dir EXCEPT ![s] = d] /\ Pump(s, Trailer(Head(input[s]), d))
  BY DEF EndBody
<1>3. capture' \in [Updates -> Seq(Token)]
  BY <1>1, <1>2, FrameTokens, PumpKeeps
<1> QED
  BY <1>2, <1>3 DEF EndBody, ShellInv, ShellTypeOK, StageInv

LEMMA EndFrameKeeps ==
    ASSUME ShellInv, NEW s \in Updates, EndFrame(s)
    PROVE  ShellInv'
<1>1. Head(input[s]) \in Updates /\ Tail(input[s]) \in Seq(Updates)
  BY SMT DEF EndFrame, ShellInv, ShellTypeOK, StageInv
<1>2. capture' \in [Updates -> Seq(Token)]
  BY <1>1, FrameTokens, PumpKeeps DEF EndFrame
<1>3. StageInv'
  BY DEF EndFrame, ShellInv, ShellTypeOK, StageInv
<1> QED
  BY <1>1, <1>2, <1>3 DEF EndFrame, ShellInv, ShellTypeOK

LEMMA SetEchoKeeps ==
    ASSUME ShellInv, NEW s \in Updates, SetEcho(s)
    PROVE  ShellInv'
BY DEF SetEcho, ShellInv, ShellTypeOK, StageInv

\* A program that reads the next frame takes the second one, and leaves itself.
LEMMA SecondTaken ==
    ASSUME NEW q \in Seq(Updates), Len(q) > 1
    PROVE  /\ WithoutSecond(q) \in Seq(Updates)
           /\ Len(WithoutSecond(q)) = Len(q) - 1
           /\ WithoutSecond(q) # <<>>
           /\ WithoutSecond(q)[1] = q[1]
           /\ \A i \in 1..Len(q) - 1 :
                 /\ i # 1 => WithoutSecond(q)[i] = q[i + 1]
                 /\ i + 1 \in 1..Len(q)
           /\ q[2] \in Updates /\ 2 \in 1..Len(q) /\ 1 \in 1..Len(q)
<1> DEFINE n == Len(q)
           w == WithoutSecond(q)
<1>1. n \in Nat /\ n - 1 \in Nat /\ n - 1 >= 1
  OBVIOUS
<1>2. \A i \in 1..n : q[i] \in Updates
  OBVIOUS
<1>3. 1 \in 1..n /\ 2 \in 1..n /\ 1 \in 1..n - 1
      /\ \A i \in 1..n - 1 : i + 1 \in 1..n
  BY <1>1
<1>4. w = [i \in 1..n - 1 |-> IF i = 1 THEN q[1] ELSE q[i + 1]]
  BY DEF WithoutSecond
<1>5. w \in [1..n - 1 -> Updates]
  BY <1>2, <1>3, <1>4
<1> HIDE DEF n, w
<1>6. w \in Seq(Updates) /\ Len(w) = n - 1
  BY <1>1, <1>5
<1>7. w # <<>>
  BY <1>1, <1>6
<1> QED
  BY <1>2, <1>3, <1>4, <1>6, <1>7 DEF n, w

LEMMA ReadFrameKeeps ==
    ASSUME ShellInv, NEW s \in Updates, ReadFrame(s)
    PROVE  ShellInv'
<1>1. input[s] \in Seq(Updates) /\ Len(input[s]) > 1
  BY DEF ReadFrame, ShellInv, ShellTypeOK
<1>2. input' \in [Updates -> Seq(Updates)] /\ StageInv'
  BY <1>1, SecondTaken DEF ReadFrame, ShellInv, ShellTypeOK, StageInv
<1>3. capture' \in [Updates -> Seq(Token)] /\ talked' \subseteq Updates
  BY <1>1, SecondTaken, TalkBackKeeps DEF ReadFrame, ShellInv, ShellTypeOK
<1> QED
  BY <1>2, <1>3 DEF ReadFrame, ShellInv, ShellTypeOK
-----------------------------------------------------------------------------
(* The handlers' part: no action of Gateway breaks it.                      *)

\* What a step of u that changes no shared variable has to respect.
LEMMA StepKeeps ==
    ASSUME HandlerInv, NEW u \in Updates, NEW l, NEW m \in Labels, Step(u, l, m),
           m \in NeedsShell => sh[u] # None, m # "bind",
           UNCHANGED sharedVars
    PROVE  HandlerInv'
BY DEF Step, HandlerInv, HandlerTypeOK, HasShell, BoundKind, NeedsShell,
    ActiveLabels, ExecLabels, Labels, Answers, Goto, Reply, shellVars,
    sharedVars

LEMMA ConcludeKeeps ==
    ASSUME HandlerInv, NEW u \in Updates, NEW l, NEW m \in Labels, NEW a \in Answers,
           Conclude(u, l, m, a), m \in NeedsShell => sh[u] # None, m # "bind",
           UNCHANGED sharedVars
    PROVE  HandlerInv'
BY DEF Conclude, HandlerInv, HandlerTypeOK, HasShell, BoundKind, NeedsShell,
    ActiveLabels, ExecLabels, Labels, Answers, Goto, Reply, shellVars,
    sharedVars

LEMMA FinishKeeps ==
    ASSUME HandlerInv, NEW u \in Updates, NEW l, NEW a \in Answers,
           Finish(u, l, a), UNCHANGED sharedVars
    PROVE  HandlerInv'
BY DEF Finish, HandlerInv, HandlerTypeOK, HasShell, BoundKind, NeedsShell,
    ActiveLabels, ExecLabels, Labels, Answers, Goto, Reply, shellVars,
    sharedVars

LEMMA ClearStoppedTyped ==
    ASSUME HandlerInv, NEW u \in Updates, ClearStopped(u)
    PROVE  HandlerInv'
<1>1. CASE Step(u, "clear", "write")
  BY <1>1 DEF Step, ClearStopped, HandlerInv, HandlerTypeOK, HasShell,
      BoundKind, NeedsShell, ActiveLabels, ExecLabels, Labels, Answers, Goto,
      Reply, shellVars, sharedVars
<1>2. CASE Step(u, "unstop", "uninstall")
  BY <1>2 DEF Step, ClearStopped, HandlerInv, HandlerTypeOK, HasShell,
      BoundKind, NeedsShell, ActiveLabels, ExecLabels, Labels, Answers, Goto,
      Reply, shellVars, sharedVars
<1> QED
  BY <1>1, <1>2 DEF ClearStopped

LEMMA TryLockTyped ==
    ASSUME HandlerInv, NEW u \in Updates, TryLock(u)
    PROVE  HandlerInv'
<1>1. CASE Step(u, "lock", "open")
  BY <1>1 DEF Step, TryLock, HandlerInv, HandlerTypeOK, HasShell, BoundKind,
      NeedsShell, ActiveLabels, ExecLabels, Labels, Answers, Goto, Reply,
      shellVars, sharedVars
<1>2. CASE Conclude(u, "lock", "unlock", "denied")
  BY <1>2 DEF Conclude, TryLock, HandlerInv, HandlerTypeOK, HasShell,
      BoundKind, NeedsShell, ActiveLabels, ExecLabels, Labels, Answers, Goto,
      Reply, shellVars, sharedVars
<1> QED
  BY <1>1, <1>2 DEF TryLock

LEMMA ReceiveTyped ==
    ASSUME HandlerInv, NEW u \in Updates, Receive(u)
    PROVE  HandlerInv'
<1>1. PICK r \in Menu[u] :
          /\ req' = [req EXCEPT ![u] = r]
          /\ Goto(u, Entry(r))
          /\ snap' = [snap EXCEPT ![u] = IF r.kind = "run" THEN session ELSE @]
  BY DEF Receive
<1>2. r \in Request
  BY GatewayAssumption
<1>3. Entry(r) \in {"lock", "stop", "input", "detach"}
  BY DEF Entry
<1>4. snap' \in [Updates -> Session]
  BY <1>1 DEF HandlerInv, HandlerTypeOK
<1> QED
  BY <1>1, <1>2, <1>3, <1>4 DEF Receive, HandlerInv, HandlerTypeOK, HasShell,
      BoundKind, NeedsShell, ActiveLabels, ExecLabels, Labels, Answers, Goto,
      Reply, shellVars, sharedVars

LEMMA RecordResultTyped ==
    ASSUME HandlerInv, NEW u \in Updates, RecordResult(u)
    PROVE  HandlerInv'
<1>1. session' \in Session
  <2>1. CASE ParsePWD(out[u]) \in Dirs
    <3>1. PICK p \in Bindings(ParsePWD(out[u])) :
            session' = [cwd |-> ParsePWD(out[u]), project |-> p]
      BY <2>1 DEF RecordResult
    <3>2. p \in Projects \cup {None}
      BY <3>1 DEF Bindings, ProjectsAt
    <3> QED
      BY <2>1, <3>1, <3>2 DEF Session
  <2>2. CASE ParsePWD(out[u]) \notin Dirs
    BY <2>2 DEF RecordResult, HandlerInv, HandlerTypeOK
  <2> QED
    BY <2>1, <2>2
<1> QED
  BY <1>1 DEF RecordResult, HandlerInv, HandlerTypeOK, HasShell, BoundKind,
      NeedsShell, ActiveLabels, ExecLabels, Labels, Answers, Goto, Reply,
      shellVars, sharedVars

LEMMA MarkInactiveTyped ==
    ASSUME HandlerInv, NEW u \in Updates, MarkInactive(u)
    PROVE  HandlerInv'
BY DEF MarkInactive, SetActive, Step, HandlerInv, HandlerTypeOK, HasShell,
    BoundKind, NeedsShell, ActiveLabels, ExecLabels, Labels, Answers, Goto,
    Reply, shellVars, sharedVars

LEMMA ExitQuietTyped ==
    ASSUME HandlerInv, NEW u \in Updates, ExitQuiet(u)
    PROVE  HandlerInv'
BY DEF ExitQuiet, SetActive, Step, HandlerInv, HandlerTypeOK, HasShell,
    BoundKind, NeedsShell, ActiveLabels, ExecLabels, Labels, Answers, Goto,
    Reply, shellVars, sharedVars

LEMMA FindShellTyped ==
    ASSUME HandlerInv, NEW u \in Updates, FindShell(u)
    PROVE  HandlerInv'
<1>1. CASE LookUpShell(u, "stop", "stopActive")
  BY <1>1 DEF LookUpShell, HandlerInv, HandlerTypeOK, HasShell, BoundKind,
      NeedsShell, ActiveLabels, ExecLabels, Labels, Answers, Goto, Reply,
      shellVars, sharedVars
<1>2. CASE LookUpShell(u, "input", "inputAlive")
  BY <1>2 DEF LookUpShell, HandlerInv, HandlerTypeOK, HasShell, BoundKind,
      NeedsShell, ActiveLabels, ExecLabels, Labels, Answers, Goto, Reply,
      shellVars, sharedVars
<1> QED
  BY <1>1, <1>2 DEF FindShell

LEMMA NothingToDoTyped ==
    ASSUME HandlerInv, NEW u \in Updates, NothingToDo(u)
    PROVE  HandlerInv'
<1>1. PICK l \in {"stopActive", "stopAlive", "inputAlive"} : Finish(u, l, "nothing")
  BY DEF NothingToDo
<1>2. "nothing" \in Answers /\ UNCHANGED sharedVars
  BY DEF NothingToDo, Answers
<1> QED
  BY <1>1, <1>2, FinishKeeps

LEMMA ShellIsAliveTyped ==
    ASSUME HandlerInv, NEW u \in Updates, ShellIsAlive(u)
    PROVE  HandlerInv'
<1>1. CASE Step(u, "stopAlive", "flag")
  BY <1>1 DEF Step, ShellIsAlive, HandlerInv, HandlerTypeOK, HasShell,
      BoundKind, NeedsShell, ActiveLabels, ExecLabels, Labels, Answers, Goto,
      Reply, shellVars, sharedVars
<1>2. CASE Step(u, "inputAlive", "type")
  BY <1>2 DEF Step, ShellIsAlive, HandlerInv, HandlerTypeOK, HasShell,
      BoundKind, NeedsShell, ActiveLabels, ExecLabels, Labels, Answers, Goto,
      Reply, shellVars, sharedVars
<1> QED
  BY <1>1, <1>2 DEF ShellIsAlive

LEMMA TestChannelTyped ==
    ASSUME HandlerInv, NEW u \in Updates, TestChannel(u)
    PROVE  HandlerInv'
<1>1. CASE Step(u, "select", "closeChannel")
  BY <1>1 DEF Step, TestChannel, HandlerInv, HandlerTypeOK, HasShell,
      BoundKind, NeedsShell, ActiveLabels, ExecLabels, Labels, Answers, Goto,
      Reply, shellVars, sharedVars
<1>2. CASE Step(u, "select", "ctrlC")
  BY <1>2 DEF Step, TestChannel, HandlerInv, HandlerTypeOK, HasShell,
      BoundKind, NeedsShell, ActiveLabels, ExecLabels, Labels, Answers, Goto,
      Reply, shellVars, sharedVars
<1> QED
  BY <1>1, <1>2 DEF TestChannel

LEMMA ReturnPartialTyped ==
    ASSUME HandlerInv, NEW u \in Updates, ReturnPartial(u)
    PROVE  HandlerInv'
<1>1. CASE Return(u, "wait", "interrupted", capture[u])
  BY <1>1 DEF Return, HandlerInv, HandlerTypeOK, HasShell, BoundKind,
      NeedsShell, ActiveLabels, ExecLabels, Labels, Answers, Goto, Reply,
      shellVars, sharedVars
<1>2. CASE Return(u, "check", "failed", capture[u])
  BY <1>2 DEF Return, HandlerInv, HandlerTypeOK, HasShell, BoundKind,
      NeedsShell, ActiveLabels, ExecLabels, Labels, Answers, Goto, Reply,
      shellVars, sharedVars
<1> QED
  BY <1>1, <1>2 DEF ReturnPartial

LEMMA RebindTyped ==
    ASSUME HandlerInv, NEW u \in Updates, Rebind(u)
    PROVE  HandlerInv'
<1>1. CASE Finish(u, "reset", "reset") /\ session' = FreshSession
  <2>1. session' \in Session
    BY <1>1, GatewayAssumption DEF FreshSession, Session
  <2> QED
    BY <1>1, <2>1 DEF Rebind, Finish, HandlerInv, HandlerTypeOK, HasShell,
        BoundKind, NeedsShell, ActiveLabels, ExecLabels, Labels, Answers, Goto,
        Reply, shellVars, sharedVars
<1>2. CASE /\ Finish(u, "bind", "bound")
           /\ session' = [cwd |-> Path[req[u].project], project |-> req[u].project]
  <2>1. req[u] \in Request /\ req[u].kind = "project"
    BY <1>2 DEF Finish, HandlerInv, HandlerTypeOK, BoundKind
  <2>2. req[u] \in ProjectRequest
    BY <2>1 DEF Request, RunRequest, PlainRequest, InputRequest
  <2>3. session' \in Session
    BY <1>2, <2>2, GatewayAssumption DEF ProjectRequest, Session
  <2> QED
    BY <1>2, <2>3 DEF Rebind, Finish, HandlerInv, HandlerTypeOK, HasShell,
        BoundKind, NeedsShell, ActiveLabels, ExecLabels, Labels, Answers, Goto,
        Reply, shellVars, sharedVars
<1> QED
  BY <1>1, <1>2 DEF Rebind

LEMMA DoubleCloseTyped ==
    ASSUME HandlerInv, NEW u \in Updates, DoubleClose(u)
    PROVE  HandlerInv'
<1>1. PICK l \in {"closeChannel", "closeCurStop"} : Finish(u, l, "panic")
  BY DEF DoubleClose
<1>2. "panic" \in Answers /\ UNCHANGED sharedVars
  BY DEF DoubleClose, Answers
<1> QED
  BY <1>1, <1>2, FinishKeeps
LEMMA BusyTyped ==
    ASSUME HandlerInv, NEW u \in Updates, Busy(u)
    PROVE  HandlerInv'
BY DEF Busy, Finish, HandlerInv, HandlerTypeOK, HasShell, BoundKind,
    NeedsShell, ActiveLabels, ExecLabels, Labels, Answers, Goto, Reply,
    shellVars, sharedVars

LEMMA ReuseShellTyped ==
    ASSUME HandlerInv, NEW u \in Updates, ReuseShell(u)
    PROVE  HandlerInv'
BY DEF ReuseShell, HandlerInv, HandlerTypeOK, HasShell, BoundKind, NeedsShell,
    ActiveLabels, ExecLabels, Labels, Answers, Goto, Reply, shellVars,
    sharedVars

LEMMA StartShellTyped ==
    ASSUME HandlerInv, NEW u \in Updates, StartShell(u)
    PROVE  HandlerInv'
BY DEF StartShell, Step, HandlerInv, HandlerTypeOK, HasShell, BoundKind,
    NeedsShell, ActiveLabels, ExecLabels, Labels, Answers, Goto, Reply,
    shellVars, sharedVars

LEMMA ShellStartedTyped ==
    ASSUME HandlerInv, NEW u \in Updates, ShellStarted(u)
    PROVE  HandlerInv'
BY NoneAssumption DEF ShellStarted, HandlerInv, HandlerTypeOK, HasShell,
    BoundKind, NeedsShell, ActiveLabels, ExecLabels, Labels, Answers, Goto,
    Reply, shellVars, sharedVars

LEMMA ShellFailedTyped ==
    ASSUME HandlerInv, NEW u \in Updates, ShellFailed(u)
    PROVE  HandlerInv'
BY DEF ShellFailed, Conclude, HandlerInv, HandlerTypeOK, HasShell, BoundKind,
    NeedsShell, ActiveLabels, ExecLabels, Labels, Answers, Goto, Reply,
    shellVars, sharedVars

LEMMA MarkActiveTyped ==
    ASSUME HandlerInv, NEW u \in Updates, MarkActive(u)
    PROVE  HandlerInv'
BY DEF MarkActive, Step, SetActive, HandlerInv, HandlerTypeOK, HasShell,
    BoundKind, NeedsShell, ActiveLabels, ExecLabels, Labels, Answers, Goto,
    Reply, shellVars, sharedVars

LEMMA BeginExecTyped ==
    ASSUME HandlerInv, NEW u \in Updates, BeginExec(u)
    PROVE  HandlerInv'
BY DEF BeginExec, Step, HandlerInv, HandlerTypeOK, HasShell, BoundKind,
    NeedsShell, ActiveLabels, ExecLabels, Labels, Answers, Goto, Reply,
    shellVars, sharedVars

LEMMA SendFrameTyped ==
    ASSUME HandlerInv, NEW u \in Updates, SendFrame(u)
    PROVE  HandlerInv'
BY DEF SendFrame, Step, HandlerInv, HandlerTypeOK, HasShell, BoundKind,
    NeedsShell, ActiveLabels, ExecLabels, Labels, Answers, Goto, Reply,
    shellVars, sharedVars

LEMMA SendFrameFailsTyped ==
    ASSUME HandlerInv, NEW u \in Updates, SendFrameFails(u)
    PROVE  HandlerInv'
BY DEF SendFrameFails, Conclude, HandlerInv, HandlerTypeOK, HasShell,
    BoundKind, NeedsShell, ActiveLabels, ExecLabels, Labels, Answers, Goto,
    Reply, shellVars, sharedVars

LEMMA TimeoutTyped ==
    ASSUME HandlerInv, NEW u \in Updates, Timeout(u)
    PROVE  HandlerInv'
BY DEF Timeout, Conclude, HandlerInv, HandlerTypeOK, HasShell, BoundKind,
    NeedsShell, ActiveLabels, ExecLabels, Labels, Answers, Goto, Reply,
    shellVars, sharedVars

LEMMA StoppedTyped ==
    ASSUME HandlerInv, NEW u \in Updates, Stopped(u)
    PROVE  HandlerInv'
BY DEF Stopped, Conclude, HandlerInv, HandlerTypeOK, HasShell, BoundKind,
    NeedsShell, ActiveLabels, ExecLabels, Labels, Answers, Goto, Reply,
    shellVars, sharedVars

LEMMA TickTyped ==
    ASSUME HandlerInv, NEW u \in Updates, Tick(u)
    PROVE  HandlerInv'
BY DEF Tick, Step, HandlerInv, HandlerTypeOK, HasShell, BoundKind, NeedsShell,
    ActiveLabels, ExecLabels, Labels, Answers, Goto, Reply, shellVars,
    sharedVars

LEMMA TickAgainTyped ==
    ASSUME HandlerInv, NEW u \in Updates, TickAgain(u)
    PROVE  HandlerInv'
BY DEF TickAgain, Step, HandlerInv, HandlerTypeOK, HasShell, BoundKind,
    NeedsShell, ActiveLabels, ExecLabels, Labels, Answers, Goto, Reply,
    shellVars, sharedVars

LEMMA ReturnResultTyped ==
    ASSUME HandlerInv, NEW u \in Updates, ReturnResult(u)
    PROVE  HandlerInv'
BY DEF ReturnResult, Return, HandlerInv, HandlerTypeOK, HasShell, BoundKind,
    NeedsShell, ActiveLabels, ExecLabels, Labels, Answers, Goto, Reply,
    shellVars, sharedVars

LEMMA ReturnLateTyped ==
    ASSUME HandlerInv, NEW u \in Updates, ReturnLate(u)
    PROVE  HandlerInv'
BY DEF ReturnLate, Return, HandlerInv, HandlerTypeOK, HasShell, BoundKind,
    NeedsShell, ActiveLabels, ExecLabels, Labels, Answers, Goto, Reply,
    shellVars, sharedVars

LEMMA EndExecTyped ==
    ASSUME HandlerInv, NEW u \in Updates, EndExec(u)
    PROVE  HandlerInv'
BY DEF EndExec, Step, HandlerInv, HandlerTypeOK, HasShell, BoundKind,
    NeedsShell, ActiveLabels, ExecLabels, Labels, Answers, Goto, Reply,
    shellVars, sharedVars

LEMMA UnlockTyped ==
    ASSUME HandlerInv, NEW u \in Updates, Unlock(u)
    PROVE  HandlerInv'
BY DEF Unlock, Finish, HandlerInv, HandlerTypeOK, HasShell, BoundKind,
    NeedsShell, ActiveLabels, ExecLabels, Labels, Answers, Goto, Reply,
    shellVars, sharedVars

LEMMA SomethingActiveTyped ==
    ASSUME HandlerInv, NEW u \in Updates, SomethingActive(u)
    PROVE  HandlerInv'
BY DEF SomethingActive, Step, HandlerInv, HandlerTypeOK, HasShell, BoundKind,
    NeedsShell, ActiveLabels, ExecLabels, Labels, Answers, Goto, Reply,
    shellVars, sharedVars

LEMMA RaiseStoppedTyped ==
    ASSUME HandlerInv, NEW u \in Updates, RaiseStopped(u)
    PROVE  HandlerInv'
BY DEF RaiseStopped, Step, HandlerInv, HandlerTypeOK, HasShell, BoundKind,
    NeedsShell, ActiveLabels, ExecLabels, Labels, Answers, Goto, Reply,
    shellVars, sharedVars

LEMMA ReadChannelTyped ==
    ASSUME ShellTypeOK, HandlerInv, NEW u \in Updates, ReadChannel(u)
    PROVE  HandlerInv'
BY DEF ReadChannel, ShellTypeOK, HandlerInv, HandlerTypeOK, HasShell,
    BoundKind, NeedsShell, ActiveLabels, ExecLabels, Labels, Answers, Goto,
    Reply, shellVars, sharedVars

LEMMA StopCommandTyped ==
    ASSUME HandlerInv, NEW u \in Updates, StopCommand(u)
    PROVE  HandlerInv'
BY DEF StopCommand, Step, HandlerInv, HandlerTypeOK, HasShell, BoundKind,
    NeedsShell, ActiveLabels, ExecLabels, Labels, Answers, Goto, Reply,
    shellVars, sharedVars

LEMMA SendCtrlCTyped ==
    ASSUME HandlerInv, NEW u \in Updates, SendCtrlC(u)
    PROVE  HandlerInv'
BY DEF SendCtrlC, Finish, HandlerInv, HandlerTypeOK, HasShell, BoundKind,
    NeedsShell, ActiveLabels, ExecLabels, Labels, Answers, Goto, Reply,
    shellVars, sharedVars

LEMMA TypeInputTyped ==
    ASSUME HandlerInv, NEW u \in Updates, TypeInput(u)
    PROVE  HandlerInv'
BY DEF TypeInput, Finish, HandlerInv, HandlerTypeOK, HasShell, BoundKind,
    NeedsShell, ActiveLabels, ExecLabels, Labels, Answers, Goto, Reply,
    shellVars, sharedVars

LEMMA RefuseProjectTyped ==
    ASSUME HandlerInv, NEW u \in Updates, RefuseProject(u)
    PROVE  HandlerInv'
BY DEF RefuseProject, Finish, HandlerInv, HandlerTypeOK, HasShell, BoundKind,
    NeedsShell, ActiveLabels, ExecLabels, Labels, Answers, Goto, Reply,
    shellVars, sharedVars

LEMMA DetachTyped ==
    ASSUME HandlerInv, NEW u \in Updates, Detach(u)
    PROVE  HandlerInv'
BY DEF Detach, AfterClose, HandlerInv, HandlerTypeOK, HasShell, BoundKind,
    NeedsShell, ActiveLabels, ExecLabels, Labels, Answers, Goto, Reply,
    shellVars, sharedVars

LEMMA CloseShellTyped ==
    ASSUME HandlerInv, NEW u \in Updates, CloseShell(u)
    PROVE  HandlerInv'
BY DEF CloseShell, Step, HandlerInv, HandlerTypeOK, HasShell, BoundKind,
    NeedsShell, ActiveLabels, ExecLabels, Labels, Answers, Goto, Reply,
    shellVars, sharedVars

LEMMA CloseCurStopTyped ==
    ASSUME HandlerInv, NEW u \in Updates, CloseCurStop(u)
    PROVE  HandlerInv'
BY DEF CloseCurStop, Step, HandlerInv, HandlerTypeOK, HasShell, BoundKind,
    NeedsShell, ActiveLabels, ExecLabels, Labels, Answers, Goto, Reply,
    shellVars, sharedVars

LEMMA HangUpTyped ==
    ASSUME HandlerInv, NEW u \in Updates, HangUp(u)
    PROVE  HandlerInv'
BY DEF HangUp, Step, AfterClose, HandlerInv, HandlerTypeOK, HasShell,
    BoundKind, NeedsShell, ActiveLabels, ExecLabels, Labels, Answers, Goto,
    Reply, shellVars, sharedVars

LEMMA ShutDownTyped ==
    ASSUME HandlerInv, NEW u \in Updates, ShutDown(u)
    PROVE  HandlerInv'
BY DEF ShutDown, Finish, HandlerInv, HandlerTypeOK, HasShell, BoundKind,
    NeedsShell, ActiveLabels, ExecLabels, Labels, Answers, Goto, Reply,
    shellVars, sharedVars

-----------------------------------------------------------------------------
(* The steps of a handler that change nothing of any shell.                 *)
ShellFree(u) ==
    \/ Receive(u) \/ Busy(u) \/ TryLock(u) \/ ReuseShell(u) \/ StartShell(u)
    \/ ShellFailed(u) \/ MarkActive(u) \/ SendFrameFails(u) \/ Stopped(u)
    \/ Tick(u) \/ TickAgain(u) \/ ReturnResult(u) \/ ReturnPartial(u)
    \/ ReturnLate(u) \/ RecordResult(u) \/ MarkInactive(u) \/ Unlock(u)
    \/ FindShell(u) \/ NothingToDo(u) \/ SomethingActive(u)
    \/ ShellIsAlive(u) \/ ReadChannel(u) \/ TestChannel(u)
    \/ RefuseProject(u) \/ Detach(u) \/ ExitQuiet(u) \/ Rebind(u)
    \/ ShutDown(u) \/ DoubleClose(u)

LEMMA ShellFreeKeeps ==
    ASSUME ShellInv, NEW u \in Updates, ShellFree(u)
    PROVE  ShellInv'
<1>1. UNCHANGED shellVars
  BY DEF ShellFree, Return, LookUpShell, SetActive, Receive, Busy, TryLock,
     ReuseShell, StartShell, ShellFailed, MarkActive, SendFrameFails, Stopped,
     Tick, TickAgain, ReturnResult, ReturnPartial, ReturnLate, RecordResult,
     MarkInactive, Unlock, FindShell, NothingToDo, SomethingActive,
     ShellIsAlive, ReadChannel, TestChannel, RefuseProject, Detach, ExitQuiet,
     Rebind, ShutDown, DoubleClose
<1> QED
  BY <1>1 DEF shellVars, ShellInv, ShellTypeOK, StageInv

LEMMA HandleKeepsShell ==
    ASSUME ShellInv, HandlerInv, NEW u \in Updates, Receive(u) \/ Handle(u)
    PROVE  ShellInv'
<1>1. sh[u] \in Updates \cup {None} /\ (pc[u] \in NeedsShell => sh[u] # None)
  BY DEF HandlerInv, HandlerTypeOK, HasShell
<1> DEFINE s == sh[u]
<1>2. CASE ShellFree(u)
  BY <1>2, ShellFreeKeeps
<1>3. CASE ShellStarted(u)
  <2>1. PICK d \in Dirs : OpenShell(u, d)
    BY <1>3 DEF ShellStarted, HandlerInv, HandlerTypeOK, Session
  <2> QED
    BY <2>1, OpenShellKeeps
<1>4. CASE BeginExec(u)
  BY <1>1, <1>4, InstallKeeps
     DEF BeginExec, Step, NeedsShell, ActiveLabels, ExecLabels
<1>5. CASE ClearStopped(u)
  BY <1>1, <1>5, SetStoppedKeeps
     DEF ClearStopped, Step, NeedsShell, ActiveLabels, ExecLabels
<1>6. CASE SendFrame(u)
  BY <1>1, <1>6, WriteFrameKeeps
     DEF SendFrame, Step, NeedsShell, ActiveLabels, ExecLabels
<1>7. CASE Timeout(u)
  BY <1>1, <1>7, InterruptKeeps
     DEF Timeout, Conclude, NeedsShell, ActiveLabels, ExecLabels
<1>8. CASE EndExec(u)
  BY <1>1, <1>8, UninstallKeeps
     DEF EndExec, Step, NeedsShell, ActiveLabels, ExecLabels
<1>9. CASE RaiseStopped(u)
  BY <1>1, <1>9, SetStoppedKeeps
     DEF RaiseStopped, Step, NeedsShell, ActiveLabels, ExecLabels
<1>10. CASE StopCommand(u)
  BY <1>10, CloseChannelKeeps DEF StopCommand
<1>11. CASE SendCtrlC(u)
  BY <1>1, <1>11, InterruptKeeps
     DEF SendCtrlC, Finish, NeedsShell, ActiveLabels, ExecLabels
<1>12. CASE TypeInput(u)
  BY <1>1, <1>12, TypeLineKeeps, InterruptKeeps
     DEF TypeInput, Finish, NeedsShell, ActiveLabels, ExecLabels
<1>13. CASE CloseShell(u)
  BY <1>1, <1>13, MarkClosedKeeps
     DEF CloseShell, Step, NeedsShell, ActiveLabels, ExecLabels
<1>14. CASE CloseCurStop(u)
  BY <1>1, <1>14, CloseUnderLockKeeps
     DEF CloseCurStop, Step, NeedsShell, ActiveLabels, ExecLabels
<1>15. CASE HangUp(u)
  BY <1>1, <1>15, ReleaseKeeps
     DEF HangUp, Step, NeedsShell, ActiveLabels, ExecLabels
<1> QED
  BY <1>2, <1>3, <1>4, <1>5, <1>6, <1>7, <1>8, <1>9, <1>10, <1>11, <1>12,
     <1>13, <1>14, <1>15 DEF ShellFree, Handle, Run, StopOrInput, Close

LEMMA HandleKeepsHandlers ==
    ASSUME ShellInv, HandlerInv, NEW u \in Updates, Receive(u) \/ Handle(u)
    PROVE  HandlerInv'
<1>1. ShellTypeOK
  BY DEF ShellInv
<1>2. CASE Run(u)
  BY <1>2, BusyTyped, TryLockTyped, ReuseShellTyped, StartShellTyped,
     ShellStartedTyped, ShellFailedTyped, MarkActiveTyped, BeginExecTyped,
     ClearStoppedTyped, SendFrameTyped, SendFrameFailsTyped, TimeoutTyped,
     StoppedTyped, TickTyped, TickAgainTyped, ReturnResultTyped,
     ReturnPartialTyped, ReturnLateTyped, EndExecTyped, RecordResultTyped,
     MarkInactiveTyped, UnlockTyped DEF Run
<1>3. CASE StopOrInput(u)
  BY <1>1, <1>3, FindShellTyped, NothingToDoTyped, SomethingActiveTyped,
     ShellIsAliveTyped, RaiseStoppedTyped, ReadChannelTyped, TestChannelTyped,
     StopCommandTyped, SendCtrlCTyped, TypeInputTyped DEF StopOrInput
<1>4. CASE Close(u)
  BY <1>4, RefuseProjectTyped, DetachTyped, CloseShellTyped,
     CloseCurStopTyped, HangUpTyped, ExitQuietTyped, RebindTyped,
     ShutDownTyped DEF Close
<1> QED
  BY <1>2, <1>3, <1>4, ReceiveTyped, DoubleCloseTyped DEF Handle

LEMMA ProcessKeeps ==
    ASSUME TypeInv, NEW s \in Updates, Process(s)
    PROVE  TypeInv'
<1>1. ShellInv'
  BY BeginFrameKeeps, EndBodyKeeps, EndFrameKeeps, SetEchoKeeps,
     ReadFrameKeeps, OverflowKeeps, ExitKeeps
     DEF TypeInv, Process, ShellStep
<1>2. HandlerInv'
  BY DEF Process, localVars, sharedVars, TypeInv, HandlerInv, HandlerTypeOK,
         HasShell, BoundKind
<1> QED
  BY <1>1, <1>2 DEF TypeInv

-----------------------------------------------------------------------------
LEMMA InitTyped == Init => TypeInv
<1> SUFFICES ASSUME Init PROVE TypeInv
  OBVIOUS
<1>1. ShellInv
  <2>1. (CHOOSE d \in Dirs : TRUE) \in Dirs
    BY GatewayAssumption
  <2> QED
    BY <2>1 DEF Init, ShellInit, ShellInv, ShellTypeOK, StageInv
<1>2. HandlerInv
  <2>1. FreshSession \in Session
    BY GatewayAssumption DEF FreshSession, Session
  <2>2. session \in Session
    BY GatewayAssumption DEF Init
  <2>3. req \in [Updates -> Request]
    BY DEF Init, Request, PlainRequest
  <2> QED
    BY <2>1, <2>2, <2>3
    DEF Init, HandlerInv, HandlerTypeOK, HasShell, BoundKind, NeedsShell,
        ActiveLabels, ExecLabels, Labels, Answers
<1> QED
  BY <1>1, <1>2 DEF TypeInv

LEMMA NextTyped == TypeInv /\ [Next]_vars => TypeInv'
<1> SUFFICES ASSUME TypeInv, [Next]_vars PROVE TypeInv'
  OBVIOUS
<1>1. CASE \E u \in Updates : Receive(u) \/ Handle(u)
  BY <1>1, HandleKeepsShell, HandleKeepsHandlers DEF TypeInv
<1>2. CASE \E u \in Updates : Process(u)
  BY <1>2, ProcessKeeps
<1>3. CASE UNCHANGED vars
  BY <1>3
  DEF vars, shellVars, localVars, sharedVars, TypeInv, ShellInv, ShellTypeOK,
      StageInv, HandlerInv, HandlerTypeOK, HasShell, BoundKind
<1> QED
  BY <1>1, <1>2, <1>3 DEF Next, AllDone

LEMMA TypeInvariant == Spec => []TypeInv
<1> QED
  BY InitTyped, NextTyped, PTL DEF Spec

\* Every variable of the gateway and of its shells keeps its type, however many
\* updates arrive and whatever they ask for.
THEOREM TypeCorrect == Spec => []TypeOK
<1>1. TypeInv => TypeOK
  BY DEF TypeInv, ShellInv, HandlerInv, TypeOK
<1> QED
  BY <1>1, TypeInvariant, PTL

-----------------------------------------------------------------------------
(* One command at a time, and its Active flag.                              *)

CommandInv == OneCommand /\ ActiveIsHeld

\* A step of u that leaves lock, capture and flag alone, and does not leave the
\* part of runCommand in which u uses them.
Quiet(u) ==
    /\ \A v \in Updates \ {u} : pc'[v] = pc[v] /\ sh'[v] = sh[v]
    /\ pc[u] \in RunLabels <=> pc'[u] \in RunLabels
    /\ pc[u] \in ActiveLabels => pc'[u] \in ActiveLabels
    /\ pc[u] \in ExecLabels => pc'[u] \in ExecLabels /\ sh'[u] = sh[u]
    /\ cur' = cur
    /\ runLock' = runLock
    /\ active' = active \/ ~active'

LEMMA QuietKeeps ==
    ASSUME ShellTypeOK, HandlerTypeOK, CommandInv, NEW u \in Updates, Quiet(u)
    PROVE  CommandInv'
<1>1. OneCommand'
  <2>1. \A v \in Updates : pc'[v] \in RunLabels <=> runLock' = v
    BY DEF Quiet, CommandInv, OneCommand
  <2>2. ASSUME NEW s \in Updates, cur'[s] # None
        PROVE  /\ runLock' = cur'[s]
               /\ pc'[cur'[s]] \in ExecLabels
               /\ sh'[cur'[s]] = s
    <3>1. cur[s] \in Updates
      BY <2>2 DEF Quiet, ShellTypeOK
    <3> QED
      BY <2>2, <3>1 DEF Quiet, CommandInv, OneCommand
  <2> QED
    BY <2>1, <2>2 DEF OneCommand
<1>2. ActiveIsHeld'
  <2> SUFFICES ASSUME active' PROVE runLock' # None /\ pc'[runLock'] \in ActiveLabels
    BY DEF ActiveIsHeld
  <2>1. active /\ runLock # None /\ pc[runLock] \in ActiveLabels
    BY DEF Quiet, CommandInv, ActiveIsHeld
  <2>2. runLock \in Updates
    BY <2>1 DEF HandlerTypeOK
  <2> QED
    BY <2>1, <2>2 DEF Quiet
<1> QED
  BY <1>1, <1>2 DEF CommandInv

-----------------------------------------------------------------------------
(* The quiet steps.                                                         *)

LEMMA RunIsQuiet ==
    ASSUME ShellTypeOK, HandlerTypeOK, NEW u \in Updates,
           Busy(u) \/ ReuseShell(u) \/ StartShell(u) \/ ShellStarted(u) \/
               ShellFailed(u) \/ ClearStopped(u) \/ SendFrame(u) \/
               SendFrameFails(u) \/ Timeout(u) \/ Stopped(u) \/ Tick(u) \/
               TickAgain(u) \/ ReturnResult(u) \/ ReturnPartial(u) \/
               ReturnLate(u) \/ RecordResult(u)
    PROVE  Quiet(u)
<1>1. CASE Busy(u)
  BY <1>1 DEF Busy, Finish, Quiet, RunLabels, ActiveLabels, ExecLabels,
      HandlerTypeOK, Goto, shellVars, sharedVars
<1>2. CASE ReuseShell(u)
  BY <1>2 DEF ReuseShell, Quiet, RunLabels, ActiveLabels, ExecLabels,
      HandlerTypeOK, Goto, shellVars, sharedVars
<1>3. CASE StartShell(u)
  BY <1>3 DEF StartShell, Step, Quiet, RunLabels, ActiveLabels, ExecLabels,
      HandlerTypeOK, Goto, shellVars, sharedVars
<1>4. CASE ShellStarted(u)
  BY <1>4 DEF ShellStarted, OpenShell, Quiet, RunLabels, ActiveLabels,
      ExecLabels, HandlerTypeOK, Goto, shellVars, sharedVars
<1>5. CASE ShellFailed(u)
  BY <1>5 DEF ShellFailed, Conclude, Quiet, RunLabels, ActiveLabels,
      ExecLabels, HandlerTypeOK, Goto, shellVars, sharedVars
<1>6. CASE ClearStopped(u)
  BY <1>6 DEF ClearStopped, Step, SetStopped, Quiet, RunLabels, ActiveLabels,
      ExecLabels, HandlerTypeOK, Goto, shellVars, sharedVars
<1>7. CASE SendFrame(u)
  BY <1>7 DEF SendFrame, Step, WriteFrame, Quiet, RunLabels, ActiveLabels,
      ExecLabels, HandlerTypeOK, Goto, shellVars, sharedVars
<1>8. CASE SendFrameFails(u)
  BY <1>8 DEF SendFrameFails, Conclude, Quiet, RunLabels, ActiveLabels,
      ExecLabels, HandlerTypeOK, Goto, shellVars, sharedVars
<1>9. CASE Timeout(u)
  BY <1>9 DEF Timeout, Conclude, Interrupt, Quiet, RunLabels, ActiveLabels,
      ExecLabels, HandlerTypeOK, Goto, shellVars, sharedVars
<1>10. CASE Stopped(u)
  BY <1>10 DEF Stopped, Conclude, Quiet, RunLabels, ActiveLabels, ExecLabels,
      HandlerTypeOK, Goto, shellVars, sharedVars
<1>11. CASE Tick(u)
  BY <1>11 DEF Tick, Step, Quiet, RunLabels, ActiveLabels, ExecLabels,
      HandlerTypeOK, Goto, shellVars, sharedVars
<1>12. CASE TickAgain(u)
  BY <1>12 DEF TickAgain, Step, Quiet, RunLabels, ActiveLabels, ExecLabels,
      HandlerTypeOK, Goto, shellVars, sharedVars
<1>13. CASE ReturnResult(u)
  BY <1>13 DEF ReturnResult, Return, Quiet, RunLabels, ActiveLabels,
      ExecLabels, HandlerTypeOK, Goto, shellVars, sharedVars
<1>14. CASE ReturnPartial(u)
  BY <1>14 DEF ReturnPartial, Return, Quiet, RunLabels, ActiveLabels,
      ExecLabels, HandlerTypeOK, Goto, shellVars, sharedVars
<1>15. CASE ReturnLate(u)
  BY <1>15 DEF ReturnLate, Return, Quiet, RunLabels, ActiveLabels, ExecLabels,
      HandlerTypeOK, Goto, shellVars, sharedVars
<1>16. CASE RecordResult(u)
  BY <1>16 DEF RecordResult, Quiet, RunLabels, ActiveLabels, ExecLabels,
      HandlerTypeOK, Goto, shellVars, sharedVars
<1> QED
  BY <1>1, <1>2, <1>3, <1>4, <1>5, <1>6, <1>7, <1>8, <1>9, <1>10, <1>11,
      <1>12, <1>13, <1>14, <1>15, <1>16

LEMMA StopIsQuiet ==
    ASSUME ShellTypeOK, HandlerTypeOK, NEW u \in Updates,
           FindShell(u) \/ NothingToDo(u) \/ SomethingActive(u) \/
               ShellIsAlive(u) \/ RaiseStopped(u) \/ ReadChannel(u) \/
               TestChannel(u) \/ StopCommand(u) \/ SendCtrlC(u) \/
               TypeInput(u)
    PROVE  Quiet(u)
<1>1. CASE FindShell(u)
  BY <1>1 DEF FindShell, LookUpShell, Quiet, RunLabels, ActiveLabels,
      ExecLabels, HandlerTypeOK, Goto, shellVars, sharedVars
<1>2. CASE NothingToDo(u)
  BY <1>2 DEF NothingToDo, Finish, Quiet, RunLabels, ActiveLabels, ExecLabels,
      HandlerTypeOK, Goto, shellVars, sharedVars
<1>3. CASE SomethingActive(u)
  BY <1>3 DEF SomethingActive, Step, Quiet, RunLabels, ActiveLabels,
      ExecLabels, HandlerTypeOK, Goto, shellVars, sharedVars
<1>4. CASE ShellIsAlive(u)
  BY <1>4 DEF ShellIsAlive, Step, Quiet, RunLabels, ActiveLabels, ExecLabels,
      HandlerTypeOK, Goto, shellVars, sharedVars
<1>5. CASE RaiseStopped(u)
  BY <1>5 DEF RaiseStopped, Step, SetStopped, Quiet, RunLabels, ActiveLabels,
      ExecLabels, HandlerTypeOK, Goto, shellVars, sharedVars
<1>6. CASE ReadChannel(u)
  BY <1>6 DEF ReadChannel, Quiet, RunLabels, ActiveLabels, ExecLabels,
      HandlerTypeOK, Goto, shellVars, sharedVars
<1>7. CASE TestChannel(u)
  BY <1>7 DEF TestChannel, Step, Quiet, RunLabels, ActiveLabels, ExecLabels,
      HandlerTypeOK, Goto, shellVars, sharedVars
<1>8. CASE StopCommand(u)
  BY <1>8 DEF StopCommand, Step, CloseChannel, Quiet, RunLabels, ActiveLabels,
      ExecLabels, HandlerTypeOK, Goto, shellVars, sharedVars
<1>9. CASE SendCtrlC(u)
  BY <1>9 DEF SendCtrlC, Finish, Interrupt, Quiet, RunLabels, ActiveLabels,
      ExecLabels, HandlerTypeOK, Goto, shellVars, sharedVars
<1>10. CASE TypeInput(u)
  BY <1>10 DEF TypeInput, Finish, Interrupt, TypeLine, Quiet, RunLabels,
      ActiveLabels, ExecLabels, HandlerTypeOK, Goto, shellVars, sharedVars
<1> QED
  BY <1>1, <1>2, <1>3, <1>4, <1>5, <1>6, <1>7, <1>8, <1>9, <1>10

LEMMA CloseIsQuiet ==
    ASSUME ShellTypeOK, HandlerTypeOK, NEW u \in Updates,
           RefuseProject(u) \/ Detach(u) \/ CloseShell(u) \/ CloseCurStop(u)
               \/ HangUp(u) \/ ExitQuiet(u) \/ Rebind(u) \/ ShutDown(u)
    PROVE  Quiet(u)
<1>1. CASE RefuseProject(u)
  BY <1>1 DEF RefuseProject, Finish, Quiet, RunLabels, ActiveLabels,
      ExecLabels, HandlerTypeOK, Goto, shellVars, sharedVars
<1>2. CASE Detach(u)
  BY <1>2 DEF Detach, AfterClose, Quiet, RunLabels, ActiveLabels, ExecLabels,
      HandlerTypeOK, Goto, shellVars, sharedVars
<1>3. CASE CloseShell(u)
  BY <1>3 DEF CloseShell, Step, MarkClosed, Quiet, RunLabels, ActiveLabels,
      ExecLabels, HandlerTypeOK, Goto, shellVars, sharedVars
<1>4. CASE CloseCurStop(u)
  BY <1>4 DEF CloseCurStop, Step, CloseUnderLock, Quiet, RunLabels,
      ActiveLabels, ExecLabels, HandlerTypeOK, Goto, shellVars, sharedVars
<1>5. CASE HangUp(u)
  BY <1>5 DEF HangUp, Step, AfterClose, Release, Quiet, RunLabels,
      ActiveLabels, ExecLabels, HandlerTypeOK, Goto, shellVars, sharedVars
<1>6. CASE ExitQuiet(u)
  BY <1>6 DEF ExitQuiet, Step, SetActive, Quiet, RunLabels, ActiveLabels,
      ExecLabels, HandlerTypeOK, Goto, shellVars, sharedVars
<1>7. CASE Rebind(u)
  BY <1>7 DEF Rebind, Finish, Quiet, RunLabels, ActiveLabels, ExecLabels,
      HandlerTypeOK, Goto, shellVars, sharedVars
<1>8. CASE ShutDown(u)
  BY <1>8 DEF ShutDown, Finish, Quiet, RunLabels, ActiveLabels, ExecLabels,
      HandlerTypeOK, Goto, shellVars, sharedVars
<1> QED
  BY <1>1, <1>2, <1>3, <1>4, <1>5, <1>6, <1>7, <1>8

LEMMA RestIsQuiet ==
    ASSUME ShellTypeOK, HandlerTypeOK, NEW u \in Updates,
           Receive(u) \/ DoubleClose(u) \/ Process(u)
    PROVE  Quiet(u)
<1>1. CASE Receive(u)
  BY <1>1 DEF Receive, Entry, Quiet, RunLabels, ActiveLabels, ExecLabels,
      HandlerTypeOK, Goto, shellVars, sharedVars
<1>2. CASE DoubleClose(u)
  BY <1>2 DEF DoubleClose, Finish, Quiet, RunLabels, ActiveLabels, ExecLabels,
      HandlerTypeOK, Goto, shellVars, sharedVars
<1>3. CASE Process(u)
  <2>1. UNCHANGED <<cur, localVars, sharedVars>>
    BY <1>3 DEF Process, ShellStep, BeginFrame, EndBody, EndFrame, SetEcho,
        ReadFrame, TalkBack, Overflow, Exit
  <2> QED
    BY <2>1 DEF localVars, sharedVars, Quiet
<1> QED
  BY <1>1, <1>2, <1>3

-----------------------------------------------------------------------------
(* The steps that take and release the lock, install and drop the capture,  *)
(* and raise and lower the flag.                                            *)

LEMMA TryLockCommands ==
    ASSUME ShellTypeOK, HandlerTypeOK, CommandInv, NEW u \in Updates,
           TryLock(u)
    PROVE  CommandInv'
BY NoneAssumption DEF TryLock, Step, Conclude, CommandInv, OneCommand,
    ActiveIsHeld, ShellTypeOK, RunLabels, ActiveLabels, ExecLabels,
    HandlerTypeOK, Goto, shellVars, sharedVars

LEMMA MarkActiveCommands ==
    ASSUME ShellTypeOK, HandlerTypeOK, CommandInv, NEW u \in Updates,
           MarkActive(u)
    PROVE  CommandInv'
BY NoneAssumption DEF MarkActive, Step, SetActive, CommandInv, OneCommand,
    ActiveIsHeld, ShellTypeOK, RunLabels, ActiveLabels, ExecLabels,
    HandlerTypeOK, Goto, shellVars, sharedVars

LEMMA BeginExecCommands ==
    ASSUME ShellTypeOK, HandlerTypeOK, CommandInv, NEW u \in Updates,
           BeginExec(u)
    PROVE  CommandInv'
BY NoneAssumption DEF BeginExec, Step, Install, CommandInv, OneCommand,
    ActiveIsHeld, ShellTypeOK, RunLabels, ActiveLabels, ExecLabels,
    HandlerTypeOK, Goto, shellVars, sharedVars

LEMMA EndExecCommands ==
    ASSUME ShellTypeOK, HandlerTypeOK, CommandInv, NEW u \in Updates,
           EndExec(u)
    PROVE  CommandInv'
BY NoneAssumption DEF EndExec, Step, Uninstall, CommandInv, OneCommand,
    ActiveIsHeld, ShellTypeOK, RunLabels, ActiveLabels, ExecLabels,
    HandlerTypeOK, Goto, shellVars, sharedVars

LEMMA MarkInactiveCommands ==
    ASSUME ShellTypeOK, HandlerTypeOK, CommandInv, NEW u \in Updates,
           MarkInactive(u)
    PROVE  CommandInv'
BY NoneAssumption DEF MarkInactive, Step, SetActive, CommandInv, OneCommand,
    ActiveIsHeld, ShellTypeOK, RunLabels, ActiveLabels, ExecLabels,
    HandlerTypeOK, Goto, shellVars, sharedVars

LEMMA UnlockCommands ==
    ASSUME ShellTypeOK, HandlerTypeOK, CommandInv, NEW u \in Updates,
           Unlock(u)
    PROVE  CommandInv'
BY NoneAssumption DEF Unlock, Finish, CommandInv, OneCommand, ActiveIsHeld,
    ShellTypeOK, RunLabels, ActiveLabels, ExecLabels, HandlerTypeOK, Goto,
    shellVars, sharedVars

-----------------------------------------------------------------------------
LEMMA InitCommands == Init => CommandInv
BY NoneAssumption
DEF Init, ShellInit, CommandInv, OneCommand, ActiveIsHeld, RunLabels,
    ActiveLabels, ExecLabels

LEMMA NextCommands == TypeOK /\ CommandInv /\ [Next]_vars => CommandInv'
<1> SUFFICES ASSUME TypeOK, CommandInv, [Next]_vars PROVE CommandInv'
  OBVIOUS
<1>1. ShellTypeOK /\ HandlerTypeOK
  BY DEF TypeOK
<1>2. ASSUME NEW u \in Updates, Run(u) PROVE CommandInv'
  <2>1. CASE \/ TryLock(u) \/ MarkActive(u) \/ BeginExec(u)
           \/ EndExec(u) \/ MarkInactive(u) \/ Unlock(u)
    BY <1>1, <2>1, TryLockCommands, MarkActiveCommands, BeginExecCommands,
        EndExecCommands, MarkInactiveCommands, UnlockCommands
  <2>2. CASE ~(\/ TryLock(u) \/ MarkActive(u) \/ BeginExec(u)
             \/ EndExec(u) \/ MarkInactive(u) \/ Unlock(u))
    <3>1. Quiet(u)
      BY <1>1, <1>2, <2>2, RunIsQuiet DEF Run
    <3> QED
      BY <1>1, <3>1, QuietKeeps
  <2> QED
    BY <2>1, <2>2
<1>3. ASSUME NEW u \in Updates, StopOrInput(u) PROVE CommandInv'
  <2>1. Quiet(u)
    BY <1>1, <1>3, StopIsQuiet DEF StopOrInput
  <2> QED
    BY <1>1, <2>1, QuietKeeps
<1>4. ASSUME NEW u \in Updates, Close(u) PROVE CommandInv'
  <2>1. Quiet(u)
    BY <1>1, <1>4, CloseIsQuiet DEF Close
  <2> QED
    BY <1>1, <2>1, QuietKeeps
<1>5. ASSUME NEW u \in Updates, Receive(u) \/ DoubleClose(u) \/ Process(u)
      PROVE  CommandInv'
  BY <1>1, <1>5, RestIsQuiet, QuietKeeps
<1>6. CASE UNCHANGED vars
  BY <1>6
  DEF vars, shellVars, localVars, sharedVars, CommandInv, OneCommand,
      ActiveIsHeld
<1> QED
  BY <1>2, <1>3, <1>4, <1>5, <1>6 DEF Next, Handle, AllDone

LEMMA CommandInvariant == Spec => []CommandInv
<1> QED
  BY InitCommands, NextCommands, TypeCorrect, PTL DEF Spec

\* However many messages arrive at once, one command at a time runs in a chat:
\* the run lock of runCommand is exclusive, and the capture and stop channel a
\* shell has installed are those of the update that holds it.
THEOREM CommandsExclude == Spec => []OneCommand
<1>1. CommandInv => OneCommand
  BY DEF CommandInv
<1> QED
  BY <1>1, CommandInvariant, PTL

\* The Active flag is up only while the holder of the run lock runs its command,
\* whatever /exit does to the flag in between.
THEOREM ActiveNotLeftBehind == Spec => []ActiveIsHeld
<1>1. CommandInv => ActiveIsHeld
  BY DEF CommandInv
<1> QED
  BY <1>1, CommandInvariant, PTL

-----------------------------------------------------------------------------
(* The project of a session is the one at its working directory: only the   *)
(* two handlers that write both fields write them at all.                   *)

LEMMA BindingsPaired ==
    ASSUME NEW d \in Dirs, NEW p \in Bindings(d)
    PROVE  Paired([cwd |-> d, project |-> p])
<1>1. CASE ProjectsAt(d) = {}
  BY <1>1 DEF Bindings, Paired
<1>2. CASE ProjectsAt(d) # {}
  BY <1>2 DEF Bindings, ProjectsAt, Paired
<1> QED
  BY <1>1, <1>2

LEMMA RecordResultPaired ==
    ASSUME SessionPaired, NEW u \in Updates, RecordResult(u)
    PROVE  SessionPaired'
<1>1. CASE ParsePWD(out[u]) \in Dirs
  <2>1. PICK p \in Bindings(ParsePWD(out[u])) :
          session' = [cwd |-> ParsePWD(out[u]), project |-> p]
    BY <1>1 DEF RecordResult
  <2> QED
    BY <1>1, <2>1, BindingsPaired DEF SessionPaired, Paired
<1>2. CASE ParsePWD(out[u]) \notin Dirs
  BY <1>2 DEF RecordResult, SessionPaired, Paired
<1> QED
  BY <1>1, <1>2

LEMMA RebindPaired ==
    ASSUME NEW u \in Updates, Rebind(u)
    PROVE  SessionPaired'
BY DEF Rebind, FreshSession, SessionPaired, Paired

LEMMA NextPaired == SessionPaired /\ [Next]_vars => SessionPaired'
<1> SUFFICES ASSUME SessionPaired, [Next]_vars, session' # session
             PROVE  SessionPaired'
  BY DEF SessionPaired, Paired
<1>1. PICK u \in Updates : Receive(u) \/ Handle(u) \/ Process(u)
  BY DEF Next, AllDone, vars, sharedVars
<1>2. CASE Run(u)
  <2>1. RecordResult(u)
    BY <1>2 DEF Run, SetActive, Return, sharedVars, Busy, TryLock, ReuseShell,
        StartShell, ShellStarted, ShellFailed, MarkActive, BeginExec,
        ClearStopped, SendFrame, SendFrameFails, Timeout, Stopped, Tick,
        TickAgain, ReturnResult, ReturnPartial, ReturnLate, EndExec,
        MarkInactive, Unlock
  <2> QED
    BY <2>1, RecordResultPaired
<1>3. CASE Close(u)
  <2>1. Rebind(u)
    BY <1>3 DEF Close, SetActive, sharedVars, RefuseProject, Detach,
        CloseShell, CloseCurStop, HangUp, ExitQuiet, ShutDown
  <2> QED
    BY <2>1, RebindPaired
<1>4. CASE StopOrInput(u)
  BY <1>4 DEF StopOrInput, LookUpShell, sharedVars, FindShell, NothingToDo,
      SomethingActive, ShellIsAlive, RaiseStopped, ReadChannel, TestChannel,
      StopCommand, SendCtrlC, TypeInput
<1>5. CASE Receive(u) \/ DoubleClose(u) \/ Process(u)
  BY <1>5 DEF Receive, DoubleClose, Process, sharedVars
<1> QED
  BY <1>1, <1>2, <1>3, <1>4, <1>5 DEF Handle

\* Session state cannot "pair a project with a directory that belongs to a
\* different one" (docs/architecture.md): whatever commands, /project and /exit
\* do, and in whatever order, a session bound to a project is at its path.
THEOREM ProjectFollowsCwd == Spec => []SessionPaired
<1>1. Init => SessionPaired
  BY GatewayAssumption DEF Init, SessionPaired
<1> QED
  BY <1>1, NextPaired, PTL DEF Spec

-----------------------------------------------------------------------------
(* No shell is lost and none is closed twice.  A shell is started only with *)
(* the map empty and shellMu held (Opening), and the one in the map has     *)
(* neither been closed nor been taken by a closer (Kept); what a closer has *)
(* in its hands was started (Held).                                         *)

Closing == {"close", "closeCurStop", "release"}

Opening ==
    \A u \in Updates : pc[u] = "opening" => shellMu = u /\ reg = None

Kept ==
    reg # None => /\ proc[reg] # "none" /\ ~closed[reg]
                  /\ \A v \in Updates : pc[v] \in Closing => sh[v] # reg

Held ==
    /\ \A s \in Updates : closed[s] => proc[s] # "none"
    /\ \A v \in Updates :
          pc[v] \in Closing => sh[v] \in Updates /\ proc[sh[v]] # "none"

LifeInv == Opening /\ Kept /\ Held /\ NoStrayShell /\ ClosedOnce

\* A step of u that starts no shell, takes none out of the map and marks none
\* closed.
Steady(u) ==
    /\ closed' = closed /\ reg' = reg /\ shellMu' = shellMu
    /\ \A s \in Updates : /\ proc'[s] = "none" <=> proc[s] = "none"
                          /\ proc'[s] = "up" => proc[s] = "up"
    /\ \A v \in Updates \ {u} : pc'[v] = pc[v] /\ sh'[v] = sh[v]
    /\ pc'[u] \in Closing => pc[u] \in Closing /\ sh'[u] = sh[u]
    /\ pc[u] = "close" => pc'[u] = "close"
    /\ pc'[u] = "close" => pc[u] = "close"
    /\ pc'[u] = "opening" => pc[u] = "opening"

LEMMA SteadyKeeps ==
    ASSUME ShellTypeOK, HandlerTypeOK, LifeInv, NEW u \in Updates, Steady(u)
    PROVE  LifeInv'
<1> USE DEF LifeInv, Steady
<1>1. \A v \in Updates :
         /\ pc'[v] \in Closing => pc[v] \in Closing /\ sh'[v] = sh[v]
         /\ pc[v] = "close" <=> pc'[v] = "close"
         /\ pc'[v] = "opening" => pc[v] = "opening"
  OBVIOUS
<1>2. Opening'
  BY <1>1 DEF Opening
<1>3. Kept'
  BY <1>1 DEF Kept, HandlerTypeOK
<1>4. Held'
  BY <1>1 DEF Held
<1>5. NoStrayShell'
  <2> SUFFICES ASSUME NEW s \in Updates, proc'[s] = "up", ~closed'[s],
                      s # reg'
               PROVE  \E v \in Updates : pc'[v] = "close" /\ sh'[v] = s
    BY DEF NoStrayShell
  <2>1. PICK v \in Updates : pc[v] = "close" /\ sh[v] = s
    BY DEF NoStrayShell
  <2> QED
    BY <1>1, <2>1 DEF Closing
<1>6. ClosedOnce'
  <2>1. ASSUME NEW v \in Updates, NEW w \in Updates, pc'[v] \in Closing,
               pc'[w] \in Closing, sh'[v] = sh'[w]
        PROVE  v = w
    BY <1>1, <2>1 DEF ClosedOnce, Closing
  <2>2. ASSUME NEW v \in Updates, pc'[v] = "close" PROVE ~closed'[sh'[v]]
    BY <1>1, <2>2 DEF ClosedOnce, Closing
  <2> QED
    BY <2>1, <2>2 DEF ClosedOnce, Closing
<1> QED
  BY <1>2, <1>3, <1>4, <1>5, <1>6

LEMMA RunIsSteady ==
    ASSUME ShellTypeOK, HandlerTypeOK, NEW u \in Updates,
           Busy(u) \/ TryLock(u) \/ ReuseShell(u) \/ MarkActive(u) \/
               BeginExec(u) \/ ClearStopped(u) \/ SendFrame(u) \/
               SendFrameFails(u) \/ Timeout(u) \/ Stopped(u) \/ Tick(u) \/
               TickAgain(u) \/ ReturnResult(u) \/ ReturnPartial(u) \/
               ReturnLate(u) \/ EndExec(u) \/ RecordResult(u) \/
               MarkInactive(u) \/ Unlock(u)
    PROVE  Steady(u)
<1>1. CASE Busy(u)
  BY <1>1 DEF Busy, Finish, Steady, Closing, HandlerTypeOK, ShellTypeOK, Goto,
      shellVars, sharedVars
<1>2. CASE TryLock(u)
  BY <1>2 DEF TryLock, Step, Conclude, Steady, Closing, HandlerTypeOK,
      ShellTypeOK, Goto, shellVars, sharedVars
<1>3. CASE ReuseShell(u)
  BY <1>3 DEF ReuseShell, Steady, Closing, HandlerTypeOK, ShellTypeOK, Goto,
      shellVars, sharedVars
<1>4. CASE MarkActive(u)
  BY <1>4 DEF MarkActive, Step, SetActive, Steady, Closing, HandlerTypeOK,
      ShellTypeOK, Goto, shellVars, sharedVars
<1>5. CASE BeginExec(u)
  BY <1>5 DEF BeginExec, Step, Install, Steady, Closing, HandlerTypeOK,
      ShellTypeOK, Goto, shellVars, sharedVars
<1>6. CASE ClearStopped(u)
  BY <1>6 DEF ClearStopped, Step, SetStopped, Steady, Closing, HandlerTypeOK,
      ShellTypeOK, Goto, shellVars, sharedVars
<1>7. CASE SendFrame(u)
  BY <1>7 DEF SendFrame, Step, WriteFrame, Steady, Closing, HandlerTypeOK,
      ShellTypeOK, Goto, shellVars, sharedVars
<1>8. CASE SendFrameFails(u)
  BY <1>8 DEF SendFrameFails, Conclude, Steady, Closing, HandlerTypeOK,
      ShellTypeOK, Goto, shellVars, sharedVars
<1>9. CASE Timeout(u)
  BY <1>9 DEF Timeout, Conclude, Interrupt, Steady, Closing, HandlerTypeOK,
      ShellTypeOK, Goto, shellVars, sharedVars
<1>10. CASE Stopped(u)
  BY <1>10 DEF Stopped, Conclude, Steady, Closing, HandlerTypeOK, ShellTypeOK,
      Goto, shellVars, sharedVars
<1>11. CASE Tick(u)
  BY <1>11 DEF Tick, Step, Steady, Closing, HandlerTypeOK, ShellTypeOK, Goto,
      shellVars, sharedVars
<1>12. CASE TickAgain(u)
  BY <1>12 DEF TickAgain, Step, Steady, Closing, HandlerTypeOK, ShellTypeOK,
      Goto, shellVars, sharedVars
<1>13. CASE ReturnResult(u)
  BY <1>13 DEF ReturnResult, Return, Steady, Closing, HandlerTypeOK,
      ShellTypeOK, Goto, shellVars, sharedVars
<1>14. CASE ReturnPartial(u)
  BY <1>14 DEF ReturnPartial, Return, Steady, Closing, HandlerTypeOK,
      ShellTypeOK, Goto, shellVars, sharedVars
<1>15. CASE ReturnLate(u)
  BY <1>15 DEF ReturnLate, Return, Steady, Closing, HandlerTypeOK,
      ShellTypeOK, Goto, shellVars, sharedVars
<1>16. CASE EndExec(u)
  BY <1>16 DEF EndExec, Step, Uninstall, Steady, Closing, HandlerTypeOK,
      ShellTypeOK, Goto, shellVars, sharedVars
<1>17. CASE RecordResult(u)
  BY <1>17 DEF RecordResult, Steady, Closing, HandlerTypeOK, ShellTypeOK,
      Goto, shellVars, sharedVars
<1>18. CASE MarkInactive(u)
  BY <1>18 DEF MarkInactive, Step, SetActive, Steady, Closing, HandlerTypeOK,
      ShellTypeOK, Goto, shellVars, sharedVars
<1>19. CASE Unlock(u)
  BY <1>19 DEF Unlock, Finish, Steady, Closing, HandlerTypeOK, ShellTypeOK,
      Goto, shellVars, sharedVars
<1> QED
  BY <1>1, <1>2, <1>3, <1>4, <1>5, <1>6, <1>7, <1>8, <1>9, <1>10, <1>11,
      <1>12, <1>13, <1>14, <1>15, <1>16, <1>17, <1>18, <1>19

LEMMA StopIsSteady ==
    ASSUME ShellTypeOK, HandlerTypeOK, NEW u \in Updates,
           FindShell(u) \/ NothingToDo(u) \/ SomethingActive(u) \/
               ShellIsAlive(u) \/ RaiseStopped(u) \/ ReadChannel(u) \/
               TestChannel(u) \/ StopCommand(u) \/ SendCtrlC(u) \/
               TypeInput(u)
    PROVE  Steady(u)
<1>1. CASE FindShell(u)
  BY <1>1 DEF FindShell, LookUpShell, Steady, Closing, HandlerTypeOK,
      ShellTypeOK, Goto, shellVars, sharedVars
<1>2. CASE NothingToDo(u)
  BY <1>2 DEF NothingToDo, Finish, Steady, Closing, HandlerTypeOK,
      ShellTypeOK, Goto, shellVars, sharedVars
<1>3. CASE SomethingActive(u)
  BY <1>3 DEF SomethingActive, Step, Steady, Closing, HandlerTypeOK,
      ShellTypeOK, Goto, shellVars, sharedVars
<1>4. CASE ShellIsAlive(u)
  BY <1>4 DEF ShellIsAlive, Step, Steady, Closing, HandlerTypeOK, ShellTypeOK,
      Goto, shellVars, sharedVars
<1>5. CASE RaiseStopped(u)
  BY <1>5 DEF RaiseStopped, Step, SetStopped, Steady, Closing, HandlerTypeOK,
      ShellTypeOK, Goto, shellVars, sharedVars
<1>6. CASE ReadChannel(u)
  BY <1>6 DEF ReadChannel, Steady, Closing, HandlerTypeOK, ShellTypeOK, Goto,
      shellVars, sharedVars
<1>7. CASE TestChannel(u)
  BY <1>7 DEF TestChannel, Step, Steady, Closing, HandlerTypeOK, ShellTypeOK,
      Goto, shellVars, sharedVars
<1>8. CASE StopCommand(u)
  BY <1>8 DEF StopCommand, Step, CloseChannel, Steady, Closing, HandlerTypeOK,
      ShellTypeOK, Goto, shellVars, sharedVars
<1>9. CASE SendCtrlC(u)
  BY <1>9 DEF SendCtrlC, Finish, Interrupt, Steady, Closing, HandlerTypeOK,
      ShellTypeOK, Goto, shellVars, sharedVars
<1>10. CASE TypeInput(u)
  BY <1>10 DEF TypeInput, Finish, Interrupt, TypeLine, Steady, Closing,
      HandlerTypeOK, ShellTypeOK, Goto, shellVars, sharedVars
<1> QED
  BY <1>1, <1>2, <1>3, <1>4, <1>5, <1>6, <1>7, <1>8, <1>9, <1>10

LEMMA CloseIsSteady ==
    ASSUME ShellTypeOK, HandlerTypeOK, NEW u \in Updates,
           RefuseProject(u) \/ CloseCurStop(u) \/ HangUp(u) \/
               ExitQuiet(u) \/ Rebind(u) \/ ShutDown(u)
    PROVE  Steady(u)
<1>1. CASE RefuseProject(u)
  BY <1>1 DEF RefuseProject, Finish, Steady, Closing, HandlerTypeOK,
      ShellTypeOK, Goto, shellVars, sharedVars
<1>2. CASE CloseCurStop(u)
  BY <1>2 DEF CloseCurStop, Step, CloseUnderLock, Steady, Closing,
      HandlerTypeOK, ShellTypeOK, Goto, shellVars, sharedVars
<1>3. CASE HangUp(u)
  BY <1>3 DEF HangUp, Step, AfterClose, Release, Steady, Closing,
      HandlerTypeOK, ShellTypeOK, Goto, shellVars, sharedVars
<1>4. CASE ExitQuiet(u)
  BY <1>4 DEF ExitQuiet, Step, SetActive, Steady, Closing, HandlerTypeOK,
      ShellTypeOK, Goto, shellVars, sharedVars
<1>5. CASE Rebind(u)
  BY <1>5 DEF Rebind, Finish, Steady, Closing, HandlerTypeOK, ShellTypeOK,
      Goto, shellVars, sharedVars
<1>6. CASE ShutDown(u)
  BY <1>6 DEF ShutDown, Finish, Steady, Closing, HandlerTypeOK, ShellTypeOK,
      Goto, shellVars, sharedVars
<1> QED
  BY <1>1, <1>2, <1>3, <1>4, <1>5, <1>6

LEMMA RestIsSteady ==
    ASSUME ShellTypeOK, HandlerTypeOK, NEW u \in Updates,
           Receive(u) \/ DoubleClose(u) \/ Process(u)
    PROVE  Steady(u)
<1>1. CASE Receive(u)
  BY <1>1 DEF Receive, Entry, Steady, Closing, HandlerTypeOK, ShellTypeOK,
      Goto, shellVars, sharedVars
<1>2. CASE DoubleClose(u)
  BY <1>2 DEF DoubleClose, Finish, Steady, Closing, HandlerTypeOK,
      ShellTypeOK, Goto, shellVars, sharedVars
<1>3. CASE Process(u)
  <2>1. UNCHANGED <<closed, localVars, sharedVars>>
    BY <1>3 DEF Process, ShellStep, BeginFrame, EndBody, EndFrame, SetEcho,
        ReadFrame, TalkBack, Overflow, Exit
  <2>2. \/ proc' = proc
        \/ proc[u] = "up" /\ proc' = [proc EXCEPT ![u] = "exited"]
    BY <1>3 DEF Process, ShellStep, BeginFrame, EndBody, EndFrame, SetEcho,
        ReadFrame, TalkBack, Overflow, Exit
  <2>3. \A s \in Updates : /\ proc'[s] = "none" <=> proc[s] = "none"
                           /\ proc'[s] = "up" => proc[s] = "up"
    BY <2>2 DEF ShellTypeOK
  <2> QED
    BY <2>1, <2>3 DEF localVars, sharedVars, Steady
<1> QED
  BY <1>1, <1>2, <1>3

LEMMA StartShellLife ==
    ASSUME ShellTypeOK, HandlerTypeOK, LifeInv, NEW u \in Updates,
           StartShell(u)
    PROVE  LifeInv'
<1>1. /\ pc[u] = "open" /\ pc' = [pc EXCEPT ![u] = "opening"]
      /\ shellMu = None /\ shellMu' = u /\ reg' = None
      /\ UNCHANGED <<sh, proc, closed>>
      /\ reg # None => closed[reg] \/ proc[reg] # "up"
  BY DEF StartShell, Step, Goto, shellVars, IsAlive
<1>2. \A v \in Updates : /\ v # u => pc'[v] = pc[v]
                         /\ pc'[v] \in Closing <=> pc[v] \in Closing
                         /\ pc'[v] = "close" <=> pc[v] = "close"
  BY <1>1 DEF HandlerTypeOK, Closing
<1>3. Opening'
  BY <1>1, <1>2, NoneAssumption DEF LifeInv, Opening
<1>4. Kept' /\ Held'
  BY <1>1, <1>2 DEF LifeInv, Kept, Held
<1>5. NoStrayShell'
  BY <1>1, <1>2 DEF LifeInv, NoStrayShell
<1>6. ClosedOnce'
  BY <1>1, <1>2 DEF LifeInv, ClosedOnce, Closing
<1> QED
  BY <1>3, <1>4, <1>5, <1>6 DEF LifeInv

LEMMA ShellStartedLife ==
    ASSUME ShellTypeOK, HandlerTypeOK, LifeInv, NEW u \in Updates,
           ShellStarted(u)
    PROVE  LifeInv'
<1>1. /\ pc[u] = "opening" /\ pc' = [pc EXCEPT ![u] = "active"]
      /\ shellMu' = None /\ reg' = u
      /\ sh' = [sh EXCEPT ![u] = u]
      /\ proc[u] = "none" /\ proc' = [proc EXCEPT ![u] = "up"]
      /\ closed' = closed
  BY DEF ShellStarted, OpenShell, Goto
<1>2. \A v \in Updates : /\ v # u => pc'[v] = pc[v] /\ sh'[v] = sh[v]
                                     /\ proc'[v] = proc[v]
                         /\ pc'[v] \in Closing <=> pc[v] \in Closing
                         /\ pc'[v] = "close" <=> pc[v] = "close"
  BY <1>1 DEF HandlerTypeOK, ShellTypeOK, Closing
<1>3. pc'[u] \notin Closing /\ proc'[u] = "up" /\ pc'[u] = "active"
  BY <1>1 DEF HandlerTypeOK, ShellTypeOK, Closing
<1>4. shellMu = u /\ reg = None /\ ~closed[u]
      /\ \A v \in Updates : pc[v] \in Closing => sh[v] # u
  BY <1>1 DEF LifeInv, Opening, Held, ShellTypeOK
<1>5. Opening'
  BY <1>1, <1>2, <1>3, <1>4 DEF LifeInv, Opening
<1>6. Kept'
  BY <1>1, <1>2, <1>3, <1>4, NoneAssumption DEF Kept
<1>7. Held'
  <2>1. ASSUME NEW s \in Updates, closed'[s] PROVE proc'[s] # "none"
    BY <1>1, <1>2, <1>3, <2>1 DEF LifeInv, Held
  <2>2. ASSUME NEW v \in Updates, pc'[v] \in Closing
        PROVE  sh'[v] \in Updates /\ proc'[sh'[v]] # "none"
    <3>1. pc[v] \in Closing /\ v # u
      BY <1>2, <1>3, <2>2
    <3>2. sh'[v] \in Updates /\ sh'[v] # u /\ proc[sh'[v]] # "none"
      BY <1>2, <1>4, <3>1 DEF LifeInv, Held
    <3> QED
      BY <1>2, <3>2
  <2>3. \A s \in Updates : closed'[s] => proc'[s] # "none"
    BY <2>1
  <2> QED
    BY <2>2, <2>3, Zenon DEF Held
<1>8. NoStrayShell'
  <2> SUFFICES ASSUME NEW s \in Updates, proc'[s] = "up", ~closed'[s],
                      s # reg'
               PROVE  \E v \in Updates : pc'[v] = "close" /\ sh'[v] = s
    BY DEF NoStrayShell
  <2>1. proc[s] = "up" /\ ~closed[s]
    BY <1>1, <1>2
  <2>2. PICK v \in Updates : pc[v] = "close" /\ sh[v] = s
    BY <1>4, <2>1, NoneAssumption DEF LifeInv, NoStrayShell
  <2> QED
    BY <1>1, <1>2, <2>2
<1>9. ClosedOnce'
  BY <1>1, <1>2, <1>3 DEF LifeInv, ClosedOnce, Closing
<1> QED
  BY <1>5, <1>6, <1>7, <1>8, <1>9 DEF LifeInv

LEMMA ShellFailedLife ==
    ASSUME ShellTypeOK, HandlerTypeOK, LifeInv, NEW u \in Updates,
           ShellFailed(u)
    PROVE  LifeInv'
<1>1. /\ pc[u] = "opening" /\ pc' = [pc EXCEPT ![u] = "unlock"]
      /\ shellMu' = None
      /\ UNCHANGED <<sh, proc, closed, reg>>
  BY DEF ShellFailed, Conclude, Goto, shellVars
<1>2. \A v \in Updates : /\ v # u => pc'[v] = pc[v]
                         /\ pc'[v] \in Closing <=> pc[v] \in Closing
                         /\ pc'[v] = "close" <=> pc[v] = "close"
  BY <1>1 DEF HandlerTypeOK, Closing
<1>3. shellMu = u /\ pc'[u] = "unlock"
  BY <1>1 DEF LifeInv, Opening, HandlerTypeOK
<1>4. Opening'
  BY <1>1, <1>2, <1>3 DEF LifeInv, Opening
<1>5. Kept' /\ Held'
  BY <1>1, <1>2 DEF LifeInv, Kept, Held
<1>6. NoStrayShell'
  BY <1>1, <1>2 DEF LifeInv, NoStrayShell
<1>7. ClosedOnce'
  BY <1>1, <1>2 DEF LifeInv, ClosedOnce, Closing
<1> QED
  BY <1>4, <1>5, <1>6, <1>7 DEF LifeInv

LEMMA DetachLife ==
    ASSUME ShellTypeOK, HandlerTypeOK, LifeInv, NEW u \in Updates, Detach(u)
    PROVE  LifeInv'
<1>1. /\ pc[u] = "detach" /\ shellMu = None
      /\ pc' = [pc EXCEPT ![u] = IF reg = None THEN AfterClose(u) ELSE "close"]
      /\ sh' = [sh EXCEPT ![u] = reg] /\ reg' = None
      /\ UNCHANGED <<proc, closed, shellMu>>
  BY DEF Detach, Goto, shellVars
<1>2. \A v \in Updates : v # u => pc'[v] = pc[v] /\ sh'[v] = sh[v]
  BY <1>1 DEF HandlerTypeOK
<1>3. AfterClose(u) \notin Closing \cup {"opening"}
  BY DEF AfterClose, Closing
<1>4. /\ reg = None => pc'[u] \notin Closing
      /\ reg # None => pc'[u] = "close"
      /\ pc'[u] # "opening" /\ sh'[u] = reg
  BY <1>1, <1>3 DEF HandlerTypeOK, Closing
<1>5. Opening'
  BY <1>1, <1>2, <1>4, NoneAssumption DEF LifeInv, Opening
<1>6. Kept'
  BY <1>1 DEF Kept
<1>7. Held'
  BY <1>1, <1>2, <1>4 DEF LifeInv, Held, Kept, HandlerTypeOK, Closing
<1>8. NoStrayShell'
  <2> SUFFICES ASSUME NEW s \in Updates, proc[s] = "up", ~closed[s]
               PROVE  \E v \in Updates : pc'[v] = "close" /\ sh'[v] = s
    BY <1>1 DEF NoStrayShell
  <2>1. CASE s = reg
    BY <1>4, <2>1, NoneAssumption
  <2>2. CASE s # reg
    <3>1. PICK v \in Updates : pc[v] = "close" /\ sh[v] = s
      BY <2>2 DEF LifeInv, NoStrayShell
    <3>2. v # u
      BY <1>1, <3>1
    <3> QED
      BY <1>2, <3>1, <3>2
  <2> QED
    BY <2>1, <2>2
<1>9. ClosedOnce'
  <2>1. ASSUME NEW v \in Updates, NEW w \in Updates, pc'[v] \in Closing,
               pc'[w] \in Closing, sh'[v] = sh'[w]
        PROVE  v = w
    BY <1>2, <1>4, <2>1 DEF LifeInv, ClosedOnce, Kept, Closing
  <2>2. ASSUME NEW v \in Updates, pc'[v] = "close" PROVE ~closed'[sh'[v]]
    BY <1>1, <1>2, <1>4, <2>2 DEF LifeInv, ClosedOnce, Kept, Closing
  <2> QED
    BY <2>1, <2>2 DEF ClosedOnce, Closing
<1> QED
  BY <1>5, <1>6, <1>7, <1>8, <1>9 DEF LifeInv

LEMMA CloseShellLife ==
    ASSUME ShellTypeOK, HandlerTypeOK, LifeInv, NEW u \in Updates,
           CloseShell(u)
    PROVE  LifeInv'
<1>1. /\ pc[u] = "close"
      /\ \/ pc' = [pc EXCEPT ![u] = "closeCurStop"]
         \/ pc' = [pc EXCEPT ![u] = "release"]
      /\ closed' = [closed EXCEPT ![sh[u]] = TRUE]
      /\ UNCHANGED <<sh, proc, shellMu, reg>>
  BY DEF CloseShell, Step, Goto, MarkClosed, sharedVars
<1>2. /\ pc'[u] \in Closing \ {"close"} /\ pc[u] \in Closing
      /\ \A v \in Updates : v # u => pc'[v] = pc[v]
  BY <1>1 DEF HandlerTypeOK, Closing
<1>3. sh[u] \in Updates /\ proc[sh[u]] # "none" /\ sh[u] # reg
  BY <1>2, NoneAssumption DEF LifeInv, Held, Kept
<1>4. \A s \in Updates : s # sh[u] => closed'[s] = closed[s]
  BY <1>1 DEF ShellTypeOK
<1>c. closed'[sh[u]]
  BY <1>1, <1>3 DEF ShellTypeOK
<1>5. Opening'
  BY <1>1, <1>2 DEF LifeInv, Opening, Closing
<1>6. Kept'
  <2> SUFFICES ASSUME reg # None PROVE Kept'
    BY <1>1 DEF Kept
  <2>1. reg \in Updates
    BY DEF HandlerTypeOK
  <2> QED
    BY <1>1, <1>2, <1>3, <1>4, <2>1 DEF LifeInv, Kept
<1>7. Held'
  BY <1>1, <1>2, <1>3, <1>4 DEF LifeInv, Held
<1>8. NoStrayShell'
  <2> SUFFICES ASSUME NEW s \in Updates, proc[s] = "up", ~closed'[s], s # reg
               PROVE  \E v \in Updates : pc'[v] = "close" /\ sh'[v] = s
    BY <1>1 DEF NoStrayShell
  <2>1. s # sh[u] /\ ~closed[s]
    BY <1>4, <1>c
  <2>2. PICK v \in Updates : pc[v] = "close" /\ sh[v] = s
    BY <2>1 DEF LifeInv, NoStrayShell
  <2> QED
    BY <1>1, <1>2, <2>1, <2>2
<1>9. ClosedOnce'
  <2>1. ASSUME NEW v \in Updates, NEW w \in Updates, pc'[v] \in Closing,
               pc'[w] \in Closing, sh'[v] = sh'[w]
        PROVE  v = w
    BY <1>1, <1>2, <2>1 DEF LifeInv, ClosedOnce, Closing
  <2>2. ASSUME NEW v \in Updates, pc'[v] = "close" PROVE ~closed'[sh'[v]]
    <3>1. v # u /\ pc[v] = "close" /\ sh'[v] = sh[v]
      BY <1>1, <1>2, <2>2
    <3>2. sh[v] # sh[u] /\ sh[v] \in Updates /\ ~closed[sh[v]]
      BY <1>2, <3>1 DEF LifeInv, ClosedOnce, Held, Closing
    <3> QED
      BY <1>4, <3>1, <3>2
  <2> QED
    BY <2>1, <2>2 DEF ClosedOnce, Closing
<1> QED
  BY <1>5, <1>6, <1>7, <1>8, <1>9 DEF LifeInv

LEMMA NextLife == TypeOK /\ LifeInv /\ [Next]_vars => LifeInv'
<1> SUFFICES ASSUME TypeOK, LifeInv, [Next]_vars PROVE LifeInv'
  OBVIOUS
<1>1. ShellTypeOK /\ HandlerTypeOK
  BY DEF TypeOK
<1>2. ASSUME NEW u \in Updates, Run(u) PROVE LifeInv'
  BY <1>1, <1>2, StartShellLife, ShellStartedLife, ShellFailedLife,
     RunIsSteady, SteadyKeeps DEF Run
<1>3. ASSUME NEW u \in Updates, StopOrInput(u) PROVE LifeInv'
  BY <1>1, <1>3, StopIsSteady, SteadyKeeps DEF StopOrInput
<1>4. ASSUME NEW u \in Updates, Close(u) PROVE LifeInv'
  BY <1>1, <1>4, DetachLife, CloseShellLife, CloseIsSteady, SteadyKeeps
  DEF Close
<1>5. ASSUME NEW u \in Updates, Receive(u) \/ DoubleClose(u) \/ Process(u)
      PROVE  LifeInv'
  BY <1>1, <1>5, RestIsSteady, SteadyKeeps
<1>6. CASE UNCHANGED vars
  BY <1>6
  DEF vars, shellVars, localVars, sharedVars, LifeInv, Opening, Kept, Held,
      NoStrayShell, ClosedOnce
<1> QED
  BY <1>2, <1>3, <1>4, <1>5, <1>6 DEF Next, Handle, AllDone

LEMMA LifeInvariant == Spec => []LifeInv
<1>1. Init => LifeInv
  BY DEF Init, ShellInit, LifeInv, Opening, Kept, Held, NoStrayShell,
         ClosedOnce, Closing
<1> QED
  BY <1>1, NextLife, TypeCorrect, PTL DEF Spec

\* A shell process that runs and is not closed is the session's, or is in the
\* hands of a handler about to close it (handler.go, getShell, closeShellFor).
THEOREM ShellsAreTracked == Spec => []NoStrayShell
<1>1. LifeInv => NoStrayShell
  BY DEF LifeInv
<1> QED
  BY <1>1, LifeInvariant, PTL

\* However /exit, /project and the shutdown overlap, each shell is closed by one
\* of them, once (handler.go, closeShellFor; shell.go, Close).
THEOREM ShellsCloseOnce == Spec => []ClosedOnce
<1>1. LifeInv => ClosedOnce
  BY DEF LifeInv
<1> QED
  BY <1>1, LifeInvariant, PTL

-----------------------------------------------------------------------------
(* A stop that comes late.  A command in ExecCommand has its own channel    *)
(* installed on its shell (Installed), so a /stop that raises the flag of   *)
(* that shell reads this channel and closes it.                             *)

Polling  == {"write", "wait", "check"}
Stopping == {"channel", "select", "closeChannel"}

Installed ==
    \A u \in Updates :
        pc[u] \in ExecLabels => cur[sh[u]] = u /\ chan[u] # "none"

StopInv == Installed /\ FlagHasItsStop

\* A step of u that is no part of a /stop, and neither installs a channel nor
\* drops one, nor touches the flag.
Unheard(u) ==
    /\ cur' = cur /\ stopped' = stopped
    /\ \A v \in Updates : /\ chan[v] # "none" => chan'[v] # "none"
                          /\ chan[v] = "closed" => chan'[v] = "closed"
    /\ \A v \in Updates \ {u} :
          pc'[v] = pc[v] /\ sh'[v] = sh[v] /\ ch'[v] = ch[v]
    /\ pc'[u] \in ExecLabels => pc[u] \in ExecLabels /\ sh'[u] = sh[u]
    /\ pc'[u] \in Polling => pc[u] \in Polling
    /\ pc[u] \notin Stopping

\* v is handling a /stop that will close the channel of u.
AtWork(v, u) ==
    \/ pc[v] = "channel"
    \/ pc[v] \in {"select", "closeChannel"} /\ ch[v] = u

\* What FlagHasItsStop asks of a command that finds the flag up.
Heard(u) ==
    \/ chan[u] = "closed"
    \/ \E v \in Updates :
          sh[v] = sh[u] /\ AtWork(v, u)

LEMMA StaleOrHeard ==
    FlagHasItsStop <=> \A u \in Updates :
                          pc[u] \in Polling /\ stopped[sh[u]] => Heard(u)
BY DEF FlagHasItsStop, Polling, Heard, AtWork

LEMMA UnheardKeeps ==
    ASSUME ShellTypeOK, HandlerTypeOK, StopInv, NEW u \in Updates, Unheard(u)
    PROVE  StopInv'
<1> USE DEF StopInv, Unheard
<1>1. Installed'
  BY DEF Installed
<1>2. ASSUME NEW w \in Updates, pc'[w] \in Polling, stopped'[sh'[w]]
      PROVE  Heard(w)'
  <2>1. pc[w] \in Polling /\ sh'[w] = sh[w]
    BY <1>2 DEF Polling, ExecLabels
  <2>2. Heard(w)
    BY <1>2, <2>1, StaleOrHeard
  <2>3. CASE chan[w] = "closed"
    BY <2>3 DEF Heard
  <2>4. CASE chan[w] # "closed"
    <3>1. PICK v \in Updates : sh[v] = sh[w] /\ AtWork(v, w)
      BY <2>2, <2>4 DEF Heard
    <3>2. v # u
      BY <3>1 DEF Stopping, AtWork
    <3> QED
      BY <2>1, <3>1, <3>2 DEF Heard, AtWork
  <2> QED
    BY <2>3, <2>4
<1>3. FlagHasItsStop'
  BY <1>2 DEF FlagHasItsStop, Polling, Heard, AtWork
<1> QED
  BY <1>1, <1>3

LEMMA RunIsUnheard ==
    ASSUME ShellTypeOK, HandlerTypeOK, NEW u \in Updates,
           Busy(u) \/ TryLock(u) \/ ReuseShell(u) \/ StartShell(u) \/
               ShellStarted(u) \/ ShellFailed(u) \/ MarkActive(u) \/
               SendFrame(u) \/ SendFrameFails(u) \/ Timeout(u) \/
               Stopped(u) \/ Tick(u) \/ TickAgain(u) \/ ReturnResult(u) \/
               ReturnPartial(u) \/ ReturnLate(u) \/ RecordResult(u) \/
               MarkInactive(u) \/ Unlock(u)
    PROVE  Unheard(u)
<1>1. CASE Busy(u)
  BY <1>1 DEF Busy, Finish, Unheard, Stopping, Polling, ExecLabels,
      HandlerTypeOK, ShellTypeOK, Goto, shellVars, sharedVars
<1>2. CASE TryLock(u)
  BY <1>2 DEF TryLock, Step, Conclude, Unheard, Stopping, Polling, ExecLabels,
      HandlerTypeOK, ShellTypeOK, Goto, shellVars, sharedVars
<1>3. CASE ReuseShell(u)
  BY <1>3 DEF ReuseShell, Unheard, Stopping, Polling, ExecLabels,
      HandlerTypeOK, ShellTypeOK, Goto, shellVars, sharedVars
<1>4. CASE StartShell(u)
  BY <1>4 DEF StartShell, Step, Unheard, Stopping, Polling, ExecLabels,
      HandlerTypeOK, ShellTypeOK, Goto, shellVars, sharedVars
<1>5. CASE ShellStarted(u)
  BY <1>5 DEF ShellStarted, OpenShell, Unheard, Stopping, Polling, ExecLabels,
      HandlerTypeOK, ShellTypeOK, Goto, shellVars, sharedVars
<1>6. CASE ShellFailed(u)
  BY <1>6 DEF ShellFailed, Conclude, Unheard, Stopping, Polling, ExecLabels,
      HandlerTypeOK, ShellTypeOK, Goto, shellVars, sharedVars
<1>7. CASE MarkActive(u)
  BY <1>7 DEF MarkActive, Step, SetActive, Unheard, Stopping, Polling,
      ExecLabels, HandlerTypeOK, ShellTypeOK, Goto, shellVars, sharedVars
<1>8. CASE SendFrame(u)
  BY <1>8 DEF SendFrame, Step, WriteFrame, Unheard, Stopping, Polling,
      ExecLabels, HandlerTypeOK, ShellTypeOK, Goto, shellVars, sharedVars
<1>9. CASE SendFrameFails(u)
  BY <1>9 DEF SendFrameFails, Conclude, Unheard, Stopping, Polling,
      ExecLabels, HandlerTypeOK, ShellTypeOK, Goto, shellVars, sharedVars
<1>10. CASE Timeout(u)
  BY <1>10 DEF Timeout, Conclude, Interrupt, Unheard, Stopping, Polling,
      ExecLabels, HandlerTypeOK, ShellTypeOK, Goto, shellVars, sharedVars
<1>11. CASE Stopped(u)
  BY <1>11 DEF Stopped, Conclude, Unheard, Stopping, Polling, ExecLabels,
      HandlerTypeOK, ShellTypeOK, Goto, shellVars, sharedVars
<1>12. CASE Tick(u)
  BY <1>12 DEF Tick, Step, Unheard, Stopping, Polling, ExecLabels,
      HandlerTypeOK, ShellTypeOK, Goto, shellVars, sharedVars
<1>13. CASE TickAgain(u)
  BY <1>13 DEF TickAgain, Step, Unheard, Stopping, Polling, ExecLabels,
      HandlerTypeOK, ShellTypeOK, Goto, shellVars, sharedVars
<1>14. CASE ReturnResult(u)
  BY <1>14 DEF ReturnResult, Return, Unheard, Stopping, Polling, ExecLabels,
      HandlerTypeOK, ShellTypeOK, Goto, shellVars, sharedVars
<1>15. CASE ReturnPartial(u)
  BY <1>15 DEF ReturnPartial, Return, Unheard, Stopping, Polling, ExecLabels,
      HandlerTypeOK, ShellTypeOK, Goto, shellVars, sharedVars
<1>16. CASE ReturnLate(u)
  BY <1>16 DEF ReturnLate, Return, Unheard, Stopping, Polling, ExecLabels,
      HandlerTypeOK, ShellTypeOK, Goto, shellVars, sharedVars
<1>17. CASE RecordResult(u)
  BY <1>17 DEF RecordResult, Unheard, Stopping, Polling, ExecLabels,
      HandlerTypeOK, ShellTypeOK, Goto, shellVars, sharedVars
<1>18. CASE MarkInactive(u)
  BY <1>18 DEF MarkInactive, Step, SetActive, Unheard, Stopping, Polling,
      ExecLabels, HandlerTypeOK, ShellTypeOK, Goto, shellVars, sharedVars
<1>19. CASE Unlock(u)
  BY <1>19 DEF Unlock, Finish, Unheard, Stopping, Polling, ExecLabels,
      HandlerTypeOK, ShellTypeOK, Goto, shellVars, sharedVars
<1> QED
  BY <1>1, <1>2, <1>3, <1>4, <1>5, <1>6, <1>7, <1>8, <1>9, <1>10, <1>11,
      <1>12, <1>13, <1>14, <1>15, <1>16, <1>17, <1>18, <1>19

LEMMA StopIsUnheard ==
    ASSUME ShellTypeOK, HandlerTypeOK, NEW u \in Updates,
           FindShell(u) \/ NothingToDo(u) \/ SomethingActive(u) \/
               ShellIsAlive(u) \/ SendCtrlC(u) \/ TypeInput(u)
    PROVE  Unheard(u)
<1>1. CASE FindShell(u)
  BY <1>1 DEF FindShell, LookUpShell, Unheard, Stopping, Polling, ExecLabels,
      HandlerTypeOK, ShellTypeOK, Goto, shellVars, sharedVars
<1>2. CASE NothingToDo(u)
  BY <1>2 DEF NothingToDo, Finish, Unheard, Stopping, Polling, ExecLabels,
      HandlerTypeOK, ShellTypeOK, Goto, shellVars, sharedVars
<1>3. CASE SomethingActive(u)
  BY <1>3 DEF SomethingActive, Step, Unheard, Stopping, Polling, ExecLabels,
      HandlerTypeOK, ShellTypeOK, Goto, shellVars, sharedVars
<1>4. CASE ShellIsAlive(u)
  BY <1>4 DEF ShellIsAlive, Step, Unheard, Stopping, Polling, ExecLabels,
      HandlerTypeOK, ShellTypeOK, Goto, shellVars, sharedVars
<1>5. CASE SendCtrlC(u)
  BY <1>5 DEF SendCtrlC, Finish, Interrupt, Unheard, Stopping, Polling,
      ExecLabels, HandlerTypeOK, ShellTypeOK, Goto, shellVars, sharedVars
<1>6. CASE TypeInput(u)
  BY <1>6 DEF TypeInput, Finish, Interrupt, TypeLine, Unheard, Stopping,
      Polling, ExecLabels, HandlerTypeOK, ShellTypeOK, Goto, shellVars,
      sharedVars
<1> QED
  BY <1>1, <1>2, <1>3, <1>4, <1>5, <1>6

LEMMA CloseIsUnheard ==
    ASSUME ShellTypeOK, HandlerTypeOK, NEW u \in Updates,
           RefuseProject(u) \/ Detach(u) \/ CloseShell(u) \/
               CloseCurStop(u) \/ HangUp(u) \/ ExitQuiet(u) \/ Rebind(u) \/
               ShutDown(u)
    PROVE  Unheard(u)
<1>1. CASE RefuseProject(u)
  BY <1>1 DEF RefuseProject, Finish, Unheard, Stopping, Polling, ExecLabels,
      HandlerTypeOK, ShellTypeOK, Goto, shellVars, sharedVars
<1>2. CASE Detach(u)
  BY <1>2 DEF Detach, AfterClose, Unheard, Stopping, Polling, ExecLabels,
      HandlerTypeOK, ShellTypeOK, Goto, shellVars, sharedVars
<1>3. CASE CloseShell(u)
  BY <1>3 DEF CloseShell, Step, MarkClosed, Unheard, Stopping, Polling,
      ExecLabels, HandlerTypeOK, ShellTypeOK, Goto, shellVars, sharedVars
<1>4. CASE CloseCurStop(u)
  BY <1>4 DEF CloseCurStop, Step, CloseUnderLock, Unheard, Stopping, Polling,
      ExecLabels, HandlerTypeOK, ShellTypeOK, Goto, shellVars, sharedVars
<1>5. CASE HangUp(u)
  BY <1>5 DEF HangUp, Step, AfterClose, Release, Unheard, Stopping, Polling,
      ExecLabels, HandlerTypeOK, ShellTypeOK, Goto, shellVars, sharedVars
<1>6. CASE ExitQuiet(u)
  BY <1>6 DEF ExitQuiet, Step, SetActive, Unheard, Stopping, Polling,
      ExecLabels, HandlerTypeOK, ShellTypeOK, Goto, shellVars, sharedVars
<1>7. CASE Rebind(u)
  BY <1>7 DEF Rebind, Finish, Unheard, Stopping, Polling, ExecLabels,
      HandlerTypeOK, ShellTypeOK, Goto, shellVars, sharedVars
<1>8. CASE ShutDown(u)
  BY <1>8 DEF ShutDown, Finish, Unheard, Stopping, Polling, ExecLabels,
      HandlerTypeOK, ShellTypeOK, Goto, shellVars, sharedVars
<1> QED
  BY <1>1, <1>2, <1>3, <1>4, <1>5, <1>6, <1>7, <1>8

LEMMA ReceiveIsUnheard ==
    ASSUME ShellTypeOK, HandlerTypeOK, NEW u \in Updates, Receive(u)
    PROVE  Unheard(u)
BY DEF Receive, Entry, Unheard, Stopping, Polling, ExecLabels, HandlerTypeOK,
    ShellTypeOK, Goto, shellVars, sharedVars

LEMMA ProcessIsSilent ==
    ASSUME NEW u \in Updates, Process(u)
    PROVE  UNCHANGED <<pc, sh, ch, cur, chan, stopped>>
BY DEF Process, ShellStep, BeginFrame, EndBody, EndFrame, SetEcho, ReadFrame,
    TalkBack, Overflow, Exit, localVars

\* The command that runs is the only one in ExecCommand.
LEMMA OnlyOneExecutes ==
    ASSUME OneCommand, NEW u \in Updates, NEW v \in Updates,
           pc[u] \in RunLabels, pc[v] \in RunLabels
    PROVE  u = v
BY DEF OneCommand

LEMMA BeginExecHeard ==
    ASSUME ShellTypeOK, HandlerTypeOK, HasShell, OneCommand, StopInv,
           NEW u \in Updates, BeginExec(u)
    PROVE  StopInv'
<1>1. /\ pc[u] = "install" /\ pc' = [pc EXCEPT ![u] = "clear"]
      /\ cur' = [cur EXCEPT ![sh[u]] = u]
      /\ chan' = [chan EXCEPT ![u] = "open"]
      /\ UNCHANGED <<sh, ch, stopped>>
  BY DEF BeginExec, Step, Install, Goto
<1>2. sh[u] \in Updates
  BY <1>1 DEF HandlerTypeOK, HasShell, NeedsShell, ActiveLabels
<1>3. pc'[u] = "clear" /\ \A v \in Updates : v # u => pc'[v] = pc[v]
  BY <1>1 DEF HandlerTypeOK
<1>4. ASSUME NEW v \in Updates, pc'[v] \in ExecLabels PROVE v = u
  BY <1>1, <1>3, <1>4, OnlyOneExecutes DEF RunLabels, ActiveLabels
<1>5. Installed'
  BY <1>1, <1>2, <1>4 DEF Installed, ShellTypeOK
<1>6. FlagHasItsStop'
  BY <1>3, <1>4 DEF FlagHasItsStop, ExecLabels
<1> QED
  BY <1>5, <1>6 DEF StopInv

LEMMA EndExecHeard ==
    ASSUME ShellTypeOK, HandlerTypeOK, HasShell, OneCommand, StopInv,
           NEW u \in Updates, EndExec(u)
    PROVE  StopInv'
<1>1. /\ pc[u] = "uninstall" /\ pc' = [pc EXCEPT ![u] = "result"]
      /\ UNCHANGED <<sh, ch, stopped, chan>>
  BY DEF EndExec, Step, Uninstall, Goto
<1>2. pc'[u] = "result" /\ \A v \in Updates : v # u => pc'[v] = pc[v]
  BY <1>1 DEF HandlerTypeOK
<1>3. ASSUME NEW v \in Updates PROVE pc'[v] \notin ExecLabels
  <2>1. pc[u] \in RunLabels
    BY <1>1 DEF RunLabels, ActiveLabels, ExecLabels
  <2>2. v # u => pc[v] \notin ExecLabels
    BY <2>1, OnlyOneExecutes DEF RunLabels, ActiveLabels
  <2> QED
    BY <1>2, <2>2 DEF ExecLabels
<1>4. Installed' /\ FlagHasItsStop'
  BY <1>3 DEF Installed, FlagHasItsStop, ExecLabels
<1> QED
  BY <1>4 DEF StopInv

LEMMA ClearStoppedHeard ==
    ASSUME ShellTypeOK, HandlerTypeOK, HasShell, OneCommand, StopInv,
           NEW u \in Updates, ClearStopped(u)
    PROVE  StopInv'
<1>1. /\ pc[u] \in {"clear", "unstop"}
      /\ pc'[u] \in {"write", "uninstall"}
      /\ \A v \in Updates : v # u => pc'[v] = pc[v]
      /\ UNCHANGED <<sh, ch, cur, chan>>
      /\ stopped' = [stopped EXCEPT ![sh[u]] = FALSE]
  BY DEF ClearStopped, Step, SetStopped, Goto, HandlerTypeOK
<1>2. sh[u] \in Updates
  BY <1>1 DEF HandlerTypeOK, HasShell, NeedsShell, ActiveLabels, ExecLabels
<1>3. ~stopped'[sh[u]]
  BY <1>1, <1>2 DEF ShellTypeOK
<1>4. Installed'
  BY <1>1 DEF StopInv, Installed, ExecLabels
<1>5. ASSUME NEW v \in Updates, pc'[v] \in Polling PROVE v = u
  BY <1>1, <1>5, OnlyOneExecutes
  DEF Polling, RunLabels, ActiveLabels, ExecLabels
<1>6. FlagHasItsStop'
  BY <1>1, <1>3, <1>5 DEF FlagHasItsStop, Polling
<1> QED
  BY <1>4, <1>6 DEF StopInv

LEMMA RaiseStoppedHeard ==
    ASSUME ShellTypeOK, HandlerTypeOK, HasShell, StopInv, NEW u \in Updates,
           RaiseStopped(u)
    PROVE  StopInv'
<1>1. /\ pc[u] = "flag" /\ pc'[u] = "channel"
      /\ \A v \in Updates : v # u => pc'[v] = pc[v]
      /\ UNCHANGED <<sh, ch, cur, chan>>
      /\ stopped' = [stopped EXCEPT ![sh[u]] = TRUE]
  BY DEF RaiseStopped, Step, SetStopped, Goto, HandlerTypeOK
<1>2. \A v \in Updates : pc'[v] \in ExecLabels => pc'[v] = pc[v]
  BY <1>1 DEF ExecLabels
<1>3. Installed'
  BY <1>1, <1>2 DEF StopInv, Installed
<1>4. ASSUME NEW w \in Updates, pc'[w] \in Polling, stopped'[sh'[w]]
      PROVE  Heard(w)'
  <2>1. CASE sh[w] = sh[u]
    BY <1>1, <2>1 DEF Heard, AtWork
  <2>2. CASE sh[w] # sh[u]
    <3>1. pc[w] = pc'[w] /\ sh'[w] = sh[w]
      BY <1>1, <1>4, <1>2 DEF Polling, ExecLabels
    <3>2. sh[w] \in Updates
      BY <1>4, <3>1 DEF HasShell, NeedsShell, ActiveLabels, ExecLabels, Polling,
                       HandlerTypeOK
    <3>t. stopped'[sh[w]] = stopped[sh[w]]
      BY <1>1, <2>2, <3>2 DEF ShellTypeOK
    <3>3. Heard(w)
      BY <1>4, <3>1, <3>t, StaleOrHeard DEF StopInv
    <3>4. CASE chan[w] = "closed"
      BY <1>1, <3>4 DEF Heard
    <3>5. CASE chan[w] # "closed"
      <4>1. PICK v \in Updates : sh[v] = sh[w] /\ AtWork(v, w)
        BY <3>3, <3>5 DEF Heard
      <4>2. v # u
        BY <1>1, <4>1 DEF AtWork
      <4> QED
        BY <1>1, <4>1, <4>2 DEF Heard, AtWork
    <3> QED
      BY <3>4, <3>5
  <2> QED
    BY <2>1, <2>2
<1>5. FlagHasItsStop'
  BY <1>4 DEF FlagHasItsStop, Polling, Heard, AtWork
<1> QED
  BY <1>3, <1>5 DEF StopInv

\* The steps of a /stop after the flag: none takes back what Heard says.
LEMMA StoppingHeard ==
    ASSUME ShellTypeOK, HandlerTypeOK, HasShell, StopInv, NEW u \in Updates,
           ReadChannel(u) \/ TestChannel(u) \/ StopCommand(u) \/ DoubleClose(u)
    PROVE  StopInv'
<1>1. /\ UNCHANGED <<cur, stopped>>
      /\ \A v \in Updates : v # u => /\ pc'[v] = pc[v] /\ sh'[v] = sh[v]
                                     /\ ch'[v] = ch[v]
      /\ pc'[u] \notin ExecLabels
  BY DEF ReadChannel, TestChannel, StopCommand, DoubleClose, Step, Finish,
         CloseChannel, Goto, HandlerTypeOK, ExecLabels, shellVars, sharedVars
<1>2. \A v \in Updates : /\ chan[v] # "none" => chan'[v] # "none"
                         /\ chan[v] = "closed" => chan'[v] = "closed"
  BY DEF ReadChannel, TestChannel, StopCommand, DoubleClose, CloseChannel,
         ShellTypeOK, shellVars
<1>3. Installed'
  BY <1>1, <1>2 DEF StopInv, Installed
<1>4. ASSUME NEW w \in Updates, pc'[w] \in Polling, stopped'[sh'[w]]
      PROVE  Heard(w)'
  <2>1. w # u /\ pc[w] \in Polling /\ sh'[w] = sh[w] /\ stopped[sh[w]]
    BY <1>1, <1>4 DEF Polling, ExecLabels
  <2>2. Heard(w) /\ cur[sh[w]] = w /\ chan[w] # "none"
    BY <2>1, StaleOrHeard DEF StopInv, Installed, Polling, ExecLabels
  <2>3. CASE chan[w] = "closed"
    BY <1>2, <2>3 DEF Heard
  <2>4. CASE chan[w] = "open"
    <3>1. PICK v \in Updates : sh[v] = sh[w] /\ AtWork(v, w)
      BY <2>2, <2>4 DEF Heard
    <3>2. CASE v # u
      BY <1>1, <2>1, <3>1, <3>2 DEF Heard, AtWork
    <3>3. CASE v = u
      <4>1. CASE ReadChannel(u)
        <5>1. sh'[u] = sh[u] /\ pc'[u] = "select" /\ ch'[u] = w
          BY <2>2, <3>1, <3>3, <4>1 DEF ReadChannel, Goto, HandlerTypeOK,
              AtWork
        <5> QED
          BY <2>1, <3>1, <3>3, <5>1 DEF Heard, AtWork
      <4>2. CASE TestChannel(u)
        <5>1. /\ ch[u] = w /\ w # None /\ sh'[u] = sh[u] /\ ch'[u] = ch[u]
              /\ pc'[u] = "closeChannel"
          BY <2>4, <3>1, <3>3, <4>2, NoneAssumption
          DEF TestChannel, Step, Goto, HandlerTypeOK, AtWork
        <5> QED
          BY <2>1, <3>1, <3>3, <5>1 DEF Heard, AtWork
      <4>3. CASE StopCommand(u)
        <5>1. ch[u] = w
          BY <3>1, <3>3, <4>3 DEF StopCommand, Step, AtWork
        <5>2. chan'[w] = "closed"
          BY <4>3, <5>1 DEF StopCommand, CloseChannel, ShellTypeOK
        <5> QED
          BY <5>2 DEF Heard
      <4>4. CASE DoubleClose(u)
        BY <2>4, <3>1, <3>3, <4>4 DEF DoubleClose, Finish, AtWork
      <4> QED
        BY <4>1, <4>2, <4>3, <4>4
    <3> QED
      BY <3>2, <3>3
  <2> QED
    BY <2>2, <2>3, <2>4 DEF ShellTypeOK
<1>5. FlagHasItsStop'
  BY <1>4 DEF FlagHasItsStop, Polling, Heard, AtWork
<1> QED
  BY <1>3, <1>5 DEF StopInv

LEMMA NextStop ==
  TypeInv /\ CommandInv /\ StopInv /\ [Next]_vars => StopInv'
<1> SUFFICES ASSUME TypeInv, CommandInv, StopInv, [Next]_vars PROVE StopInv'
  OBVIOUS
<1>1. ShellTypeOK /\ HandlerTypeOK /\ HasShell /\ OneCommand
  BY DEF TypeInv, ShellInv, HandlerInv, CommandInv
<1>2. ASSUME NEW u \in Updates, Run(u) PROVE StopInv'
  BY <1>1, <1>2, BeginExecHeard, ClearStoppedHeard, EndExecHeard,
     RunIsUnheard, UnheardKeeps DEF Run
<1>3. ASSUME NEW u \in Updates, StopOrInput(u) PROVE StopInv'
  BY <1>1, <1>3, RaiseStoppedHeard, StoppingHeard, StopIsUnheard,
     UnheardKeeps DEF StopOrInput
<1>4. ASSUME NEW u \in Updates, Close(u) PROVE StopInv'
  BY <1>1, <1>4, CloseIsUnheard, UnheardKeeps DEF Close
<1>5. ASSUME NEW u \in Updates, Receive(u) \/ DoubleClose(u) PROVE StopInv'
  BY <1>1, <1>5, ReceiveIsUnheard, UnheardKeeps, StoppingHeard
<1>6. ASSUME UNCHANGED <<pc, sh, ch, cur, chan, stopped>> PROVE StopInv'
  BY <1>6 DEF StopInv, Installed, FlagHasItsStop
<1>7. CASE UNCHANGED vars
  BY <1>6, <1>7 DEF vars, shellVars, localVars
<1> QED
  BY <1>2, <1>3, <1>4, <1>5, <1>6, <1>7, ProcessIsSilent
  DEF Next, Handle, AllDone

\* The stop flag that ExecCommand polls is never the leftover of a /stop that was
\* over when the command cleared it: when the flag is up, the command's own
\* channel is closed, or the /stop that raised the flag has yet to look at the
\* channel or to close it (shell.go, Stop and ExecCommand).  Nothing is said of
\* which command that /stop was sent for.
THEOREM FlagsHaveTheirStop == Spec => []FlagHasItsStop
<1>1. Init => StopInv
  BY DEF Init, StopInv, Installed, FlagHasItsStop, ExecLabels
<1>2. StopInv => FlagHasItsStop
  BY DEF StopInv
<1> QED
  BY <1>1, <1>2, NextStop, TypeInvariant, CommandInvariant, PTL DEF Spec
-----------------------------------------------------------------------------
(* A result that is the command's own.  A command writes one frame, to the  *)
(* shell it runs on, behind whatever an earlier command left there, and     *)
(* nothing is written behind it while its capture is installed; so its end  *)
(* token comes right behind its own trailer, with its start token before    *)
(* that unless it has been pushed out, or else in the text of the frame,    *)
(* right behind the start token there (EndsAreOwn).  As long as that text   *)
(* has not come back, the shell has nothing left to read when it comes      *)
(* (OwnFrame).                                                              *)

BeforeWrite == {"idle", "lock", "open", "opening", "active", "install",
                "clear", "write"}

Queued(v, s) == \E i \in 1..Len(input[s]) : input[s][i] = v

\* Position n of c holds a trailer of v, and what precedes it, if anything, is
\* the start token of v.
Trailed(c, v, n) ==
    /\ n >= 1
    /\ \E d \in Dirs : c[n] = Trailer(v, d)
    /\ n = 1 \/ c[n - 1] = Start(v)

\* An end token of v at position j of c, and what there is before it.
Ended(c, v, j) == j = 1 \/ c[j - 1] = Start(v) \/ Trailed(c, v, j - 1)

EndsAreOwn(v) ==
    \A j \in 1..Len(capture[v]) :
        capture[v][j] = End(v) => Ended(capture[v], v, j)

\* What a command in ExecCommand finds in its capture and in its shell.
QueuedLast(v) ==
    /\ \A s \in Updates : Queued(v, s) => s = sh[v]
    /\ \A i \in 1..Len(input[sh[v]]) :
          input[sh[v]][i] = v => i = Len(input[sh[v]])

EndedAlone(v) ==
    v \notin talked /\ Finished(v) =>
        /\ input[sh[v]] = <<>>
        /\ pc[v] \notin BeforeWrite
        /\ capture[v][Len(capture[v])] = End(v)
        /\ Trailed(capture[v], v, Len(capture[v]) - 1)

InFrame(v) ==
    input[sh[v]] # <<>> /\ input[sh[v]][1] = v =>
        /\ stage[sh[v]] = "body" =>
              \/ capture[v] = <<>>
              \/ capture[v][Len(capture[v])] = Start(v)
        /\ stage[sh[v]] = "tail" =>
              Trailed(capture[v], v, Len(capture[v]))

OwnFrame(v) ==
    QueuedLast(v) /\ EndedAlone(v) /\ InFrame(v) /\ EndsAreOwn(v)

NotYetWritten ==
    \A v \in Updates :
        pc[v] \in BeforeWrite => \A s \in Updates : ~Queued(v, s)

FrameInv ==
    /\ NotYetWritten
    /\ \A v \in Updates : pc[v] \in ExecLabels => OwnFrame(v)
    /\ \A v \in Updates : pc[v] = "grace" => answer[v] # "ok"
    /\ ResultIsTrue
    /\ DOMAIN out = Updates

Reported == {"unstop", "uninstall", "result"}

\* What is reported of v is what ResultIsTrue says.
Honest(v) ==
    /\ out[v] = <<>> \/ \E d \in Dirs : out[v] = <<Trailer(v, d)>>
    /\ v \notin talked => out[v] # <<>> /\ \A s \in Updates : ~Queued(v, s)

\* A step of u that neither starts ExecCommand nor settles on the result of a
\* finished command ...
Modest(u) ==
    /\ \A v \in Updates \ {u} :
          /\ pc'[v] = pc[v] /\ sh'[v] = sh[v]
          /\ answer'[v] = answer[v] /\ out'[v] = out[v]
    /\ pc'[u] \in BeforeWrite => pc[u] \in BeforeWrite
    /\ pc'[u] \in ExecLabels => pc[u] \in ExecLabels /\ sh'[u] = sh[u]
    /\ pc'[u] = "grace" => answer'[u] # "ok"
    /\ answer'[u] = "ok" /\ pc'[u] \in Reported =>
          answer[u] = "ok" /\ pc[u] \in Reported /\ out'[u] = out[u]
    /\ DOMAIN out' = DOMAIN out
    /\ talked \subseteq talked'

\* ... and one that leaves every frame and every capture alone, too.
Plain(u) == Modest(u) /\ UNCHANGED <<input, stage, capture, talked>>

\* A modest step has only the frames to answer for.
LEMMA ModestKeeps ==
    ASSUME FrameInv, NEW u \in Updates, Modest(u),
           \A v, s \in Updates : Queued(v, s)' => Queued(v, s),
           \A v \in Updates :
               /\ OwnFrame(v) /\ pc[v] \in ExecLabels
               /\ pc'[v] \in ExecLabels /\ sh'[v] = sh[v]
               /\ pc'[v] \in BeforeWrite => pc[v] \in BeforeWrite
               => OwnFrame(v)'
    PROVE  FrameInv'
<1>1. NotYetWritten'
  BY DEF Modest, FrameInv, NotYetWritten
<1>2. ASSUME NEW v \in Updates, pc'[v] \in ExecLabels PROVE OwnFrame(v)'
  <2>1. /\ pc[v] \in ExecLabels /\ sh'[v] = sh[v]
        /\ pc'[v] \in BeforeWrite => pc[v] \in BeforeWrite
    BY <1>2 DEF Modest
  <2> QED
    BY <1>2, <2>1 DEF FrameInv
<1>3. \A v \in Updates : pc'[v] = "grace" => answer'[v] # "ok"
  BY DEF Modest, FrameInv
<1>4. ResultIsTrue'
  <2> SUFFICES ASSUME NEW v \in Updates, answer'[v] = "ok",
                      pc'[v] \in Reported
               PROVE  Honest(v)'
    BY DEF ResultIsTrue, Reported, Queued, Honest
  <2>1. answer[v] = "ok" /\ pc[v] \in Reported /\ out'[v] = out[v]
    BY DEF Modest
  <2>2. Honest(v)
    BY <2>1 DEF FrameInv, ResultIsTrue, Reported, Queued, Honest
  <2> QED
    BY <2>1, <2>2 DEF Modest, Honest
<1> QED
  BY <1>1, <1>2, <1>3, <1>4 DEF FrameInv, Modest

LEMMA PlainKeeps ==
    ASSUME FrameInv, NEW u \in Updates, Plain(u)
    PROVE  FrameInv'
<1>1. UNCHANGED <<input, stage, capture, talked>>
  BY DEF Plain
<1>2. \A v, s \in Updates : Queued(v, s)' <=> Queued(v, s)
  BY <1>1 DEF Queued
<1>3. ASSUME NEW v \in Updates, OwnFrame(v), sh'[v] = sh[v],
             pc'[v] \in BeforeWrite => pc[v] \in BeforeWrite
      PROVE  OwnFrame(v)'
  <2>1. QueuedLast(v)'
    BY <1>1, <1>2, <1>3 DEF OwnFrame, QueuedLast
  <2>2. EndedAlone(v)'
    BY <1>1, <1>3 DEF OwnFrame, EndedAlone, Finished, Trailed
  <2>3. InFrame(v)'
    BY <1>1, <1>3 DEF OwnFrame, InFrame, Trailed
  <2>4. EndsAreOwn(v)'
    BY <1>1, <1>3 DEF OwnFrame, EndsAreOwn, Ended, Trailed
  <2> QED
    BY <2>1, <2>2, <2>3, <2>4 DEF OwnFrame
<1> QED
  BY <1>2, <1>3, ModestKeeps DEF Plain

LEMMA RunIsPlain ==
    ASSUME HandlerTypeOK, FrameInv, NEW u \in Updates,
           Busy(u) \/ TryLock(u) \/ ReuseShell(u) \/ StartShell(u) \/
               ShellStarted(u) \/ ShellFailed(u) \/ MarkActive(u) \/
               ClearStopped(u) \/ SendFrameFails(u) \/ Stopped(u) \/ Tick(u) \/
               TickAgain(u) \/ ReturnPartial(u) \/ ReturnLate(u) \/
               RecordResult(u) \/ MarkInactive(u) \/ Unlock(u)
    PROVE  Plain(u)
<1>1. CASE Busy(u)
  BY <1>1 DEF Busy, Finish, Plain, Modest, BeforeWrite, Reported, ExecLabels,
      HandlerTypeOK, Goto, Reply, shellVars, sharedVars
<1>2. CASE TryLock(u)
  BY <1>2 DEF TryLock, Step, Conclude, Plain, Modest, BeforeWrite, Reported,
      ExecLabels, HandlerTypeOK, Goto, Reply, shellVars, sharedVars
<1>3. CASE ReuseShell(u)
  BY <1>3 DEF ReuseShell, Plain, Modest, BeforeWrite, Reported, ExecLabels,
      HandlerTypeOK, Goto, Reply, shellVars, sharedVars
<1>4. CASE StartShell(u)
  BY <1>4 DEF StartShell, Step, Plain, Modest, BeforeWrite, Reported, ExecLabels,
      HandlerTypeOK, Goto, Reply, shellVars, sharedVars
<1>5. CASE ShellStarted(u)
  BY <1>5 DEF ShellStarted, OpenShell, Plain, Modest, BeforeWrite, Reported,
      ExecLabels, HandlerTypeOK, Goto, Reply, shellVars, sharedVars
<1>6. CASE ShellFailed(u)
  BY <1>6 DEF ShellFailed, Conclude, Plain, Modest, BeforeWrite, Reported, ExecLabels,
      HandlerTypeOK, Goto, Reply, shellVars, sharedVars
<1>7. CASE MarkActive(u)
  BY <1>7 DEF MarkActive, Step, SetActive, Plain, Modest, BeforeWrite, Reported,
      ExecLabels, HandlerTypeOK, Goto, Reply, shellVars, sharedVars
<1>8. CASE ClearStopped(u)
  BY <1>8 DEF ClearStopped, Step, SetStopped, Plain, Modest, BeforeWrite, Reported,
      ExecLabels, HandlerTypeOK, Goto, Reply, shellVars, sharedVars
<1>9. CASE SendFrameFails(u)
  BY <1>9 DEF SendFrameFails, Conclude, Plain, Modest, BeforeWrite, Reported,
      ExecLabels, HandlerTypeOK, Goto, Reply, shellVars, sharedVars
<1>10. CASE Stopped(u)
  BY <1>10 DEF Stopped, Conclude, Plain, Modest, BeforeWrite, Reported, ExecLabels,
      HandlerTypeOK, Goto, Reply, shellVars, sharedVars
<1>11. CASE Tick(u)
  BY <1>11 DEF Tick, Step, Plain, Modest, BeforeWrite, Reported, ExecLabels,
      HandlerTypeOK, Goto, Reply, shellVars, sharedVars
<1>12. CASE TickAgain(u)
  BY <1>12 DEF TickAgain, Step, Plain, Modest, BeforeWrite, Reported, ExecLabels,
      HandlerTypeOK, Goto, Reply, shellVars, sharedVars
<1>13. CASE ReturnPartial(u)
  <2>1. CASE Return(u, "wait", "interrupted", capture[u])
    BY <2>1 DEF Return, Plain, Modest, BeforeWrite, Reported, ExecLabels,
        HandlerTypeOK, Goto, Reply, shellVars, sharedVars
  <2>2. CASE Return(u, "check", "failed", capture[u])
    BY <2>2 DEF Return, Plain, Modest, BeforeWrite, Reported, ExecLabels,
        HandlerTypeOK, Goto, Reply, shellVars, sharedVars
  <2> QED
    BY <1>13, <2>1, <2>2 DEF ReturnPartial
<1>14. CASE ReturnLate(u)
  BY <1>14 DEF ReturnLate, Return, FrameInv, Plain, Modest, BeforeWrite, Reported,
      ExecLabels, HandlerTypeOK, Goto, Reply, shellVars, sharedVars
<1>15. CASE RecordResult(u)
  BY <1>15 DEF RecordResult, Plain, Modest, BeforeWrite, Reported, ExecLabels,
      HandlerTypeOK, Goto, Reply, shellVars, sharedVars
<1>16. CASE MarkInactive(u)
  BY <1>16 DEF MarkInactive, Step, SetActive, Plain, Modest, BeforeWrite, Reported,
      ExecLabels, HandlerTypeOK, Goto, Reply, shellVars, sharedVars
<1>17. CASE Unlock(u)
  BY <1>17 DEF Unlock, Finish, Plain, Modest, BeforeWrite, Reported, ExecLabels,
      HandlerTypeOK, Goto, Reply, shellVars, sharedVars
<1> QED
  BY <1>1, <1>2, <1>3, <1>4, <1>5, <1>6, <1>7, <1>8, <1>9, <1>10, <1>11, <1>12,
      <1>13, <1>14, <1>15, <1>16, <1>17

LEMMA StopIsPlain ==
    ASSUME HandlerTypeOK, NEW u \in Updates,
           FindShell(u) \/ NothingToDo(u) \/ SomethingActive(u) \/
               ShellIsAlive(u) \/ RaiseStopped(u) \/ ReadChannel(u) \/
               TestChannel(u) \/ StopCommand(u)
    PROVE  Plain(u)
<1>1. CASE FindShell(u)
  BY <1>1 DEF FindShell, LookUpShell, Plain, Modest, BeforeWrite, Reported, ExecLabels,
      HandlerTypeOK, Goto, Reply, shellVars, sharedVars
<1>2. CASE NothingToDo(u)
  BY <1>2 DEF NothingToDo, Finish, Plain, Modest, BeforeWrite, Reported, ExecLabels,
      HandlerTypeOK, Goto, Reply, shellVars, sharedVars
<1>3. CASE SomethingActive(u)
  BY <1>3 DEF SomethingActive, Step, Plain, Modest, BeforeWrite, Reported, ExecLabels,
      HandlerTypeOK, Goto, Reply, shellVars, sharedVars
<1>4. CASE ShellIsAlive(u)
  BY <1>4 DEF ShellIsAlive, Step, Plain, Modest, BeforeWrite, Reported, ExecLabels,
      HandlerTypeOK, Goto, Reply, shellVars, sharedVars
<1>5. CASE RaiseStopped(u)
  BY <1>5 DEF RaiseStopped, Step, SetStopped, Plain, Modest, BeforeWrite, Reported,
      ExecLabels, HandlerTypeOK, Goto, Reply, shellVars, sharedVars
<1>6. CASE ReadChannel(u)
  BY <1>6 DEF ReadChannel, Plain, Modest, BeforeWrite, Reported, ExecLabels,
      HandlerTypeOK, Goto, Reply, shellVars, sharedVars
<1>7. CASE TestChannel(u)
  BY <1>7 DEF TestChannel, Step, Plain, Modest, BeforeWrite, Reported, ExecLabels,
      HandlerTypeOK, Goto, Reply, shellVars, sharedVars
<1>8. CASE StopCommand(u)
  BY <1>8 DEF StopCommand, Step, CloseChannel, Plain, Modest, BeforeWrite, Reported,
      ExecLabels, HandlerTypeOK, Goto, Reply, shellVars, sharedVars
<1> QED
  BY <1>1, <1>2, <1>3, <1>4, <1>5, <1>6, <1>7, <1>8

LEMMA CloseIsPlain ==
    ASSUME HandlerTypeOK, NEW u \in Updates,
           RefuseProject(u) \/ Detach(u) \/ CloseShell(u) \/ CloseCurStop(u) \/
               HangUp(u) \/ ExitQuiet(u) \/ Rebind(u) \/ ShutDown(u) \/
               Receive(u) \/ DoubleClose(u)
    PROVE  Plain(u)
<1>1. CASE RefuseProject(u)
  BY <1>1 DEF RefuseProject, Finish, Plain, Modest, BeforeWrite, Reported, ExecLabels,
      HandlerTypeOK, Goto, Reply, shellVars, sharedVars
<1>2. CASE Detach(u)
  BY <1>2 DEF Detach, AfterClose, Plain, Modest, BeforeWrite, Reported, ExecLabels,
      HandlerTypeOK, Goto, Reply, shellVars, sharedVars
<1>3. CASE CloseShell(u)
  BY <1>3 DEF CloseShell, Step, MarkClosed, Plain, Modest, BeforeWrite, Reported,
      ExecLabels, HandlerTypeOK, Goto, Reply, shellVars, sharedVars
<1>4. CASE CloseCurStop(u)
  BY <1>4 DEF CloseCurStop, Step, CloseUnderLock, Plain, Modest, BeforeWrite, Reported,
      ExecLabels, HandlerTypeOK, Goto, Reply, shellVars, sharedVars
<1>5. CASE HangUp(u)
  BY <1>5 DEF HangUp, Step, AfterClose, Release, Plain, Modest, BeforeWrite, Reported,
      ExecLabels, HandlerTypeOK, Goto, Reply, shellVars, sharedVars
<1>6. CASE ExitQuiet(u)
  BY <1>6 DEF ExitQuiet, Step, SetActive, Plain, Modest, BeforeWrite, Reported,
      ExecLabels, HandlerTypeOK, Goto, Reply, shellVars, sharedVars
<1>7. CASE Rebind(u)
  BY <1>7 DEF Rebind, Finish, Plain, Modest, BeforeWrite, Reported, ExecLabels,
      HandlerTypeOK, Goto, Reply, shellVars, sharedVars
<1>8. CASE ShutDown(u)
  BY <1>8 DEF ShutDown, Finish, Plain, Modest, BeforeWrite, Reported, ExecLabels,
      HandlerTypeOK, Goto, Reply, shellVars, sharedVars
<1>9. CASE Receive(u)
  BY <1>9 DEF Receive, Entry, Plain, Modest, BeforeWrite, Reported, ExecLabels,
      HandlerTypeOK, Goto, Reply, shellVars, sharedVars
<1>10. CASE DoubleClose(u)
  BY <1>10 DEF DoubleClose, Finish, Plain, Modest, BeforeWrite, Reported, ExecLabels,
      HandlerTypeOK, Goto, Reply, shellVars, sharedVars
<1> QED
  BY <1>1, <1>2, <1>3, <1>4, <1>5, <1>6, <1>7, <1>8, <1>9, <1>10

\* An end token has before it what it had, when tokens follow ...
LEMMA EndedGrows ==
    ASSUME NEW v, NEW c \in Seq(Token), NEW e \in Seq(Token),
           \A i \in 1..Len(c) : e[i] = c[i],
           NEW j \in 1..Len(c), Ended(c, v, j)
    PROVE  Ended(e, v, j)
<1>1. j \in Nat /\ Len(c) \in Nat /\ j <= Len(c) /\ j >= 1
  OBVIOUS
<1>2. j # 1 => j - 1 \in 1..Len(c)
  BY <1>1
<1>3. j - 1 >= 1 /\ j - 1 # 1 => j - 1 - 1 \in 1..Len(c)
  BY <1>1
<1>4. CASE j = 1 \/ c[j - 1] = Start(v)
  BY <1>2, <1>4 DEF Ended
<1>5. CASE j # 1 /\ Trailed(c, v, j - 1)
  <2> DEFINE m == j - 1
  <2>1. m \in 1..Len(c) /\ m >= 1 /\ (m # 1 => m - 1 \in 1..Len(c))
    BY <1>1, <1>2, <1>3, <1>5
  <2> HIDE DEF m
  <2>2. Trailed(c, v, m) => Trailed(e, v, m)
    BY <2>1 DEF Trailed
  <2> QED
    BY <1>5, <2>2 DEF Ended, m
<1> QED
  BY <1>4, <1>5 DEF Ended

\* ... and when the one that follows is no end token of the command, or has its
\* trailer before it, what is said of the end tokens stays true.
LEMMA AppendEnds ==
    ASSUME ShellTypeOK, NEW v \in Updates, EndsAreOwn(v), NEW t \in Token,
           capture'[v] = Append(capture[v], t),
           t = End(v) => Trailed(capture[v], v, Len(capture[v]))
    PROVE  EndsAreOwn(v)'
<1> DEFINE c == capture[v]
           e == Append(c, t)
<1>1. /\ c \in Seq(Token) /\ e \in Seq(Token) /\ Len(c) \in Nat
      /\ Len(e) = Len(c) + 1 /\ e[Len(c) + 1] = t
      /\ \A i \in 1..Len(c) : e[i] = c[i]
  BY AppendOf DEF ShellTypeOK
<1>2. \A i \in 1..Len(c) + 1 : i \in 1..Len(c) \/ i = Len(c) + 1
  BY <1>1
<1>3. \A j \in 1..Len(c) : c[j] = End(v) => Ended(c, v, j)
  BY DEF EndsAreOwn
<1>4. t = End(v) => Trailed(c, v, Len(c))
  OBVIOUS
<1> HIDE DEF c, e
<1>5. ASSUME NEW j \in 1..Len(c), e[j] = End(v) PROVE Ended(e, v, j)
  BY <1>1, <1>3, <1>5, EndedGrows
<1>6. ASSUME t = End(v) PROVE Ended(e, v, Len(c) + 1)
  <2>1. Trailed(c, v, Len(c))
    BY <1>4, <1>6
  <2>2. /\ Len(c) >= 1 /\ Len(c) \in 1..Len(c)
        /\ Len(c) # 1 => Len(c) - 1 \in 1..Len(c)
    <3>1. Len(c) >= 1
      BY <2>1 DEF Trailed
    <3>2. \A n \in Nat : n >= 1 => n \in 1..n /\ (n # 1 => n - 1 \in 1..n)
      OBVIOUS
    <3> QED
      BY <1>1, <3>1, <3>2
  <2>3. Trailed(e, v, Len(c))
    BY <1>1, <2>1, <2>2 DEF Trailed
  <2>4. Len(c) + 1 - 1 = Len(c)
    BY <1>1
  <2> QED
    BY <2>3, <2>4 DEF Ended
<1>7. \A j \in 1..Len(e) : e[j] = End(v) => Ended(e, v, j)
  BY <1>1, <1>2, <1>5, <1>6
<1> QED
  BY <1>7 DEF EndsAreOwn, c, e

\* The same for the text of a frame that comes back.
LEMMA TalkBackEnds ==
    ASSUME ShellInv, NEW v \in Updates, EndsAreOwn(v),
           NEW w \in Updates, NEW s \in Updates, TalkBack(w, s)
    PROVE  EndsAreOwn(v)'
<1>1. CASE capture'[v] = capture[v]
  BY <1>1 DEF EndsAreOwn, Ended, Trailed
<1>2. CASE capture'[v] = Append(Append(capture[v], Start(w)), End(w))
  <2> DEFINE c == capture[v]
             b == Append(c, Start(w))
             e == Append(b, End(w))
  <2>1. Start(w) \in Token /\ End(w) \in Token
    BY FrameTokens
  <2>2. /\ c \in Seq(Token) /\ b \in Seq(Token) /\ Len(c) \in Nat
        /\ Len(b) = Len(c) + 1 /\ b[Len(c) + 1] = Start(w)
        /\ \A i \in 1..Len(c) : b[i] = c[i]
    BY <2>1, AppendOf DEF ShellInv, ShellTypeOK
  <2> HIDE DEF b
  <2>3. /\ e \in Seq(Token) /\ Len(e) = Len(b) + 1 /\ e[Len(b) + 1] = End(w)
        /\ \A i \in 1..Len(b) : e[i] = b[i]
    BY <2>1, <2>2, AppendOf
  <2>4. \A j \in 1..Len(c) : c[j] = End(v) => Ended(c, v, j)
    BY DEF EndsAreOwn
  <2>5. capture'[v] = e
    BY <1>2 DEF b
  <2> HIDE DEF c, e
  <2>6. /\ \A i \in 1..Len(c) : e[i] = c[i]
        /\ e[Len(c) + 1] = Start(w) /\ e[Len(c) + 2] = End(w)
        /\ Len(e) = Len(c) + 2
    BY <2>2, <2>3
  <2>7. ASSUME NEW j \in 1..Len(c), e[j] = End(v) PROVE Ended(e, v, j)
    BY <2>2, <2>3, <2>4, <2>6, <2>7, EndedGrows
  <2>8. Start(w) # End(v)
    BY DEF Start, End
  <2>9. ASSUME End(w) = End(v) PROVE Ended(e, v, Len(c) + 2)
    <3>1. w = v
      BY <2>9 DEF End
    <3>2. Len(c) + 2 - 1 = Len(c) + 1
      BY <2>2
    <3> QED
      BY <2>6, <3>1, <3>2 DEF Ended
  <2>10. \A i \in 1..Len(c) + 2 :
            i \in 1..Len(c) \/ i = Len(c) + 1 \/ i = Len(c) + 2
    BY <2>2
  <2>11. \A j \in 1..Len(e) : e[j] = End(v) => Ended(e, v, j)
    BY <2>6, <2>7, <2>8, <2>9, <2>10
  <2> QED
    BY <2>5, <2>11 DEF EndsAreOwn
<1>3. \/ capture'[v] = capture[v]
      \/ capture'[v] = Append(Append(capture[v], Start(w)), End(w))
  BY DEF TalkBack, ShellInv, ShellTypeOK
<1> QED
  BY <1>1, <1>2, <1>3

\* The steps of the commands that matter to the frames.  First, the capture is
\* made, empty, for a command that has written nothing.
LEMMA BeginExecFrames ==
    ASSUME ShellTypeOK, HandlerTypeOK, HasShell, FrameInv,
           NEW u \in Updates, BeginExec(u)
    PROVE  FrameInv'
<1>1. /\ pc[u] = "install" /\ pc' = [pc EXCEPT ![u] = "clear"]
      /\ capture' = [capture EXCEPT ![u] = <<>>]
      /\ UNCHANGED <<sh, answer, out, input, stage, talked>>
  BY DEF BeginExec, Step, Install, Goto
<1>2. /\ pc'[u] = "clear" /\ capture'[u] = <<>>
      /\ \A v \in Updates : v # u => pc'[v] = pc[v] /\ capture'[v] = capture[v]
  BY <1>1 DEF HandlerTypeOK, ShellTypeOK
<1>3. \A v, s \in Updates : Queued(v, s)' <=> Queued(v, s)
  BY <1>1 DEF Queued
<1>4. \A s \in Updates : ~Queued(u, s)
  BY <1>1 DEF FrameInv, NotYetWritten, BeforeWrite
<1>5. NotYetWritten'
  BY <1>2, <1>3, <1>4 DEF FrameInv, NotYetWritten
<1>6. OwnFrame(u)'
  <2>1. sh[u] \in Updates
    BY <1>1 DEF HandlerTypeOK, HasShell, NeedsShell, ActiveLabels
  <2>2. QueuedLast(u)'
    BY <1>1, <1>3, <1>4, <2>1 DEF QueuedLast, Queued
  <2>3. EndedAlone(u)'
    BY <1>2 DEF EndedAlone, Finished, At
  <2>4. InFrame(u)'
    <3>1. input[sh[u]] \in Seq(Updates)
      BY <2>1 DEF ShellTypeOK
    <3>2. input[sh[u]] # <<>> => input[sh[u]][1] # u
      BY <1>4, <2>1, <3>1 DEF Queued
    <3> QED
      BY <1>1, <3>2 DEF InFrame
  <2>5. EndsAreOwn(u)'
    BY <1>2 DEF EndsAreOwn
  <2> QED
    BY <2>2, <2>3, <2>4, <2>5 DEF OwnFrame
<1>7. ASSUME NEW v \in Updates, v # u, pc'[v] \in ExecLabels
      PROVE  OwnFrame(v)'
  <2>1. OwnFrame(v)
    BY <1>2, <1>7 DEF FrameInv
  <2>2. QueuedLast(v)'
    BY <1>1, <1>3, <2>1 DEF OwnFrame, QueuedLast
  <2>3. EndedAlone(v)'
    BY <1>1, <1>2, <1>7, <2>1 DEF OwnFrame, EndedAlone, Finished, Trailed
  <2>4. InFrame(v)'
    BY <1>1, <1>2, <1>7, <2>1 DEF OwnFrame, InFrame, Trailed
  <2>5. EndsAreOwn(v)'
    BY <1>1, <1>2, <1>7, <2>1 DEF OwnFrame, EndsAreOwn, Ended, Trailed
  <2> QED
    BY <2>2, <2>3, <2>4, <2>5 DEF OwnFrame
<1>8. ResultIsTrue'
  BY <1>1, <1>2 DEF FrameInv, ResultIsTrue
<1> QED
  BY <1>1, <1>2, <1>5, <1>6, <1>7, <1>8 DEF FrameInv

\* Then its frame is written, the last one of the shell's input.
LEMMA SendFrameFrames ==
    ASSUME ShellInv, HandlerTypeOK, HasShell, OneCommand, FrameInv,
           NEW u \in Updates, SendFrame(u)
    PROVE  FrameInv'
<1> DEFINE s == sh[u]
<1>1. /\ pc[u] = "write" /\ pc' = [pc EXCEPT ![u] = "wait"]
      /\ input' = [input EXCEPT ![s] = IF proc[s] = "up" THEN Append(@, u)
                                       ELSE @]
      /\ UNCHANGED <<sh, answer, out, stage>>
      /\ TalkBack(u, s) \/ UNCHANGED <<capture, talked>>
  BY DEF SendFrame, Step, WriteFrame, Goto
<1>2. pc'[u] = "wait" /\ \A v \in Updates : v # u => pc'[v] = pc[v]
  BY <1>1 DEF HandlerTypeOK
<1>3. s \in Updates /\ input[s] \in Seq(Updates)
  BY <1>1 DEF HandlerTypeOK, HasShell, NeedsShell, ActiveLabels, ExecLabels,
      ShellInv, ShellTypeOK
<1>4. \A t \in Updates : ~Queued(u, t)
  BY <1>1 DEF FrameInv, NotYetWritten, BeforeWrite
<1>5. \A t \in Updates : t # s => input'[t] = input[t]
  BY <1>1 DEF ShellInv, ShellTypeOK
<1>6. \/ input'[s] = input[s]
      \/ input'[s] = Append(input[s], u)
  BY <1>1, <1>3 DEF ShellInv, ShellTypeOK
<1>7. ASSUME NEW v \in Updates, v # u, NEW t \in Updates
      PROVE  Queued(v, t)' => Queued(v, t)
  <2>1. CASE input'[t] = input[t]
    BY <2>1 DEF Queued
  <2>2. CASE t = s /\ input'[s] = Append(input[s], u)
    BY <1>3, <1>7, <2>2, AppendOf DEF Queued
  <2> QED
    BY <1>5, <1>6, <2>1, <2>2
<1>8. NotYetWritten'
  BY <1>2, <1>7 DEF FrameInv, NotYetWritten, BeforeWrite
<1>9. ASSUME NEW v \in Updates, pc'[v] \in ExecLabels PROVE v = u
  BY <1>1, <1>2, <1>9, OnlyOneExecutes DEF RunLabels, ActiveLabels, ExecLabels
<1>10. OwnFrame(u)'
  <2>1. OwnFrame(u)
    BY <1>1 DEF FrameInv, ExecLabels
  <2>2. QueuedLast(u)'
    <3>1. \A t \in Updates : t # s => ~Queued(u, t)'
      BY <1>4, <1>5 DEF Queued
    <3>2. \A i \in 1..Len(input'[s]) : input'[s][i] = u => i = Len(input'[s])
      <4>1. \A i \in 1..Len(input[s]) : input[s][i] # u
        BY <1>3, <1>4 DEF Queued
      <4>2. CASE input'[s] = input[s]
        BY <4>1, <4>2
      <4>3. CASE input'[s] = Append(input[s], u)
        BY <1>3, <4>1, <4>3, AppendOf
      <4> QED
        BY <1>6, <4>2, <4>3
    <3> QED
      BY <1>1, <3>1, <3>2 DEF QueuedLast
  <2>3. EndedAlone(u)'
    <3>1. CASE TalkBack(u, s)
      BY <3>1 DEF TalkBack, EndedAlone
    <3>2. CASE UNCHANGED <<capture, talked>>
      BY <1>1, <2>1, <3>2 DEF OwnFrame, EndedAlone, Finished, BeforeWrite
    <3> QED
      BY <1>1, <3>1, <3>2
  <2>4. InFrame(u)'
    <3> SUFFICES ASSUME input'[s] # <<>>, input'[s][1] = u
                 PROVE  stage[s] = "idle"
      BY <1>1, <1>3 DEF InFrame, ShellInv, ShellTypeOK
    <3>1. input[s] = <<>> \/ input[s][1] # u
      BY <1>3, <1>4 DEF Queued
    <3>2. input[s] = <<>>
      BY <1>3, <1>6, <3>1
    <3> QED
      BY <1>3, <3>2 DEF ShellInv, StageInv
  <2>5. EndsAreOwn(u)'
    <3>1. CASE TalkBack(u, s)
      BY <1>3, <2>1, <3>1, TalkBackEnds DEF OwnFrame
    <3>2. CASE UNCHANGED <<capture, talked>>
      BY <2>1, <3>2 DEF OwnFrame, EndsAreOwn, Ended, Trailed
    <3> QED
      BY <1>1, <3>1, <3>2
  <2> QED
    BY <2>2, <2>3, <2>4, <2>5 DEF OwnFrame
<1>11. ResultIsTrue'
  <2> SUFFICES ASSUME NEW v \in Updates, answer'[v] = "ok",
                      pc'[v] \in Reported
               PROVE  Honest(v)'
    BY DEF ResultIsTrue, Reported, Queued, Honest
  <2>1. v # u /\ answer[v] = "ok" /\ pc[v] \in Reported /\ out'[v] = out[v]
    BY <1>1, <1>2 DEF Reported
  <2>2. Honest(v)
    BY <2>1 DEF FrameInv, ResultIsTrue, Reported, Queued, Honest
  <2>3. talked \subseteq talked'
    BY <1>1 DEF TalkBack
  <2> QED
    BY <1>7, <2>1, <2>2, <2>3 DEF Honest
<1> QED
  BY <1>1, <1>2, <1>8, <1>9, <1>10, <1>11 DEF FrameInv

\* What ExecCommand cuts out of a capture whose last end token is at n: the
\* trailer before it, or nothing.
LEMMA SliceAt ==
    ASSUME NEW v \in Updates, NEW c \in Seq(Token), NEW n \in 1..Len(c),
           c[n] = End(v), \A j \in 1..Len(c) : c[j] = End(v) => j <= n
    PROVE  /\ Trailed(c, v, n - 1) =>
                  \E d \in Dirs : SliceFrame(c, v) = <<Trailer(v, d)>>
           /\ n = 1 \/ c[n - 1] = Start(v) => SliceFrame(c, v) = <<>>
<1> DEFINE ends == At(c, End(v))
           starts == {i \in At(c, Start(v)) : \E j \in ends : i < j}
           first == IF starts = {} THEN 1 ELSE Max(starts) + 1
<1>1. n \in Nat /\ n >= 1 /\ Len(c) \in Nat /\ n <= Len(c)
  OBVIOUS
<1>2. n \in ends /\ ends \subseteq Int /\ \A i \in ends : n >= i
  BY DEF At
<1>3. Max(ends) = n
  BY <1>2, MaxIs
<1>4. \A i \in starts : i \in 1..Len(c) /\ i <= n - 1 /\ c[i] = Start(v)
  BY <1>1, <1>2 DEF At
<1>5. ASSUME NEW m \in 1..Len(c), m < n, c[m] = Start(v),
             \A i \in starts : m >= i
      PROVE  first = m + 1
  <2>1. m \in starts /\ starts \subseteq Int
    BY <1>2, <1>4, <1>5 DEF At
  <2> HIDE DEF starts
  <2>2. Max(starts) = m
    BY <1>5, <2>1, MaxIs
  <2> QED
    BY <2>1, <2>2
<1>6. ASSUME Trailed(c, v, n - 1)
      PROVE  \E d \in Dirs : SliceFrame(c, v) = <<Trailer(v, d)>>
  <2>1. n - 1 >= 1 /\ n - 1 \in 1..Len(c)
    BY <1>1, <1>6 DEF Trailed
  <2>2. PICK d \in Dirs : c[n - 1] = Trailer(v, d)
    BY <1>6 DEF Trailed
  <2>3. c[n - 1] # Start(v)
    BY <2>2 DEF Start, Trailer
  <2>4. \A i \in starts : i <= n - 2 /\ i \in 1..Len(c)
    <3> SUFFICES ASSUME NEW i \in starts PROVE i <= n - 2 /\ i \in 1..Len(c)
      OBVIOUS
    <3>1. i \in 1..Len(c) /\ i <= n - 1 /\ i # n - 1
      BY <1>4, <2>3
    <3> QED
      BY <1>1, <3>1
  <2>5. first = n - 1
    <3>1. CASE n - 1 = 1
      <4>1. \A i \in starts : FALSE
        BY <1>1, <2>4, <3>1
      <4> QED
        BY <3>1, <4>1
    <3>2. CASE n - 1 # 1
      <4>1. c[n - 2] = Start(v)
        BY <1>1, <1>6, <3>2 DEF Trailed
      <4>2. n - 2 \in 1..Len(c) /\ n - 2 < n /\ n - 2 + 1 = n - 1
        BY <1>1, <2>1, <3>2
      <4>3. \A i \in starts : n - 2 >= i
        BY <1>1, <2>4
      <4> HIDE DEF starts, first
      <4> QED
        BY <1>5, <4>1, <4>2, <4>3
    <3> QED
      BY <3>1, <3>2
  <2> HIDE DEF first
  <2>6. SliceFrame(c, v) = SubSeq(c, n - 1, n - 1)
    BY <1>3, <2>5 DEF SliceFrame, first
  <2>7. SubSeq(c, n - 1, n - 1) = <<c[n - 1]>>
    BY <2>1, SubSeqOne
  <2> QED
    BY <2>2, <2>6, <2>7
<1>7. ASSUME n = 1 \/ c[n - 1] = Start(v)
      PROVE  SliceFrame(c, v) = <<>>
  <2>1. first = n
    <3>1. CASE n = 1
      <4>1. \A i \in starts : FALSE
        BY <1>4, <3>1
      <4> QED
        BY <3>1, <4>1
    <3>2. CASE n # 1
      <4>1. n - 1 \in 1..Len(c) /\ n - 1 < n /\ n - 1 + 1 = n
        BY <1>1, <3>2
      <4>2. \A i \in starts : n - 1 >= i
        BY <1>1, <1>4
      <4> HIDE DEF starts, first
      <4> QED
        BY <1>5, <1>7, <3>2, <4>1, <4>2
    <3> QED
      BY <3>1, <3>2
  <2> HIDE DEF first
  <2>2. SliceFrame(c, v) = SubSeq(c, n, n - 1)
    BY <1>3, <2>1 DEF SliceFrame, first
  <2>3. n - 1 \in Nat /\ n - 1 + 1 = n
    BY <1>1
  <2> QED
    BY <2>2, <2>3, SubSeqNone
<1> QED
  BY <1>6, <1>7

\* What it cuts out of the capture of a command that has an end token there,
\* wherever the end tokens come from.
LEMMA SliceIsOwn ==
    ASSUME ShellTypeOK, NEW v \in Updates, Finished(v), EndsAreOwn(v)
    PROVE  \/ SliceFrame(capture[v], v) = <<>>
           \/ \E d \in Dirs : SliceFrame(capture[v], v) = <<Trailer(v, d)>>
<1> DEFINE c == capture[v]
           n == Max(At(c, End(v)))
<1>1. c \in Seq(Token) /\ Len(c) \in Nat
  BY DEF ShellTypeOK
<1>2. At(c, End(v)) \subseteq 0..Len(c) /\ At(c, End(v)) # {}
  BY <1>1 DEF At, Finished
<1>3. n \in At(c, End(v)) /\ \A j \in At(c, End(v)) : n >= j
  BY <1>1, <1>2, MaxOfNat
<1> HIDE DEF n
<1>4. n \in 1..Len(c) /\ c[n] = End(v)
  BY <1>3 DEF At
<1>5. \A j \in 1..Len(c) : c[j] = End(v) => j <= n
  BY <1>3 DEF At
<1>6. n = 1 \/ c[n - 1] = Start(v) \/ Trailed(c, v, n - 1)
  BY <1>4 DEF EndsAreOwn, Ended
<1> HIDE DEF c
<1>7. SliceFrame(c, v) = <<>> \/ \E d \in Dirs : SliceFrame(c, v) = <<Trailer(v, d)>>
  BY <1>1, <1>4, <1>5, <1>6, SliceAt
<1> QED
  BY <1>7 DEF c

LEMMA ReturnResultFrames ==
    ASSUME ShellTypeOK, HandlerTypeOK, HasShell, FrameInv,
           NEW u \in Updates, ReturnResult(u)
    PROVE  FrameInv'
<1>1. /\ pc[u] = "wait" /\ pc' = [pc EXCEPT ![u] = "unstop"]
      /\ answer' = [answer EXCEPT ![u] = "ok"]
      /\ out' = [out EXCEPT ![u] = SliceFrame(capture[u], u)]
      /\ Finished(u)
      /\ UNCHANGED <<sh, input, stage, capture, talked>>
  BY DEF ReturnResult, Return, Goto, Reply, shellVars
<1>2. /\ pc'[u] = "unstop" /\ out'[u] = SliceFrame(capture[u], u)
      /\ \A v \in Updates : v # u => /\ pc'[v] = pc[v] /\ out'[v] = out[v]
                                     /\ answer'[v] = answer[v]
  BY <1>1 DEF HandlerTypeOK, FrameInv
<1>3. OwnFrame(u) /\ sh[u] \in Updates
  BY <1>1 DEF FrameInv, ExecLabels, HandlerTypeOK, HasShell, NeedsShell,
      ActiveLabels
<1>4. \A v, s \in Updates : Queued(v, s)' <=> Queued(v, s)
  BY <1>1 DEF Queued
<1>5. NotYetWritten'
  BY <1>2, <1>4 DEF FrameInv, NotYetWritten, BeforeWrite
<1>6. ASSUME NEW v \in Updates, pc'[v] \in ExecLabels PROVE OwnFrame(v)'
  <2>1. OwnFrame(v)
    BY <1>2, <1>3, <1>6 DEF FrameInv
  <2>2. QueuedLast(v)'
    BY <1>1, <1>4, <2>1 DEF OwnFrame, QueuedLast
  <2>3. EndedAlone(v)'
    BY <1>1, <1>2, <2>1 DEF OwnFrame, EndedAlone, Finished, Trailed,
        BeforeWrite
  <2>4. InFrame(v)'
    BY <1>1, <2>1 DEF OwnFrame, InFrame, Trailed
  <2>5. EndsAreOwn(v)'
    BY <1>1, <2>1 DEF OwnFrame, EndsAreOwn, Ended, Trailed
  <2> QED
    BY <2>2, <2>3, <2>4, <2>5 DEF OwnFrame
<1>7. out'[u] = <<>> \/ \E d \in Dirs : out'[u] = <<Trailer(u, d)>>
  BY <1>1, <1>2, <1>3, SliceIsOwn DEF OwnFrame
<1>8. ASSUME u \notin talked
      PROVE  out'[u] # <<>> /\ \A s \in Updates : ~Queued(u, s)
  <2> DEFINE c == capture[u]
  <2>1. /\ c[Len(c)] = End(u) /\ Trailed(c, u, Len(c) - 1)
        /\ input[sh[u]] = <<>>
    BY <1>1, <1>3, <1>8 DEF OwnFrame, EndedAlone
  <2>2. c \in Seq(Token) /\ Len(c) \in Nat
    BY DEF ShellTypeOK
  <2>3. Len(c) \in 1..Len(c)
    BY <2>1, <2>2 DEF Trailed
  <2>4. \A j \in 1..Len(c) : j <= Len(c)
    BY <2>2
  <2>5. PICK d \in Dirs : SliceFrame(c, u) = <<Trailer(u, d)>>
    BY <2>1, <2>2, <2>3, <2>4, SliceAt
  <2>6. out'[u] # <<>>
    BY <1>2, <2>5
  <2> QED
    BY <1>3, <2>1, <2>6 DEF OwnFrame, QueuedLast, Queued
<1>9. ResultIsTrue'
  <2>1. ASSUME NEW v \in Updates, v # u, answer'[v] = "ok", pc'[v] \in Reported
        PROVE  Honest(v)'
    <3>1. answer[v] = "ok" /\ pc[v] \in Reported /\ out'[v] = out[v]
      BY <1>2, <2>1
    <3>2. Honest(v)
      BY <3>1 DEF FrameInv, ResultIsTrue, Reported, Queued, Honest
    <3> QED
      BY <1>1, <1>4, <3>1, <3>2 DEF Honest
  <2>2. Honest(u)'
    BY <1>1, <1>4, <1>7, <1>8 DEF Honest
  <2> QED
    BY <2>1, <2>2 DEF ResultIsTrue, Reported, Queued, Honest
<1>10. \A v \in Updates : pc'[v] = "grace" => answer'[v] # "ok"
  BY <1>2 DEF FrameInv
<1> QED
  BY <1>1, <1>5, <1>6, <1>9, <1>10 DEF FrameInv

LEMMA EndExecFrames ==
    ASSUME ShellTypeOK, HandlerTypeOK, OneCommand, FrameInv,
           NEW u \in Updates, EndExec(u)
    PROVE  FrameInv'
<1>1. /\ pc[u] = "uninstall" /\ pc' = [pc EXCEPT ![u] = "result"]
      /\ UNCHANGED <<sh, answer, out, input, stage, talked>>
  BY DEF EndExec, Step, Uninstall, Goto
<1>2. Modest(u)
  BY <1>1 DEF Modest, HandlerTypeOK, BeforeWrite, ExecLabels, Reported
<1>3. \A v, s \in Updates : Queued(v, s)' <=> Queued(v, s)
  BY <1>1 DEF Queued
<1>4. \A v \in Updates : pc'[v] \notin ExecLabels
  <2>1. \A v \in Updates : v # u => pc[v] \notin ExecLabels
    BY <1>1, OnlyOneExecutes DEF RunLabels, ActiveLabels, ExecLabels
  <2> QED
    BY <1>1, <2>1 DEF HandlerTypeOK, ExecLabels
<1> QED
  BY <1>2, <1>3, <1>4, ModestKeeps

\* A Ctrl-C takes frames from the end of the input, or all of them.
LEMMA InterruptFrames ==
    ASSUME ShellTypeOK, HandlerTypeOK, HasShell, FrameInv,
           NEW u \in Updates, Modest(u), NEW s \in Updates, Interrupt(s)
    PROVE  FrameInv'
<1>1. input[s] \in Seq(Updates) /\ Len(input[s]) \in Nat
  BY DEF ShellTypeOK
<1>2. PICK n \in 0..Len(input[s]) :
        /\ input' = [input EXCEPT ![s] = SubSeq(@, 1, n)]
        /\ stage' = [stage EXCEPT ![s] = IF n = 0 THEN "idle" ELSE @]
  <2>1. Len(input[s]) \in 0..Len(input[s])
    BY <1>1
  <2> QED
    BY <2>1 DEF Interrupt
<1>3. /\ Len(input'[s]) = n
      /\ \A i \in 1..n : input'[s][i] = input[s][i]
      /\ n # 0 => stage'[s] = stage[s]
      /\ \A t \in Updates : t # s => input'[t] = input[t] /\ stage'[t] = stage[t]
  BY <1>1, <1>2 DEF ShellTypeOK
<1>4. ASSUME NEW v \in Updates, NEW t \in Updates, Queued(v, t)'
      PROVE  Queued(v, t)
  BY <1>1, <1>3, <1>4 DEF Queued
<1>5. UNCHANGED <<capture, talked>>
  BY DEF Interrupt
<1>6. ASSUME NEW v \in Updates, OwnFrame(v), sh'[v] = sh[v],
             sh[v] \in Updates, pc'[v] \in BeforeWrite => pc[v] \in BeforeWrite
      PROVE  OwnFrame(v)'
  <2>1. QueuedLast(v)'
    <3>1. ASSUME NEW i \in 1..Len(input'[sh[v]]), input'[sh[v]][i] = v
          PROVE  i = Len(input'[sh[v]])
      BY <1>1, <1>3, <1>6, <3>1 DEF OwnFrame, QueuedLast
    <3> QED
      BY <1>4, <1>6, <3>1 DEF OwnFrame, QueuedLast
  <2>2. EndedAlone(v)'
    <3>1. input[sh[v]] = <<>> => input'[sh[v]] = <<>>
      BY <1>1, <1>2, <1>3
    <3> QED
      BY <1>5, <1>6, <3>1 DEF OwnFrame, EndedAlone, Finished, Trailed
  <2>3. InFrame(v)'
    <3> SUFFICES ASSUME input'[sh[v]] # <<>>, input'[sh[v]][1] = v
                 PROVE  /\ input[sh[v]] # <<>> /\ input[sh[v]][1] = v
                        /\ stage'[sh[v]] = stage[sh[v]]
      BY <1>5, <1>6 DEF OwnFrame, InFrame, Trailed
    <3>1. CASE sh[v] # s
      BY <1>3, <1>6, <3>1
    <3>2. CASE sh[v] = s
      <4>1. n # 0
        BY <1>1, <1>2, <1>3, <3>2
      <4> QED
        BY <1>1, <1>3, <3>2, <4>1
    <3> QED
      BY <3>1, <3>2
  <2>4. EndsAreOwn(v)'
    BY <1>5, <1>6 DEF OwnFrame, EndsAreOwn, Ended, Trailed
  <2> QED
    BY <2>1, <2>2, <2>3, <2>4 DEF OwnFrame
<1>7. \A v \in Updates : pc[v] \in ExecLabels => sh[v] \in Updates
  BY DEF HandlerTypeOK, HasShell, NeedsShell, ActiveLabels
<1> QED
  BY <1>4, <1>6, <1>7, ModestKeeps

\* The shell process moves on.  Only the command that runs on the shell finds
\* the difference in its capture.
LEMMA OthersUntouched ==
    ASSUME ShellInv, HandlerTypeOK, OneCommand, NEW s \in Updates,
           ShellStep(s), NEW v \in Updates, sh[v] \in Updates, sh[v] # s
    PROVE  /\ input'[sh[v]] = input[sh[v]] /\ stage'[sh[v]] = stage[sh[v]]
           /\ capture'[v] = capture[v]
<1>1. cur[s] # v
  BY NoneAssumption DEF OneCommand
<1>2. \A t : Pump(s, t) => capture'[v] = capture[v]
  BY <1>1 DEF Pump, ShellInv, ShellTypeOK
<1>3. \A w : TalkBack(w, s) => capture'[v] = capture[v]
  BY <1>1 DEF TalkBack, ShellInv, ShellTypeOK
<1>4. capture'[v] = capture[v]
  BY <1>1, <1>2, <1>3 DEF ShellStep, ReadFrame, BeginFrame, EndBody, EndFrame, SetEcho,
      Overflow, Exit, ShellInv, ShellTypeOK
<1>5. input'[sh[v]] = input[sh[v]] /\ stage'[sh[v]] = stage[sh[v]]
  BY DEF ShellStep, BeginFrame, EndBody, EndFrame, SetEcho, ReadFrame, Overflow,
      Exit, ShellInv, ShellTypeOK
<1> QED
  BY <1>4, <1>5

LEMMA ProcessQueue ==
    ASSUME ShellInv, NEW s \in Updates, ShellStep(s)
    PROVE  /\ \/ input' = input
              \/ input' = [input EXCEPT ![s] = <<>>]
              \/ input[s] # <<>> /\ input' = [input EXCEPT ![s] = Tail(@)]
              \/ /\ Len(input[s]) > 1
                 /\ input' = [input EXCEPT ![s] = WithoutSecond(@)]
           /\ talked \subseteq talked'
BY DEF ShellStep, BeginFrame, EndBody, EndFrame, SetEcho, ReadFrame, TalkBack,
    Overflow, Exit, ShellInv, StageInv, ShellTypeOK

\* What a token at the end of a capture does to the tokens before it.
LEMMA AppendToken ==
    ASSUME NEW c \in Seq(Token), NEW t \in Token
    PROVE  /\ Append(c, t) \in Seq(Token)
           /\ Len(Append(c, t)) = Len(c) + 1
           /\ Append(c, t)[Len(c) + 1] = t
           /\ \A i \in 1..Len(c) : Append(c, t)[i] = c[i]
           /\ \A u : At(Append(c, t), u) # {} => t = u \/ At(c, u) # {}
BY AppendOf DEF At

\* What is pushed out of a capture is its oldest token.
LEMMA TailEnds ==
    ASSUME ShellTypeOK, NEW v \in Updates, EndsAreOwn(v), capture[v] # <<>>,
           capture'[v] = Tail(capture[v])
    PROVE  EndsAreOwn(v)'
<1> DEFINE c == capture[v]
           e == Tail(c)
<1>1. /\ Len(c) \in Nat /\ Len(c) >= 1 /\ Len(e) = Len(c) - 1
      /\ \A i \in 1..Len(c) - 1 : i + 1 \in 1..Len(c) /\ e[i] = c[i + 1]
  BY TailOf DEF ShellTypeOK
<1>2. \A j \in 1..Len(c) : c[j] = End(v) => Ended(c, v, j)
  BY DEF EndsAreOwn
<1> HIDE DEF c, e
<1>3. ASSUME NEW j \in 1..Len(e), e[j] = End(v) PROVE Ended(e, v, j)
  <2>1. /\ j \in Nat /\ j >= 1 /\ j <= Len(c) - 1 /\ j + 1 \in 1..Len(c)
        /\ j + 1 - 1 = j /\ j + 1 # 1 /\ j \in 1..Len(c) - 1
    BY <1>1
  <2>2. Ended(c, v, j + 1)
    BY <1>1, <1>2, <1>3, <2>1
  <2>3. c[j] = Start(v) \/ Trailed(c, v, j)
    BY <2>1, <2>2 DEF Ended
  <2>4. CASE j = 1
    BY <2>4 DEF Ended
  <2>5. CASE j # 1
    <3> DEFINE m == j - 1
    <3>1. m \in 1..Len(c) - 1 /\ m + 1 = j /\ m >= 1
      BY <2>1, <2>5
    <3>2. m # 1 => m - 1 \in 1..Len(c) - 1 /\ m - 1 + 1 = m
      BY <1>1, <3>1
    <3>3. e[m] = c[j] /\ (m # 1 => e[m - 1] = c[m])
      BY <1>1, <3>1, <3>2
    <3>4. c[j] = Start(v) => Ended(e, v, j)
      BY <3>3 DEF Ended
    <3>5. Trailed(c, v, j) => Trailed(e, v, m)
      BY <2>5, <3>1, <3>3 DEF Trailed
    <3> QED
      BY <2>3, <3>4, <3>5 DEF Ended
  <2> QED
    BY <2>4, <2>5
<1> QED
  BY <1>3 DEF EndsAreOwn, c, e

\* The command that runs on s.
LEMMA OwnerFrame ==
    ASSUME ShellInv, HandlerTypeOK, Installed, NEW s \in Updates, ShellStep(s),
           NotYetWritten, NEW v \in Updates, pc[v] \in ExecLabels, sh[v] = s,
           OwnFrame(v), sh'[v] = sh[v], pc'[v] = pc[v]
    PROVE  EndedAlone(v)' /\ InFrame(v)' /\ EndsAreOwn(v)'
<1> DEFINE c == capture[v]
           q == input[s]
<1>1. /\ c \in Seq(Token) /\ q \in Seq(Updates) /\ Len(c) \in Nat
      /\ ShellTypeOK /\ EndsAreOwn(v)
  BY DEF ShellInv, ShellTypeOK, OwnFrame
<1>2. cur[s] = v /\ v # None
  BY NoneAssumption DEF Installed
<1>3. ASSUME NEW t, Pump(s, t) PROVE capture'[v] = Append(c, t)
  BY <1>2, <1>3 DEF Pump, ShellInv, ShellTypeOK
<1>4. q # <<>> => /\ Head(q) = q[1] /\ q[1] \in Updates
                  /\ v \notin talked => ~Finished(v)
  BY <1>1 DEF OwnFrame, EndedAlone
<1>0. talked \subseteq talked'
  BY ProcessQueue
<1>5. CASE BeginFrame(s)
  <2>1. q # <<>> /\ input' = input /\ stage'[s] = "body"
    BY <1>5 DEF BeginFrame, ShellInv, ShellTypeOK
  <2>2. capture'[v] = Append(c, Start(q[1])) /\ Start(q[1]) \in Token
    BY <1>3, <1>4, <1>5, <2>1, FrameTokens DEF BeginFrame
  <2>3. Start(q[1]) # End(v)
    BY DEF Start, End
  <2>4. v \notin talked => ~Finished(v)'
    BY <1>1, <1>4, <2>1, <2>2, <2>3, AppendToken DEF Finished
  <2>5. InFrame(v)'
    BY <1>1, <2>1, <2>2, AppendToken DEF InFrame
  <2>6. EndsAreOwn(v)'
    BY <1>1, <2>2, <2>3, AppendEnds
  <2> QED
    BY <1>0, <2>4, <2>5, <2>6 DEF EndedAlone
<1>6. CASE EndBody(s)
  <2>1. q # <<>> /\ input' = input /\ stage[s] = "body" /\ stage'[s] = "tail"
    BY <1>6 DEF EndBody, ShellInv, ShellTypeOK, StageInv
  <2>2. PICK d \in Dirs : Pump(s, Trailer(q[1], d))
    BY <1>4, <1>6, <2>1 DEF EndBody
  <2> DEFINE t == Trailer(q[1], d)
  <2>3. capture'[v] = Append(c, t) /\ t \in Token
    BY <1>3, <1>4, <2>1, <2>2, FrameTokens
  <2>4. t # End(v)
    BY DEF Trailer, End
  <2>5. v \notin talked => ~Finished(v)'
    BY <1>1, <1>4, <2>1, <2>3, <2>4, AppendToken DEF Finished
  <2>6. InFrame(v)'
    <3> SUFFICES ASSUME q[1] = v PROVE Trailed(capture'[v], v, Len(c) + 1)
      BY <1>1, <2>1, <2>3, AppendToken DEF InFrame, Trailed
    <3>1. capture'[v][Len(c) + 1] = Trailer(v, d)
      BY <1>1, <2>3, AppendToken
    <3>2. Len(c) = 0 \/ (Len(c) \in 1..Len(c) /\ c[Len(c)] = Start(v))
      BY <1>1, <2>1 DEF OwnFrame, InFrame
    <3>3. Len(c) + 1 = 1 \/ capture'[v][Len(c) + 1 - 1] = Start(v)
      BY <1>1, <2>3, <3>2, AppendToken
    <3> QED
      BY <1>1, <3>1, <3>3 DEF Trailed
  <2>7. EndsAreOwn(v)'
    BY <1>1, <2>3, <2>4, AppendEnds
  <2> QED
    BY <1>0, <2>5, <2>6, <2>7 DEF EndedAlone
<1>7. CASE EndFrame(s)
  <2>1. /\ q # <<>> /\ input'[s] = Tail(q)
        /\ stage[s] = "tail" /\ stage'[s] = "idle"
    BY <1>7 DEF EndFrame, ShellInv, ShellTypeOK, StageInv
  <2> DEFINE t == End(q[1])
  <2>2. capture'[v] = Append(c, t) /\ t \in Token
    BY <1>3, <1>4, <1>7, <2>1, FrameTokens DEF EndFrame
  <2>3. InFrame(v)'
    BY <2>1 DEF InFrame
  <2>4. CASE q[1] # v
    <3>1. t # End(v)
      BY <2>4 DEF End
    <3>2. v \notin talked => ~Finished(v)'
      BY <1>1, <1>4, <2>1, <2>2, <3>1, AppendToken DEF Finished
    <3>3. EndsAreOwn(v)'
      BY <1>1, <2>2, <3>1, AppendEnds
    <3> QED
      BY <1>0, <2>3, <3>2, <3>3 DEF EndedAlone
  <2>5. CASE q[1] = v
    <3>1. 1 \in 1..Len(q) /\ (Len(q) = 1 => Tail(q) = <<>>)
      BY <1>1, <2>1, TailOf
    <3>2. Len(q) = 1 /\ input'[s] = <<>>
      BY <2>1, <2>5, <3>1 DEF OwnFrame, QueuedLast
    <3>3. pc'[v] \notin BeforeWrite
      BY <1>1, <2>5, <3>1 DEF NotYetWritten, Queued
    <3>4. Trailed(c, v, Len(c))
      BY <2>1, <2>5 DEF OwnFrame, InFrame
    <3>5. /\ Len(capture'[v]) = Len(c) + 1
          /\ capture'[v][Len(c) + 1] = End(v)
          /\ \A i \in 1..Len(c) : capture'[v][i] = c[i]
      BY <1>1, <2>2, <2>5, AppendToken
    <3>6. /\ Len(c) \in 1..Len(c)
          /\ Len(c) # 1 => Len(c) - 1 \in 1..Len(c)
      <4>1. \A n \in Nat : n >= 1 => n \in 1..n /\ (n # 1 => n - 1 \in 1..n)
        OBVIOUS
      <4> QED
        BY <1>1, <3>4, <4>1 DEF Trailed
    <3>7. Trailed(capture'[v], v, Len(capture'[v]) - 1)
      <4>1. Len(capture'[v]) - 1 = Len(c)
        BY <1>1, <3>5
      <4> QED
        BY <3>4, <3>5, <3>6, <4>1 DEF Trailed
    <3>8. EndsAreOwn(v)'
      BY <1>1, <2>2, <3>4, AppendEnds
    <3> QED
      BY <2>3, <3>2, <3>3, <3>5, <3>7, <3>8 DEF EndedAlone, Trailed
  <2> QED
    BY <2>4, <2>5
<1>8. CASE Overflow(s)
  <2>1. /\ q # <<>> /\ c # <<>> /\ input' = input
        /\ stage[s] = "body" /\ stage'[s] = "body"
        /\ capture'[v] = Tail(c)
    BY <1>2, <1>8 DEF Overflow, ShellInv, ShellTypeOK, StageInv
  <2>2. /\ Len(Tail(c)) = Len(c) - 1 /\ Len(c) >= 1
        /\ \A i \in 1..Len(c) - 1 : Tail(c)[i] = c[i + 1] /\ i + 1 \in 1..Len(c)
        /\ Len(c) = 1 => Tail(c) = <<>>
    BY <1>1, <2>1, TailOf
  <2>3. v \notin talked => ~Finished(v)'
    BY <1>4, <2>1, <2>2 DEF Finished, At
  <2>4. InFrame(v)'
    <3> SUFFICES ASSUME q[1] = v
                 PROVE  Tail(c) = <<>> \/ Tail(c)[Len(Tail(c))] = Start(v)
      BY <2>1 DEF InFrame
    <3>1. c[Len(c)] = Start(v)
      BY <2>1 DEF OwnFrame, InFrame
    <3> QED
      BY <1>1, <2>2, <3>1
  <2>5. EndsAreOwn(v)'
    BY <1>1, <2>1, <2>2, TailEnds
  <2> QED
    BY <1>0, <2>3, <2>4, <2>5 DEF EndedAlone
<1>9. CASE Exit(s)
  <2>1. input'[s] = <<>> /\ capture' = capture
    BY <1>9 DEF Exit, ShellInv, ShellTypeOK
  <2> QED
    BY <1>0, <2>1 DEF OwnFrame, EndedAlone, InFrame, Finished, Trailed,
        EndsAreOwn, Ended
<1>10. CASE SetEcho(s)
  <2>1. UNCHANGED <<input, capture, stage>>
    BY <1>10 DEF SetEcho
  <2> QED
    BY <1>0, <2>1 DEF OwnFrame, EndedAlone, InFrame, Finished, Trailed,
        EndsAreOwn, Ended
<1>11. CASE ReadFrame(s)
  <2>1. /\ Len(q) > 1 /\ q # <<>> /\ input'[s] = WithoutSecond(q)
        /\ stage' = stage /\ stage[s] = "body"
    BY <1>1, <1>11 DEF ReadFrame, ShellInv, ShellTypeOK
  <2>2. q[2] \in Updates /\ 1 \in 1..Len(q) /\ WithoutSecond(q)[1] = q[1]
    BY <1>1, <2>1, SecondTaken
  <2>3. q[1] # v
    <3>1. Len(q) # 1
      <4>1. \A n : n > 1 => n # 1
        OBVIOUS
      <4> QED
        BY <2>1, <4>1
    <3> QED
      BY <2>2, <3>1 DEF OwnFrame, QueuedLast
  <2>4. InFrame(v)'
    BY <2>1, <2>2, <2>3 DEF InFrame
  <2>5. CASE UNCHANGED <<capture, talked>>
    BY <1>4, <2>1, <2>4, <2>5 DEF OwnFrame, EndedAlone, Finished, EndsAreOwn,
        Ended, Trailed
  <2>6. CASE TalkBack(q[2], s)
    <3>1. EndsAreOwn(v)'
      BY <1>1, <2>2, <2>6, TalkBackEnds
    <3>2. v \notin talked' => ~Finished(v)'
      <4> SUFFICES ASSUME v \notin talked' PROVE ~Finished(v)'
        OBVIOUS
      <4>1. v # q[2] /\ ~Finished(v)
        BY <1>0, <1>4, <2>1, <2>6 DEF TalkBack
      <4>2. Start(q[2]) # End(v) /\ End(q[2]) # End(v)
        BY <4>1 DEF Start, End
      <4>3. capture'[v] = Append(Append(c, Start(q[2])), End(q[2]))
        BY <1>2, <2>6 DEF TalkBack, ShellInv, ShellTypeOK
      <4>4. Start(q[2]) \in Token /\ End(q[2]) \in Token
        BY <2>2, FrameTokens
      <4> DEFINE b == Append(c, Start(q[2]))
      <4>5. b \in Seq(Token) /\ At(b, End(v)) = {}
        BY <1>1, <4>1, <4>2, <4>4, AppendToken DEF Finished
      <4> HIDE DEF b
      <4>6. At(Append(b, End(q[2])), End(v)) = {}
        BY <4>2, <4>4, <4>5, AppendToken
      <4> QED
        BY <4>3, <4>6 DEF Finished, b
    <3> QED
      BY <2>4, <3>1, <3>2 DEF EndedAlone
  <2> QED
    BY <1>11, <2>5, <2>6 DEF ReadFrame
<1> QED
  BY <1>5, <1>6, <1>7, <1>8, <1>9, <1>10, <1>11 DEF ShellStep

LEMMA ProcessFrames ==
    ASSUME ShellInv, HandlerTypeOK, HasShell, OneCommand, Installed, FrameInv,
           NEW s \in Updates, Process(s)
    PROVE  FrameInv'
<1>1. ShellStep(s) /\ UNCHANGED <<pc, sh, answer, out>>
  BY DEF Process, localVars
<1>2. Modest(s)
  BY <1>1, ProcessQueue DEF Modest, FrameInv
<1>3. \A t \in Updates : input[t] \in Seq(Updates)
  BY DEF ShellInv, ShellTypeOK
<1>4. \A t \in Updates :
         \/ input'[t] = input[t]
         \/ input'[t] = <<>>
         \/ input[t] # <<>> /\ input'[t] = Tail(input[t])
         \/ Len(input[t]) > 1 /\ input'[t] = WithoutSecond(input[t])
  <2>1. CASE input' = input
    BY <2>1
  <2>2. CASE input' = [input EXCEPT ![s] = <<>>]
    BY <2>2 DEF ShellInv, ShellTypeOK
  <2>3. CASE input[s] # <<>> /\ input' = [input EXCEPT ![s] = Tail(@)]
    BY <2>3 DEF ShellInv, ShellTypeOK
  <2>4. CASE Len(input[s]) > 1 /\ input' = [input EXCEPT ![s] = WithoutSecond(@)]
    BY <2>4 DEF ShellInv, ShellTypeOK
  <2> QED
    BY <1>1, <2>1, <2>2, <2>3, <2>4, ProcessQueue
<1>5. \A v, t \in Updates : Queued(v, t)' => Queued(v, t)
  <2> SUFFICES ASSUME NEW t \in Updates, NEW i \in 1..Len(input'[t])
               PROVE  \E j \in 1..Len(input[t]) : input[t][j] = input'[t][i]
    BY DEF Queued
  <2>1. CASE input'[t] = input[t] \/ input'[t] = <<>>
    BY <2>1
  <2>2. CASE input[t] # <<>> /\ input'[t] = Tail(input[t])
    <3>1. i \in 1..Len(input[t]) - 1
      BY <1>3, <2>2, TailOf
    <3> QED
      BY <1>3, <2>2, <3>1, TailOf
  <2>3. CASE Len(input[t]) > 1 /\ input'[t] = WithoutSecond(input[t])
    <3> DEFINE q == input[t]
               w == WithoutSecond(q)
    <3>1. /\ Len(w) = Len(q) - 1 /\ w[1] = q[1] /\ 1 \in 1..Len(q)
          /\ \A k \in 1..Len(q) - 1 : /\ k # 1 => w[k] = q[k + 1]
                                     /\ k + 1 \in 1..Len(q)
      BY <1>3, <2>3, SecondTaken
    <3> HIDE DEF w
    <3>2. input'[t] = w
      BY <2>3 DEF w
    <3>3. i \in 1..Len(q) - 1
      BY <3>1, <3>2
    <3> QED
      BY <3>1, <3>2, <3>3
  <2> QED
    BY <1>4, <2>1, <2>2, <2>3
<1>6. ASSUME NEW v \in Updates, OwnFrame(v), pc[v] \in ExecLabels
      PROVE  OwnFrame(v)'
  <2>1. sh[v] \in Updates
    BY <1>6 DEF HandlerTypeOK, HasShell, NeedsShell, ActiveLabels
  <2>2. QueuedLast(v)'
    <3>1. \A i \in 1..Len(input'[sh[v]]) :
             input'[sh[v]][i] = v => i = Len(input'[sh[v]])
      <4> DEFINE q == input[sh[v]]
      <4>1. \A i \in 1..Len(q) : q[i] = v => i = Len(q)
        BY <1>6 DEF OwnFrame, QueuedLast
      <4>2. CASE input'[sh[v]] = q \/ input'[sh[v]] = <<>>
        BY <4>1, <4>2
      <4>3. CASE q # <<>> /\ input'[sh[v]] = Tail(q)
        <5>1. /\ Len(q) \in Nat /\ Len(Tail(q)) = Len(q) - 1
              /\ \A i \in 1..Len(q) - 1 :
                    i + 1 \in 1..Len(q) /\ Tail(q)[i] = q[i + 1]
          BY <1>3, <2>1, <4>3, TailOf
        <5> SUFFICES ASSUME NEW i \in 1..Len(q) - 1, Tail(q)[i] = v
                     PROVE  i = Len(q) - 1
          BY <4>3, <5>1
        <5>2. i + 1 = Len(q)
          BY <4>1, <5>1
        <5> QED
          BY <5>1, <5>2
      <4>4. CASE Len(q) > 1 /\ input'[sh[v]] = WithoutSecond(q)
        <5> DEFINE w == WithoutSecond(q)
        <5>1. /\ Len(q) \in Nat /\ Len(w) = Len(q) - 1
              /\ \A i \in 1..Len(q) - 1 :
                    i + 1 \in 1..Len(q) /\ (i # 1 => w[i] = q[i + 1])
              /\ w[1] = q[1] /\ 1 \in 1..Len(q)
          BY <1>3, <2>1, <4>4, SecondTaken
        <5> HIDE DEF w
        <5> SUFFICES ASSUME NEW i \in 1..Len(q) - 1, w[i] = v
                     PROVE  i = Len(q) - 1
          BY <4>4, <5>1 DEF w
        <5>2. i # 1
          BY <4>1, <4>4, <5>1
        <5>3. i + 1 = Len(q)
          BY <4>1, <5>1, <5>2
        <5> QED
          BY <5>1, <5>3
      <4> QED
        BY <1>4, <2>1, <4>2, <4>3, <4>4
    <3> QED
      BY <1>1, <1>5, <1>6, <3>1 DEF OwnFrame, QueuedLast
  <2>3. EndedAlone(v)' /\ InFrame(v)' /\ EndsAreOwn(v)'
    <3>1. CASE sh[v] = s
      BY <1>1, <1>6, <3>1, OwnerFrame DEF FrameInv
    <3>2. CASE sh[v] # s
      <4>1. /\ input'[sh[v]] = input[sh[v]] /\ stage'[sh[v]] = stage[sh[v]]
            /\ capture'[v] = capture[v] /\ talked \subseteq talked'
        BY <1>1, <2>1, <3>2, OthersUntouched, ProcessQueue
      <4> QED
        BY <1>1, <1>6, <4>1
        DEF OwnFrame, EndedAlone, InFrame, Finished, Trailed, EndsAreOwn, Ended
    <3> QED
      BY <3>1, <3>2
  <2> QED
    BY <2>2, <2>3 DEF OwnFrame
<1> QED
  BY <1>1, <1>2, <1>5, <1>6, ModestKeeps

LEMMA NextFrames ==
    TypeInv /\ CommandInv /\ StopInv /\ FrameInv /\ [Next]_vars => FrameInv'
<1> SUFFICES ASSUME TypeInv, CommandInv, StopInv, FrameInv, [Next]_vars
             PROVE  FrameInv'
  OBVIOUS
<1>1. /\ ShellInv /\ ShellTypeOK /\ HandlerTypeOK /\ HasShell
      /\ OneCommand /\ Installed
  BY DEF TypeInv, ShellInv, HandlerInv, CommandInv, StopInv
<1>2. ASSUME NEW u \in Updates, Timeout(u) \/ SendCtrlC(u) \/ TypeInput(u)
      PROVE  FrameInv'
  <2>1. sh[u] \in Updates
    BY <1>1, <1>2 DEF Timeout, SendCtrlC, TypeInput, Conclude, Finish,
        HandlerTypeOK, HasShell, NeedsShell, ActiveLabels, ExecLabels
  <2>2. Modest(u)
    BY <1>1, <1>2 DEF Timeout, SendCtrlC, TypeInput, Conclude, Finish, Goto,
        Reply, Modest, HandlerTypeOK, BeforeWrite, ExecLabels, Reported,
        Interrupt, TypeLine
  <2>3. CASE Interrupt(sh[u])
    BY <1>1, <2>1, <2>2, <2>3, InterruptFrames
  <2>4. CASE TypeLine(sh[u])
    BY <2>2, <2>4, PlainKeeps DEF TypeLine, Plain
  <2> QED
    BY <1>2, <2>3, <2>4 DEF Timeout, SendCtrlC, TypeInput
<1>3. ASSUME NEW u \in Updates, Run(u) PROVE FrameInv'
  BY <1>1, <1>2, <1>3, RunIsPlain, PlainKeeps, BeginExecFrames,
     SendFrameFrames, ReturnResultFrames, EndExecFrames DEF Run
<1>4. ASSUME NEW u \in Updates, StopOrInput(u) PROVE FrameInv'
  BY <1>1, <1>2, <1>4, StopIsPlain, PlainKeeps DEF StopOrInput
<1>5. ASSUME NEW u \in Updates, Receive(u) \/ Close(u) \/ DoubleClose(u)
      PROVE  FrameInv'
  BY <1>1, <1>5, CloseIsPlain, PlainKeeps DEF Close
<1>6. ASSUME NEW s \in Updates, Process(s) PROVE FrameInv'
  BY <1>1, <1>6, ProcessFrames
<1>7. CASE UNCHANGED vars
  <2>1. UNCHANGED <<pc, sh, answer, out, input, stage, capture, talked>>
    BY <1>7 DEF vars, shellVars, localVars
  <2>2. NotYetWritten' /\ ResultIsTrue'
    BY <2>1 DEF FrameInv, NotYetWritten, Queued, ResultIsTrue
  <2>3. \A v \in Updates : OwnFrame(v) => OwnFrame(v)'
    BY <2>1 DEF OwnFrame, QueuedLast, EndedAlone, InFrame, Queued, Finished,
        Trailed, EndsAreOwn, Ended
  <2> QED
    BY <2>1, <2>2, <2>3 DEF FrameInv
<1> QED
  BY <1>3, <1>4, <1>5, <1>6, <1>7 DEF Next, Handle, AllDone

\* A command is reported as finished with its own trailer or with none, never
\* with what another command printed: whatever an earlier command that timed out
\* still has in the shell's input or still prints, whoever reads the command's
\* frame first, however the terminal echoes it and the output overflows the
\* capture, and whoever types, interrupts or closes in between.  A command whose
\* frame has not come back as text is reported with its trailer, and only once
\* the shell is through with it (shell.go, ExecCommand and sliceFrame).
THEOREM ResultsAreTrue == Spec => []ResultIsTrue
<1>1. Init => FrameInv
  BY DEF Init, ShellInit, FrameInv, NotYetWritten, Queued, ResultIsTrue,
      ExecLabels
<1>2. FrameInv => ResultIsTrue
  BY DEF FrameInv
<1>3. Init => StopInv
  BY DEF Init, StopInv, Installed, FlagHasItsStop, ExecLabels
<1> QED
  BY <1>1, <1>2, <1>3, NextFrames, NextStop, TypeInvariant, CommandInvariant,
     PTL DEF Spec
=============================================================================
