------------------------------- MODULE Gateway ------------------------------
(***************************************************************************)
(* One chat session of the gateway (internal/telegram/handler.go): the     *)
(* goroutines that handle its updates, the session state they share, and   *)
(* the shells they open, use, interrupt and close (module PtyShell).       *)
(*                                                                         *)
(* Everything the handler keeps is keyed by the chat, so one chat is       *)
(* modelled.  Each update runs on a goroutine of its own, with a program   *)
(* counter and locals; every step between two of its pc values is a step   *)
(* the code takes without another goroutine being able to observe its      *)
(* middle.  An update that handle would route to the approval, agent or    *)
(* file handlers is the subject of other modules; the last "update" may be *)
(* the shutdown of the gateway (Handler.Close).                            *)
(***************************************************************************)
EXTENDS PtyShell

CONSTANTS
    Projects,   \* the configured projects
    Path,       \* the directory of each of them
    Home,       \* os.UserHomeDir()
    Saved,      \* the session states the state file may hold at start-up
    Menu        \* what each update may ask for

RunRequest     == [kind : {"run"}, owner : BOOLEAN, cd : BOOLEAN]
ProjectRequest == [kind : {"project"}, project : Projects]
PlainRequest   == [kind : {"stop", "exit", "shutdown"}]
InputRequest   == [kind : {"input"}, ctrlC : BOOLEAN]
Request == RunRequest \cup ProjectRequest \cup PlainRequest \cup InputRequest

Session == [cwd : Dirs \cup {None}, project : Projects \cup {None}]

\* A session is well formed when its project, if any, is the one at its Cwd.
Paired(s) == s.project # None => s.cwd = Path[s.project]

ASSUME GatewayAssumption ==
    /\ Path \in [Projects -> Dirs]
    /\ Home \in Dirs
    /\ None \notin Projects
    /\ Saved \subseteq {s \in Session : Paired(s)}
    /\ Menu \in [Updates -> SUBSET Request]

VARIABLES
    pc,         \* where each update's goroutine is
    req,        \* what the update asks for
    snap,       \* st: the copy of the session state handle took for it
    sh,         \* the shell its handler holds a pointer to
    ch,         \* the stop channel Stop has read
    out,        \* what ExecCommand returned, as the markers it contains
    answer,     \* the outcome reported to the chat and the audit log
    runLock,    \* the session's run lock: its holder, or None
    shellMu,    \* Handler.shellMu, where it is held across steps
    reg,        \* h.shells[id]
    active,     \* the session's Active flag
    session     \* the session's Cwd and Project

localVars  == <<pc, req, snap, sh, ch, out, answer>>
sharedVars == <<runLock, shellMu, reg, active, session>>
vars == <<shellVars, localVars, sharedVars>>

-----------------------------------------------------------------------------
(* Helpers                                                                  *)

\* projectNameByPath: some configured project at that path, or none.
ProjectsAt(d) == {p \in Projects : Path[p] = d}
Bindings(d)   == IF ProjectsAt(d) = {} THEN {None} ELSE ProjectsAt(d)

FreshSession == [cwd |-> Home, project |-> None]

Goto(u, l) == pc' = [pc EXCEPT ![u] = l]

Reply(u, a) == answer' = [answer EXCEPT ![u] = a]

\* A step of u from label l to label m that touches no other local.
Step(u, l, m) ==
    /\ pc[u] = l
    /\ Goto(u, m)
    /\ UNCHANGED <<req, snap, sh, ch, out, answer>>

\* The handler of u returns from label l, answering a; its locals are gone.
Finish(u, l, a) ==
    /\ pc[u] = l
    /\ Goto(u, "done")
    /\ Reply(u, a)
    /\ sh' = [sh EXCEPT ![u] = None]
    /\ ch' = [ch EXCEPT ![u] = None]
    /\ UNCHANGED <<req, snap, out>>

\* A step of u from label l to label m that settles its answer.
Conclude(u, l, m, a) ==
    /\ pc[u] = l
    /\ Goto(u, m)
    /\ Reply(u, a)
    /\ UNCHANGED <<req, snap, sh, ch, out>>

Init ==
    /\ ShellInit
    /\ pc = [u \in Updates |-> "idle"]
    /\ req \in [Updates -> {[kind |-> "exit"]}]
    /\ snap = [u \in Updates |-> FreshSession]
    /\ sh = [u \in Updates |-> None]
    /\ ch = [u \in Updates |-> None]
    /\ out = [u \in Updates |-> <<>>]
    /\ answer = [u \in Updates |-> "none"]
    /\ runLock = None
    /\ shellMu = None
    /\ reg = None
    /\ active = FALSE
    /\ session \in Saved

\* A plausible error: a request that is routed to no handler.
EntryUnrouted(r) == r.kind

\* The first label of the handler of a request.
Entry(r) ==
    CASE r.kind = "run"   -> "lock"
      [] r.kind = "stop"  -> "stop"
      [] r.kind = "input" -> "input"
      [] OTHER            -> "detach"

\* Callback and handle: the update arrives, and its handler starts with a copy
\* of the session state.  (Only runCommand uses more of the copy than the id.)
Receive(u) ==
    /\ pc[u] = "idle"
    /\ \E r \in Menu[u] :
          /\ req' = [req EXCEPT ![u] = r]
          /\ Goto(u, Entry(r))
          /\ snap' = [snap EXCEPT ![u] = IF r.kind = "run" THEN session ELSE @]
    /\ UNCHANGED <<shellVars, sharedVars, sh, ch, out, answer>>

-----------------------------------------------------------------------------
(* runCommand                                                               *)

Busy(u) ==
    /\ runLock # None
    /\ Finish(u, "lock", "busy")
    /\ UNCHANGED <<shellVars, sharedVars>>

\* authorizeCommand, on the copy of the state: a worker may not cd and needs a
\* project; the workspace check reads only the text of the command.
MayRun(u)  == req[u].owner \/ (~req[u].cd /\ snap[u].project # None)
MayDeny(u) == ~req[u].owner

\* A plausible error: the lock is claimed without looking whether it is free.
ClaimLock(u) ==
    /\ runLock' = u
    /\ \/ Step(u, "lock", "open") /\ MayRun(u)
       \/ Conclude(u, "lock", "unlock", "denied") /\ MayDeny(u)
    /\ UNCHANGED <<shellVars, shellMu, reg, active, session>>

TryLock(u) ==
    /\ runLock = None /\ runLock' = u
    /\ \/ Step(u, "lock", "open") /\ MayRun(u)
       \/ Conclude(u, "lock", "unlock", "denied") /\ MayDeny(u)
    /\ UNCHANGED <<shellVars, shellMu, reg, active, session>>

\* getShell, when the session's shell is alive.
ReuseShell(u) ==
    /\ pc[u] = "open" /\ shellMu = None
    /\ reg # None /\ Unlocked(reg) /\ IsAlive(reg)
    /\ sh' = [sh EXCEPT ![u] = reg]
    /\ Goto(u, "active")
    /\ UNCHANGED <<shellVars, sharedVars, req, snap, ch, out, answer>>

\* A plausible error: a new shell is started whatever the state of the old one.
StartAnotherShell(u) ==
    /\ shellMu = None
    /\ Step(u, "open", "opening")
    /\ shellMu' = u
    /\ reg' = None
    /\ UNCHANGED <<shellVars, runLock, active, session>>

\* getShell otherwise: a dead shell is forgotten and a new one started, with
\* shellMu held until it is known to be usable.
StartShell(u) ==
    /\ shellMu = None
    /\ reg # None => Unlocked(reg) /\ ~IsAlive(reg)
    /\ Step(u, "open", "opening")
    /\ shellMu' = u
    /\ reg' = None
    /\ UNCHANGED <<shellVars, runLock, active, session>>

\* The shell starts in the copy's Cwd, or where the gateway itself runs.
ShellStarted(u) ==
    /\ pc[u] = "opening"
    /\ \E d \in IF snap[u].cwd = None THEN Dirs ELSE {snap[u].cwd} :
          OpenShell(u, d)
    /\ reg' = u
    /\ shellMu' = None
    /\ sh' = [sh EXCEPT ![u] = u]
    /\ Goto(u, "active")
    /\ UNCHANGED <<req, snap, ch, out, answer, runLock, active, session>>

ShellFailed(u) ==
    /\ Conclude(u, "opening", "unlock", "noshell")
    /\ shellMu' = None
    /\ UNCHANGED <<shellVars, runLock, reg, active, session>>

\* SetActive(id, v).  The LastCmd set next to it is only ever displayed.
SetActive(v) ==
    /\ active' = v
    /\ UNCHANGED <<shellVars, runLock, shellMu, reg, session>>

MarkActive(u) == Step(u, "active", "install") /\ SetActive(TRUE)

BeginExec(u) ==
    /\ Step(u, "install", "clear")
    /\ Install(u, sh[u])
    /\ UNCHANGED sharedVars

\* A plausible error: the flag is only cleared when a command ends.
ClearStoppedLate(u) ==
    \/ Step(u, "clear", "write") /\ UNCHANGED <<shellVars, sharedVars>>
    \/ Step(u, "unstop", "uninstall") /\ SetStopped(sh[u], FALSE)
         /\ UNCHANGED sharedVars

ClearStopped(u) ==
    /\ \/ Step(u, "clear", "write")
       \/ Step(u, "unstop", "uninstall")
    /\ SetStopped(sh[u], FALSE)
    /\ UNCHANGED sharedVars

SendFrame(u) ==
    /\ Step(u, "write", "wait")
    /\ WriteFrame(u, sh[u])
    /\ UNCHANGED sharedVars

\* Write refuses on a closed shell, and may fail on one that has exited.
SendFrameFails(u) ==
    /\ Conclude(u, "write", "unstop", "failed")
    /\ Unlocked(sh[u]) /\ ~IsAlive(sh[u])
    /\ UNCHANGED <<shellVars, sharedVars>>

\* A plausible error: the command is run without a deadline.
NoTimeout(u) == FALSE /\ Conclude(u, "wait", "grace", "timeout")

\* The deadline of the command, or the end of the gateway's own context.
Timeout(u) ==
    /\ Conclude(u, "wait", "grace", "timeout")
    /\ Interrupt(sh[u])
    /\ UNCHANGED sharedVars

Stopped(u) ==
    /\ Conclude(u, "wait", "grace", "interrupted")
    /\ chan[u] = "closed"
    /\ UNCHANGED <<shellVars, sharedVars>>

\* A tick of the ticker that finds neither the stop flag nor the end token (one
\* step: what happens between these two reads could as well happen after them)
\* goes on to look at the process.
Tick(u) ==
    /\ Step(u, "wait", "check")
    /\ ~stopped[sh[u]] /\ ~Finished(u)
    /\ UNCHANGED <<shellVars, sharedVars>>

TickAgain(u) ==
    /\ Step(u, "check", "wait")
    /\ Unlocked(sh[u]) /\ IsAlive(sh[u])
    /\ UNCHANGED <<shellVars, sharedVars>>

\* ExecCommand returns data, as outcome a.
Return(u, l, a, data) ==
    /\ pc[u] = l
    /\ Goto(u, "unstop")
    /\ Reply(u, a)
    /\ out' = [out EXCEPT ![u] = data]
    /\ UNCHANGED <<shellVars, sharedVars, req, snap, sh, ch>>

ReturnResult(u) ==
    /\ pc[u] = "wait" /\ ~stopped[sh[u]] /\ Finished(u)
    /\ Return(u, "wait", "ok", SliceFrame(capture[u], u))

\* What is returned of a command that did not finish is the capture as it is.
ReturnPartial(u) ==
    \/ /\ Return(u, "wait", "interrupted", capture[u])
       /\ stopped[sh[u]]
    \/ /\ Return(u, "check", "failed", capture[u])
       /\ Unlocked(sh[u]) /\ ~IsAlive(sh[u])

\* After the grace period: an interrupted command returns what there is, a
\* timed out one its whole output if it ended in the meantime.
ReturnLate(u) ==
    Return(u, "grace", answer[u],
           IF answer[u] = "timeout" /\ Finished(u)
           THEN SliceFrame(capture[u], u) ELSE capture[u])

EndExec(u) ==
    /\ Step(u, "uninstall", "result")
    /\ Uninstall(u, sh[u])
    /\ UNCHANGED sharedVars

\* A plausible error: the working directory is recorded without its project.
RecordCwdOnly(u) ==
    /\ pc[u] = "result"
    /\ Goto(u, "inactive")
    /\ out' = [out EXCEPT ![u] = <<>>]
    /\ LET pwd == ParsePWD(out[u])
       IN  session' = [session EXCEPT !.cwd = IF pwd \in Dirs THEN pwd ELSE @]
    /\ UNCHANGED <<shellVars, req, snap, sh, ch, answer, runLock, shellMu, reg,
                   active>>

\* The result is audited, and the directory it reports, if it is an absolute
\* path, becomes the session's, with the project at that directory.
RecordResult(u) ==
    /\ pc[u] = "result"
    /\ Goto(u, "inactive")
    /\ out' = [out EXCEPT ![u] = <<>>]
    /\ LET pwd == ParsePWD(out[u])
       IN  IF pwd \in Dirs
           THEN \E p \in Bindings(pwd) : session' = [cwd |-> pwd, project |-> p]
           ELSE UNCHANGED session
    /\ UNCHANGED <<shellVars, req, snap, sh, ch, answer, runLock, shellMu, reg,
                   active>>

\* A plausible error: the Active flag is not cleared on the way out.
StayActive(u) ==
    /\ Step(u, "inactive", "unlock")
    /\ UNCHANGED <<shellVars, sharedVars>>

MarkInactive(u) == Step(u, "inactive", "unlock") /\ SetActive(FALSE)

Unlock(u) ==
    /\ Finish(u, "unlock", answer[u])
    /\ runLock' = None
    /\ UNCHANGED <<shellVars, shellMu, reg, active, session>>

Run(u) ==
    \/ Busy(u) \/ TryLock(u)
    \/ ReuseShell(u) \/ StartShell(u) \/ ShellStarted(u) \/ ShellFailed(u)
    \/ MarkActive(u) \/ BeginExec(u) \/ ClearStopped(u)
    \/ SendFrame(u) \/ SendFrameFails(u)
    \/ Timeout(u) \/ Stopped(u)
    \/ Tick(u) \/ TickAgain(u)
    \/ ReturnResult(u) \/ ReturnPartial(u) \/ ReturnLate(u) \/ EndExec(u)
    \/ RecordResult(u) \/ MarkInactive(u) \/ Unlock(u)

-----------------------------------------------------------------------------
(* handleStop and handleInput                                               *)

\* shellFor: the handler reads the shell of the session; there may be none.
LookUpShell(u, l, m) ==
    /\ pc[u] = l /\ shellMu = None
    /\ sh' = [sh EXCEPT ![u] = reg]
    /\ Goto(u, m)
    /\ UNCHANGED <<shellVars, sharedVars, req, snap, ch, out, answer>>

FindShell(u) == LookUpShell(u, "stop", "stopActive")
                  \/ LookUpShell(u, "input", "inputAlive")

\* No command is running, as far as this handler can tell.
NothingToDo(u) ==
    /\ \/ Finish(u, "stopActive", "nothing") /\ (~active \/ sh[u] = None)
       \/ /\ \E l \in {"stopAlive", "inputAlive"} :
                Finish(u, l, "nothing")
          /\ sh[u] # None => Unlocked(sh[u]) /\ ~IsAlive(sh[u])
    /\ UNCHANGED <<shellVars, sharedVars>>

SomethingActive(u) ==
    /\ active /\ sh[u] # None
    /\ Step(u, "stopActive", "stopAlive")
    /\ UNCHANGED <<shellVars, sharedVars>>

ShellIsAlive(u) ==
    /\ \/ Step(u, "stopAlive", "flag")
       \/ Step(u, "inputAlive", "type")
    /\ sh[u] # None /\ Unlocked(sh[u]) /\ IsAlive(sh[u])
    /\ UNCHANGED <<shellVars, sharedVars>>

RaiseStopped(u) ==
    /\ Step(u, "flag", "channel")
    /\ SetStopped(sh[u], TRUE)
    /\ UNCHANGED sharedVars

\* Stop reads curStop under s.mu ...
ReadChannel(u) ==
    /\ pc[u] = "channel" /\ Unlocked(sh[u])
    /\ ch' = [ch EXCEPT ![u] = cur[sh[u]]]
    /\ Goto(u, "select")
    /\ UNCHANGED <<shellVars, sharedVars, req, snap, sh, out, answer>>

\* ... tests it ...
TestChannel(u) ==
    /\ pc[u] = "select"
    /\ IF ch[u] # None /\ chan[ch[u]] = "open"
       THEN Step(u, "select", "closeChannel")
       ELSE Step(u, "select", "ctrlC")
    /\ UNCHANGED <<shellVars, sharedVars>>

\* ... and closes it, all but the read outside s.mu.
StopCommand(u) ==
    /\ Step(u, "closeChannel", "ctrlC")
    /\ CloseChannel(ch[u])
    /\ UNCHANGED sharedVars

SendCtrlC(u) ==
    /\ Finish(u, "ctrlC", "stopped")
    /\ Interrupt(sh[u])
    /\ UNCHANGED sharedVars

TypeInput(u) ==
    /\ Finish(u, "type", "sent")
    /\ IF req[u].ctrlC THEN Interrupt(sh[u]) ELSE TypeLine(sh[u])
    /\ UNCHANGED sharedVars

StopOrInput(u) ==
    \/ FindShell(u) \/ NothingToDo(u) \/ SomethingActive(u) \/ ShellIsAlive(u)
    \/ RaiseStopped(u) \/ ReadChannel(u) \/ TestChannel(u) \/ StopCommand(u)
    \/ SendCtrlC(u) \/ TypeInput(u)

-----------------------------------------------------------------------------
(* handleExit, handleProject and Handler.Close                              *)

\* What the handler does once the shell is out of the way.
AfterClose(u) ==
    CASE req[u].kind = "exit"     -> "quiet"
      [] req[u].kind = "project"  -> "bind"
      [] OTHER                    -> "shut"

\* handleProject refuses an unknown, unreachable or forbidden project.
RefuseProject(u) ==
    /\ Finish(u, "detach", "refused")
    /\ req[u].kind = "project"
    /\ UNCHANGED <<shellVars, sharedVars>>

\* A plausible error: the shell stays in the map while it is closed.
DetachNothing(u) ==
    /\ pc[u] = "detach" /\ shellMu = None
    /\ sh' = [sh EXCEPT ![u] = reg]
    /\ Goto(u, IF reg = None THEN AfterClose(u) ELSE "close")
    /\ UNCHANGED <<shellVars, sharedVars, req, snap, ch, out, answer>>

\* closeShellFor takes the shell out of the map before it closes it, so no
\* two goroutines ever close the same shell.
Detach(u) ==
    /\ pc[u] = "detach" /\ shellMu = None
    /\ sh' = [sh EXCEPT ![u] = reg]
    /\ reg' = None
    /\ Goto(u, IF reg = None THEN AfterClose(u) ELSE "close")
    /\ UNCHANGED <<shellVars, req, snap, ch, out, answer, runLock, shellMu,
                   active, session>>

CloseShell(u) ==
    /\ pc[u] = "close"
    /\ MarkClosed(u, sh[u])
    /\ Step(u, "close", IF mu'[sh[u]] = u THEN "closeCurStop" ELSE "release")
    /\ UNCHANGED sharedVars

CloseCurStop(u) ==
    /\ Step(u, "closeCurStop", "release")
    /\ CloseUnderLock(sh[u])
    /\ UNCHANGED sharedVars

HangUp(u) ==
    /\ Step(u, "release", AfterClose(u))
    /\ Release(sh[u])
    /\ UNCHANGED sharedVars

\* /exit also clears Active, whether or not a command still runs ...
ExitQuiet(u) == Step(u, "quiet", "reset") /\ SetActive(FALSE)

\* ... and resets the session; /project binds it instead.
Rebind(u) ==
    /\ \/ Finish(u, "reset", "reset") /\ session' = FreshSession
       \/ /\ Finish(u, "bind", "bound")
          /\ session' = [cwd |-> Path[req[u].project],
                         project |-> req[u].project]
    /\ UNCHANGED <<shellVars, runLock, shellMu, reg, active>>

ShutDown(u) ==
    /\ Finish(u, "shut", "shut")
    /\ UNCHANGED <<shellVars, sharedVars>>

\* A stop channel is closed twice.  The panic is recovered and the update
\* abandoned; in Close it leaves s.mu locked, because the unlock is not
\* deferred.
DoubleClose(u) ==
    /\ \/ Finish(u, "closeChannel", "panic") /\ chan[ch[u]] = "closed"
       \/ Finish(u, "closeCurStop", "panic")
            /\ chan[cur[sh[u]]] = "closed"
    /\ UNCHANGED <<shellVars, sharedVars>>

Close(u) ==
    \/ RefuseProject(u) \/ Detach(u) \/ CloseShell(u) \/ CloseCurStop(u)
    \/ HangUp(u) \/ ExitQuiet(u) \/ Rebind(u) \/ ShutDown(u)

-----------------------------------------------------------------------------
Process(s) == ShellStep(s) /\ UNCHANGED <<localVars, sharedVars>>

Handle(u) == Run(u) \/ StopOrInput(u) \/ Close(u) \/ DoubleClose(u)

\* Every update has been handled; nothing more need happen.
AllDone ==
    /\ \A u \in Updates : pc[u] = "done"
    /\ UNCHANGED vars

Next ==
    \/ \E u \in Updates : Receive(u) \/ Handle(u) \/ Process(u)
    \/ AllDone

Spec == Init /\ [][Next]_vars

\* The Go scheduler runs every goroutine that can run, and a deadline that has
\* passed stays passed until select picks it; the shell process owes nothing.
Fairness ==
    \A u \in Updates : WF_vars(Handle(u)) /\ SF_vars(Timeout(u))

FairSpec == Spec /\ Fairness

-----------------------------------------------------------------------------
(* Properties                                                               *)

Labels == {"idle", "lock", "open", "opening", "active", "install", "clear",
           "write", "wait", "check", "grace", "unstop", "uninstall", "result",
           "inactive", "unlock", "stop", "stopActive", "stopAlive", "flag",
           "channel", "select", "closeChannel", "ctrlC", "input", "inputAlive",
           "type", "detach", "close", "closeCurStop", "release", "quiet",
           "reset", "bind", "shut", "done"}

Answers == {"none", "busy", "denied", "noshell", "ok", "timeout",
            "interrupted", "failed", "nothing", "sent", "stopped", "refused",
            "reset", "bound", "shut", "panic"}

HandlerTypeOK ==
    /\ pc \in [Updates -> Labels]
    /\ req \in [Updates -> Request]
    /\ snap \in [Updates -> Session]
    /\ sh \in [Updates -> Updates \cup {None}]
    /\ ch \in [Updates -> Updates \cup {None}]
    /\ answer \in [Updates -> Answers]
    /\ runLock \in Updates \cup {None}
    /\ shellMu \in Updates \cup {None}
    /\ reg \in Updates \cup {None}
    /\ active \in BOOLEAN
    /\ session \in Session

\* The type of every variable but out, whose content ResultIsTrue is about.
TypeOK == ShellTypeOK /\ HandlerTypeOK

\* Where a command is while it holds the run lock, while ExecCommand has its
\* capture installed, and while its session is marked active.
ExecLabels   == {"clear", "write", "wait", "check", "grace", "unstop",
                 "uninstall"}
ActiveLabels == ExecLabels \cup {"install", "result", "inactive"}
RunLabels    == ActiveLabels \cup {"open", "opening", "active", "unlock"}

\* One command at a time: the run lock is held exactly by the update that is
\* between TryLock and Unlock, and whatever capture and stop channel a shell
\* has installed are those of this update's command, running on that shell.
\* So two messages never run against the same pty.
OneCommand ==
    /\ \A u \in Updates : pc[u] \in RunLabels <=> runLock = u
    /\ \A s \in Updates :
          cur[s] # None => /\ runLock = cur[s]
                           /\ pc[cur[s]] \in ExecLabels
                           /\ sh[cur[s]] = s

\* The Active flag that /status and /stop read is never left behind: it is set
\* only while the holder of the run lock is running its command.  (It may be
\* down while a command runs: ActiveWhileRunning.)
ActiveIsHeld == active => runLock # None /\ pc[runLock] \in ActiveLabels

\* What is reported of a command that finished holds no marker of another
\* command: at most its own trailer, so the session never follows a directory
\* that another command reported.  Unless the command's own frame came back as
\* text, by an echo or by a program that repeats its input, the trailer is
\* there, and the shell is through with the command.
ResultIsTrue ==
    \A u \in Updates :
        answer[u] = "ok" /\ pc[u] \in {"unstop", "uninstall", "result"} =>
            /\ out[u] = <<>> \/ \E d \in Dirs : out[u] = <<Trailer(u, d)>>
            /\ u \notin talked =>
                  /\ out[u] # <<>>
                  /\ \A s \in Updates : \A i \in 1..Len(input[s]) : input[s][i] # u

\* No shell process is lost: one that runs and is not closed is the session's
\* shell, or has been taken by a handler that is about to close it.
NoStrayShell ==
    \A s \in Updates :
        proc[s] = "up" /\ ~closed[s] =>
            s = reg \/ \E u \in Updates : pc[u] = "close" /\ sh[u] = s

\* /exit, /project and shutdown never close a shell twice, whatever the order
\* they run in.
ClosedOnce ==
    \A u, v \in Updates :
        LET closing == {"close", "closeCurStop", "release"}
        IN  /\ pc[u] \in closing /\ pc[v] \in closing /\ sh[u] = sh[v] => u = v
            /\ pc[u] = "close" => ~closed[sh[u]]

\* A stop flag that a running command polls has been raised since the command
\* cleared it, so it is not the leftover of a /stop that had ended by then: the
\* command's own stop channel has been closed, or a /stop about to close it is
\* still at work.  (That /stop may have been meant for the command before: it
\* looks at the Active flag first and stops whatever it finds afterwards.)
FlagHasItsStop ==
    \A u \in Updates :
        pc[u] \in {"write", "wait", "check"} /\ stopped[sh[u]] =>
            \/ chan[u] = "closed"
            \/ \E v \in Updates :
                  /\ sh[v] = sh[u]
                  /\ \/ pc[v] = "channel"
                     \/ pc[v] \in {"select", "closeChannel"} /\ ch[v] = u

\* The project a session is bound to is the one at its working directory.
SessionPaired == Paired(session)

\* A handler panicked inside Close, and has left the shell's mutex locked.
Abandoned(s) == mu[s] # None /\ pc[mu[s]] = "done"

\* Whatever a message asks for, its handler comes to an end, unless a handler
\* has panicked inside Close: then whoever needs that shell waits for ever.
UpdateEnds ==
    \A u \in Updates :
        pc[u] # "idle" ~> pc[u] = "done" \/ \E s \in Updates : Abandoned(s)

-----------------------------------------------------------------------------
(* What the repository says of this code, and the code does not do.         *)

\* "Close terminates the shell process and releases the pty": once the handler
\* that closes a shell is over, the shell is signalled and its pty closed.
CloseIsComplete ==
    \A s \in Updates :
        closed[s] => released[s] \/ \E u \in Updates :
                        pc[u] \in {"closeCurStop", "release"} /\ sh[u] = s

\* "Echo is not guaranteed to be off, so the marker trick has to survive a
\* shell that talks back": a command reported as finished is finished.
FinishedIsOver ==
    \A u \in Updates :
        answer[u] = "ok" /\ pc[u] \in {"unstop", "uninstall", "result"} =>
            \A s \in Updates : \A i \in 1..Len(input[s]) : input[s][i] # u

\* "a panic in update handling [is] a recorded, non-fatal event": it costs the
\* chat that one update, and every other handler still comes to an end.
EveryUpdateEnds == \A u \in Updates : pc[u] # "idle" ~> pc[u] = "done"

\* "/stop: Interrupt the running command".  In a chat with one command and one
\* /stop: once /stop has answered that it stopped the command, the command does
\* not go on waiting as if nothing had happened.
StopReaches ==
    \A u, v \in Updates :
        answer[v] = "stopped" /\ pc[u] \in {"wait", "check"} =>
            chan[u] = "closed" \/ stopped[sh[u]]

\* "/exit: Reset the session: close [...] the shell, and clear the project and
\* working directory": a command whose shell /exit has closed does not bring
\* them back once the session is reset.
ResetIsKept ==
    [][\A u, v \in Updates :
          /\ pc[u] = "result" /\ pc'[u] # "result" /\ closed[sh[u]]
          /\ answer[v] = "reset"
          => session' = session]_vars

\* "IsActive reports whether a command is currently running in the named
\* session": the flag is up while a command runs on a shell that is not closed.
ActiveWhileRunning ==
    \A u \in Updates : pc[u] \in ExecLabels /\ ~closed[sh[u]] => active
=============================================================================
