------------------------------ MODULE PtyShell ------------------------------
(***************************************************************************)
(* The persistent interactive shell of a chat (internal/terminal/shell.go):*)
(* the Shell object, its mutex, its per-command capture and stop channel,  *)
(* and the shell process behind the pseudo-terminal.                       *)
(*                                                                         *)
(* The module is a library of actions: each one is a step some goroutine   *)
(* takes on shell s, and says nothing of the goroutine itself.  Gateway    *)
(* composes them with the handlers that call them.                         *)
(*                                                                         *)
(* Every update opens at most one shell and runs at most one command, so   *)
(* a shell is named by the update that opened it, and a stop channel and   *)
(* a capture buffer by the update whose command they were made for.        *)
(***************************************************************************)
EXTENDS Naturals, Sequences, FiniteSetsExt

CONSTANTS
    Updates,    \* the updates Telegram delivers, one goroutine each
    Dirs,       \* the absolute directories a shell can be in
    None,       \* nil: no shell, no channel, no lock holder, no project
    Habits      \* what the programs run in the shells may do besides ending

ASSUME NoneAssumption == None \notin Updates \cup Dirs

VARIABLES
    proc,       \* the shell process of s: "none", "up" or "exited"
    closed,     \* Shell.closed
    released,   \* Close has signalled the process and closed the pty master
    mu,         \* who holds Shell.mu across steps, or None
    cur,        \* the command whose capture and curStop are installed, or None
    stopped,    \* Shell.stopped
    chan,       \* the stop channel of a command: "none", "open" or "closed"
    input,      \* the frames written to the pty and not yet executed, in order
    stage,      \* how far the first of them has got: "idle", "body", "tail"
    dir,        \* the working directory of the shell process
    capture,    \* the markers in the capture buffer of a command
    echo,       \* the terminal echoes what is written to it
    talked      \* history: the commands whose frame has come back as output

shellVars == <<proc, closed, released, mu, cur, stopped, chan, input, stage,
               dir, capture, echo, talked>>

\* A terminal that neither starts nor stops to echo, and echoes nothing.
Silent == UNCHANGED <<echo, talked>>

-----------------------------------------------------------------------------
(* The bytes that matter in a shell's output are the three markers of a     *)
(* command's frame: its start token, its TLM_RC/TLM_PWD trailer, which      *)
(* reports the directory the shell is in, and its end token.  A frame that  *)
(* comes back as text shows its start and its end token; the trailer it asks*)
(* for stands in the middle of a line there, and is not one.                *)

Start(u)      == [mark |-> "start", of |-> u]
Trailer(u, d) == [mark |-> "trailer", of |-> u, pwd |-> d]
End(u)        == [mark |-> "end", of |-> u]

Token == {Start(u) : u \in Updates} \cup {End(u) : u \in Updates}
           \cup {Trailer(u, d) : u \in Updates, d \in Dirs}

IsTrailer(t) == t.mark = "trailer"

\* The positions of the marker t in the output data.
At(data, t) == {i \in 1..Len(data) : data[i] = t}

\* A plausible error: everything before the end token is taken for the output.
SliceFromStart(data, u) == SubSeq(data, 1, Max(At(data, End(u))) - 1)

\* sliceFrame: what lies between the last end token of u and the last start
\* token of u before it; the whole of what precedes the end token when the
\* start token has been pushed out of the buffer.
SliceFrame(data, u) ==
    LET ends   == At(data, End(u))
        starts == {i \in At(data, Start(u)) : \E j \in ends : i < j}
    IN  SubSeq(data, IF starts = {} THEN 1 ELSE Max(starts) + 1,
                     Max(ends) - 1)

\* cmdFinished: the end token of u has reached its capture.
Finished(u) == At(capture[u], End(u)) # {}

\* ParsePWD scans backwards: the last trailer of the output is the one believed.
Trailers(data) == {i \in 1..Len(data) : IsTrailer(data[i])}
ParsePWD(data) ==
    IF Trailers(data) = {} THEN None ELSE data[Max(Trailers(data))].pwd

-----------------------------------------------------------------------------
ShellInit ==
    /\ proc = [s \in Updates |-> "none"]
    /\ closed = [s \in Updates |-> FALSE]
    /\ released = [s \in Updates |-> FALSE]
    /\ mu = [s \in Updates |-> None]
    /\ cur = [s \in Updates |-> None]
    /\ stopped = [s \in Updates |-> FALSE]
    /\ chan = [u \in Updates |-> "none"]
    /\ input = [s \in Updates |-> <<>>]
    /\ stage = [s \in Updates |-> "idle"]
    /\ dir = [s \in Updates |-> CHOOSE d \in Dirs : TRUE]
    /\ capture = [u \in Updates |-> <<>>]
    /\ echo = [s \in Updates |-> FALSE]
    /\ talked = {}

IsAlive(s) == ~closed[s] /\ proc[s] = "up"

\* Shell.mu is free: nobody is inside Close's critical section on s.
Unlocked(s) == mu[s] = None

\* A shell whose probe has found the echo to be off, started in d.
OpenShell(s, d) ==
    /\ proc[s] = "none"
    /\ proc' = [proc EXCEPT ![s] = "up"]
    /\ dir' = [dir EXCEPT ![s] = d]
    /\ UNCHANGED <<closed, released, mu, cur, stopped, chan, input, stage,
                   capture>>
    /\ Silent

-----------------------------------------------------------------------------
(* ExecCommand, for the command of update u on shell s.                     *)

\* The capture and the stop channel are installed in one critical section.
Install(u, s) ==
    /\ Unlocked(s)
    /\ cur' = [cur EXCEPT ![s] = u]
    /\ chan' = [chan EXCEPT ![u] = "open"]
    /\ capture' = [capture EXCEPT ![u] = <<>>]
    /\ UNCHANGED <<proc, closed, released, mu, stopped, input, stage, dir>>
    /\ Silent

\* s.stopped.Store(v): atomic, and outside s.mu.
SetStopped(s, v) ==
    /\ stopped' = [stopped EXCEPT ![s] = v]
    /\ UNCHANGED <<proc, closed, released, mu, cur, chan, input, stage, dir,
                   capture>>
    /\ Silent

\* What the master of the pty reads goes to the capture installed then, if any.
Pump(s, t) ==
    capture' = IF cur[s] = None THEN capture
               ELSE [capture EXCEPT ![cur[s]] = Append(@, t)]

\* The frame of u comes back as output: its text, with both its tokens.
TalkBack(u, s) ==
    /\ capture' = IF cur[s] = None THEN capture
                  ELSE [capture EXCEPT ![cur[s]] =
                           Append(Append(@, Start(u)), End(u))]
    /\ talked' = talked \cup {u}

\* Write of u's frame on a shell that is not closed.  A pty whose process has
\* exited may still take the bytes, and nobody reads them.  A terminal that
\* echoes repeats the frame at once.
WriteFrame(u, s) ==
    /\ Unlocked(s)
    /\ ~closed[s]
    /\ input' = [input EXCEPT ![s] = IF proc[s] = "up" THEN Append(@, u) ELSE @]
    /\ IF echo[s] /\ proc[s] = "up" THEN TalkBack(u, s)
                                   ELSE UNCHANGED <<capture, talked>>
    /\ UNCHANGED <<proc, closed, released, mu, cur, stopped, chan, stage, dir,
                   echo>>

\* The deferred clean-up drops whatever is installed; u's capture is lost.
Uninstall(u, s) ==
    /\ Unlocked(s)
    /\ cur' = [cur EXCEPT ![s] = None]
    /\ capture' = [capture EXCEPT ![u] = <<>>]
    /\ UNCHANGED <<proc, closed, released, mu, stopped, chan, input, stage,
                   dir>>
    /\ Silent

\* Ctrl-C is written to the pty (Write refuses on a closed shell).  What the
\* terminal does with it is its own business: the foreground frame dies, with
\* the directory changed or not, or ignores the signal, and input the shell
\* has not read yet may be flushed.
Interrupt(s) ==
    /\ Unlocked(s)
    /\ \E n \in IF IsAlive(s) THEN 0..Len(input[s]) ELSE {Len(input[s])} :
          /\ input' = [input EXCEPT ![s] = SubSeq(@, 1, n)]
          /\ stage' = [stage EXCEPT ![s] = IF n = 0 THEN "idle" ELSE @]
    /\ \E d \in IF IsAlive(s) /\ stage[s] = "body" THEN Dirs ELSE {dir[s]} :
          dir' = [dir EXCEPT ![s] = d]
    /\ UNCHANGED <<proc, closed, released, mu, cur, stopped, chan, capture>>
    /\ Silent

\* A line of input is read by the running command, or run by an idle shell,
\* which it may leave in any directory, and its terminal echoing or not.
TypeLine(s) ==
    /\ Unlocked(s)
    /\ IF IsAlive(s) /\ stage[s] = "idle"
       THEN /\ \E d \in Dirs : dir' = [dir EXCEPT ![s] = d]
            /\ \E b \in IF "echo" \in Habits THEN BOOLEAN ELSE {echo[s]} :
                  echo' = [echo EXCEPT ![s] = b]
       ELSE UNCHANGED <<dir, echo>>
    /\ UNCHANGED <<proc, closed, released, mu, cur, stopped, chan, input, stage,
                   capture, talked>>

-----------------------------------------------------------------------------
(* Stop and Close.  Both test the stop channel and then close it; only      *)
(* Close does so inside s.mu, and a second close of a channel panics.       *)

CloseChannel(c) ==
    /\ chan[c] = "open"
    /\ chan' = [chan EXCEPT ![c] = "closed"]
    /\ UNCHANGED <<proc, closed, released, mu, cur, stopped, input, stage, dir,
                   capture>>
    /\ Silent

\* Close, first part, by u: mark the shell closed; if a command is running and
\* its channel is not closed yet, go on holding s.mu to close it.
MarkClosed(u, s) ==
    /\ Unlocked(s)
    /\ ~closed[s]
    /\ closed' = [closed EXCEPT ![s] = TRUE]
    /\ mu' = [mu EXCEPT ![s] =
                IF cur[s] # None /\ chan[cur[s]] = "open" THEN u ELSE None]
    /\ UNCHANGED <<proc, released, cur, stopped, chan, input, stage, dir,
                   capture>>
    /\ Silent

\* Close, second part: close the channel and leave the critical section.
CloseUnderLock(s) ==
    /\ chan[cur[s]] = "open"
    /\ chan' = [chan EXCEPT ![cur[s]] = "closed"]
    /\ mu' = [mu EXCEPT ![s] = None]
    /\ UNCHANGED <<proc, closed, released, cur, stopped, input, stage, dir,
                   capture>>
    /\ Silent

\* Close, last part: SIGINT and hang-up.  (The SIGKILL armed for half a second
\* later asks IsAlive first, which is false of a closed shell: it never comes.)
Release(s) ==
    /\ released' = [released EXCEPT ![s] = TRUE]
    /\ UNCHANGED <<proc, closed, mu, cur, stopped, chan, input, stage, dir,
                   capture>>
    /\ Silent

-----------------------------------------------------------------------------
(* The shell process.  It reads one frame at a time and prints its markers. *)

BeginFrame(s) ==
    /\ proc[s] = "up" /\ stage[s] = "idle" /\ input[s] # <<>>
    /\ stage' = [stage EXCEPT ![s] = "body"]
    /\ Pump(s, Start(Head(input[s])))
    /\ UNCHANGED <<proc, closed, released, mu, cur, stopped, chan, input, dir>>
    /\ Silent

\* The command ends, having changed the directory or not, and the trailer
\* reports where the shell is now.
EndBody(s) ==
    /\ proc[s] = "up" /\ stage[s] = "body"
    /\ stage' = [stage EXCEPT ![s] = "tail"]
    /\ \E d \in Dirs :
          /\ dir' = [dir EXCEPT ![s] = d]
          /\ Pump(s, Trailer(Head(input[s]), d))
    /\ UNCHANGED <<proc, closed, released, mu, cur, stopped, chan, input>>
    /\ Silent

EndFrame(s) ==
    /\ proc[s] = "up" /\ stage[s] = "tail"
    /\ stage' = [stage EXCEPT ![s] = "idle"]
    /\ input' = [input EXCEPT ![s] = Tail(@)]
    /\ Pump(s, End(Head(input[s])))
    /\ UNCHANGED <<proc, closed, released, mu, cur, stopped, chan, dir>>
    /\ Silent

\* The program in the foreground turns the echo of the terminal on or off, and
\* may leave it so.
SetEcho(s) ==
    /\ "echo" \in Habits
    /\ proc[s] = "up" /\ stage[s] = "body"
    /\ echo' = [echo EXCEPT ![s] = ~@]
    /\ UNCHANGED <<proc, closed, released, mu, cur, stopped, chan, input,
                   stage, dir, capture, talked>>

\* The input of a shell without its second frame.
WithoutSecond(q) == [i \in 1..Len(q) - 1 |-> IF i = 1 THEN q[1] ELSE q[i + 1]]

\* A program that an earlier command has left in the foreground reads the next
\* frame before the shell does: it swallows it, or repeats it.
ReadFrame(s) ==
    /\ "read" \in Habits
    /\ proc[s] = "up" /\ stage[s] = "body" /\ Len(input[s]) > 1
    /\ input' = [input EXCEPT ![s] = WithoutSecond(@)]
    /\ \/ TalkBack(input[s][2], s)
       \/ UNCHANGED <<capture, talked>>
    /\ UNCHANGED <<proc, closed, released, mu, cur, stopped, chan, stage, dir,
                   echo>>

\* A command that outgrows the capture pushes its oldest content out.
Overflow(s) ==
    /\ "overflow" \in Habits
    /\ proc[s] = "up" /\ stage[s] = "body" /\ cur[s] # None
    /\ capture[cur[s]] # <<>>
    /\ capture' = [capture EXCEPT ![cur[s]] = Tail(@)]
    /\ UNCHANGED <<proc, closed, released, mu, cur, stopped, chan, input,
                   stage, dir>>
    /\ Silent

\* The process ends: told to, hung up on, or killed.
Exit(s) ==
    /\ "exit" \in Habits
    /\ proc[s] = "up"
    /\ proc' = [proc EXCEPT ![s] = "exited"]
    /\ input' = [input EXCEPT ![s] = <<>>]
    /\ stage' = [stage EXCEPT ![s] = "idle"]
    /\ UNCHANGED <<closed, released, mu, cur, stopped, chan, dir, capture>>
    /\ Silent

ShellStep(s) ==
    \/ BeginFrame(s) \/ EndBody(s) \/ EndFrame(s) \/ SetEcho(s)
    \/ ReadFrame(s) \/ Overflow(s) \/ Exit(s)

-----------------------------------------------------------------------------
ShellTypeOK ==
    /\ proc \in [Updates -> {"none", "up", "exited"}]
    /\ closed \in [Updates -> BOOLEAN]
    /\ released \in [Updates -> BOOLEAN]
    /\ mu \in [Updates -> Updates \cup {None}]
    /\ cur \in [Updates -> Updates \cup {None}]
    /\ stopped \in [Updates -> BOOLEAN]
    /\ chan \in [Updates -> {"none", "open", "closed"}]
    /\ input \in [Updates -> Seq(Updates)]
    /\ stage \in [Updates -> {"idle", "body", "tail"}]
    /\ dir \in [Updates -> Dirs]
    /\ capture \in [Updates -> Seq(Token)]
    /\ echo \in [Updates -> BOOLEAN]
    /\ talked \subseteq Updates
=============================================================================
