# termilink in TLA+

termilink is a Telegram bot that gives the members of an allow-list a persistent
shell on the machine it runs on, delivers files, and can host an interactive agent
program whose screen it relays into the chat. It runs as one process, usually as a
service of systemd or launchd, and keeps its sessions and an audit log in files. This
directory holds TLA+ models of it, the TLC configurations that check them on small
instances, and proofs checked by TLAPS. Every definition is a translation of code under
`src/`; `PROJECT.json` ("map") gives the lines of each.

## The system

### Components

| Component | State it keeps | Operations | Model |
| --- | --- | --- | --- |
| Update dispatch and chat commands (`internal/telegram/handler.go`) | `Handler.shells`, one run lock per session, `shellMu` | a message routed to `runCommand`, `/stop`, `/input`, `/project`, `/exit`; `Handler.Close` | `Gateway` |
| Persistent shell (`internal/terminal/shell.go`, `runner.go`) | `closed`, `capture`, `curStop`, `stopped`, the pty and its process | `OpenShell`, `ExecCommand`, `Write`, `Stop`, `Close`, `pump`, `markDone` | `PtyShell` |
| Session state (`internal/session/manager.go`) | per chat `Cwd`, `Project`, `LastCmd`, `Active`; a JSON file | `Ensure`, `Mutate`, `SetActive`, `load`, `saveLocked` | `StateFile`, which implements `SessionStore`; one chat's in `Gateway` |
| Approvals (`handler.go`, `files.go`) | `pending`, `filesPending`, temporary archives | leave, look, take, put back, approve, reject, expire | `Approvals` |
| File delivery (`files.go`, `bigfile_link.go`) | temporary archives | `deliverFile`, upload | `Approvals` (the archive of a big file) |
| Agent sessions (`internal/telegram/agent.go`) | `Handler.agents`, `agentRun` | start, input, stop, relay, exit announcement, live message, history reader | `AgentRun`, `AgentView` |
| Agent host (`internal/agent/host.go`) | `closed`, `done`, the pty | `Start`, `Write`, `Close`, `markDone`, `pump`, `Sniff`, `ViewRows` | `AgentRun`, `AgentView` |
| Agent screen (`internal/agent/screen.go`) | two buffers, cursor, parser, scrollback | `Feed`, `viewRows`, `persistScroll` | `TermScreen` |
| Scrollback reader (`agent.go`) | `histEnd`, `histMsgID` | `/agent history`, `up`, `down`, `top`, `bottom`, `off` | `AgentView` |
| Instance lock (`internal/instance`) | a PID file | `Acquire`, `release` | `InstanceLock` |
| Gateway process (`cmd/termilink/cli/start.go`, `internal/service`) | none of its own | `New`, `Run`, the last save, the release | `GatewayProcess` |
| Audit log (`internal/audit/audit.go`) | a JSONL file and its archives | open, append, rotate, trim, shift, reopen | `AuditLog`, which implements `AuditTrail` |
| Service installation (`cmd/termilink/cli/service*.go`) | the binary, the definition, what the supervisor has loaded | install, uninstall, roll back | `ServiceInstall` |
| Service PATH and bot token (`internal/servicedef/path.go`, `internal/config`) | none after start-up | `ResolvePath`, `resolveToken`, `loadDotEnv` | `JobEnvironment` |
| Security policy (`internal/security`) | none | `NeedsApproval`, authorisation | as outcomes in `Gateway` and `Approvals` |
| Document uploads, screen renderer, key tables, session id lookup, formatting, scaffolding, CLI output | none that outlives a call | | not modelled, see the end |

### How the parts interact

The Telegram library starts **one goroutine per update**; `Callback` recovers the panics
of each. Two messages of one chat therefore run concurrently, and meet in these places:

* the **run lock** of the session (`TryLock`), which admits one command;
* `Handler.shells` under `shellMu`: `getShell` opens a shell while holding it,
  `closeShellFor` takes one out and closes it after letting go;
* the **shell object**: `ExecCommand` installs a capture buffer and a stop channel under
  `s.mu`, `pump` appends what the process prints to whatever capture is installed, `Stop`
  and `Close` reach for the stop channel, the `stopped` flag is an atomic outside the mutex;
* `pending` and `filesPending`, each read and written in separate critical sections;
* `agentRun` and the agent's screen, shared by the pump of the pty, the relay and every
  reader command, each under a mutex that is let go between two steps.

A command's output and the directory it ended in come back through the pty, between
markers the shell prints; the directory becomes the session's `Cwd`, and the project
configured at that directory, if any, its `Project`. An agent has a pty and a relay
goroutine of its own, and its end may be noticed by four parties at once.

Around the handlers is the process: it takes the instance lock, loads the sessions, serves,
saves when it is told to stop, and gives the lock back. What one process leaves to the next
is in files only: the lock, the sessions, the audit log, the installed binary and definition.

### What is hard

Races between `/stop`, `/exit`, `/project`, shutdown and a running command; output of a
command that timed out arriving during the next; results recorded after the state they
belong to was reset; a stop that comes too late; the panics and early returns that must
still release the run lock; approvals answered twice; a temporary archive removed while
it is sent; an agent whose end is announced twice or not at all; a scrollback fed by a
screen that is redrawn under it; two gateways at once, and a lock left behind by a crash;
a session file or an audit log cut in the middle of a change; an installation that fails
half-way. `PROJECT.json` ("hazards") lists them with their lines, and the properties that
cover each.

## The modules

Four systems, each checked by itself because they share no state that any property relates:
the chat (`PtyShell` and `Gateway`; `Approvals`), the agent (`AgentRun`; `TermScreen` and
`AgentView`), the process and its files (`InstanceLock` and `StateFile` composed into
`GatewayProcess`; `AuditLog`), the installation (`JobEnvironment` and `ServiceInstall`).
`MC…` modules instantiate them for TLC, `…Proofs` hold the proofs, and `DataLemmas` what
they need about numbers, sequences and loops. A
definition commented "a plausible error" is used by no specification: it is what a mutant
named in `PROJECT.json` puts in place of its neighbour, to show that a property would notice.

### `PtyShell`: the shell object and its process

A library of actions on shell `s`. `mu` names the goroutine inside `Close`'s critical
section where that section spans steps; the other critical sections are single steps,
guarded by `Unlocked`. The process reads the frames written to it one at a time
(`input`) and prints a start marker, a `TLM_PWD` trailer and an end marker (`BeginFrame`,
`EndBody`, `EndFrame`); the capture buffer holds only these. `Overflow` drops the oldest
marker (the ring buffer); `SliceFrame`, `Finished`, `ParsePWD` are the parsers of the
code over marker sequences. `Interrupt` is Ctrl-C: what the terminal flushes and what the
foreground command does about it are choices. `Exit` ends the process at any time.

The frame holds both of its markers as text, so it can come back: a terminal whose echo is on
repeats it as it is written (`WriteFrame`, `echo`), and a program left in the foreground by a
command that timed out may read the next frame in place of the shell, and swallow or repeat it
(`ReadFrame`). What comes back (`TalkBack`) shows the start and the end marker; the trailer
stands in the middle of a line there and is not taken for one. `talked` remembers whose frame
has. A program turns the echo on or off at any time, and leaves it as it likes (`SetEcho`,
`EndBody`). `Habits` says which of these, of the overflow and of the exit a run considers.

The SIGKILL that `Close` arms for half a second later asks `IsAlive` first, which is false
of a closed shell; it never fires, so there is no action for it.

### `Gateway`: one chat session

One program counter per update. `Receive` draws what the update asks for from `Menu[u]`
and takes the copy `st` of the session that `handle` takes. The labels between `lock` and
`unlock` are `runCommand` with `ExecCommand` inlined; `stop…`/`input…` are `handleStop`
and `handleInput`; `detach` to `shut` are `closeShellFor` and what `/exit`, `/project` and
`Handler.Close` do after it. `DoubleClose` is the panic of closing a closed channel: the
update is abandoned (`recoverUpdate`), and inside `Close` the mutex stays locked.

One chat is enough because everything the handler keeps is keyed by the chat, except
`shellMu`, which only makes chats wait for one another. What is abstracted: command texts
(a request only says who sends it and whether it is a worker's `cd`), `LastCmd`, the
aliases, and whether a shell starts (one step that succeeds or fails while `shellMu` is
held). Session states found at start-up (`Saved`) are `Paired`: the state file was written
under the configuration in force. The part of `/exit` that ends an agent is `AgentRun`'s;
the read-only commands have no action.

### `Approvals`: requests that wait for an answer

One program counter per message, one step per critical section: look, take, judge, put
back, ask. A request is named by the message that made it; `verdicts` records what was
decided and by which message (the audit entries), `archive` the temporary files on disk.
`Expire` may happen to any request at any time. The upload is one interval that ends well
or badly; the execution of an approved command is `Gateway`'s. Requests that wait when the
gateway stops are lost with it, since they are in memory only.

### `AgentRun`: the life of an agent

Two goroutines meet on a run: the handler of a message and the relay. Both are members of
`Goroutines`, with one `pc`, so that `agentCleanup` (`Remove`, `Claim`),
`captureAgentExitScreen` (`Capture`) and `announceAgentExit` (`Tell`) are one action each,
taken by either. A run is named by the message that started it. `held` is the `*agentRun`
pointer a goroutine works on, whatever has become of the map since; `replaced` (a history
variable) the runs a later start has pushed out of the map; `told` how the chat learnt of the
end, from whom, and with which screen. The host is the process, `closed` and `done`; an
agent that is interrupted may redraw (`torn`) before it exits. The kill armed by `Close` asks
`IsAlive` and never fires, as for the shell. The session-id line that follows an
announcement is left out.

`up` is the gateway's process. When `Handler.Close` has returned, `Run` and `start` return too
and wait for nobody, so the process may end at any moment from then on (`EndProcess`) and takes
every handler and relay with it, wherever they are.

### `TermScreen`: what the terminal output does to a screen

Operators, no variables. A screen is a record of both buffers, the parser's state, the
scrollback and the last frame; `Feed(s, chunk)` folds the bytes of one read over it. A row
is a sequence as long as what was written into it, as in the code. `csi` has one case per
final byte; a change that the code makes without raising `s.dirty` goes through `Unseen`.
`persistScroll` is the match of the new frame with the last one and the append of what has
scrolled off; `viewRows` the scrollback followed by the screen. `dead` is an index out of
range: `pump` has no recover, so the process ends. Left out: colours (SGR changes no rune
and no flag any other sequence depends on), and UTF-8 beyond two bytes.

### `AgentView`: the live message and the scrollback reader

Three parties share the screen: the pump (`Pump`), the relay (`Tick` to `Store`) and each
reader command (`Ask` to `KeepMessage`). A step is one critical section or one call to
Telegram. `msgID` is the message a frame edits, 0 when the next one must be a new message;
`resetTurn` clears it on every prompt, between any two steps of the relay. `live` numbers
the messages the relay has created and can edit. `Ask` counts the lines, `ReadPosition`,
`SetPosition` and `ReadBounds` are the critical sections in which the reader reads and moves
`histEnd`, and `ReadRows` reads the lines of a later moment. `Failures` says which steps may
fail: the renderer by an error or a panic, the photo, the markdown, the reader's message.
The run starts and ends in `AgentRun`; here `Claim` is whoever finalises it. `MCAgentTurns`
adds a history of the turn each message was made in, for one question only (`turn_message`).

### `Processes`, `InstanceLock`, `StateFile`, `SessionStore`, `GatewayProcess`

`Processes` declares the pids; a process is known by its own. `InstanceLock` has `Acquire` and
`release` one system call at a time. `lockFile` says who created the file and whether the pid is
in it yet; a process may end anywhere (`Ends`), and its pid may go to another program
(`foreign`) or to a new gateway. Nothing in the code keeps two starts apart, and nothing does in
the model. Two that meet in `Acquire` may both go on, so what the lock promises it promises
until then: `overlapped` is a history variable that says whether they have met.

`StateFile` has the sessions of every process (`memory`), one file, and `saveLocked` in two
steps, since `os.WriteFile` empties the file before it writes it: between `Truncate` and
`WriteState` the file is `Torn`, and `load` takes a torn file for an empty list. Each step
may fail (`Disturbed`): in the preparation, in the write, or in the `chmod` after a write
that was complete. `m.mu` is one process's: two that have sessions write the one file with no
regard for each other. `crossed` remembers whose file another has written meanwhile; a list
written over another's may leave a torn file (`Over`). Handlers go on changing and saving the
sessions after `Run` has stopped polling, and after its last save, until the process ends.

`SessionStore` is the promise: a start has what was last saved, and sessions are lost in two
ways only: by a save that does not come to its end (`Spoil`), and by two gateways that save at
the same time. `StateFile!Store` maps to it: what a start would find is what `load` makes of
the file.

`GatewayProcess` composes the two as `start.go` does: `New` loads once the lock is held,
`Work` is the handlers and the end of `Run`, `Shutdown` the deferred release, `Gone` the end
of the process anywhere. A process that has given the lock back is still there until `Gone`, so
the next gateway may have loaded the sessions while handlers of the old one are at work.

### `AuditLog`, `AuditTrail`

An entry is its number and a file the set of its entries. `Audit` runs under `Logger.mu`,
so its steps are those of one caller: `AuditPlain`, `AuditFull` or `AuditCloseFails`, the
loop of the trimming, the loop of the shift (`index` is its variable), `RenameCurrent`,
`Reopen`, `WriteEntry`. They are separate because the process may die between any two
(`EndLog`) and most may fail (`Faults`). A start may bring another retention count (`Keeps`),
lowered or raised by any amount. `found` and `sound` are the history of a rotation: what was on
the disk when it began, and whether it has met neither a missing archive below an existing one
(`Holed`) nor a failure. `AuditTrail` is the promise to a reader whatever fails: the trail grows
at its new end only, and what it loses at a time is one stretch that leaves a newer entry. That
the stretch is the oldest is true of sound rotations (`OldestGoFirst`). The log is kept out of
`GatewayProcess`: it shares nothing with the sessions but the death of the process, and no property relates the two.

### `JobEnvironment`, `ServiceInstall`

`JobEnvironment` is pure: `ResolvePath` and what it calls, over entries that are a directory
and a way of writing it (clean, trailing slash, `~`, a `~` in the middle, relative), and
`resolveToken` after `loadDotEnv`. A command reads the configuration it is given by `--config`,
or the default one, each with a `.env` beside it; the job has no `--config` and no token in its
environment, and reads the default one (`UnderService`). `SoundPath` says what the PATH of a job
should be, `PortableToken` what holds of a token found in the default configuration.

`ServiceInstall` is `install` and `uninstall` step by step, with `at` as the program counter
of the command, every step failing or interrupted, and the supervisor beside it: `JobFails`,
`JobRestarts`, `JobStopped`, `Login`. An install is known by its number, which is also the
version of the binary and definition it writes; `runs` says which the process was started
from. The supervisor is external: its actions are what the generated definitions ask of it.
What the code ignores the error of may fail: after a start that failed the unit may stay enabled
(`DisableBroken`) and the definition may stay on disk (`Discard`).
A `--path` override is taken verbatim by the code and has no action; `--dry-run`, `render`
and `status` write nothing.

## What the runs check

Every action and disjunct of the next-state relations is taken by the passing runs, and each
property is violated by a small change of the code within the bounds of its run
(`PROJECT.json`, "mutants").

* `commands` (882 thousand states). `u1` and `u2` are commands, `u3` a `/stop`, an `/exit`, a
  line of input or a Ctrl-C: every interleaving of these with each other and with a shell that
  may exit, overflow the capture, or lose a frame to the program in its foreground. One directory
  and no project, since nothing these properties say depends on where a command ends.
  `OneCommand`: one command at a time, and the installed capture and stop channel are its own.
  `ActiveIsHeld`: the `Active` flag is never left behind. `NoStrayShell`: no shell is lost.
  `FlagHasItsStop`: a stop flag that a command polls was raised since that command cleared it,
  by a `/stop` that closes its channel as well. It does not say that the `/stop` was meant for
  this command, and need not have been: `/stop` looks at the `Active` flag first and stops
  whatever runs afterwards. Three updates are the fewest in which a third party meets two
  commands.
* `context` (404 thousand states). One command of an owner or worker and one update of any kind,
  a second command included, with two directories and a project at one of them, on a shell with
  every habit: its terminal may echo, and what an earlier command left in the foreground may
  read, repeat or swallow the next frame. `ResultIsTrue`: what is reported of a finished command
  holds no marker of another one; and unless its own frame has come back as text, its trailer is
  there and the shell is through with it. `SessionPaired`: the project is the one at the working
  directory.
* `closers` (82 thousand states, safety and liveness). A command, an `/exit`, and a `/stop` or the
  shutdown, on a shell that may exit. `ClosedOnce`: a shell is not closed twice by closers that
  meet. `UpdateEnds`: every handler comes to an end, unless one of them has panicked inside
  `Close` (`Abandoned`). The menu is the smallest in which that happens and somebody is left to
  wait: a command, a `/stop`, and an `/exit` that close the same channel. One shutdown instead of
  the `/stop` makes two closers.
* `approvals` (safety and liveness). Two requests and two answers, who says what being a
  choice, with expiry at any moment. `OneVerdict`: a request is decided once.
  `UploadHasArchive`: nobody removes the archive that is being uploaded.
  `AnsweredArchiveGoes`: the archive of an answered request does not stay.
* `agents` (85 thousand states, safety and liveness). An agent is started; a second prompt, which
  may start another, or write to the first and fail, or a `/agent stop` comes at any moment of
  its life and of its relay's; the gateway may shut down and its process end anywhere after;
  the agent may exit by itself. `OneAnnouncement`: an end is told once. `EndIsTold`: it is told,
  with the last screen or as a prompt that could not be written, unless the gateway goes first.
  `ScreenIsSession`: with the session's screen and not what it drew on being interrupted.
  `NewerRunStays`: a teardown takes its own run out of the map and no other. Three messages are
  two runs and what comes between them; `/exit` ends an agent by the same steps as `/agent stop`.
* `view` (592 thousand states). Three inputs, each one of 24 reads of the pty, a prompt or a
  reader command, in every interleaving with the relay and its failures. The reads use every
  sequence the screen knows, some cut in two. `ScrollbackOnce`: the scrollback has no line
  twice, knows those it has, and respects its cap. `NothingSeenIsForgotten`: a line that the
  relay has sniffed is in the scrollback or in the last frame it compares with, until the
  scrollback is full; that a reader sees it is another matter (`view_gap`).
  `NewestIsEdited`: of the messages the relay can edit, it edits the newest; which turn that
  belongs to is another matter, too (`turn_message`). `ScrollSkipsNothing`: a step of the reader
  stays within the counted lines and overlaps the window before it. `ViewTypeOK` says that no row
  grows past the screen and no cursor leaves it. A screen of 2×3 (40×100 in the code) is the
  smallest in which a row can be written, wrapped, tabbed over and shifted, and a read can
  scroll more than once; with a cap of 2 lines (2000) and lines of 1 rune or more recorded (3)
  the cap is reached; a page of 2 with an overlap of 1 is the smallest with a step. One reader
  at a time, to keep the run small: the properties are proved for any number of readers, who
  move the position together, as the two buttons of one owner do.
* `process` (722 thousand states). Two pids, one session with two states, saves that fail in each
  of the three ways. `OneGateway`: until two starts meet, one process has the lock and the file
  names it. `RefusedForAnother`: until then a lock left by a crash refuses nobody.
  `SessionsGuarded`: the sessions are the holder's from the time it loads them until `Run` has
  saved them for the last time. `FileIsMemory`: between two saves the file has what the memory
  has, unless another process has written it. `SessionsKept`: the refinement of `SessionStore`,
  also when gateways meet. A pid may be used again, so two are enough for a dead owner, the
  gateway that takes over, one that comes while another runs, and one that outlives its lock;
  sessions are saved together, so one is as good as many.
* `audit` (683 thousand states). Ten entries, a rotation every other one, retention 1, 2 or 3 anew
  at each start, a death anywhere, and closes, removes, renames, reopenings and writes that fail.
  `OrderKept`: a higher archive is older. `NewestOnDisk`: an entry is in the file when `Audit`
  returns, the one that rotated included, unless a call failed. `DiskBounded`: a rotation that
  meets no gap and no failure leaves nothing beyond the count, however far it was lowered.
  `OldestGoFirst`: what such a rotation loses is older than all it keeps. `TrailKept`: the
  refinement of `AuditTrail`, whatever fails. Ten entries fill three archives, lower the count by
  two behind a gap, and rotate again.
* `install` (59 thousand states). Two installs and any number of uninstalls under systemd and
  under launchd; eight pairs of captured PATHs, in which either PATH is adequate, both together
  are, or nothing is; every place of two tokens. `BinaryIsWhole`, `VerdictKept`: what is reported
  stays true whatever fails and whoever logs in; of an installation that would not start, what
  may be left is the definition just written, whole. `InstallTakesEffect`: a success means that
  the new binary and definition run. `PathIsSound`, `TokenIsPortable`: what the job is given; the
  second for installs from the default configuration. Two installs, because a failed one
  matters over one that worked; 2 base directories and a minimum of 3 entries for the 4 and 6
  of the code, so that a PATH can be too short, long enough with or without the base, or long
  enough by its repetitions only.
* `close_race`, `requests_race`, `lock_race`: one property each, stating what a text of the
  repository says, and violated; see below.

**Deadlock** is checked in `context`, `approvals`, `agents` and `requests_race`. In `commands`
and `closers` it is not, because a panic inside `Close` leaves `s.mu` locked, and every goroutine
that needs it really does wait for ever; what `UpdateEnds` says excepts exactly that. Two updates
cannot bring the panic about, so in `context` nobody may wait. The other runs do without the
check because their inputs are bounded and everything in them may really stop: a process that
ended and is not started again, an audit log without a further entry, a service that is installed.

**Fairness.** In `Gateway`, every step of a handler is weakly fair: the Go scheduler runs what
can run, every lock is held for a bounded time, and `time.After` and tickers fire. `Timeout` is
strongly fair: once the deadline has passed its channel stays ready, and Go's `select`
chooses at random among ready cases, so it cannot be passed over for ever by the tick it
competes with. The shell process gets no fairness at all: a command may never end. In
`Approvals` every handler step is weakly fair; an upload has its own deadline. In `AgentRun`
handlers and relays are weakly fair as long as the gateway's process is `up`, and not after;
the agent process is not, it may ignore every signal; nor is the end of the gateway's process.
The other specifications state safety only and assume no fairness: nobody promises that a
process is started again, or that an agent prints.

## What is proved

For all values of the constants, finite or infinite sets of updates, messages, processes,
sessions, directories, projects and menus included, from the assumptions of the modules alone
(`NoneAssumption`, `GatewayAssumption`, `ApprovalsAssumption`, `AgentAssumption`,
`ViewAssumption`, `ScreenAssumption`, `PidAssumption`, `StateAssumption`, `TornAssumption`,
`AuditAssumption`, `PathAssumption`, `InstallAssumption`) and no other.
Of the data they ask little: what a read of the pty returns is a sequence of strings, any
strings (`Chunks`), and a captured PATH is a sequence of entries whose directories, and those
of `BasePathEntries`, come from some set (`Directories`).

* `GatewayProofs!TypeCorrect`: `TypeOK`, which is not inductive: a step at `write` indexes
  `sh[u]`, which must be a shell and not `None`. `TypeInv` adds `HasShell` (a goroutine at a
  label that uses its shell has one), `StageInv` (a process that is executing has a frame to
  execute) and `BoundKind` (a goroutine at `bind` has a project request).
* `GatewayProofs!CommandsExclude`, `ActiveNotLeftBehind`: `OneCommand` and `ActiveIsHeld`,
  inductive together with `TypeInv` (`CommandInv`): the run lock is held exactly by the update
  between `TryLock` and `Unlock`, so a second cannot reach the labels at which a capture is
  installed or the flag raised. Most steps are `Quiet` and disposed of together.
* `GatewayProofs!ProjectFollowsCwd`: `SessionPaired`; the three writers write the pair.
* `GatewayProofs!ShellsAreTracked`, `ShellsCloseOnce`: `NoStrayShell` and `ClosedOnce`, by
  `LifeInv`. It adds that who is opening a shell holds `shellMu` and has found the entry free
  (`Opening`), that the registered shell was started, is not closed and is in no closer's hands
  (`Kept`), and that what a closer has was started (`Held`). Steps that touch none of it are
  `Steady`.
* `GatewayProofs!FlagsHaveTheirStop`: `FlagHasItsStop`, with `Installed`: whoever is in
  `ExecCommand` has its own stop channel installed on its shell, so a `/stop` that raises the
  flag closes that channel.
* `GatewayProofs!ResultsAreTrue`: `ResultIsTrue`, about the parsers of `ExecCommand` over a
  capture that may have lost its oldest tokens and a shell that may still have an earlier
  command to run, or a program in its foreground that reads and repeats. The invariant
  (`FrameInv`) follows the one frame a command writes: while it is in the shell's input nothing
  is behind it (`QueuedLast`); while it is executed the capture ends in its start token, then in
  its trailer, as far as they have not been pushed out (`InFrame`); whatever precedes one of its
  end tokens is its own (`EndsAreOwn`), echoed or not; and unless the frame has come back as text,
  an end token is found only where the shell has nothing left to read and the command's trailer
  is right before it (`EndedAlone`). A capture without a start token is therefore cut at the right
  place too.
* `ApprovalsProofs!RequestsTyped`, `AnsweredOnce`, `UploadReadsItsArchive`: what waits was
  asked (`Asked`); a request is either waiting or in one handler's hands, never in two places
  (`Apart`); what waits or is being judged is undecided (`Undecided`); its archive is on disk
  (`Kept`).
* `AgentRunProofs!AgentsTyped`, `AnnouncedOnce`, `WatchedCanBeFound`, `ExitScreenIsSession`:
  `TypeOK`, `OneAnnouncement`, `NewerRunStays`, `ScreenIsSession`. `Shape` adds to the types
  that who ends a run holds one, a relay its own, and that shutdown claims nothing; `EndInv`
  says that whoever is finishing a run has claimed it, is alone in it, and has not told its end
  yet. A run can be found until it is claimed (`Findable`); a process that has been
  interrupted is one that the shutdown took, or whose end is told or is about to be by a
  goroutine that already has its screen (`Interrupted`).
* `AgentViewProofs!NewestMessageIsEdited`: `NewestIsEdited`, for every screen and every failure: a
  message is created between `create` and `store`, and all that time `msgID` is 0.
* `AgentViewProofs!ViewTypeCorrect`, `ScrollbackIsOnce`, `SeenIsKept`: `ViewTypeOK`,
  `ScrollbackOnce` and `NothingSeenIsForgotten`, by `ViewInv`. There is one lemma for each operation
  of `TermScreen`, from `setCells` to `csi` and the four states of the parser, that says it
  takes a well-formed screen to a well-formed one and leaves the scrollback alone; `FeedMade`
  puts them together for a read of any length, cut anywhere. A byte is left to skip only if it
  is in the same read, so none is left between reads. `RecordedMade` follows the loop of
  `persistScroll` over the last frame: each line of it is in the new frame, or recorded, or too
  short (`Found`), and a line is recorded only if it is new. `NothingSeenIsForgotten` needs that what
  was seen was worth recording (`SeenInv`), or a line could leave the frame unrecorded.
* `AgentViewProofs!ScrollIsContinuous`: the action property `ScrollSkipsNothing`, for any
  number of readers. `PagesOverlap` is its arithmetic, for every number of lines, page and
  overlap, also when the view has become shorter than the position; `ReaderInv` adds that who
  moves the position has counted at least one line.
* `ProcessProofs!ProcessTypes`, `OneGatewayRuns`, `SessionsAreGuarded`, `RefusalIsRight`: what
  the lock promises until two starts meet (`Orderly`): one process at most is in `Acquire`
  (`OneStarts`), the file is its own while it writes and the holder's while there is one, what is
  removed as stale is nobody's (`FileOwned`), and a retry finds no file (`Retried`). A gateway has
  the lock until its sessions have been saved for the last time (`Guarded`).
* `ProcessProofs!FileFollows`, `SessionsAreKept` (the refinement of `SessionStore`), for
  processes that overlap as they like: while a save is under way that no other has crossed, the
  file is torn (`TornWhileSaving`), and a crossed one may come to nothing.
* `AuditProofs!AuditTypes`, `ArchivesInOrder`, `NewestIsOnDisk`, `TrailIsKept` (the refinement of
  `AuditTrail`), for every limit and retention and whatever fails: the entry under way is newer
  than all on disk (`Pending`), the shift moves an archive to a number in range (`Ranges`), and a
  rotation has something to rotate (`Loaded`), so that what one step loses is one archive, and
  something newer is left. `DiskIsBounded` and `OldestAreLost` are about rotations that found no
  archive missing and in which nothing failed: the trimming has cleared all that is beyond the
  count (`Trimmed`), each rename finds its place free but the last (`Vacated`), and what is lost is
  older than what is kept (`Cut`).
* `InstallProofs!InstallTypes`, `NoPartialBinary`, `ReportsHold`, `InstallReplaces`,
  `TokensArePortable`: the argument follows the command: what an install has written by each
  of its steps (`Progress`), what an uninstall has undone (`Undone`), and that a report is made
  at the end of a command and holds until the next begins (`Reported`).
* `InstallProofs!PathsAreSound`: `PathIsSound`, for all captures. `DedupeIs` follows the loop of
  `dedupe`: what is kept of the first m entries is there once, is all of them, and stands in the
  order of its first occurrences (`PickedOf`); appending the base directories moves none of
  these (`PathOf`).

**Loops and induction.** The induction theorems of the library take an operator as a parameter,
which the provers cannot instantiate. `DataLemmas!NatInduct` is induction over a *set* of
naturals instead, derived from the minimum principle for well-founded relations. A loop of the
code is a `FoldLeft` in the models; `FoldFnIs` and `FoldRun` say that the function `FoldLeft`
chooses exists and takes the values of the loop one after the other, its step being given as a
function on a set the loop stays in. With the two a loop is treated by its invariant, as in
`FeedMade`, `RecordedMade`, `CleanEntriesIs` and `DedupeIs`. `viewRows` and `cleanEntries`, a
filter in the code as well, are written as loops for that reason.

**Only model-checked**: `UpdateEnds`, `AnsweredArchiveGoes` and `EndIsTold`, which are liveness
under fairness and out of the prover's reach. Every other property of a passing run is a
theorem, and `InstallTypes` is one that no run repeats.

## Disagreements between code and text

Shown by a run:

* `close_race`: `Stop` and `Close` can both find a stop channel open and both close it. In
  `Close` the panic comes after `closed` is set: the process is never signalled, the pty
  never closed, and `s.mu` stays locked, against "Close terminates the shell process and
  releases the pty" (`internal/terminal/shell.go:488`).
* `requests_race`: two dangerous commands, or two big files, that arrive together both find
  nothing waiting, and the second to be left waiting replaces the first
  (`docs/security.md:23`); the archive of a replaced file stays on disk.
* `lock_race`: the lock file exists before the pid is in it, and a stale one is removed by
  name: two starts that overlap can both go on, against "claims the single-instance lock at
  lockPath atomically" (`internal/instance/instance.go:22`).

Further claims are stated at the end of the modules, each with a configuration of its own. TLC
finds every one of them violated; they bound what the passing runs may be taken to say, and are
kept out of the list of runs to keep that to one configuration for each question.

| Configuration (module) | Claim | What the code does |
| --- | --- | --- |
| `busy_forever` (`MCGateway`) | `EveryUpdateEnds`: a panic is "a recorded, non-fatal event" (`handler.go:237`) | After the panic of `close_race` the command waits for `s.mu` and keeps the run lock: the chat is busy for ever. |
| `echo_back` (`MCGateway`) | `FinishedIsOver`: the markers "survive a shell that talks back" (`shell.go:435`) | A frame that is echoed, or repeated by a program, brings its end marker back before it is run; the command is reported as finished. |
| `stop_lost` (`MCGateway`) | `StopReaches`: `/stop` interrupts the running command (`docs/commands.md:16`) | A `/stop` between `SetActive` and the clearing of the flag in `ExecCommand` is answered, and the command runs on. |
| `exit_reset` (`MCGateway`) | `ResetIsKept`: `/exit` clears the project and the directory (`docs/commands.md:17`) | The result of the command that it ended is recorded afterwards (`handler.go:805`). |
| `active_flag` (`MCGateway`) | `ActiveWhileRunning`: `IsActive` says whether a command is running (`manager.go:78`) | `/exit` clears the flag of a command that has opened a shell of its own meanwhile (`handler.go:518`). |
| `agents_two` (`MCAgentRun`) | `OneAgent`: concurrent sessions are rejected (`docs/roadmap.md:30`) | Two prompts that arrive together both start an agent, and the first can no longer be reached (`agent.go:165`). |
| `agent_record` (`MCAgentRun`) | `RecordIsLeft`: every path leaves a readable record (`docs/commands.md:54`) | A prompt that cannot be written to an agent that has just exited tells its end without the last screen (`agent.go:256`). |
| `view_flag` (`MCAgentView`) | `FlagIsHonest`: `Feed` reports any visible change (`screen.go:130`) | Erasing below, above or at the cursor and scrolling leave the flag down, so that no frame is sent. |
| `view_gap` (`MCAgentView`) | `NoGapInView`: scrolling up "never lands in a gap" (`docs/agent.md:69`) | A line that has scrolled off since the last sniff is neither recorded nor on the screen (`screen.go:248`). |
| `turn_message` (`MCAgentTurns`) | `MessageOfItsTurn`: one message per user turn (`agent.go:555`) | A prompt between the creation of a message and the store of its id shares it with the turn before (`agent.go:626`). |
| `late_write` (`GatewayProcess`) | `FileFollowsMemory`: the file and the memory do not disagree (`manager.go:141`) | A handler that outlives `Run` saves over what the next gateway has loaded (`start.go:31`). |
| `audit_lowered` (`AuditLog`) | `LoweredIsCleared`: a lowered count clears the archives beyond it (`docs/security.md:86`) | A death in a shift leaves a gap, and the trimming ends at the first missing archive (`audit.go:240`). |
| `install_stuck` (`MCServiceInstall`) | `BrokenIsGone`: a unit that does not start is disabled and deleted (`docs/service.md:159`) | The errors of both are ignored, and it may stay enabled and loadable (`service_linux.go:86`). |
| `install_config` (`MCServiceInstall`) | `SameConfigInspected`: `--config` inspects what the agent will (`docs/service.md:123`) | The job is started without `--config` and reads the default configuration (`servicedef.go:123`). |

Met while modelling, and visible in the models, without a property of their own:

* Deleting more runes than the row has slices it out of range (`screen.go:854`), and inserting
  may write past a short row (`screen.go:876`); `pump` has no recover. `TermScreen` stops
  there. `wrapPending` takes a rune that stands in the last column for one just written, and a
  blank for none (`screen.go:416`). A sequence of two bytes that must be read together (UTF-8,
  the end of an OSC) is not recognised when a read of the pty ends between them.
* `SniffPNG` clears the flag when the renderer fails (`host.go:162`), and a photo that cannot
  be sent loses its frame: it is shown when the next thing is drawn.
* That every destination of the shift is free (`audit.go:233`) is not so when a remove or a
  rename fails; a log that cannot be reopened loses every entry until the next start, and says
  so for the first one only.
* Under launchd a definition that cannot be written whole is left there (`service_darwin.go:65`,
  against the comment at line 49): `FillDefinition` may give up with a partial file.
  A failed restart or bootstrap removes the definition of the installation that worked before.
  `adequatePath` counts repetitions as entries. A token that is in the environment and in
  `.env` is reported as one the job cannot find, although it will find the other.
* A pid that has gone to another program refuses a start until that program ends.

## Limits

Not modelled, and why:

* **Document uploads**: `savedPathNoClobber` picks a name by stat and the write follows; the
  one thing that can go wrong, two uploads that find one name free, is the pair of lines
  itself. The rest is I/O.
* **Screen renderer, key tables, message formatting and privacy, scaffold and inspection
  commands**: drawing, wording and tables, with no state that outlives a call.
* **Session id lookup**: one probe and a filter over the rows of a CLI.
* **Security policy**: the patterns and path prefixes decide between outcomes on which the
  handlers branch; the models take every outcome, which covers every pattern.
* **Configuration** beyond the token, and the templates of the service definitions: read or
  written once, each value by itself.
* **The removal of the lock file** (`instance.go:45`, `55`, `72`) is taken to succeed; a lock that
  cannot be removed refuses starts until somebody removes it.
* **Echo** is one step with the write it repeats, and a program repeats a whole frame or nothing;
  fragments, and what a program prints that happens to look like a marker, are left out. The
  temporary file of `installBinary` is left out as well, since nothing looks for it.
* **Long polling and its retries** belong to the Telegram library; an update that is delivered
  again is another update to the handlers, and the models take any.

The models are separate where the code shares no state, so none of them says what becomes of a
running command or agent when the gateway is killed: what was in memory is gone, and the
processes behind the ptys are then the operating system's.
