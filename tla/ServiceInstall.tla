--------------------------- MODULE ServiceInstall ---------------------------
(***************************************************************************)
(* `termilink service install` and `uninstall` (cmd/termilink/cli/         *)
(* service.go) with the two supervisors they register the gateway with:    *)
(* systemd (service_linux.go) and launchd (service_darwin.go).  An install *)
(* is known by its number, which is also the version of the binary and of  *)
(* the definition it writes.  The command may be interrupted, and most of  *)
(* its steps may fail.                                                     *)
(*                                                                         *)
(* The supervisor is external; its actions are what the generated          *)
(* definitions ask of it (internal/servicedef/systemd/systemd.go and       *)
(* launchd/launchd.go) and what the comments of the renderers rely on.     *)
(***************************************************************************)
EXTENDS JobEnvironment

CONSTANTS
    Part,           \* a file that is not whole
    Supervisors,    \* those of "systemd" and "launchd" to look at
    Captures,       \* the PATHs a machine has: [inherited, login]
    Tokens,         \* bot tokens
    MaxInstall      \* bound: installs begun

ASSUME InstallAssumption ==
    /\ Supervisors \subseteq {"systemd", "launchd"}
    /\ MaxInstall \in Nat
    /\ Part \notin Nat
    /\ Captures \subseteq [inherited : Seq(Entries), login : Seq(Entries)]

VARIABLES
    supervisor,     \* the one of this machine
    at,             \* where the command is
    number,         \* the last install begun
    build,          \* what buildService has resolved, until it is used
    binary,         \* the file at svc.Executable; 0 when there is none
    definition,     \* the file at paths.Definition; 0 when there is none
    loaded,         \* the definition the supervisor has; 0 when it has none
    enabled,        \* systemd has the link that starts it at login
    job,            \* "off", "active", or "waiting" to be started again
    runs,           \* the binary and the definition of the process
    verdict         \* what the last command has reported

cmdVars == <<at, number, build, verdict>>
diskVars == <<binary, definition, enabled>>
jobVars == <<job, runs>>
installVars == <<supervisor, cmdVars, diskVars, loaded, jobVars>>

NoBuild == [path |-> None]
NoRun == [binary |-> 0, definition |-> 0]

InstallInit ==
    /\ supervisor \in Supervisors
    /\ at = "idle"
    /\ number = 0
    /\ build = NoBuild
    /\ binary = 0
    /\ definition = 0
    /\ loaded = 0
    /\ enabled = FALSE
    /\ job = "off"
    /\ runs = NoRun
    /\ verdict = "none"

InstallGoto(l, m) == at = l /\ at' = m

\* The command returns an error, wherever it is.
GiveUp(l, reason) ==
    /\ InstallGoto(l, "idle")
    /\ verdict' = reason
    /\ UNCHANGED <<number, build>>

On(s) == supervisor = s

-----------------------------------------------------------------------------
(* The supervisor                                                           *)

Whole(f) == f \notin {0, Part}

\* A definition that is not whole does not start, nor a file that is not there.
CanStart(d) == Whole(d) /\ Whole(binary)

Launch(d) ==
    /\ job' = "active"
    /\ runs' = [binary |-> binary, definition |-> d]

Halt ==
    /\ job' = "off"
    /\ runs' = NoRun

\* Restart=on-failure, and KeepAlive with SuccessfulExit false.
JobFails ==
    /\ job = "active"
    /\ job' = "waiting"
    /\ runs' = NoRun
    /\ UNCHANGED <<supervisor, cmdVars, diskVars, loaded>>

\* It is told to stop: by systemctl stop, which keeps what is loaded, or by
\* launchctl bootout, which does not.
JobStopped ==
    /\ at = "idle" /\ job # "off"
    /\ Halt
    /\ loaded' = IF On("launchd") THEN 0 ELSE loaded
    /\ UNCHANGED <<supervisor, cmdVars, diskVars>>

\* RestartSec or ThrottleInterval later.
JobRestarts ==
    /\ job = "waiting"
    /\ CanStart(loaded)
    /\ Launch(loaded)
    /\ UNCHANGED <<supervisor, cmdVars, diskVars, loaded>>

\* The user logs out and in again: a command that was running is gone, and
\* what is enabled is started from the file.
Login ==
    /\ at' = "idle"
    /\ build' = NoBuild
    /\ loaded' = definition
    /\ IF CanStart(definition) /\ (enabled \/ On("launchd"))
       THEN Launch(definition)
       ELSE Halt
    /\ UNCHANGED <<supervisor, number, verdict, diskVars>>

-----------------------------------------------------------------------------
(* install: buildService and installBinary                                  *)

\* The command reads the configuration and the PATHs and writes nothing.
BuildService(c, t) ==
    /\ InstallGoto("idle", "built")
    /\ number < MaxInstall
    /\ number' = number + 1
    /\ verdict' = "none"
    /\ resolveToken(t).token # None
    /\ build' = [path      |-> ResolvePath(c.inherited, c.login),
                 inherited |-> c.inherited,
                 login     |-> c.login,
                 token     |-> t,
                 source    |-> resolveToken(t).source]
    /\ UNCHANGED <<supervisor, diskVars, loaded, jobVars>>

\* The owner is shown the definition, and goes on.
Confirm ==
    /\ InstallGoto("built", "copy")
    /\ build' = NoBuild
    /\ UNCHANGED <<supervisor, number, verdict, diskVars, loaded, jobVars>>

Cancel ==
    /\ InstallGoto("built", "idle")
    /\ build' = NoBuild
    /\ UNCHANGED <<supervisor, number, verdict, diskVars, loaded, jobVars>>

\* A plausible error: the copy goes to the binary's own name.
CopyInPlace ==
    /\ \/ InstallGoto("copy", "place") /\ UNCHANGED <<number, build, verdict>>
       \/ GiveUp("copy", "failed")
    /\ binary' = Part
    /\ UNCHANGED <<supervisor, definition, enabled, loaded, jobVars>>

\* Into a temporary file, which has no name anything looks at.
CopyBinary ==
    /\ \/ InstallGoto("copy", "place") /\ UNCHANGED <<number, build, verdict>>
       \/ GiveUp("copy", "failed")
    /\ UNCHANGED <<supervisor, diskVars, loaded, jobVars>>

PlaceBinary ==
    /\ \/ /\ InstallGoto("place", "define")
          /\ binary' = number
          /\ UNCHANGED <<number, build, verdict>>
       \/ GiveUp("place", "failed") /\ UNCHANGED binary
    /\ UNCHANGED <<supervisor, definition, enabled, loaded, jobVars>>

-----------------------------------------------------------------------------
(* install: the renderer                                                    *)

\* os.WriteFile: the file is emptied, and then written.
EmptyDefinition ==
    /\ \/ /\ InstallGoto("define", "fill")
          /\ definition' = Part
          /\ UNCHANGED <<number, build, verdict>>
       \/ GiveUp("define", "failed") /\ UNCHANGED definition
    /\ UNCHANGED <<supervisor, binary, enabled, loaded, jobVars>>

FillDefinition ==
    /\ \/ /\ InstallGoto("fill", IF On("systemd") THEN "reload" ELSE "bootout")
          /\ definition' = number
          /\ UNCHANGED <<number, build, verdict>>
       \/ GiveUp("fill", "failed") /\ UNCHANGED definition
    /\ UNCHANGED <<supervisor, binary, enabled, loaded, jobVars>>

DaemonReload ==
    /\ \/ /\ InstallGoto("reload", "enable")
          /\ loaded' = definition
          /\ UNCHANGED <<number, build, verdict>>
       \/ GiveUp("reload", "failed") /\ UNCHANGED loaded
    /\ UNCHANGED <<supervisor, diskVars, jobVars>>

Enable ==
    /\ \/ /\ InstallGoto("enable", "restart")
          /\ enabled' = TRUE
          /\ UNCHANGED <<number, build, verdict>>
       \/ GiveUp("enable", "failed") /\ UNCHANGED enabled
    /\ UNCHANGED <<supervisor, binary, definition, loaded, jobVars>>

\* A plausible error: systemctl start, which leaves what runs alone.
Started == IF job = "active" THEN UNCHANGED jobVars ELSE Launch(loaded)

\* systemctl restart stops what runs and starts what is loaded.
Restarted == Launch(loaded)

Restart ==
    /\ CanStart(loaded)
    /\ InstallGoto("restart", "idle")
    /\ Restarted
    /\ verdict' = "installed"
    /\ UNCHANGED <<supervisor, number, build, diskVars, loaded>>

\* It fails before or after what runs is stopped.
RestartFails ==
    /\ InstallGoto("restart", "disable")
    /\ Halt \/ UNCHANGED jobVars
    /\ UNCHANGED <<supervisor, number, build, verdict, diskVars, loaded>>

DisableBroken ==
    /\ InstallGoto("disable", "discard")
    /\ enabled' \in {FALSE, enabled}
    /\ UNCHANGED <<supervisor, number, build, verdict, binary, definition,
                   loaded, jobVars>>

\* launchctl bootout, whose error is ignored.
Bootout ==
    /\ InstallGoto("bootout", "bootstrap")
    /\ \/ loaded' = 0 /\ Halt
       \/ UNCHANGED <<loaded, jobVars>>
    /\ UNCHANGED <<supervisor, number, build, verdict, diskVars>>

\* launchctl bootstrap loads the file and, by RunAtLoad, starts the job, unless
\* a job of this label is still loaded.
Bootstrap ==
    /\ loaded = 0 /\ CanStart(definition)
    /\ InstallGoto("bootstrap", "idle")
    /\ loaded' = definition
    /\ Launch(definition)
    /\ verdict' = "installed"
    /\ UNCHANGED <<supervisor, number, build, diskVars>>

BootstrapFails ==
    /\ InstallGoto("bootstrap", "discard")
    /\ UNCHANGED <<supervisor, number, build, verdict, diskVars, loaded, jobVars>>

\* The definition of a job that does not start is removed, and the error of that
\* is ignored.
Discard ==
    /\ GiveUp("discard", "unstarted")
    /\ definition' \in {0, definition}
    /\ UNCHANGED <<supervisor, binary, enabled, loaded, jobVars>>

-----------------------------------------------------------------------------
(* uninstall                                                                *)

\* The definition is there, and the owner agrees.
Uninstall ==
    /\ definition # 0
    /\ InstallGoto("idle", "stop")
    /\ verdict' = "none"
    /\ UNCHANGED <<supervisor, number, build, diskVars, loaded, jobVars>>

\* systemctl stop or launchctl bootout; its error is a warning at the end.
StopJob ==
    /\ at = "stop"
    /\ \/ /\ Halt
          /\ loaded' = IF On("launchd") THEN 0 ELSE loaded
          /\ verdict' = verdict
       \/ /\ verdict' = "warned"
          /\ UNCHANGED <<loaded, jobVars>>
    /\ at' = IF On("systemd") THEN "unlink" ELSE "delete"
    /\ UNCHANGED <<supervisor, number, build, diskVars>>

\* systemctl disable, whose error is ignored.
DisableJob ==
    /\ InstallGoto("unlink", "delete")
    /\ enabled' \in {FALSE, enabled}
    /\ UNCHANGED <<supervisor, number, build, verdict, binary, definition,
                   loaded, jobVars>>

DeleteDefinition ==
    /\ \/ /\ InstallGoto("delete", IF On("systemd") THEN "forget" ELSE "end")
          /\ definition' = 0
          /\ UNCHANGED <<number, build, verdict>>
       \/ GiveUp("delete", "failed") /\ UNCHANGED definition
    /\ UNCHANGED <<supervisor, binary, enabled, loaded, jobVars>>

\* The second daemon-reload, whose error is ignored.
ForgetDefinition ==
    /\ InstallGoto("forget", "end")
    /\ loaded' \in {loaded} \cup {0 : j \in {job} \cap {"off"}}
    /\ UNCHANGED <<supervisor, number, build, verdict, diskVars, jobVars>>

\* A plausible error: the warning is forgotten.
EndUnwarned ==
    /\ InstallGoto("end", "idle")
    /\ verdict' = "removed"
    /\ UNCHANGED <<supervisor, number, build, diskVars, loaded, jobVars>>

EndUninstall ==
    /\ InstallGoto("end", "idle")
    /\ verdict' = IF verdict = "none" THEN "removed" ELSE verdict
    /\ UNCHANGED <<supervisor, number, build, diskVars, loaded, jobVars>>

-----------------------------------------------------------------------------
\* The command is interrupted.
Interrupt ==
    /\ at # "idle"
    /\ at' = "idle"
    /\ build' = NoBuild
    /\ UNCHANGED <<supervisor, number, verdict, diskVars, loaded, jobVars>>

Install ==
    \/ \E c \in Captures, t \in TokenInput(Tokens) : BuildService(c, t)
    \/ Confirm \/ Cancel \/ CopyBinary \/ PlaceBinary
    \/ EmptyDefinition \/ FillDefinition
    \/ DaemonReload \/ Enable \/ Restart \/ RestartFails \/ DisableBroken
    \/ Bootout \/ Bootstrap \/ BootstrapFails \/ Discard

RemoveService ==
    \/ Uninstall \/ StopJob \/ DisableJob \/ DeleteDefinition
    \/ ForgetDefinition \/ EndUninstall

InstallNext ==
    \/ Install \/ RemoveService \/ Interrupt
    \/ JobFails \/ JobStopped \/ JobRestarts \/ Login

InstallSpec == InstallInit /\ [][InstallNext]_installVars

-----------------------------------------------------------------------------
InstallTypeOK ==
    LET files == 0..number \cup {Part}
    IN  /\ supervisor \in Supervisors
        /\ number \in 0..MaxInstall
        /\ at = "built" <=> build # NoBuild
        /\ binary \in files /\ definition \in files /\ loaded \in files
        /\ enabled \in BOOLEAN
        /\ job \in {"off", "active", "waiting"}
        /\ runs \in [binary : files, definition : files]
        /\ verdict \in {"none", "failed", "unstarted", "installed", "warned",
                         "removed"}

\* "A re-install after an edit must replace the running process"
\* (service_linux.go): when install says that it has installed, what runs is
\* the binary and the definition it has written.
InstallTakesEffect ==
    [][verdict' = "installed" /\ verdict # "installed" =>
          /\ job' = "active"
          /\ runs' = [binary |-> number, definition |-> number]]_installVars

\* "An interrupted install cannot leave a truncated binary where the service
\* expects to exec one" (service.go, installBinary).
BinaryIsWhole ==
    /\ binary # Part
    /\ job = "active" => Whole(runs.binary) /\ Whole(runs.definition)

\* What a command has reported stays true whatever becomes of the process: an
\* installed service is the one that the next login starts, a removed one is
\* stopped and never starts again, and of one that would not start nothing is
\* left or the definition just written, whole.
StartsAtLogin == CanStart(definition) /\ (enabled \/ On("launchd"))

VerdictKept ==
    /\ verdict = "installed" =>
          StartsAtLogin /\ binary = number /\ definition = number
    /\ verdict = "removed" => job = "off" /\ definition = 0
    /\ verdict = "unstarted" => definition \in {0, number} /\ binary = number

\* The PATH of the job is a sound one, whatever was captured.
PathIsSound ==
    at = "built" => SoundPath(build.path, build.inherited, build.login)

\* An install from what the default configuration says that does not warn about
\* the token has one that the job finds.
TokenIsPortable == at = "built" => PortableToken(build.token, build.source)

-----------------------------------------------------------------------------
(* What the repository says of this code, and the code does not do          *)

\* "If the unit will not start, `install` disables and deletes it rather than
\* leaving a job that is enabled and broken": neither error is looked at.
BrokenIsGone == verdict = "unstarted" => ~StartsAtLogin

\* "`termilink --config ../other/config.yaml service install` inspects the same
\* file the installed agent will": the agent is started without --config.
SameConfigInspected ==
    at = "built" /\ build.source \in SilentSources => FoundAgain(build.token)
=============================================================================
