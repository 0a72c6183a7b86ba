---------------------------- MODULE InstallProofs ---------------------------
(***************************************************************************)
(* What `termilink service` reports stays true, for every number of        *)
(* installs, every token and every PATH, whatever the supervisor does, and *)
(* wherever the command fails or is interrupted.                           *)
(*                                                                         *)
(* The argument follows the command: what an install has written by each   *)
(* of its steps (Progress), what an uninstall has undone (Undone), and     *)
(* that a report is made at the end of a command and holds until the next  *)
(* one begins (Reported).                                                  *)
(***************************************************************************)
EXTENDS ServiceInstall, DataLemmas

Writing == {"define", "fill", "reload", "enable", "restart", "bootout",
            "bootstrap", "disable", "discard"}
Registering == Writing \ {"define", "fill"}

\* What an install has done by the step it is at.
Progress ==
    /\ at \in Writing => binary = number
    /\ at \in Registering => definition = number
    /\ at \in {"enable", "restart"} => loaded = number
    /\ at = "restart" => enabled
    /\ at \in {"bootout", "bootstrap"} => On("launchd")

\* What an uninstall has done.
Undone ==
    /\ at = "stop" => verdict = "none"
    /\ at \in {"unlink", "delete", "forget", "end"} /\ verdict = "none"
          => job = "off"
    /\ at \in {"forget", "end"} => definition = 0

\* A report is the last thing a command does.
Reported ==
    /\ verdict \in {"installed", "removed", "unstarted"} => at = "idle"
    /\ VerdictKept

Numbered ==
    /\ supervisor \in {"systemd", "launchd"}
    /\ number \in Nat

InstallInv == Numbered /\ Progress /\ Undone /\ Reported /\ BinaryIsWhole

\* What a step of the supervisor, or of nobody, may do.
Outer == JobFails \/ JobStopped \/ JobRestarts \/ Login

-----------------------------------------------------------------------------
LEMMA NumbersAreWhole ==
  ASSUME Numbered
  PROVE  number # Part /\ number + 1 \in Nat /\ 0 # Part
BY InstallAssumption DEF Numbered

\* Nothing the supervisor does changes what is on disk, and what it starts is
\* whole.
LEMMA OuterStep == InstallInv /\ Outer => InstallInv'
<1> SUFFICES ASSUME InstallInv, Outer PROVE InstallInv'
  OBVIOUS
<1>0. Numbered /\ Progress /\ Undone /\ Reported /\ BinaryIsWhole
  BY DEF InstallInv
<1> USE DEF cmdVars, diskVars, jobVars, On
<1>1. Numbered'
  BY <1>0 DEF Outer, JobFails, JobStopped, JobRestarts, Login, Numbered
<1>2. UNCHANGED <<supervisor, number, verdict, binary, definition, enabled>>
  BY DEF Outer, JobFails, JobStopped, JobRestarts, Login
<1>3. at' = at \/ at' = "idle"
  BY DEF Outer, JobFails, JobStopped, JobRestarts, Login
<1>4. at' # "idle" => loaded' = loaded
  BY DEF Outer, JobFails, JobStopped, JobRestarts, Login
<1>5. job = "off" /\ (definition = 0 \/ at' # "idle") => job' = "off"
  BY DEF Outer, JobFails, JobStopped, JobRestarts, Login, Halt, CanStart, Whole
<1>6. job' = "active" => Whole(runs'.binary) /\ Whole(runs'.definition)
  BY DEF Outer, JobFails, JobStopped, JobRestarts, Login, Halt, Launch,
     CanStart
<1>7. Progress'
  BY <1>0, <1>2, <1>3, <1>4 DEF Progress, Writing, Registering
<1>8. Undone'
  BY <1>0, <1>2, <1>3, <1>5 DEF Undone
<1>9. Reported'
  BY <1>0, <1>2, <1>3, <1>5
     DEF Reported, VerdictKept, StartsAtLogin, CanStart, Whole
<1>10. BinaryIsWhole'
  BY <1>0, <1>2, <1>6 DEF BinaryIsWhole, Whole
<1> QED
  BY <1>1, <1>7, <1>8, <1>9, <1>10 DEF InstallInv

\* The first half of an install: up to the definition.
LEMMA PrepareStep ==
  ASSUME InstallInv,
         \/ \E c \in Captures, t \in TokenInput(Tokens) : BuildService(c, t)
         \/ Confirm \/ Cancel \/ CopyBinary \/ PlaceBinary
         \/ EmptyDefinition \/ FillDefinition
  PROVE  InstallInv'
<1>0. Numbered /\ Progress /\ Undone /\ Reported /\ BinaryIsWhole
  BY DEF InstallInv
<1>n. number # Part /\ number + 1 \in Nat /\ 0 # Part
  BY <1>0, NumbersAreWhole
<1> USE DEF cmdVars, diskVars, jobVars, InstallGoto, On
<1> USE DEF Numbered, Progress, Undone, Reported, BinaryIsWhole, Writing,
            Registering, VerdictKept
<1>1. CASE \E c \in Captures, t \in TokenInput(Tokens) : BuildService(c, t)
  <2>1. /\ at = "idle" /\ at' = "built" /\ number' = number + 1
        /\ verdict' = "none"
        /\ UNCHANGED <<supervisor, binary, definition, enabled, loaded, job, runs>>
    BY <1>1 DEF BuildService
  <2> QED
    BY <1>0, <1>n, <2>1 DEF InstallInv, Whole
<1>2. CASE Confirm \/ Cancel
  <2>1. /\ at = "built" /\ at' \in {"copy", "idle"}
        /\ UNCHANGED <<supervisor, number, verdict, binary, definition, enabled,
                       loaded, job, runs>>
    BY <1>2 DEF Confirm, Cancel
  <2> QED
    BY <1>0, <2>1 DEF InstallInv, Whole
<1>3. CASE CopyBinary
  <2>1. /\ at = "copy"
        /\ \/ at' = "place" /\ verdict' = verdict
           \/ at' = "idle" /\ verdict' = "failed"
        /\ UNCHANGED <<supervisor, number, binary, definition, enabled,
                       loaded, job, runs>>
    BY <1>3 DEF CopyBinary, GiveUp
  <2> QED
    BY <1>0, <2>1 DEF InstallInv, Whole
<1>4. CASE PlaceBinary
  <2>1. /\ at = "place"
        /\ \/ at' = "define" /\ verdict' = verdict /\ binary' = number
           \/ at' = "idle" /\ verdict' = "failed" /\ binary' = binary
        /\ UNCHANGED <<supervisor, number, definition, enabled, loaded, job,
                       runs>>
    BY <1>4 DEF PlaceBinary, GiveUp
  <2> QED
    BY <1>0, <1>n, <2>1 DEF InstallInv, Whole
<1>5. CASE EmptyDefinition
  <2>1. /\ at = "define"
        /\ \/ at' = "fill" /\ verdict' = verdict
           \/ at' = "idle" /\ verdict' = "failed"
        /\ UNCHANGED <<supervisor, number, binary, enabled, loaded, job, runs>>
    BY <1>5 DEF EmptyDefinition, GiveUp
  <2> QED
    BY <1>0, <2>1 DEF InstallInv, Whole
<1>6. CASE FillDefinition
  <2>1. /\ at = "fill"
        /\ \/ /\ definition' = number /\ verdict' = verdict
              /\ at' = IF On("systemd") THEN "reload" ELSE "bootout"
           \/ at' = "idle" /\ verdict' = "failed"
        /\ UNCHANGED <<supervisor, number, binary, enabled, loaded, job, runs>>
    BY <1>6 DEF FillDefinition, GiveUp
  <2> QED
    BY <1>0, <2>1 DEF InstallInv, Whole
<1> QED
  BY <1>1, <1>2, <1>3, <1>4, <1>5, <1>6

\* The second half: the supervisor is told.
LEMMA RegisterStep ==
  ASSUME InstallInv,
         \/ DaemonReload \/ Enable \/ Restart \/ RestartFails \/ DisableBroken
         \/ Bootout \/ Bootstrap \/ BootstrapFails \/ Discard
  PROVE  InstallInv'
<1>0. Numbered /\ Progress /\ Undone /\ Reported /\ BinaryIsWhole
  BY DEF InstallInv
<1>n. number # Part /\ number + 1 \in Nat /\ 0 # Part
  BY <1>0, NumbersAreWhole
<1> USE DEF cmdVars, diskVars, jobVars, InstallGoto, On
<1> USE DEF Numbered, Progress, Undone, Reported, BinaryIsWhole, Writing,
            Registering, VerdictKept
<1>1. CASE DaemonReload
  <2>1. /\ at = "reload"
        /\ \/ at' = "enable" /\ verdict' = verdict /\ loaded' = definition
           \/ at' = "idle" /\ verdict' = "failed"
        /\ UNCHANGED <<supervisor, number, binary, definition, enabled, job, runs>>
    BY <1>1 DEF DaemonReload, GiveUp
  <2> QED
    BY <1>0, <2>1 DEF InstallInv, Whole
<1>2. CASE Enable
  <2>1. /\ at = "enable"
        /\ \/ at' = "restart" /\ verdict' = verdict /\ enabled'
           \/ at' = "idle" /\ verdict' = "failed"
        /\ UNCHANGED <<supervisor, number, binary, definition, loaded, job, runs>>
    BY <1>2 DEF Enable, GiveUp
  <2> QED
    BY <1>0, <2>1 DEF InstallInv, Whole
<1>3. CASE Restart
  <2>1. /\ at = "restart" /\ at' = "idle" /\ verdict' = "installed"
        /\ CanStart(loaded)
        /\ job' = "active" /\ runs' = [binary |-> binary, definition |-> loaded]
        /\ UNCHANGED <<supervisor, number, binary, definition, enabled, loaded>>
    BY <1>3 DEF Restart, Restarted, Launch
  <2>2. StartsAtLogin'
    BY <1>0, <2>1 DEF StartsAtLogin, CanStart
  <2> QED
    BY <1>0, <2>1, <2>2 DEF InstallInv, CanStart, Whole
<1>4. CASE RestartFails
  <2>1. /\ at = "restart" /\ at' = "disable"
        /\ job' = "off" \/ (job' = job /\ runs' = runs)
        /\ UNCHANGED <<supervisor, number, verdict, binary, definition, enabled,
                       loaded>>
    BY <1>4 DEF RestartFails, Halt
  <2> QED
    BY <1>0, <2>1 DEF InstallInv, Whole
<1>5. CASE DisableBroken
  <2>1. /\ at = "disable" /\ at' = "discard"
        /\ UNCHANGED <<supervisor, number, verdict, binary, definition, loaded,
                       job, runs>>
    BY <1>5 DEF DisableBroken
  <2> QED
    BY <1>0, <2>1 DEF InstallInv, Whole
<1>6. CASE Bootout
  <2>1. /\ at = "bootout" /\ at' = "bootstrap"
        /\ job' = "off" \/ (job' = job /\ runs' = runs)
        /\ UNCHANGED <<supervisor, number, verdict, binary, definition, enabled>>
    BY <1>6 DEF Bootout, Halt
  <2> QED
    BY <1>0, <2>1 DEF InstallInv, Whole
<1>7. CASE Bootstrap
  <2>1. /\ at = "bootstrap" /\ at' = "idle" /\ verdict' = "installed"
        /\ CanStart(definition)
        /\ job' = "active"
        /\ runs' = [binary |-> binary, definition |-> definition]
        /\ UNCHANGED <<supervisor, number, binary, definition, enabled>>
    BY <1>7 DEF Bootstrap, Launch
  <2>2. StartsAtLogin'
    BY <1>0, <2>1 DEF StartsAtLogin, CanStart
  <2> QED
    BY <1>0, <2>1, <2>2 DEF InstallInv, CanStart, Whole
<1>8. CASE BootstrapFails
  <2>1. /\ at = "bootstrap" /\ at' = "discard"
        /\ UNCHANGED <<supervisor, number, verdict, binary, definition, enabled,
                       loaded, job, runs>>
    BY <1>8 DEF BootstrapFails
  <2> QED
    BY <1>0, <2>1 DEF InstallInv, Whole
<1>9. CASE Discard
  <2>1. /\ at = "discard" /\ at' = "idle" /\ verdict' = "unstarted"
        /\ definition' \in {0, definition}
        /\ UNCHANGED <<supervisor, number, binary, enabled, loaded, job, runs>>
    BY <1>9 DEF Discard, GiveUp
  <2> QED
    BY <1>0, <2>1 DEF InstallInv, StartsAtLogin, CanStart, Whole
<1> QED
  BY <1>1, <1>2, <1>3, <1>4, <1>5, <1>6, <1>7, <1>8, <1>9

LEMMA RemoveStep == ASSUME InstallInv, RemoveService PROVE InstallInv'
<1>0. Numbered /\ Progress /\ Undone /\ Reported /\ BinaryIsWhole
  BY DEF InstallInv
<1> USE DEF cmdVars, diskVars, jobVars, InstallGoto, On
<1> USE DEF Numbered, Progress, Undone, Reported, BinaryIsWhole, Writing,
            Registering, VerdictKept
<1>1. CASE Uninstall
  <2>1. /\ at = "idle" /\ at' = "stop" /\ verdict' = "none"
        /\ UNCHANGED <<supervisor, number, binary, definition, enabled, loaded,
                       job, runs>>
    BY <1>1 DEF Uninstall
  <2> QED
    BY <1>0, <2>1 DEF InstallInv, Whole
<1>2. CASE StopJob
  <2>1. /\ at = "stop" /\ at' \in {"unlink", "delete"}
        /\ \/ job' = "off" /\ verdict' = verdict
           \/ job' = job /\ runs' = runs /\ verdict' = "warned"
        /\ UNCHANGED <<supervisor, number, binary, definition, enabled>>
    BY <1>2 DEF StopJob, Halt
  <2> QED
    BY <1>0, <2>1 DEF InstallInv, Whole
<1>3. CASE DisableJob
  <2>1. /\ at = "unlink" /\ at' = "delete"
        /\ UNCHANGED <<supervisor, number, verdict, binary, definition, loaded,
                       job, runs>>
    BY <1>3 DEF DisableJob
  <2> QED
    BY <1>0, <2>1 DEF InstallInv, Whole
<1>4. CASE DeleteDefinition
  <2>1. /\ at = "delete"
        /\ \/ /\ at' \in {"forget", "end"} /\ verdict' = verdict
              /\ definition' = 0
           \/ at' = "idle" /\ verdict' = "failed"
        /\ UNCHANGED <<supervisor, number, binary, enabled, loaded, job, runs>>
    BY <1>4 DEF DeleteDefinition, GiveUp
  <2> QED
    BY <1>0, <2>1 DEF InstallInv, Whole
<1>5. CASE ForgetDefinition
  <2>1. /\ at = "forget" /\ at' = "end"
        /\ UNCHANGED <<supervisor, number, verdict, binary, definition, enabled,
                       job, runs>>
    BY <1>5 DEF ForgetDefinition
  <2> QED
    BY <1>0, <2>1 DEF InstallInv, Whole
<1>6. CASE EndUninstall
  <2>1. /\ at = "end" /\ at' = "idle"
        /\ verdict' = IF verdict = "none" THEN "removed" ELSE verdict
        /\ UNCHANGED <<supervisor, number, binary, definition, enabled, loaded,
                       job, runs>>
    BY <1>6 DEF EndUninstall
  <2> QED
    BY <1>0, <2>1 DEF InstallInv, Whole
<1> QED
  BY <1>1, <1>2, <1>3, <1>4, <1>5, <1>6 DEF RemoveService

LEMMA InstallStep == InstallInv /\ [InstallNext]_installVars => InstallInv'
<1> SUFFICES ASSUME InstallInv, [InstallNext]_installVars PROVE InstallInv'
  OBVIOUS
<1> USE DEF cmdVars, diskVars, jobVars
<1>1. CASE UNCHANGED installVars
  BY <1>1 DEF installVars, InstallInv, Numbered, Progress, Undone, Reported,
     BinaryIsWhole, VerdictKept, StartsAtLogin, CanStart, Whole, On
<1>2. CASE Install
  BY <1>2, PrepareStep, RegisterStep DEF Install
<1>3. CASE RemoveService
  BY <1>3, RemoveStep
<1>4. CASE Interrupt
  <2>1. /\ at # "idle" /\ at' = "idle"
        /\ UNCHANGED <<supervisor, number, verdict, binary, definition, enabled,
                       loaded, job, runs>>
    BY <1>4 DEF Interrupt
  <2> QED
    BY <2>1 DEF InstallInv, Numbered, Progress, Undone, Reported,
       BinaryIsWhole, VerdictKept, Writing, Registering, Whole
<1>5. CASE JobFails \/ JobStopped \/ JobRestarts \/ Login
  BY <1>5, OuterStep DEF Outer
<1> QED
  BY <1>1, <1>2, <1>3, <1>4, <1>5 DEF InstallNext

LEMMA InstallStart == InstallInit => InstallInv
BY InstallAssumption
   DEF InstallInit, InstallInv, Numbered, Progress, Undone, Reported,
       BinaryIsWhole, VerdictKept, Writing, Registering

LEMMA InstallInvariant == InstallSpec => []InstallInv
BY InstallStart, InstallStep, PTL DEF InstallSpec

-----------------------------------------------------------------------------
\* The service never runs, and is never left with, a binary that is not whole
\* (service.go, installBinary).
THEOREM NoPartialBinary == InstallSpec => []BinaryIsWhole
<1>1. InstallInv => BinaryIsWhole
  BY DEF InstallInv
<1> QED
  BY InstallInvariant, <1>1, PTL

\* What a command has reported stays true until the next one begins.
THEOREM ReportsHold == InstallSpec => []VerdictKept
<1>1. InstallInv => VerdictKept
  BY DEF InstallInv, Reported
<1> QED
  BY InstallInvariant, <1>1, PTL

\* An install that reports success has replaced the process that ran
\* (service_linux.go, "A re-install after an edit must replace the running
\* process").
THEOREM InstallReplaces == InstallSpec => InstallTakesEffect
<1>1. ASSUME InstallInv, InstallNext,
             verdict' = "installed", verdict # "installed"
      PROVE  /\ job' = "active"
             /\ runs' = [binary |-> number, definition |-> number]
  <2> USE DEF cmdVars, diskVars, jobVars, InstallGoto
  <2>1. ~ (JobFails \/ JobStopped \/ JobRestarts \/ Login \/ Interrupt)
    BY <1>1 DEF JobFails, JobStopped, JobRestarts, Login, Interrupt
  <2>2. ~RemoveService
    BY <1>1 DEF RemoveService, Uninstall, StopJob, DisableJob,
       DeleteDefinition, ForgetDefinition, EndUninstall, GiveUp
  <2>3. Restart \/ Bootstrap
    BY <1>1, <2>1, <2>2
       DEF InstallNext, Install, BuildService, Confirm, Cancel, CopyBinary,
           PlaceBinary, EmptyDefinition, FillDefinition, DaemonReload, Enable,
           RestartFails, DisableBroken, Bootout, BootstrapFails, Discard,
           GiveUp
  <2>4. CASE Restart
    BY <1>1, <2>4 DEF Restart, Restarted, Launch, InstallInv, Progress,
       Writing, Registering
  <2>5. CASE Bootstrap
    BY <1>1, <2>5 DEF Bootstrap, Launch, InstallInv, Progress, Writing, Registering
  <2> QED
    BY <2>3, <2>4, <2>5
<1>2. InstallInv /\ [InstallNext]_installVars
        => [verdict' = "installed" /\ verdict # "installed" =>
              /\ job' = "active"
              /\ runs' = [binary |-> number, definition |-> number]]_installVars
  BY <1>1
<1> QED
  BY InstallInvariant, <1>2, PTL DEF InstallSpec, InstallTakesEffect

-----------------------------------------------------------------------------
(* The token                                                                *)

\* What is shown to the owner was resolved from some token.
Resolved ==
    at = "built" => \E t \in TokenInput(Tokens) :
                       build.token = t /\ build.source = resolveToken(t).source

LEMMA ResolvedStep == Resolved /\ [InstallNext]_installVars => Resolved'
<1> SUFFICES ASSUME Resolved, [InstallNext]_installVars, at' = "built"
             PROVE  (\E t \in TokenInput(Tokens) :
                       build.token = t /\ build.source = resolveToken(t).source)'
  BY DEF Resolved
<1>1. CASE \E c \in Captures, t \in TokenInput(Tokens) : BuildService(c, t)
  <2>1. PICK c \in Captures, t \in TokenInput(Tokens) : BuildService(c, t)
    BY <1>1
  <2>2. build'.token = t /\ build'.source = resolveToken(t).source
    BY <2>1 DEF BuildService
  <2> QED
    BY <2>2
<1>2. CASE ~ (\E c \in Captures, t \in TokenInput(Tokens) : BuildService(c, t))
  <2>1. at = "built" /\ build' = build
    BY <1>2
       DEF InstallNext, Install, Confirm, Cancel, CopyBinary, PlaceBinary,
           EmptyDefinition, FillDefinition, DaemonReload, Enable, Restart,
           RestartFails, DisableBroken, Bootout, Bootstrap, BootstrapFails,
           Discard, RemoveService, Uninstall, StopJob, DisableJob,
           DeleteDefinition, ForgetDefinition, EndUninstall, Interrupt,
           JobFails, JobStopped, JobRestarts, Login, GiveUp, InstallGoto,
           cmdVars, installVars
  <2> QED
    BY <2>1 DEF Resolved
<1> QED
  BY <1>1, <1>2

\* A token that is not warned about is found again in the environment of the
\* job, whatever the default configuration, the environment and the .env file
\* say, when the command was given the default configuration.
LEMMA TokenFound ==
  ASSUME NEW t \in TokenInput(Tokens)
  PROVE  PortableToken(t, resolveToken(t).source)
<1> SUFFICES ASSUME t.config = t.default, resolveToken(t).source \in SilentSources
             PROVE  FoundAgain(t)
  BY DEF PortableToken
<1>1. UnderService(t).config = t.config /\ UnderService(t).env = None
  BY DEF UnderService, TokenInput
<1>2. CASE t.config.literal # None
  BY <1>1, <1>2 DEF FoundAgain, resolveToken
<1>3. CASE t.config.literal = None
  <2>1. t.env = None /\ t.config.dotenv # None
    BY <1>3 DEF resolveToken, EnvAfter, SilentSources
  <2> QED
    BY <1>1, <1>3, <2>1 DEF FoundAgain, resolveToken, EnvAfter
<1> QED
  BY <1>2, <1>3

\* An install that reads the default configuration and does not warn about the
\* token has one that the job finds.
THEOREM TokensArePortable == InstallSpec => []TokenIsPortable
<1>1. InstallInit => Resolved
  BY DEF InstallInit, Resolved
<1>2. Resolved => TokenIsPortable
  BY TokenFound DEF Resolved, TokenIsPortable
<1> QED
  BY <1>1, <1>2, ResolvedStep, PTL DEF InstallSpec

-----------------------------------------------------------------------------
(* The PATH                                                                 *)

\* An entry that is cleaned is an entry, and what is kept of a capture is a PATH.
LEMMA CleanedIs ==
    ASSUME NEW e \in Entries
    PROVE  Cleaned(e) \in Entries
  BY PathAssumption DEF Cleaned, Clean, Entry, Entries, Written

LEMMA CleanEntriesIs ==
    ASSUME NEW q \in Seq(Entries)
    PROVE  cleanEntries(q) \in Seq(Entries)
<1> DEFINE n == Len(q)
           S == Seq(Entries)
           op(out, e) == IF Usable(e) THEN Append(out, Cleaned(e)) ELSE out
           F == [p \in S \X (1..n) |-> op(p[1], q[p[2]])]
           Eq(g) == g = [t \in SUBSET DOMAIN q |->
                            IF t = {} THEN <<>> ELSE op(g[t \ {Max(t)}], q[Max(t)])]
           it == CHOOSE g : Eq(g)
<1>1. n \in Nat /\ DOMAIN q = 1..n /\ \A i \in 1..n : q[i] \in Entries
  OBVIOUS
<1>2. <<>> \in S
  OBVIOUS
<1> HIDE DEF n
<1>3. \A t \in S, i \in 1..n : F[<<t, i>>] = op(t, q[i])
  OBVIOUS
<1>4. StepsIn(F, S, n)
  <2>1. ASSUME NEW t \in S, NEW i \in 1..n PROVE op(t, q[i]) \in S
    <3>1. Cleaned(q[i]) \in Entries
      BY <1>1, CleanedIs
    <3>2. Append(t, Cleaned(q[i])) \in S
      BY <3>1, AppendOf
    <3> QED
      BY <3>2
  <2> HIDE DEF F, S, op
  <2> QED
    BY <1>3, <2>1 DEF StepsIn
<1> HIDE DEF F, S
<1>7. cleanEntries(q) = it[1..n]
  BY <1>1, Zenon DEF cleanEntries, FoldLeft, MapThenFoldSet
<1> HIDE DEF op
<1>5. \E g : Eq(g)
  <2> DEFINE f == FoldFn(n, <<>>, F)
             h == [t \in SUBSET (1..n) |-> f[t]]
  <2>1. FoldsIn(f, <<>>, F, S, n)
    BY <1>1, <1>2, <1>4, FoldFnIs
  <2> HIDE DEF f
  <2>2. ASSUME NEW t \in SUBSET (1..n)
        PROVE  h[t] = IF t = {} THEN <<>> ELSE op(h[t \ {Max(t)}], q[Max(t)])
    <3>1. CASE t = {}
      BY <2>1, <3>1 DEF FoldsIn
    <3>2. CASE t # {}
      <4>1. Max(t) \in 1..n /\ t \ {Max(t)} \in SUBSET (1..n)
        BY <1>1, <3>2, MaxIndex
      <4> QED
        BY <1>1, <1>3, <2>1, <3>2, <4>1 DEF FoldsIn
    <3> QED
      BY <3>1, <3>2
  <2>3. Eq(h)
    BY <1>1, <2>2
  <2> QED
    BY <2>3
<1>6. Eq(it)
  BY <1>5
<1> HIDE DEF it
<1>8. Folds(it, <<>>, F, S, n)
  <2>1. it[{}] = <<>>
    BY <1>1, <1>6
  <2>2. ASSUME NEW t \in SUBSET (1..n), t # {}, it[t \ {Max(t)}] \in S
        PROVE  it[t] = F[<<it[t \ {Max(t)}], Max(t)>>]
    <3>1. Max(t) \in 1..n
      BY <1>1, <2>2, MaxIndex
    <3>2. it[t] = op(it[t \ {Max(t)}], q[Max(t)])
      BY <1>1, <1>6, <2>2
    <3> QED
      BY <1>1, <1>3, <2>2, <3>1, <3>2
  <2> QED
    BY <2>1, <2>2 DEF Folds
<1>9. it[1..n] \in S
  BY <1>1, <1>2, <1>4, <1>8, FoldRun
<1> QED
  BY <1>7, <1>9 DEF S

LEMMA BasePathIs == BasePath \in Seq(Entries)
<1> DEFINE n == Len(Base)
<1>1. n \in Nat /\ DOMAIN Base = 1..n /\ \A i \in 1..n : Base[i] \in Directories
  BY PathAssumption
<1>2. \A i \in 1..n : Clean(Base[i]) \in Entries
  BY <1>1 DEF Clean, Entry, Entries, Written
<1>3. BasePath = [i \in 1..n |-> Clean(Base[i])]
  BY <1>1 DEF BasePath
<1> HIDE DEF n
<1> QED
  BY <1>1, <1>2, <1>3

\* The least index of an element is the one that First picks, and there is one.
LEMMA FirstIs ==
    ASSUME NEW S, NEW q \in Seq(S), NEW e \in ToSet(q)
    PROVE  /\ First(q, e) \in 1..Len(q) /\ q[First(q, e)] = e
           /\ \A j \in 1..Len(q) : q[j] = e => First(q, e) <= j
<1> DEFINE T == {i \in 1..Len(q) : q[i] = e}
<1>1. DOMAIN q = 1..Len(q) /\ Len(q) \in Nat
  OBVIOUS
<1>2. T \subseteq Nat /\ T # {}
  BY <1>1 DEF ToSet
<1>3. PICK x \in T : \A y \in T : x <= y
  BY <1>2, LeastOfNat
<1>4. \E i \in DOMAIN q : q[i] = e /\ \A j \in DOMAIN q : q[j] = e => i <= j
  BY <1>1, <1>3
<1> QED
  BY <1>1, <1>4 DEF First

LEMMA FirstOnly ==
    ASSUME NEW S, NEW q \in Seq(S), NEW k \in 1..Len(q),
           \A j \in 1..Len(q) : q[j] = q[k] => k <= j
    PROVE  First(q, q[k]) = k
<1>1. DOMAIN q = 1..Len(q) /\ Len(q) \in Nat
  OBVIOUS
<1>2. q[k] \in ToSet(q)
  BY <1>1 DEF ToSet
<1> DEFINE f == First(q, q[k])
<1>3. f \in 1..Len(q) /\ q[f] = q[k] /\ \A j \in 1..Len(q) : q[j] = q[k] => f <= j
  BY <1>2, FirstIs
<1> HIDE DEF f
<1>4. f <= k /\ k <= f /\ f \in Int /\ k \in Int
  BY <1>1, <1>3
<1>5. f = k
  BY <1>4
<1> QED
  BY <1>5 DEF f

\* One step of dedupe: what is kept of the first m elements is there once, and
\* in the order in which it came first.
Pick(out, e) == IF e \in ToSet(out) THEN out ELSE Append(out, e)

PickedOf(q, m, out) ==
    /\ IsInjective(out)
    /\ ToSet(out) = {q[i] : i \in 1..m}
    /\ \A k, l \in 1..Len(out) : k < l => First(q, out[k]) < First(q, out[l])

LEMMA PickStep ==
    ASSUME NEW S, NEW q \in Seq(S), NEW m \in Nat, m + 1 <= Len(q),
           NEW out \in Seq(S), PickedOf(q, m, out)
    PROVE  PickedOf(q, m + 1, Pick(out, q[m + 1]))
<1> DEFINE e == q[m + 1]
           n == Len(out)
<1>1. /\ Len(q) \in Nat /\ DOMAIN q = 1..Len(q) /\ m + 1 \in 1..Len(q) /\ e \in S
      /\ DOMAIN out = 1..n /\ n \in Nat
  OBVIOUS
<1>2. 1..m + 1 = 1..m \cup {m + 1}
  OBVIOUS
<1>3. {q[i] : i \in 1..m + 1} = {q[i] : i \in 1..m} \cup {e}
  BY <1>2
<1>4. CASE e \in ToSet(out)
  <2>1. Pick(out, e) = out
    BY <1>4 DEF Pick
  <2> QED
    BY <1>3, <1>4, <2>1 DEF PickedOf
<1>5. CASE e \notin ToSet(out)
  <2> DEFINE p == Append(out, e)
  <2>1. Pick(out, e) = p
    BY <1>5 DEF Pick
  <2>2. ToSet(out) = Range(out) /\ ToSet(p) = Range(p)
    BY DEF ToSet, Range
  <2>3. IsInjective(p) /\ ToSet(p) = ToSet(out) \cup {e}
    BY <1>1, <1>5, <2>2, AppendRange DEF PickedOf
  <2>4. /\ Len(p) = n + 1 /\ p[n + 1] = e
        /\ \A k \in 1..n : p[k] = out[k]
        /\ \A k \in 1..n + 1 : k \in 1..n \/ k = n + 1
    BY <1>1, AppendOf
  <2> HIDE DEF p
  <2>5. First(q, e) = m + 1
    <3>1. \A i \in 1..m : q[i] # e
      BY <1>5 DEF PickedOf
    <3>2. ASSUME NEW j \in 1..Len(q), q[j] = q[m + 1] PROVE m + 1 <= j
      <4>1. j \notin 1..m
        BY <3>1, <3>2
      <4> QED
        BY <4>1
    <3> QED
      BY <1>1, <3>2, FirstOnly
  <2>6. ASSUME NEW k \in 1..n PROVE First(q, out[k]) \in 1..m
    <3>1. out[k] \in ToSet(out)
      BY <1>1 DEF ToSet
    <3>2. PICK i \in 1..m : q[i] = out[k]
      BY <3>1 DEF PickedOf
    <3>3. i \in 1..Len(q)
      BY <1>1
    <3>4. out[k] \in ToSet(q)
      BY <1>1, <3>2, <3>3 DEF ToSet
    <3> DEFINE f == First(q, out[k])
    <3>5. f \in 1..Len(q) /\ f <= i
      BY <3>2, <3>3, <3>4, FirstIs
    <3> HIDE DEF f
    <3>6. f \in 1..m
      BY <1>1, <3>5
    <3> QED
      BY <3>6 DEF f
  <2>7. ASSUME NEW k \in 1..n + 1, NEW l \in 1..n + 1, k < l
        PROVE  First(q, p[k]) < First(q, p[l])
    <3>1. k \in 1..n
      BY <1>1, <2>7
    <3>2. CASE l = n + 1
      <4>1. First(q, p[l]) = m + 1 /\ First(q, p[k]) \in 1..m
        BY <2>4, <2>5, <2>6, <3>1, <3>2
      <4> QED
        BY <4>1
    <3>3. CASE l \in 1..n
      BY <2>4, <2>7, <3>1, <3>3 DEF PickedOf
    <3> QED
      BY <2>4, <3>2, <3>3
  <2>8. ToSet(p) = {q[i] : i \in 1..m + 1}
    BY <1>3, <2>3 DEF PickedOf
  <2> QED
    BY <2>1, <2>3, <2>4, <2>7, <2>8 DEF PickedOf
<1> QED
  BY <1>4, <1>5

\* The loop of dedupe.
LEMMA DedupeIs ==
    ASSUME NEW S, NEW q \in Seq(S)
    PROVE  dedupe(q) \in Seq(S) /\ PickedOf(q, Len(q), dedupe(q))
<1> DEFINE n == Len(q)
           X == Seq(S)
           F == [p \in X \X (1..n) |-> Pick(p[1], q[p[2]])]
           Eq(g) == g = [t \in SUBSET DOMAIN q |->
                            IF t = {} THEN <<>> ELSE Pick(g[t \ {Max(t)}], q[Max(t)])]
           it == CHOOSE g : Eq(g)
<1>1. n \in Nat /\ DOMAIN q = 1..n /\ \A i \in 1..n : q[i] \in S
  OBVIOUS
<1>2. <<>> \in X
  OBVIOUS
<1> HIDE DEF n
<1>3. \A t \in X, i \in 1..n : F[<<t, i>>] = Pick(t, q[i])
  OBVIOUS
<1>4. StepsIn(F, X, n)
  <2>1. ASSUME NEW t \in X, NEW i \in 1..n PROVE Pick(t, q[i]) \in X
    <3>1. Append(t, q[i]) \in X
      BY <1>1, AppendOf
    <3> QED
      BY <3>1 DEF Pick
  <2> HIDE DEF F, X
  <2> QED
    BY <1>3, <2>1 DEF StepsIn
<1> HIDE DEF F, X
<1>7. dedupe(q) = it[1..n]
  BY <1>1, Zenon DEF dedupe, Pick, FoldLeft, MapThenFoldSet
<1>5. \E g : Eq(g)
  <2> DEFINE f == FoldFn(n, <<>>, F)
             h == [t \in SUBSET (1..n) |-> f[t]]
  <2>1. FoldsIn(f, <<>>, F, X, n)
    BY <1>1, <1>2, <1>4, FoldFnIs
  <2> HIDE DEF f
  <2>2. ASSUME NEW t \in SUBSET (1..n)
        PROVE  h[t] = IF t = {} THEN <<>> ELSE Pick(h[t \ {Max(t)}], q[Max(t)])
    <3>1. CASE t = {}
      BY <2>1, <3>1 DEF FoldsIn
    <3>2. CASE t # {}
      <4>1. Max(t) \in 1..n /\ t \ {Max(t)} \in SUBSET (1..n)
        BY <1>1, <3>2, MaxIndex
      <4> QED
        BY <1>1, <1>3, <2>1, <3>2, <4>1 DEF FoldsIn
    <3> QED
      BY <3>1, <3>2
  <2>3. Eq(h)
    BY <1>1, <2>2
  <2> QED
    BY <2>3
<1>6. Eq(it)
  BY <1>5
<1> HIDE DEF it
<1>8. Folds(it, <<>>, F, X, n)
  <2>1. it[{}] = <<>>
    BY <1>1, <1>6
  <2>2. ASSUME NEW t \in SUBSET (1..n), t # {}, it[t \ {Max(t)}] \in X
        PROVE  it[t] = F[<<it[t \ {Max(t)}], Max(t)>>]
    <3>1. Max(t) \in 1..n
      BY <1>1, <2>2, MaxIndex
    <3>2. it[t] = Pick(it[t \ {Max(t)}], q[Max(t)])
      BY <1>1, <1>6, <2>2
    <3> QED
      BY <1>1, <1>3, <2>2, <3>1, <3>2
  <2> QED
    BY <2>1, <2>2 DEF Folds
<1>9. /\ it[1..0] = <<>>
      /\ \A i \in 0..n : it[1..i] \in X
      /\ \A i \in 1..n : it[1..i] = F[<<it[1..i - 1], i>>]
  BY <1>1, <1>2, <1>4, <1>8, FoldRun
<1> DEFINE U == {m \in Nat : m <= n => PickedOf(q, m, it[1..m])}
<1>10. 0 \in U
  <2>1. PickedOf(q, 0, <<>>)
    <3>1. IsInjective(<<>>) /\ ToSet(<<>>) = {}
      BY DEF IsInjective, ToSet
    <3>2. Len(<<>>) = 0 /\ 1..0 = {}
      OBVIOUS
    <3> QED
      BY <3>1, <3>2 DEF PickedOf
  <2> QED
    BY <1>9, <2>1
<1>11. ASSUME NEW m \in Nat, m \in U PROVE m + 1 \in U
  <2> SUFFICES ASSUME m + 1 <= n PROVE PickedOf(q, m + 1, it[1..m + 1])
    OBVIOUS
  <2>1. m <= n /\ m \in 0..n /\ m + 1 \in 1..n /\ (m + 1) - 1 = m
    BY <1>1
  <2>2. it[1..m] \in X /\ it[1..m + 1] = Pick(it[1..m], q[m + 1])
    BY <1>3, <1>9, <2>1
  <2>3. PickedOf(q, m, it[1..m])
    BY <1>11, <2>1
  <2>4. m + 1 <= Len(q)
    BY <2>1 DEF n
  <2> QED
    BY <2>2, <2>3, <2>4, PickStep DEF X
<1>12. n \in U
  <2> HIDE DEF U
  <2> QED
    BY <1>1, <1>10, <1>11, NatInduct
<1>13. n \in 0..n
  BY <1>1
<1>14. PickedOf(q, n, it[1..n]) /\ it[1..n] \in X
  BY <1>1, <1>9, <1>12, <1>13
<1> QED
  BY <1>7, <1>14 DEF X, n

\* What is repeated or put behind a sequence leaves its order alone.
LEMMA PathOf ==
    ASSUME NEW S, NEW part \in Seq(S), NEW base \in Seq(S)
    PROVE  LET path == dedupe(part \o base)
           IN  /\ IsInjective(path)
               /\ ToSet(path) = ToSet(part) \cup ToSet(base)
               /\ InOrder(part, path)
<1> DEFINE q == part \o base
           path == dedupe(q)
           n == Len(part)
           m == Len(base)
<1>1. /\ q \in Seq(S) /\ n \in Nat /\ m \in Nat /\ Len(q) = n + m
      /\ DOMAIN q = 1..n + m /\ DOMAIN part = 1..n /\ DOMAIN base = 1..m
  OBVIOUS
<1>2. \A i \in 1..n : q[i] = part[i] /\ i \in 1..n + m
  BY <1>1
<1>3. \A i \in 1..m : q[n + i] = base[i] /\ n + i \in 1..n + m
  BY <1>1
<1>4. \A i \in 1..n + m : i \in 1..n \/ (i - n \in 1..m /\ n + (i - n) = i)
  BY <1>1
<1>5. path \in Seq(S) /\ PickedOf(q, Len(q), path)
  BY <1>1, DedupeIs
<1> HIDE DEF q, path, n, m
<1>6. ToSet(q) = ToSet(part) \cup ToSet(base)
  <2>1. \A x \in ToSet(q) : x \in ToSet(part) \cup ToSet(base)
    <3> SUFFICES ASSUME NEW i \in 1..n + m PROVE q[i] \in ToSet(part) \cup ToSet(base)
      BY <1>1 DEF ToSet
    <3>1. CASE i \in 1..n
      BY <1>1, <1>2, <3>1 DEF ToSet
    <3>2. CASE i - n \in 1..m /\ n + (i - n) = i
      <4>1. q[i] = base[i - n]
        BY <1>3, <3>2
      <4> QED
        BY <1>1, <3>2, <4>1 DEF ToSet
    <3> QED
      BY <1>4, <3>1, <3>2
  <2>2. \A x \in ToSet(part) : x \in ToSet(q)
    BY <1>1, <1>2 DEF ToSet
  <2>3. \A x \in ToSet(base) : x \in ToSet(q)
    BY <1>1, <1>3 DEF ToSet
  <2> QED
    BY <2>1, <2>2, <2>3
<1>7. ToSet(path) = ToSet(q)
  BY <1>1, <1>5 DEF PickedOf, ToSet
<1>8. ASSUME NEW d \in ToSet(part) PROVE First(part, d) = First(q, d)
  <2> DEFINE k == First(part, d)
  <2>1. k \in 1..n /\ part[k] = d /\ \A j \in 1..n : part[j] = d => k <= j
    BY FirstIs DEF n
  <2> HIDE DEF k
  <2>2. q[k] = d /\ k \in 1..Len(q)
    BY <1>1, <1>2, <2>1
  <2>3. ASSUME NEW j \in 1..Len(q), q[j] = q[k] PROVE k <= j
    <3>1. CASE j \in 1..n
      BY <1>2, <2>1, <2>2, <2>3, <3>1
    <3>2. CASE j \notin 1..n
      BY <1>1, <2>1, <3>2
    <3> QED
      BY <3>1, <3>2
  <2>4. First(q, q[k]) = k
    BY <1>1, <2>2, <2>3, FirstOnly
  <2> QED
    BY <2>2, <2>4 DEF k
<1>9. ASSUME NEW d \in ToSet(part), NEW e \in ToSet(part),
             First(part, d) < First(part, e)
      PROVE  First(path, d) < First(path, e)
  <2> DEFINE k == First(path, d)
             l == First(path, e)
             a == First(q, d)
             b == First(q, e)
  <2>1. d \in ToSet(path) /\ e \in ToSet(path) /\ d \in ToSet(q) /\ e \in ToSet(q)
    BY <1>6, <1>7
  <2>2. /\ k \in 1..Len(path) /\ path[k] = d
        /\ l \in 1..Len(path) /\ path[l] = e
    BY <1>5, <2>1, FirstIs
  <2>3. a \in 1..Len(q) /\ b \in 1..Len(q)
    BY <1>1, <2>1, FirstIs
  <2>4. a < b
    BY <1>8, <1>9
  <2> HIDE DEF k, l
  <2>5. l < k => b < a
    BY <1>5, <2>2 DEF PickedOf
  <2>6. l = k => a = b
    BY <2>2
  <2> HIDE DEF a, b
  <2>7. k < l
    <3>1. Len(path) \in Nat /\ k \in Int /\ l \in Int /\ a \in Int /\ b \in Int
      BY <1>1, <1>5, <2>2, <2>3
    <3> QED
      BY <2>4, <2>5, <2>6, <3>1
  <2> QED
    BY <2>7 DEF k, l
<1>10. IsInjective(path) /\ InOrder(part, path)
  BY <1>5, <1>9 DEF PickedOf, InOrder
<1> QED
  BY <1>6, <1>7, <1>10 DEF path, q

\* Of every two captures.
LEMMA ResolvedIsSound ==
    ASSUME NEW inherited \in Seq(Entries), NEW login \in Seq(Entries)
    PROVE  SoundPath(ResolvePath(inherited, login), inherited, login)
<1> DEFINE inh == cleanEntries(inherited)
           log == cleanEntries(login)
           part == Chosen(inh, log)
           path == ResolvePath(inherited, login)
<1>1. inh \in Seq(Entries) /\ log \in Seq(Entries)
  BY CleanEntriesIs
<1>2. path = dedupe(part \o BasePath)
  BY DEF ResolvePath
<1> HIDE DEF inh, log, path
<1>3. inh \o log \in Seq(Entries)
  <2> HIDE DEF Entries
  <2> QED
    BY <1>1
<1>4. part = IF adequatePath(inh) THEN inh
             ELSE IF adequatePath(log) THEN log ELSE inh \o log
  BY DEF Chosen
<1> HIDE DEF part
<1>5. part \in Seq(Entries)
  BY <1>1, <1>3, <1>4
<1>6. /\ IsInjective(path)
      /\ ToSet(path) = ToSet(part) \cup ToSet(BasePath)
      /\ InOrder(part, path)
  BY <1>2, <1>5, BasePathIs, PathOf
<1> QED
  BY <1>4, <1>6, Zenon DEF SoundPath, inh, log, path

\* What is shown to the owner was resolved from some capture.
Captured ==
    at = "built" => \E c \in Captures :
        /\ build.inherited = c.inherited /\ build.login = c.login
        /\ build.path = ResolvePath(c.inherited, c.login)

LEMMA CapturedStep == Captured /\ [InstallNext]_installVars => Captured'
<1> SUFFICES ASSUME Captured, [InstallNext]_installVars, at' = "built"
             PROVE  (\E c \in Captures :
                        /\ build.inherited = c.inherited /\ build.login = c.login
                        /\ build.path = ResolvePath(c.inherited, c.login))'
  BY DEF Captured
<1>1. CASE \E c \in Captures, t \in TokenInput(Tokens) : BuildService(c, t)
  <2>1. PICK c \in Captures, t \in TokenInput(Tokens) : BuildService(c, t)
    BY <1>1
  <2>2. /\ build'.inherited = c.inherited /\ build'.login = c.login
        /\ build'.path = ResolvePath(c.inherited, c.login)
    BY <2>1 DEF BuildService
  <2> QED
    BY <2>2
<1>2. CASE ~ (\E c \in Captures, t \in TokenInput(Tokens) : BuildService(c, t))
  <2>1. at = "built" /\ build' = build
    BY <1>2
       DEF InstallNext, Install, Confirm, Cancel, CopyBinary, PlaceBinary,
           EmptyDefinition, FillDefinition, DaemonReload, Enable, Restart,
           RestartFails, DisableBroken, Bootout, Bootstrap, BootstrapFails,
           Discard, RemoveService, Uninstall, StopJob, DisableJob,
           DeleteDefinition, ForgetDefinition, EndUninstall, Interrupt,
           JobFails, JobStopped, JobRestarts, Login, GiveUp, InstallGoto,
           cmdVars, installVars
  <2> QED
    BY <2>1 DEF Captured
<1> QED
  BY <1>1, <1>2

\* The PATH of the job has the base directories and no entry twice, and every
\* usable entry of the captures it takes in their order, for all captures, base
\* directories and bounds (path.go, ResolvePath).
THEOREM PathsAreSound == InstallSpec => []PathIsSound
<1>1. InstallInit => Captured
  BY DEF InstallInit, Captured
<1>2. Captured => PathIsSound
  <2> SUFFICES ASSUME Captured, at = "built"
               PROVE  SoundPath(build.path, build.inherited, build.login)
    BY DEF PathIsSound
  <2>1. PICK c \in Captures :
           /\ build.inherited = c.inherited /\ build.login = c.login
           /\ build.path = ResolvePath(c.inherited, c.login)
    BY DEF Captured
  <2>2. c.inherited \in Seq(Entries) /\ c.login \in Seq(Entries)
    BY InstallAssumption
  <2> QED
    BY <2>1, <2>2, ResolvedIsSound
<1> QED
  BY <1>1, <1>2, CapturedStep, PTL DEF InstallSpec

-----------------------------------------------------------------------------
(* Types                                                                    *)

Files(n) == 0..n \cup {Part}

\* What is resolved is there exactly while the owner looks at it.
Shown == at = "built" <=> build # NoBuild

LEMMA ShownStep == Shown /\ InstallNext => Shown'
<1> SUFFICES ASSUME Shown, InstallNext PROVE Shown'
  OBVIOUS
<1> USE DEF Shown, InstallGoto, cmdVars
<1>1. ASSUME NEW c \in Captures, NEW t \in TokenInput(Tokens), BuildService(c, t)
      PROVE  Shown'
  <2>1. "token" \in DOMAIN build'
    BY <1>1 DEF BuildService
  <2>2. "token" \notin DOMAIN NoBuild
    BY DEF NoBuild
  <2> QED
    BY <1>1, <2>1, <2>2 DEF BuildService
<1>2. CASE Confirm \/ Cancel \/ Login \/ Interrupt
  BY <1>2 DEF Confirm, Cancel, Login, Interrupt
<1>3. CASE \/ CopyBinary \/ PlaceBinary \/ EmptyDefinition \/ FillDefinition
           \/ DaemonReload \/ Enable \/ Restart \/ RestartFails
           \/ DisableBroken \/ Bootout \/ Bootstrap \/ BootstrapFails \/ Discard
  BY <1>3 DEF CopyBinary, PlaceBinary, EmptyDefinition, FillDefinition,
     DaemonReload, Enable, Restart, RestartFails, DisableBroken, Bootout,
     Bootstrap, BootstrapFails, Discard, GiveUp
<1>4. CASE RemoveService
  BY <1>4 DEF RemoveService, Uninstall, StopJob, DisableJob, DeleteDefinition,
     ForgetDefinition, EndUninstall, GiveUp
<1>5. CASE JobFails \/ JobStopped \/ JobRestarts
  BY <1>5 DEF JobFails, JobStopped, JobRestarts
<1> QED
  BY <1>1, <1>2, <1>3, <1>4, <1>5 DEF InstallNext, Install

LEMMA EnabledStep == enabled \in BOOLEAN /\ InstallNext => enabled' \in BOOLEAN
<1> SUFFICES ASSUME enabled \in BOOLEAN, InstallNext PROVE enabled' \in BOOLEAN
  OBVIOUS
<1>1. CASE Enable
  BY <1>1, Zenon DEF Enable
<1>2. CASE DisableBroken \/ DisableJob
  BY <1>2, Zenon DEF DisableBroken, DisableJob
<1>3. CASE ~ (Enable \/ DisableBroken \/ DisableJob)
  <2>1. UNCHANGED enabled
    BY <1>3
       DEF InstallNext, Install, BuildService, Confirm, Cancel, CopyBinary,
           PlaceBinary, EmptyDefinition, FillDefinition, DaemonReload, Restart,
           RestartFails, Bootout, Bootstrap, BootstrapFails, Discard,
           RemoveService, Uninstall, StopJob, DeleteDefinition,
           ForgetDefinition, EndUninstall, Interrupt, JobFails, JobStopped,
           JobRestarts, Login, GiveUp, diskVars
  <2> QED
    BY <2>1, Zenon
<1> QED
  BY <1>1, <1>2, <1>3

\* The files, what is loaded and what runs.
FilesTyped ==
    /\ binary \in Files(number) /\ definition \in Files(number)
    /\ loaded \in Files(number)
    /\ job \in {"off", "active", "waiting"}
    /\ runs \in [binary : Files(number), definition : Files(number)]

LEMMA FilesStep ==
  Numbered /\ FilesTyped /\ InstallNext =>
    FilesTyped' /\ (number' = number \/ (number < MaxInstall /\ number' = number + 1))
<1> SUFFICES ASSUME Numbered, FilesTyped, InstallNext
    PROVE  /\ FilesTyped'
           /\ number' = number \/ (number < MaxInstall /\ number' = number + 1)
  OBVIOUS
<1>0. number \in Files(number) /\ 0 \in Files(number)
  BY DEF Numbered, Files
<1> USE DEF cmdVars, diskVars, jobVars
<1>1. ASSUME NEW c \in Captures, NEW t \in TokenInput(Tokens), BuildService(c, t)
      PROVE  FilesTyped' /\ number < MaxInstall /\ number' = number + 1
  <2>1. Files(number) \subseteq Files(number + 1)
    BY DEF Numbered, Files
  <2>2. /\ number < MaxInstall /\ number' = number + 1
        /\ UNCHANGED <<binary, definition, loaded, job, runs>>
    BY <1>1 DEF BuildService
  <2> QED
    BY <2>1, <2>2 DEF FilesTyped
<1>2. CASE ~ \E c \in Captures, t \in TokenInput(Tokens) : BuildService(c, t)
  <2>1. number' = number
    BY <1>2
       DEF InstallNext, Install, Confirm, Cancel, CopyBinary, PlaceBinary,
           EmptyDefinition, FillDefinition, DaemonReload, Enable, Restart,
           RestartFails, DisableBroken, Bootout, Bootstrap, BootstrapFails,
           Discard, RemoveService, Uninstall, StopJob, DisableJob,
           DeleteDefinition, ForgetDefinition, EndUninstall, Interrupt,
           JobFails, JobStopped, JobRestarts, Login, GiveUp
  <2>2. binary' \in Files(number) /\ definition' \in Files(number)
    <3>1. binary' \in {binary, number} /\ definition' \in {definition, number, 0, Part}
      BY <1>2
         DEF InstallNext, Install, Confirm, Cancel, CopyBinary, PlaceBinary,
             EmptyDefinition, FillDefinition, DaemonReload, Enable, Restart,
             RestartFails, DisableBroken, Bootout, Bootstrap, BootstrapFails,
             Discard, RemoveService, Uninstall, StopJob, DisableJob,
             DeleteDefinition, ForgetDefinition, EndUninstall, Interrupt,
             JobFails, JobStopped, JobRestarts, Login, GiveUp
    <3>2. Part \in Files(number)
      BY DEF Files
    <3> QED
      BY <1>0, <3>1, <3>2 DEF FilesTyped
  <2>3. loaded' \in Files(number)
    <3>1. loaded' \in {loaded, definition, 0}
      BY <1>2
         DEF InstallNext, Install, Confirm, Cancel, CopyBinary, PlaceBinary,
             EmptyDefinition, FillDefinition, DaemonReload, Enable, Restart,
             RestartFails, DisableBroken, Bootout, Bootstrap, BootstrapFails,
             Discard, RemoveService, Uninstall, StopJob, DisableJob,
             DeleteDefinition, ForgetDefinition, EndUninstall, Interrupt,
             JobFails, JobStopped, JobRestarts, Login, GiveUp
    <3> QED
      BY <1>0, <3>1 DEF FilesTyped
  <2>4. /\ job' \in {"off", "active", "waiting"}
        /\ runs' \in [binary : Files(number), definition : Files(number)]
    <3>1. \/ UNCHANGED <<job, runs>>
          \/ job' \in {"off", "waiting"} /\ runs' = NoRun
          \/ job' = "active" /\ runs' = [binary |-> binary, definition |-> loaded]
          \/ job' = "active" /\ runs' = [binary |-> binary, definition |-> definition]
      BY <1>2
         DEF InstallNext, Install, Confirm, Cancel, CopyBinary, PlaceBinary,
             EmptyDefinition, FillDefinition, DaemonReload, Enable, Restart,
             Restarted, RestartFails, DisableBroken, Bootout, Bootstrap,
             BootstrapFails, Discard, RemoveService, Uninstall, StopJob,
             DisableJob, DeleteDefinition, ForgetDefinition, EndUninstall,
             Interrupt, JobFails, JobStopped, JobRestarts, Login, GiveUp, Halt,
             Launch
    <3> QED
      BY <1>0, <3>1 DEF FilesTyped, NoRun
  <2> QED
    BY <2>1, <2>2, <2>3, <2>4 DEF FilesTyped
<1> QED
  BY <1>1, <1>2

LEMMA VerdictStep ==
  InstallNext => verdict' \in {verdict, "none", "failed", "unstarted",
                               "installed", "warned", "removed"}
BY DEF InstallNext, Install, BuildService, Confirm, Cancel, CopyBinary,
   PlaceBinary, EmptyDefinition, FillDefinition, DaemonReload, Enable, Restart,
   RestartFails, DisableBroken, Bootout, Bootstrap, BootstrapFails, Discard,
   RemoveService, Uninstall, StopJob, DisableJob, DeleteDefinition,
   ForgetDefinition, EndUninstall, Interrupt, JobFails, JobStopped,
   JobRestarts, Login, GiveUp, cmdVars

LEMMA SupervisorStep == InstallNext => supervisor' = supervisor
BY DEF InstallNext, Install, BuildService, Confirm, Cancel, CopyBinary,
   PlaceBinary, EmptyDefinition, FillDefinition, DaemonReload, Enable, Restart,
   RestartFails, DisableBroken, Bootout, Bootstrap, BootstrapFails, Discard,
   RemoveService, Uninstall, StopJob, DisableJob, DeleteDefinition,
   ForgetDefinition, EndUninstall, Interrupt, JobFails, JobStopped,
   JobRestarts, Login

LEMMA TypeParts ==
  InstallTypeOK <=>
    /\ supervisor \in Supervisors
    /\ number \in 0..MaxInstall
    /\ Shown
    /\ enabled \in BOOLEAN
    /\ FilesTyped
    /\ verdict \in {"none", "failed", "unstarted", "installed", "warned",
                    "removed"}
BY Zenon DEF InstallTypeOK, Shown, FilesTyped, Files

LEMMA TypePartsNext ==
  InstallTypeOK' <=>
    /\ supervisor' \in Supervisors
    /\ number' \in 0..MaxInstall
    /\ Shown'
    /\ enabled' \in BOOLEAN
    /\ FilesTyped'
    /\ verdict' \in {"none", "failed", "unstarted", "installed", "warned",
                     "removed"}
BY Zenon DEF InstallTypeOK, Shown, FilesTyped, Files

\* Every variable has its type, for every number of installs.
THEOREM InstallTypes == InstallSpec => []InstallTypeOK
<1>1. InstallInit => InstallTypeOK
  <2> SUFFICES ASSUME InstallInit PROVE InstallTypeOK
    OBVIOUS
  <2>1. enabled \in BOOLEAN
    BY Zenon DEF InstallInit
  <2>2. FilesTyped
    BY DEF InstallInit, FilesTyped, Files, NoRun
  <2>3. number \in 0..MaxInstall /\ Shown /\ supervisor \in Supervisors
    BY InstallAssumption DEF InstallInit, Shown
  <2> QED
    BY <2>1, <2>2, <2>3, TypeParts DEF InstallInit
<1>2. InstallTypeOK /\ [InstallNext]_installVars => InstallTypeOK'
  <2>1. CASE UNCHANGED installVars
    BY <2>1 DEF InstallTypeOK, installVars, cmdVars, diskVars, jobVars
  <2>2. ASSUME InstallTypeOK, InstallNext PROVE InstallTypeOK'
    <3>1. /\ supervisor \in Supervisors /\ number \in 0..MaxInstall /\ Shown
          /\ enabled \in BOOLEAN /\ FilesTyped
          /\ verdict \in {"none", "failed", "unstarted", "installed", "warned",
                          "removed"}
      BY <2>2, TypeParts, Zenon
    <3>2. Numbered
      BY <3>1, InstallAssumption DEF Numbered
    <3>3. /\ FilesTyped'
          /\ number' = number \/ (number < MaxInstall /\ number' = number + 1)
      BY <2>2, <3>1, <3>2, FilesStep
    <3>4. number' \in 0..MaxInstall
      BY <3>1, <3>3, InstallAssumption
    <3>5. verdict' \in {"none", "failed", "unstarted", "installed", "warned",
                        "removed"}
      BY <2>2, <3>1, VerdictStep
    <3>6. supervisor' \in Supervisors
      BY <2>2, <3>1, SupervisorStep
    <3>7. Shown' /\ enabled' \in BOOLEAN
      BY <2>2, <3>1, ShownStep, EnabledStep, Zenon
    <3> QED
      BY <3>3, <3>4, <3>5, <3>6, <3>7, TypePartsNext, Zenon
  <2> QED
    BY <2>1, <2>2
<1> QED
  BY <1>1, <1>2, PTL DEF InstallSpec
=============================================================================
