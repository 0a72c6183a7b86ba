---------------------------- MODULE InstanceLock ----------------------------
(***************************************************************************)
(* The single-instance lock of internal/instance/instance.go: a file that  *)
(* holds the pid of the gateway that runs.                                 *)
(*                                                                         *)
(* Nothing keeps two starts apart, and two that meet in Acquire may both   *)
(* go on.  overlapped remembers that this has happened: what the lock      *)
(* promises, it promises until then.                                       *)
(***************************************************************************)
EXTENDS Naturals, Processes

VARIABLES
    lockFile,   \* the process that created the file, and whether it wrote its pid
    lockAt,     \* where each gateway is with the lock; "none" when it is not one
    attempt,    \* the loop variable of Acquire
    foreign,    \* the pids that other programs have
    overlapped  \* history: two gateways have been in Acquire at one time

lockVars == <<lockFile, lockAt, attempt, foreign, overlapped>>

NoLock == [pid |-> None, written |-> FALSE]
LockOf(p, w) == [pid |-> p, written |-> w]

Starting == {"create", "write", "inspect", "remove"}    \* in Acquire
Owning == {"held", "release", "unlink"}

LockInit ==
    /\ lockFile = NoLock
    /\ lockAt = [p \in Pids |-> "none"]
    /\ attempt = [p \in Pids |-> 0]
    /\ foreign = {}
    /\ overlapped = FALSE

LockGoto(p, l, m) == lockAt[p] = l /\ lockAt' = [lockAt EXCEPT ![p] = m]

-----------------------------------------------------------------------------
(* Processes come and go                                                    *)

StartGateway(p) ==
    /\ p \notin foreign
    /\ LockGoto(p, "none", "create")
    /\ overlapped' = (overlapped \/ \E q \in Pids : lockAt[q] \in Starting)
    /\ UNCHANGED <<lockFile, attempt, foreign>>

\* A process ends: it is killed, or has no lock to wait for or to give back.
Ends(p) ==
    /\ lockAt[p] # "none"
    /\ lockAt' = [lockAt EXCEPT ![p] = "none"]
    /\ attempt' = [attempt EXCEPT ![p] = 0]
    /\ UNCHANGED <<lockFile, foreign, overlapped>>

OtherProgram(p) ==
    /\ lockAt[p] = "none"
    /\ foreign' = (foreign \ {p}) \cup ({p} \ foreign)
    /\ UNCHANGED <<lockFile, lockAt, attempt, overlapped>>

-----------------------------------------------------------------------------
(* Acquire                                                                  *)

\* os.O_CREATE|os.O_EXCL
Create(p) ==
    /\ LockGoto(p, "create", "write")
    /\ lockFile = NoLock
    /\ lockFile' = LockOf(p, FALSE)
    /\ UNCHANGED <<attempt, foreign, overlapped>>

CreateExists(p) ==
    /\ LockGoto(p, "create", "inspect")
    /\ lockFile # NoLock
    /\ UNCHANGED <<lockFile, attempt, foreign, overlapped>>

\* The directory or the file cannot be made, for any other reason.
CreateFails(p) ==
    /\ LockGoto(p, "create", "refused")
    /\ UNCHANGED <<lockFile, attempt, foreign, overlapped>>

\* The pid goes into the file this process created, wherever its name is now.
WritePid(p) ==
    /\ LockGoto(p, "write", "held")
    /\ lockFile' = IF lockFile.pid = p THEN LockOf(p, TRUE) ELSE lockFile
    /\ UNCHANGED <<attempt, foreign, overlapped>>

WriteFails(p) ==
    /\ LockGoto(p, "write", "refused")
    /\ lockFile' = NoLock
    /\ UNCHANGED <<attempt, foreign, overlapped>>

processAlive(p) == lockAt[p] # "none" \/ p \in foreign

\* readPID: an absent file and an empty one are both an error.
Readable == lockFile.written

\* A plausible error: a file that can be read is taken for a stale one.
InspectNobody(p) ==
    /\ LockGoto(p, "inspect", "remove")
    /\ UNCHANGED <<lockFile, attempt, foreign, overlapped>>

InspectStale(p) ==
    /\ LockGoto(p, "inspect", "remove")
    /\ Readable => ~processAlive(lockFile.pid)
    /\ UNCHANGED <<lockFile, attempt, foreign, overlapped>>

\* A plausible error: nobody asks whether the process is alive.
InspectPidOnly(p) ==
    /\ LockGoto(p, "inspect", "refused")
    /\ Readable
    /\ UNCHANGED <<lockFile, attempt, foreign, overlapped>>

InspectRunning(p) ==
    /\ LockGoto(p, "inspect", "refused")
    /\ Readable /\ processAlive(lockFile.pid)
    /\ UNCHANGED <<lockFile, attempt, foreign, overlapped>>

\* Whatever has the name of the lock by now is removed; a second attempt that
\* comes this far is the last.
RemoveStale(p) ==
    /\ LockGoto(p, "remove", IF attempt[p] = 0 THEN "create" ELSE "refused")
    /\ lockFile' = NoLock
    /\ attempt' = [attempt EXCEPT ![p] = @ + 1]
    /\ UNCHANGED <<foreign, overlapped>>

Acquire(p) ==
    \/ Create(p) \/ CreateExists(p) \/ CreateFails(p)
    \/ WritePid(p) \/ WriteFails(p)
    \/ InspectStale(p) \/ InspectRunning(p) \/ RemoveStale(p)

-----------------------------------------------------------------------------
(* release, which start.go defers                                           *)

BeginRelease(p) ==
    /\ LockGoto(p, "held", "release")
    /\ UNCHANGED <<lockFile, attempt, foreign, overlapped>>

\* A file that cannot be read, or holds another pid, is left alone.
ReadOwn(p) ==
    /\ LockGoto(p, "release",
                IF Readable /\ lockFile.pid = p THEN "unlink" ELSE "leave")
    /\ UNCHANGED <<lockFile, attempt, foreign, overlapped>>

Unlink(p) ==
    /\ LockGoto(p, "unlink", "leave")
    /\ lockFile' = NoLock
    /\ UNCHANGED <<attempt, foreign, overlapped>>

Release(p) == BeginRelease(p) \/ ReadOwn(p) \/ Unlink(p)

LockStep(p) ==
    \/ StartGateway(p) \/ Ends(p) \/ OtherProgram(p)
    \/ Acquire(p) \/ Release(p)

LockSpec == LockInit /\ [][\E p \in Pids : LockStep(p)]_lockVars

-----------------------------------------------------------------------------
LockTypeOK ==
    /\ lockFile \in [pid : Pids \cup {None}, written : BOOLEAN]
    /\ lockFile.pid = None => ~lockFile.written
    /\ lockAt \in [Pids -> Starting \cup Owning \cup {"none", "refused", "leave"}]
    /\ attempt \in [Pids -> 0..2]
    /\ foreign \in SUBSET Pids
    /\ overlapped \in BOOLEAN

Holds(p) == lockAt[p] \in Owning

\* "Acquire claims the single-instance lock at lockPath atomically"
\* (instance.go), after deaths anywhere and with pids that have gone to others:
\* no two gateways hold it, and the file names the one that does until that one
\* removes it; as long as no two starts have met in Acquire.
OneGateway ==
    ~overlapped =>
        \A p \in Pids : Holds(p) =>
            /\ \A q \in Pids : Holds(q) => q = p
            /\ lockFile = LockOf(p, TRUE)

\* A start is refused only for another gateway, for a pid that has gone to
\* another process, the one that starts included, or because the lock cannot be
\* written: one left by a crash is taken over (instance_test.go,
\* TestStaleLockReclaimed); as long as no two starts have met in Acquire.
Refused(p) == lockAt[p] # "refused" /\ lockAt'[p] = "refused"

RefusedForAnother ==
    [][\A p \in Pids : Refused(p) /\ ~overlapped =>
          \/ WriteFails(p) \/ CreateFails(p)
          \/ \E q \in Pids \ {p} : lockAt[q] # "none"
          \/ lockFile.pid \in foreign \cup {p}]_lockVars

-----------------------------------------------------------------------------
(* What the repository says of this code, and the code does not do          *)

\* Acquire "claims the single-instance lock atomically", of starts that overlap
\* too: two that find one stale file, or one that finds the other's before the
\* pid is in it, both go on.
OneGatewayEver == \A p, q \in Pids : Holds(p) /\ Holds(q) => p = q
=============================================================================
