--------------------------- MODULE GatewayProcess ---------------------------
(***************************************************************************)
(* The gateway as a process (cmd/termilink/cli/start.go and                *)
(* internal/service/service.go): it takes the instance lock, loads the     *)
(* sessions, serves until it is told to stop, saves, gives the lock back   *)
(* and ends.  It may be killed anywhere, and what the next one finds is    *)
(* what is in the two files.  The next one may be there before it has      *)
(* ended: its handlers go on until then.                                   *)
(***************************************************************************)
EXTENDS InstanceLock, StateFile

processVars == <<lockVars, stateVars>>

Init == LockInit /\ StateInit

\* A process before service.New, and one that has done without it.
Outside(p) ==
    /\ \/ OtherProgram(p) \/ StartGateway(p) \/ Acquire(p)
       \/ life[p] = "down" /\ Ends(p)
    /\ UNCHANGED stateVars

\* service.New
New(p) ==
    /\ lockAt[p] = "held"
    /\ Load(p)
    /\ UNCHANGED lockVars

\* service.New returns an error, and the deferred release follows.
NewFails(p) ==
    /\ life[p] = "down"
    /\ Release(p)
    /\ UNCHANGED stateVars

\* A plausible error: the lock is given back before the sessions are saved.
ShutdownEarly(p) ==
    /\ life[p] # "down"
    /\ Release(p)
    /\ UNCHANGED stateVars

\* The deferred release, when Run has returned.
Shutdown(p) ==
    /\ life[p] = "saved"
    /\ Release(p)
    /\ UNCHANGED stateVars

\* The process ends, at the end of main or anywhere before it.
Gone(p) ==
    /\ EndSessions(p)
    /\ Ends(p)

\* Handlers at work, and the end of Run.
Work(p) ==
    /\ SessionStep(p)
    /\ UNCHANGED lockVars

Next ==
    \E p \in Pids :
        Outside(p) \/ New(p) \/ NewFails(p) \/ Shutdown(p) \/ Gone(p) \/ Work(p)

Spec == Init /\ [][Next]_processVars

-----------------------------------------------------------------------------
\* The types of both, and who has sessions: a process that took the lock, which
\* may have given it back but has not ended.
TypeOK ==
    /\ LockTypeOK
    /\ StateTypeOK
    /\ \A p \in Pids : life[p] # "down" => lockAt[p] \in Owning \cup {"leave"}

\* A gateway has the lock, alone, and the file names it, from the time it loads
\* the sessions until Run has saved them for the last time; as long as no two
\* starts have met in Acquire.
SessionsGuarded ==
    ~overlapped =>
        \A p \in Pids : life[p] \notin {"down", "saved"} =>
            /\ lockFile = LockOf(p, TRUE)
            /\ \A q \in Pids : Holds(q) => q = p

-----------------------------------------------------------------------------
(* What the repository says of this code, and the code does not do          *)

\* "Saving inside the same critical section is what keeps the file and the
\* memory from disagreeing": a gateway's sessions are those in the file, though
\* gateways follow one another.  A handler that outlives Run saves after the
\* lock was given back (start.go:31), over what the next one has loaded.
FileFollowsMemory == ~overlapped => \A p \in Pids : InStep(p)
=============================================================================
