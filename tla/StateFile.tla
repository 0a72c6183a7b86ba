----------------------------- MODULE StateFile ------------------------------
(***************************************************************************)
(* The sessions of every gateway process and their file, which is one:     *)
(* internal/session/manager.go and the end of Run in                       *)
(* internal/service/service.go.  A gateway saves every change of its       *)
(* sessions under the same lock, by os.WriteFile, which empties the file   *)
(* before it writes it.                                                    *)
(*                                                                         *)
(* The lock is one process's.  Two gateways that both have sessions write  *)
(* the file with no regard for each other.                                 *)
(***************************************************************************)
EXTENDS Naturals, Processes

CONSTANTS
    Absent,     \* in place of a session that is not there
    Torn,       \* a file without the whole of a list in it
    Down,       \* in place of the sessions of a process that has none
    Sessions,   \* session ids
    States,     \* what a session's state may be
    Fresh,      \* the state of a new one
    Disturbed   \* the steps of a save that may fail

ASSUME StateAssumption ==
    /\ Absent \notin States
    /\ Fresh \in States
    /\ Disturbed \subseteq {"prepare", "write", "chmod"}

Maps == [Sessions -> States \cup {Absent}]
Nothing == [s \in Sessions |-> Absent]

ASSUME TornAssumption == Torn \notin Maps /\ Down \notin Maps

VARIABLES
    stateFile,  \* an absent file has no sessions, as an empty list has none
    memory,     \* Manager.sessions
    saveAt,     \* where saveLocked is; m.mu is held unless it is "idle"
    life,       \* where Run is
    unsaved,    \* the last save of this gateway failed
    crossed     \* history: another process has written the file since this one
                \* loaded it or last emptied it

ownVars == <<memory, saveAt, life, unsaved>>
stateVars == <<stateFile, ownVars, crossed>>

StateInit ==
    /\ stateFile = Nothing
    /\ memory = [p \in Pids |-> Down]
    /\ saveAt = [p \in Pids |-> "idle"]
    /\ life = [p \in Pids |-> "down"]
    /\ unsaved = [p \in Pids |-> FALSE]
    /\ crossed = [p \in Pids |-> FALSE]

\* p has changed the file under the others that have sessions.
Crossing(p, own) ==
    crossed' = [q \in Pids |-> IF q = p THEN own ELSE life[q] # "down"]

\* A write that comes after another process's: the new list may end before the
\* old one does.
Over(p, f) == IF crossed[p] THEN {f, Torn} ELSE {f}

-----------------------------------------------------------------------------
(* The life of a gateway                                                    *)

\* A plausible error: what can be read of a torn file is used.
LoadedAnyway(f) == f

\* NewManagerWithStateFile: a file that cannot be unmarshalled gives none.
Loaded(f) == IF f = Torn THEN Nothing ELSE f

\* A plausible error: the file is not read.
LoadNothing(p) ==
    /\ life[p] = "down"
    /\ life' = [life EXCEPT ![p] = "run"]
    /\ memory' = [memory EXCEPT ![p] = Nothing]
    /\ crossed' = [crossed EXCEPT ![p] = FALSE]
    /\ UNCHANGED <<stateFile, saveAt, unsaved>>

Load(p) ==
    /\ life[p] = "down"
    /\ life' = [life EXCEPT ![p] = "run"]
    /\ memory' = [memory EXCEPT ![p] = Loaded(stateFile)]
    /\ crossed' = [crossed EXCEPT ![p] = FALSE]
    /\ UNCHANGED <<stateFile, saveAt, unsaved>>

\* bot.Start returns: the library stops polling, and waits for no handler.
Stop(p) ==
    /\ life[p] = "run"
    /\ life' = [life EXCEPT ![p] = "stopped"]
    /\ UNCHANGED <<stateFile, memory, saveAt, unsaved, crossed>>

\* The last Save of Run, once it has m.mu.
SaveAtShutdown(p) ==
    /\ life[p] = "stopped" /\ saveAt[p] = "idle"
    /\ life' = [life EXCEPT ![p] = "saving"]
    /\ saveAt' = [saveAt EXCEPT ![p] = "prepare"]
    /\ UNCHANGED <<stateFile, memory, unsaved, crossed>>

\* main returns and takes every goroutine with it, or the gateway is killed,
\* perhaps with a part of the file written.
EndSessions(p) ==
    /\ life[p] # "down"
    /\ life' = [life EXCEPT ![p] = "down"]
    /\ memory' = [memory EXCEPT ![p] = Down]
    /\ saveAt' = [saveAt EXCEPT ![p] = "idle"]
    /\ unsaved' = [unsaved EXCEPT ![p] = FALSE]
    /\ \/ /\ saveAt[p] = "write"
          /\ stateFile' \in {stateFile, Torn}
          /\ Crossing(p, FALSE)
       \/ /\ saveAt[p] # "write"
          /\ crossed' = [crossed EXCEPT ![p] = FALSE]
          /\ UNCHANGED stateFile

-----------------------------------------------------------------------------
(* Ensure and Mutate                                                        *)

\* Handlers run on goroutines of their own, also when Run has gone on.
Serving(p) == life[p] \in {"run", "stopped", "saved"}

Ensure(p, s) ==
    /\ Serving(p) /\ saveAt[p] = "idle"
    /\ memory[p][s] = Absent
    /\ memory' = [memory EXCEPT ![p][s] = Fresh]
    /\ saveAt' = [saveAt EXCEPT ![p] = "prepare"]
    /\ UNCHANGED <<stateFile, life, unsaved, crossed>>

\* A plausible error: saving is left to the caller.
MutateOnly(p, s, v) ==
    /\ Serving(p) /\ saveAt[p] = "idle"
    /\ memory' = [memory EXCEPT ![p][s] = v]
    /\ UNCHANGED <<stateFile, saveAt, life, unsaved, crossed>>

Mutate(p, s, v) ==
    /\ Serving(p) /\ saveAt[p] = "idle"
    /\ memory' = [memory EXCEPT ![p][s] = v]
    /\ saveAt' = [saveAt EXCEPT ![p] = "prepare"]
    /\ UNCHANGED <<stateFile, life, unsaved, crossed>>

-----------------------------------------------------------------------------
(* saveLocked                                                               *)

\* Run goes on to its end when its own save has ended, well or not.
Saved(p) ==
    /\ saveAt' = [saveAt EXCEPT ![p] = "idle"]
    /\ life' = [life EXCEPT ![p] = IF @ = "saving" THEN "saved" ELSE @]
    /\ UNCHANGED memory

PrepareFails(p) ==
    /\ saveAt[p] = "prepare" /\ "prepare" \in Disturbed
    /\ Saved(p)
    /\ unsaved' = [unsaved EXCEPT ![p] = TRUE]
    /\ UNCHANGED <<stateFile, crossed>>

Truncate(p) ==
    /\ saveAt[p] = "prepare"
    /\ saveAt' = [saveAt EXCEPT ![p] = "write"]
    /\ stateFile' = Torn
    /\ Crossing(p, FALSE)
    /\ UNCHANGED <<memory, life, unsaved>>

WriteState(p) ==
    /\ saveAt[p] = "write"
    /\ Saved(p)
    /\ stateFile' \in Over(p, memory[p])
    /\ Crossing(p, crossed[p])
    /\ \/ unsaved' = [unsaved EXCEPT ![p] = FALSE]
       \/ "chmod" \in Disturbed /\ unsaved' = [unsaved EXCEPT ![p] = TRUE]

\* What another process wrote meanwhile may still be there, or the half of this.
WriteStateFails(p) ==
    /\ saveAt[p] = "write" /\ "write" \in Disturbed
    /\ Saved(p)
    /\ stateFile' \in {stateFile, Torn}
    /\ Crossing(p, crossed[p])
    /\ unsaved' = [unsaved EXCEPT ![p] = TRUE]

saveLocked(p) == PrepareFails(p) \/ Truncate(p) \/ WriteState(p) \/ WriteStateFails(p)

SessionStep(p) ==
    \/ \E s \in Sessions : Ensure(p, s) \/ \E v \in States : Mutate(p, s, v)
    \/ Stop(p) \/ SaveAtShutdown(p)
    \/ saveLocked(p)

StateSpec ==
    StateInit /\ [][\E p \in Pids : Load(p) \/ SessionStep(p) \/ EndSessions(p)]_stateVars

-----------------------------------------------------------------------------
StateTypeOK ==
    /\ stateFile \in Maps \cup {Torn}
    /\ memory \in [Pids -> Maps \cup {Down}]
    /\ saveAt \in [Pids -> {"idle", "prepare", "write"}]
    /\ life \in [Pids -> {"down", "run", "stopped", "saving", "saved"}]
    /\ unsaved \in [Pids -> BOOLEAN]
    /\ crossed \in [Pids -> BOOLEAN]
    /\ \A p \in Pids : /\ memory[p] = Down <=> life[p] = "down"
                       /\ life[p] = "down" => saveAt[p] = "idle"

\* p's sessions are those in the file, if p is not just saving them and its last
\* save has not reported an error.
InStep(p) ==
    life[p] # "down" /\ saveAt[p] = "idle" /\ ~unsaved[p] => Loaded(stateFile) = memory[p]

\* "Saving inside the same critical section is what keeps the file and the
\* memory from disagreeing" (manager.go, Mutate): between two saves they do not,
\* as long as no other gateway writes the file.
FileIsMemory == \A p \in Pids : ~crossed[p] => InStep(p)

-----------------------------------------------------------------------------
\* How the file came to be what it is hidden, this is a SessionStore.
Store == INSTANCE SessionStore WITH
    now <- memory,
    kept <- Loaded(stateFile),
    saving <- [p \in Pids |-> IF saveAt[p] # "write" THEN "no"
                              ELSE IF crossed[p] THEN "crossed" ELSE "alone"]

\* Sessions are lost by a save that is cut short, or written at the same time as
\* another gateway's, and by nothing else.
SessionsKept == Store!Spec
=============================================================================
