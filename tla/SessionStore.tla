---------------------------- MODULE SessionStore ----------------------------
(***************************************************************************)
(* What the session state promises (docs/service.md, docs/security.md): a  *)
(* gateway that starts has the sessions that were last saved.  They can be *)
(* lost in two ways only: a save that does not come to its end, and two    *)
(* gateways that save at the same time.                                    *)
(***************************************************************************)
EXTENDS Processes

CONSTANTS
    Down,       \* in place of the sessions of a process that has none
    Maps,       \* the sessions a gateway may have
    Nothing     \* the one of them with no session

VARIABLES
    now,        \* the sessions of each gateway
    kept,       \* the sessions a start would find
    saving      \* is it saving: "no", "alone" or "crossed" by another

storeVars == <<now, kept, saving>>

Init ==
    /\ now = [p \in Pids |-> Down]
    /\ kept = Nothing
    /\ saving = [p \in Pids |-> "no"]

\* p is at this point of a save, and crosses the saves of the others.
Saving(p, at) ==
    saving' = [q \in Pids |-> IF q = p THEN at
                              ELSE IF saving[q] = "no" THEN "no" ELSE "crossed"]

Boot(p) ==
    /\ now[p] = Down
    /\ now' = [now EXCEPT ![p] = kept]
    /\ UNCHANGED <<kept, saving>>

Change(p) ==
    /\ now[p] # Down /\ saving[p] = "no"
    /\ \E m \in Maps : now' = [now EXCEPT ![p] = m]
    /\ UNCHANGED <<kept, saving>>

\* From here on until the save has come to its end, a start finds nothing.
Begin(p) ==
    /\ now[p] # Down /\ saving[p] = "no"
    /\ Saving(p, "alone")
    /\ kept' = Nothing
    /\ UNCHANGED now

Save(p) ==
    /\ saving[p] # "no"
    /\ Saving(p, "no")
    /\ \/ kept' = now[p]
       \/ saving[p] = "crossed" /\ kept' = Nothing
    /\ UNCHANGED now

\* A save cut short, by an error or the end of its gateway, brings nothing back.
Spoil(p) ==
    /\ saving[p] # "no"
    /\ Saving(p, "no")
    /\ kept' \in {kept, Nothing}
    /\ now' = now \/ now' = [now EXCEPT ![p] = Down]

Leave(p) ==
    /\ now[p] # Down /\ saving[p] = "no"
    /\ now' = [now EXCEPT ![p] = Down]
    /\ UNCHANGED <<kept, saving>>

Next ==
    \E p \in Pids : Boot(p) \/ Change(p) \/ Begin(p) \/ Save(p) \/ Spoil(p) \/ Leave(p)

Spec == Init /\ [][Next]_storeVars
=============================================================================
