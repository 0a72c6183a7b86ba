----------------------------- MODULE Processes ------------------------------
(***************************************************************************)
(* The processes of the machine, by their pids.  A gateway is one of them; *)
(* when it ends, its pid may go to another program or to a new gateway.    *)
(***************************************************************************)
CONSTANTS
    Pids,
    None        \* no process

ASSUME PidAssumption == None \notin Pids
=============================================================================
