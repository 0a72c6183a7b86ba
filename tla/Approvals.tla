------------------------------ MODULE Approvals -----------------------------
(***************************************************************************)
(* The requests a chat leaves waiting for an owner's answer                *)
(* (internal/telegram/handler.go, files.go): a dangerous command waits in  *)
(* Handler.pending, a file too big for Telegram in Handler.filesPending,   *)
(* one of each per chat.  The next message of the chat is taken for the    *)
(* answer.                                                                 *)
(*                                                                         *)
(* Each message is handled on a goroutine of its own, and every use of one *)
(* of the two maps is a critical section of its own: to look whether a     *)
(* request waits, to take it out, to put it back, to leave a new one.      *)
(* Messages that handle routes elsewhere first (slash commands, an agent's *)
(* input) never get here.  A request is named by the message that made it. *)
(***************************************************************************)
EXTENDS Naturals

CONSTANTS
    Updates,    \* the messages of the chat, one goroutine each
    None,       \* nothing waits, nothing was taken
    Gate,       \* security.approve_dangerous
    Menu        \* what each message may say

Kinds   == {"command", "file"}
Message == [owner : BOOLEAN, text : {"danger", "plain", "yes", "no", "get"}]

ASSUME ApprovalsAssumption ==
    /\ None \notin Updates
    /\ Gate \in {"all", "worker", "off"}
    /\ Menu \in [Updates -> SUBSET Message]

VARIABLES
    pc,         \* where the goroutine of each message is
    msg,        \* what the message says
    slot,       \* the map its handler is looking at
    held,       \* the request its handler has taken out of the map, or None
    waiting,    \* the request of each kind that waits for an answer, or None
    expired,    \* the requests whose two minutes are over
    archive,    \* the requests whose temporary .tar is on disk
    verdicts    \* what was decided on each request, and by which message

vars == <<pc, msg, slot, held, waiting, expired, archive, verdicts>>

-----------------------------------------------------------------------------
\* Policy.NeedsApproval.
NeedsApproval(m) ==
    /\ m.text = "danger"
    /\ Gate = "all" \/ (Gate = "worker" /\ ~m.owner)

IsGet(u)   == msg[u].text = "get"
Request(u) == IF IsGet(u) THEN "file" ELSE "command"

Goto(u, l) == pc' = [pc EXCEPT ![u] = l]

\* A plausible error: the answer is kept without who gave it.
DecideByNobody(u, r, v) ==
    verdicts' = [verdicts EXCEPT ![r] = @ \cup {[by |-> None, verdict |-> v]}]

\* The audit entry of an answer names the message that gave it, so that two
\* answers would both show.
Decide(u, r, v) ==
    verdicts' = [verdicts EXCEPT ![r] = @ \cup {[by |-> u, verdict |-> v]}]

Init ==
    /\ pc = [u \in Updates |-> "idle"]
    /\ msg = [u \in Updates |-> [owner |-> FALSE, text |-> "plain"]]
    /\ slot = [u \in Updates |-> "command"]
    /\ held = [u \in Updates |-> None]
    /\ waiting = [k \in Kinds |-> None]
    /\ expired = {}
    /\ archive = {}
    /\ verdicts = [u \in Updates |-> {}]

\* handle: `get` delivers a file, anything else looks for a waiting command.
Receive(u) ==
    /\ pc[u] = "idle"
    /\ \E m \in Menu[u] :
          /\ msg' = [msg EXCEPT ![u] = m]
          /\ Goto(u, IF m.text = "get" THEN "archive" ELSE "look")
    /\ UNCHANGED <<slot, held, waiting, expired, archive, verdicts>>

\* deliverFile, for a file too big even when zipped: its archive is written
\* before anything is asked.  (A smaller file, or a failure, asks nothing.)
Archive(u) ==
    /\ pc[u] = "archive"
    /\ \/ Goto(u, "done") /\ UNCHANGED <<slot, archive>>
       \/ /\ Goto(u, "look")
          /\ slot' = [slot EXCEPT ![u] = "file"]
          /\ archive' = archive \cup {u}
    /\ UNCHANGED <<msg, held, waiting, expired, verdicts>>

-----------------------------------------------------------------------------
(* pendingApprovalFor and filesPendingFor                                   *)

\* The archive of an expired or abandoned request goes with it.
Drop(rs) == archive' = archive \ rs

\* Nothing waits, or what waits has expired and is forgotten: look for a file
\* next, and if there is none either, the message is a request itself.
NothingWaits(u) ==
    /\ pc[u] = "look"
    /\ waiting[slot[u]] \in expired \cup {None}
    /\ waiting' = [waiting EXCEPT ![slot[u]] = None]
    /\ Drop({waiting[slot[u]]})
    /\ IF slot[u] = "command"
       THEN slot' = [slot EXCEPT ![u] = "file"] /\ UNCHANGED pc
       ELSE Goto(u, "ask") /\ UNCHANGED slot
    /\ UNCHANGED <<msg, held, expired, verdicts>>

\* A plausible error: the archive removed is the one that waits.
RefuseTheOther(u) ==
    /\ pc[u] = "look" /\ IsGet(u)
    /\ waiting[slot[u]] \notin expired \cup {None}
    /\ Drop({waiting[slot[u]]})
    /\ Goto(u, "done")
    /\ UNCHANGED <<msg, slot, held, waiting, expired, verdicts>>

\* A second file is refused while one waits, and its archive removed.
RefuseFile(u) ==
    /\ pc[u] = "look" /\ IsGet(u)
    /\ waiting[slot[u]] \notin expired \cup {None}
    /\ Drop({u})
    /\ Goto(u, "done")
    /\ UNCHANGED <<msg, slot, held, waiting, expired, verdicts>>

SomethingWaits(u) ==
    /\ pc[u] = "look" /\ ~IsGet(u)
    /\ waiting[slot[u]] \notin expired \cup {None}
    /\ Goto(u, "take")
    /\ UNCHANGED <<msg, slot, held, waiting, expired, archive, verdicts>>

\* maybeApproveAndRun and enqueueLinkApproval: the request is left waiting,
\* whatever waits there by now; a command nobody need approve is run.
Ask(u) ==
    /\ pc[u] = "ask"
    /\ IF IsGet(u) \/ NeedsApproval(msg[u])
       THEN /\ waiting' = [waiting EXCEPT ![Request(u)] = u]
            /\ Goto(u, "asked")
       ELSE Goto(u, "done") /\ UNCHANGED waiting
    /\ UNCHANGED <<msg, slot, held, expired, archive, verdicts>>

-----------------------------------------------------------------------------
(* resolveApproval and resolveFileApproval                                  *)

\* A plausible error: the request stays in the map while it is answered.
Peek(u) ==
    /\ pc[u] = "take"
    /\ held' = [held EXCEPT ![u] = waiting[slot[u]]]
    /\ Goto(u, "judge")
    /\ UNCHANGED <<msg, slot, waiting, expired, archive, verdicts>>

\* Whatever waits now is taken out; it need not be what was seen.
Take(u) ==
    /\ pc[u] = "take"
    /\ held' = [held EXCEPT ![u] = waiting[slot[u]]]
    /\ waiting' = [waiting EXCEPT ![slot[u]] = None]
    /\ Goto(u, "judge")
    /\ UNCHANGED <<msg, slot, expired, archive, verdicts>>

\* It is gone, or too old.
TooLate(u) ==
    /\ pc[u] = "judge"
    /\ held[u] \in expired \cup {None}
    /\ Drop({held[u]})
    /\ Goto(u, "done")
    /\ UNCHANGED <<msg, slot, held, waiting, expired, verdicts>>

InTime(u) == pc[u] = "judge" /\ held[u] \notin expired \cup {None}

\* A worker's answer, or one that is neither yes nor no: the request is put
\* back, whatever waits there by now.
PutBack(u) ==
    /\ InTime(u)
    /\ ~msg[u].owner \/ msg[u].text \notin {"yes", "no"}
    /\ waiting' = [waiting EXCEPT ![slot[u]] = held[u]]
    /\ Goto(u, "done")
    /\ UNCHANGED <<msg, slot, held, expired, archive, verdicts>>

\* The command is handed to runCommand; the file is uploaded.
Approve(u) ==
    /\ InTime(u)
    /\ msg[u].owner /\ msg[u].text = "yes"
    /\ Decide(u, held[u], "approved")
    /\ Goto(u, IF slot[u] = "file" THEN "upload" ELSE "done")
    /\ UNCHANGED <<msg, slot, held, waiting, expired, archive>>

\* A plausible error: a rejected file leaves its archive behind.
DenyOnly(u) ==
    /\ InTime(u)
    /\ msg[u].owner /\ msg[u].text = "no"
    /\ Decide(u, held[u], "rejected")
    /\ Goto(u, "done")
    /\ UNCHANGED <<msg, slot, held, waiting, expired, archive>>

Deny(u) ==
    /\ InTime(u)
    /\ msg[u].owner /\ msg[u].text = "no"
    /\ Decide(u, held[u], "rejected")
    /\ Drop({held[u]})
    /\ Goto(u, "done")
    /\ UNCHANGED <<msg, slot, held, waiting, expired>>

\* The upload ends, well or badly, and the archive is removed.
EndUpload(u) ==
    /\ pc[u] = "upload"
    /\ Drop({held[u]})
    /\ Goto(u, "done")
    /\ UNCHANGED <<msg, slot, held, waiting, expired, verdicts>>

-----------------------------------------------------------------------------
Handle(u) ==
    \/ Archive(u) \/ NothingWaits(u) \/ RefuseFile(u) \/ SomethingWaits(u)
    \/ Ask(u) \/ Take(u) \/ TooLate(u) \/ PutBack(u) \/ Approve(u) \/ Deny(u)
    \/ EndUpload(u)

\* Two minutes pass.
Expire(r) ==
    /\ pc[r] = "asked" /\ r \notin expired
    /\ expired' = expired \cup {r}
    /\ UNCHANGED <<pc, msg, slot, held, waiting, archive, verdicts>>

AllDone == (\A u \in Updates : pc[u] \in {"asked", "done"}) /\ UNCHANGED vars

Next ==
    \/ \E u \in Updates : Receive(u) \/ Handle(u) \/ Expire(u)
    \/ AllDone

Spec == Init /\ [][Next]_vars

\* Every goroutine that can run is run; an upload has a deadline of its own.
Fairness == \A u \in Updates : WF_vars(Handle(u))

FairSpec == Spec /\ Fairness

-----------------------------------------------------------------------------
(* Properties                                                               *)

Verdict == [by : Updates, verdict : {"approved", "rejected"}]

TypeOK ==
    /\ pc \in [Updates -> {"idle", "archive", "look", "ask", "take", "judge",
                           "upload", "asked", "done"}]
    /\ msg \in [Updates -> Message]
    /\ slot \in [Updates -> Kinds]
    /\ held \in [Updates -> Updates \cup {None}]
    /\ waiting \in [Kinds -> Updates \cup {None}]
    /\ expired \subseteq Updates
    /\ archive \subseteq Updates
    /\ verdicts \in [Updates -> SUBSET Verdict]

\* A request is decided once: however the answers race, a command approved once
\* is not run twice, and one the owner has rejected is not run at all.
OneVerdict == \A r \in Updates : \A a, b \in verdicts[r] : a = b

\* While an approved file is being uploaded, no other handler removes its
\* archive: not for having expired meanwhile, nor in refusing another file.
UploadHasArchive ==
    \A u \in Updates : pc[u] = "upload" => held[u] \in archive

\* The archive of an answered request does not stay on disk.
AnsweredArchiveGoes ==
    \A r \in Updates : verdicts[r] # {} ~> r \notin archive

\* A handler that is deciding on r.
Deciding(r) == \E u \in Updates : pc[u] \in {"judge", "upload"} /\ held[u] = r

\* "Any other reply keeps the request pending": what was asked about waits until
\* it is answered or expires, so that its owner can answer it and, for a file,
\* its archive ("the approval request now owns tarPath") is removed in the end.
RequestKept ==
    \A r \in Updates :
        pc[r] = "asked" /\ verdicts[r] = {} /\ r \notin expired
        => waiting[Request(r)] = r \/ Deciding(r)
=============================================================================
