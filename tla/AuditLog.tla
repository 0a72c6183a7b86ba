------------------------------ MODULE AuditLog ------------------------------
(***************************************************************************)
(* The audit log of internal/audit/audit.go: one file that is appended to, *)
(* and numbered archives that a rotation shifts up.  Entries are numbered  *)
(* in the order Audit is called, and a file is the set of those in it.  A  *)
(* size is a number of entries; an archive that does not exist is empty,   *)
(* since only a file above the limit is ever archived.                     *)
(*                                                                         *)
(* Logger.mu is held for the whole of Audit, so the steps below are those  *)
(* of one caller; they are separate because the process may die between    *)
(* any two system calls, and because most of these may fail.               *)
(***************************************************************************)
EXTENDS Integers, FiniteSets

CONSTANTS
    Limit,      \* maxBytes, in entries
    Keeps,      \* the retention counts a start may be configured with
    Top,        \* the largest of them: no archive has a higher number
    Faults,     \* the system calls that may fail
    MaxEntry    \* bound: the entries made

ASSUME AuditAssumption ==
    /\ Limit \in Nat
    /\ Top \in Nat \ {0}
    /\ Keeps \subseteq 1..Top
    /\ Faults \subseteq {"close", "remove", "rename", "reopen", "write"}
    /\ MaxEntry \in Nat

Slots == 1..Top

VARIABLES
    current,    \* the entries of <path>
    archive,    \* the entries of <path>.1, <path>.2, ...
    made,       \* the entries made so far
    auditAt,    \* where Audit is; "down" when no gateway runs
    keep,       \* Logger.keep
    usable,     \* Logger.f is open
    index,      \* the loop variable of shiftArchives
    newest,     \* the last entry made in this life of the process, or 0
    failed,     \* a system call has failed in this life
    found,      \* history: what was on the disk when the last rotation began
    sound       \* history: it found no archive missing, and none of its renames
                \* and removals has failed

logFiles == <<current, archive>>
logConfig == <<made, keep, newest>>
rotation == <<found, sound>>
auditVars == <<logFiles, logConfig, rotation, auditAt, usable, index, failed>>

AuditInit ==
    /\ current = {}
    /\ archive = [i \in Slots |-> {}]
    /\ made = 0
    /\ auditAt = "down"
    /\ keep = Top
    /\ usable = FALSE
    /\ index = 0
    /\ newest = 0
    /\ failed = FALSE
    /\ found = {}
    /\ sound = FALSE

AuditGoto(l, m) == auditAt = l /\ auditAt' = m

\* What a system call may report.
Outcomes(call) == {TRUE, call \notin Faults}
Noted(ok) == failed' = (failed \/ ~ok)

Moved(ok) == Noted(ok) /\ sound' = (sound /\ ok) /\ UNCHANGED found

Exists(i) == i \in Slots /\ archive[i] # {}

\* An archive is missing, and one with a higher number is not.
Holed == \E i, j \in Slots : i < j /\ ~Exists(i) /\ Exists(j)

OnDisk == current \cup UNION {archive[i] : i \in Slots}

-----------------------------------------------------------------------------
(* The life of a Logger                                                     *)

\* A plausible error: the file is opened with O_TRUNC.
OpenEmptied(k) ==
    /\ AuditGoto("down", "idle")
    /\ keep' = k
    /\ usable' = TRUE
    /\ current' = {}
    /\ UNCHANGED <<archive, made, newest, index, failed, rotation>>

\* OpenWithOptions, with the retention count now configured.
OpenLog(k) ==
    /\ AuditGoto("down", "idle")
    /\ keep' = k
    /\ usable' = TRUE
    /\ UNCHANGED <<logFiles, made, newest, index, failed, rotation>>

\* The process ends, by itself or not, wherever Audit is.
EndLog ==
    /\ auditAt # "down"
    /\ auditAt' = "down"
    /\ usable' = FALSE
    /\ keep' = Top
    /\ index' = 0
    /\ newest' = 0
    /\ failed' = FALSE
    /\ UNCHANGED <<logFiles, made, rotation>>

-----------------------------------------------------------------------------
(* Audit and maybeRotate                                                    *)

Full == Cardinality(current) > Limit

NewEntry ==
    /\ made < MaxEntry
    /\ made' = made + 1
    /\ newest' = made + 1
    /\ UNCHANGED <<logFiles, keep>>

\* The file is not above the limit, or cannot be asked because it is closed.
AuditPlain ==
    /\ AuditGoto("idle", "write")
    /\ ~usable \/ ~Full
    /\ NewEntry
    /\ failed' = (failed \/ ~usable)
    /\ UNCHANGED <<usable, index, rotation>>

\* The history of a rotation begins.
Rotating == found' = OnDisk /\ sound' = ~Holed

\* A plausible error: the trimming starts one archive too high.
AuditFullHigh ==
    /\ AuditGoto("idle", "trim")
    /\ usable /\ Full
    /\ NewEntry
    /\ usable' = FALSE
    /\ index' = keep + 2
    /\ Rotating
    /\ UNCHANGED failed

\* It is, and is closed to be rotated.
AuditFull ==
    /\ AuditGoto("idle", "trim")
    /\ usable /\ Full
    /\ NewEntry
    /\ usable' = FALSE
    /\ index' = keep + 1
    /\ Rotating
    /\ UNCHANGED failed

\* Closing it reports an error: no rotation, and no file.
AuditCloseFails ==
    /\ AuditGoto("idle", "write")
    /\ usable /\ Full
    /\ NewEntry
    /\ "close" \in Faults
    /\ usable' = FALSE
    /\ failed' = TRUE
    /\ UNCHANGED <<index, rotation>>

\* A plausible error: the shift begins one archive too low.
TrimDoneLow ==
    /\ AuditGoto("trim", "shift")
    /\ ~Exists(index)
    /\ index' = IF keep = 1 THEN 0 ELSE keep - 2
    /\ UNCHANGED <<logFiles, logConfig, rotation, usable, failed>>

\* The first missing archive beyond the count ends the trimming.
TrimDone ==
    /\ AuditGoto("trim", "shift")
    /\ ~Exists(index)
    /\ index' = keep - 1
    /\ UNCHANGED <<logFiles, logConfig, rotation, usable, failed>>

Trim ==
    /\ AuditGoto("trim", "trim")
    /\ Exists(index)
    /\ \E ok \in Outcomes("remove") :
          /\ archive' = IF ok THEN [archive EXCEPT ![index] = {}] ELSE archive
          /\ Moved(ok)
    /\ index' = index + 1
    /\ UNCHANGED <<current, logConfig, usable>>

\* A plausible error: an archive is copied, so that a death before the next step
\* leaves it in two places.
Copied(i) == [archive EXCEPT ![i + 1] = archive[i]]

\* os.Rename replaces what has the new name; the missing are passed over.
Renamed(i) == [archive EXCEPT ![i + 1] = archive[i], ![i] = {}]

\* A plausible error: the loop runs down to the current file.
ShiftToZero ==
    /\ AuditGoto("shift", "shift")
    /\ index >= 0
    /\ \E ok \in Outcomes("rename") :
          /\ archive' = IF ok /\ Exists(index) THEN Renamed(index) ELSE archive
          /\ Moved(ok \/ ~Exists(index))
    /\ index' = index - 1
    /\ UNCHANGED <<current, logConfig, usable>>

Shift ==
    /\ AuditGoto("shift", "shift")
    /\ index >= 1
    /\ \E ok \in Outcomes("rename") :
          /\ archive' = IF ok /\ Exists(index) THEN Renamed(index) ELSE archive
          /\ Moved(ok \/ ~Exists(index))
    /\ index' = index - 1
    /\ UNCHANGED <<current, logConfig, usable>>

ShiftDone ==
    /\ AuditGoto("shift", "rename")
    /\ index = 0
    /\ UNCHANGED <<logFiles, logConfig, rotation, usable, index, failed>>

NewestSlot == 1

RenameCurrent ==
    /\ AuditGoto("rename", "reopen")
    /\ \E ok \in Outcomes("rename") :
          /\ archive' = IF ok THEN [archive EXCEPT ![NewestSlot] = current]
                              ELSE archive
          /\ current' = IF ok THEN {} ELSE current
          /\ Moved(ok)
    /\ UNCHANGED <<logConfig, usable, index>>

\* A plausible error: Audit returns when the log has been rotated.
ReopenAndReturn ==
    /\ AuditGoto("reopen", "idle")
    /\ \E ok \in Outcomes("reopen") : usable' = ok /\ Noted(ok)
    /\ UNCHANGED <<logFiles, logConfig, rotation, index>>

Reopen ==
    /\ AuditGoto("reopen", "write")
    /\ \E ok \in Outcomes("reopen") : usable' = ok /\ Noted(ok)
    /\ UNCHANGED <<logFiles, logConfig, rotation, index>>

\* The entry is written, or the error is noted once and ignored.
WriteEntry ==
    /\ AuditGoto("write", "idle")
    /\ \E ok \in Outcomes("write") :
          /\ current' = current \cup {e \in {newest} : ok /\ usable}
          /\ Noted(ok /\ usable)
    /\ UNCHANGED <<archive, logConfig, rotation, usable, index>>

Audit ==
    \/ AuditPlain \/ AuditFull \/ AuditCloseFails
    \/ TrimDone \/ Trim \/ ShiftDone \/ Shift \/ RenameCurrent \/ Reopen
    \/ WriteEntry

AuditNext ==
    \/ \E k \in Keeps : OpenLog(k)
    \/ EndLog
    \/ Audit

AuditSpec == AuditInit /\ [][AuditNext]_auditVars

-----------------------------------------------------------------------------
AuditTypeOK ==
    /\ current \subseteq 1..made
    /\ archive \in [Slots -> SUBSET (1..made)]
    /\ made \in Nat
    /\ auditAt \in {"down", "idle", "trim", "shift", "rename", "reopen",
                    "write"}
    /\ keep \in Slots
    /\ usable \in BOOLEAN
    /\ index \in Nat
    /\ newest \in 0..made
    /\ failed \in BOOLEAN
    /\ found \subseteq 1..made
    /\ sound \in BOOLEAN

Older(S, T) == \A d \in S, e \in T : d < e

\* "The index encodes age" (audit.go, shiftArchives): whatever fails and
\* wherever the process dies, a higher archive is older than a lower one, and
\* all of them are older than the file that is written to.
OrderKept ==
    /\ \A i, j \in Slots : i < j => Older(archive[j], archive[i])
    /\ \A i \in Slots : Older(archive[i], current)

\* The entry that made the log rotate is in the new file when Audit returns,
\* like any other, unless some system call failed.
NewestOnDisk ==
    auditAt = "idle" /\ newest # 0 /\ ~failed => newest \in current

\* A rotation that finds no archive missing, and in which nothing fails, leaves
\* none beyond the retention count, however far the count has been lowered; and
\* the file never has more than the entry that takes it over the limit: the disk
\* cost is bounded.
DiskBounded ==
    /\ sound /\ auditAt \in {"rename", "reopen"} =>
          \A i \in Slots : i > keep => archive[i] = {}
    /\ ~failed /\ auditAt = "idle" /\ newest # 0 => Cardinality(current) <= Limit + 1

\* What such a rotation has lost when it ends is older than all that it has kept
\* ("the archive at .<keep> is deleted to make room", OpenWithOptions): a history
\* with its old end cut off, though the trimming begins in the middle.
OldestGoFirst ==
    sound /\ auditAt = "reopen" => Older(found \ OnDisk, OnDisk)

-----------------------------------------------------------------------------
(* What a reader finds is an AuditTrail.                                    *)

Trail == INSTANCE AuditTrail WITH trail <- OnDisk

\* Whatever fails and wherever the process dies, the trail grows at its new end
\* only, and what it loses at a time are entries that follow one another and are
\* not its newest.
TrailKept == Trail!Spec

-----------------------------------------------------------------------------
(* What the repository says of this code, and the code does not do          *)

\* "Lowering the value clears the archives past the new count on the next
\* rotation": it stops at the first that is missing, and a death in the middle
\* of a shift leaves one missing.
LoweredIsCleared ==
    ~failed /\ auditAt = "reopen" => \A i \in Slots : i > keep => archive[i] = {}
=============================================================================
