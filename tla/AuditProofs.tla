----------------------------- MODULE AuditProofs ----------------------------
(***************************************************************************)
(* The archives of the audit log stay in order, for every limit, every     *)
(* retention count, every number of entries and whatever fails.            *)
(*                                                                         *)
(* The argument: an entry that is on its way is newer than all that is on  *)
(* disk (Pending), the loop of shiftArchives moves an archive to a number  *)
(* that is in range (Ranges), and there is something to rotate (Loaded):   *)
(* so what is lost is one archive, and something newer is left.  That the  *)
(* lost are the oldest needs more: a rotation that found no archive        *)
(* missing has trimmed all that is beyond the count (Trimmed), then finds  *)
(* each place free but the last (Vacated), and has lost nothing that is    *)
(* newer than what it keeps (Cut).                                         *)
(***************************************************************************)
EXTENDS AuditLog, FiniteSetTheorems, TLAPS

\* The entry under way is newer than any on disk.
Pending ==
    auditAt \notin {"idle", "down"} =>
        /\ newest = made /\ made # 0
        /\ \A e \in current : e < made
        /\ \A i \in Slots : \A e \in archive[i] : e < made

\* The loop variable of shiftArchives.
Ranges ==
    /\ auditAt = "trim" => index >= keep + 1
    /\ auditAt = "shift" => index <= keep - 1

\* A file to write to, unless something has failed.
Ready ==
    ~failed =>
        /\ auditAt = "write" => usable
        /\ auditAt = "down" => newest = 0
        /\ auditAt = "idle" /\ newest # 0 => newest \in current

AuditInv == AuditTypeOK /\ OrderKept /\ Pending /\ Ranges

-----------------------------------------------------------------------------
(* Types and ranges                                                         *)

LEMMA OutcomeIsBoolean == \A call : \A ok \in Outcomes(call) : ok \in BOOLEAN
<1> SUFFICES ASSUME NEW call, NEW ok \in Outcomes(call) PROVE ok \in BOOLEAN
  OBVIOUS
<1>1. (call \notin Faults) \in BOOLEAN
  OBVIOUS
<1> QED
  BY <1>1, Zenon DEF Outcomes

LEMMA MovedIsNoted ==
  ASSUME NEW ok, Moved(ok)
  PROVE  /\ Noted(ok) /\ found' = found
         /\ sound' \in BOOLEAN
         /\ sound' => sound /\ ok
<1>1. (sound /\ ok) \in BOOLEAN
  OBVIOUS
<1> QED
  BY <1>1, Zenon DEF Moved

LEMMA NotedIsBoolean == ASSUME NEW ok, Noted(ok) PROVE failed' \in BOOLEAN
<1>1. (failed \/ ~ok) \in BOOLEAN
  OBVIOUS
<1> QED
  BY <1>1, Zenon DEF Noted

\* The flags stay flags.
LEMMA FlagStep ==
  ASSUME usable \in BOOLEAN, failed \in BOOLEAN, sound \in BOOLEAN, AuditNext
  PROVE  usable' \in BOOLEAN /\ failed' \in BOOLEAN /\ sound' \in BOOLEAN
<1> DEFINE Flags == usable' \in BOOLEAN /\ failed' \in BOOLEAN /\ sound' \in BOOLEAN
<1> USE DEF rotation
<1>1. (failed \/ ~usable) \in BOOLEAN /\ (~Holed) \in BOOLEAN
  OBVIOUS
<1>2. ASSUME NEW k \in Keeps, OpenLog(k) PROVE Flags
  BY <1>2, Zenon DEF OpenLog
<1>3. CASE EndLog
  BY <1>3, Zenon DEF EndLog
<1>4. CASE AuditPlain
  BY <1>4, <1>1, Zenon DEF AuditPlain
<1>5. CASE AuditFull \/ AuditCloseFails
  BY <1>1, <1>5, Zenon DEF AuditFull, AuditCloseFails, Rotating
<1>6. CASE TrimDone \/ ShiftDone
  BY <1>6, Zenon DEF TrimDone, ShiftDone
<1>7. CASE Trim
  BY <1>7, MovedIsNoted, NotedIsBoolean, Zenon DEF Trim
<1>8. CASE Shift
  BY <1>8, MovedIsNoted, NotedIsBoolean, Zenon DEF Shift
<1>9. CASE RenameCurrent
  BY <1>9, MovedIsNoted, NotedIsBoolean, Zenon DEF RenameCurrent
<1>10. CASE Reopen
  BY <1>10, NotedIsBoolean, OutcomeIsBoolean, Zenon DEF Reopen
<1>11. CASE WriteEntry
  BY <1>11, NotedIsBoolean, Zenon DEF WriteEntry
<1> QED
  BY <1>2, <1>3, <1>4, <1>5, <1>6, <1>7, <1>8, <1>9, <1>10, <1>11
     DEF AuditNext, Audit

\* What was there when a rotation began has been made.
LEMMA FoundStep ==
  ASSUME AuditTypeOK, AuditNext
  PROVE  found' \subseteq 1..made'
<1> USE DEF rotation, logConfig, AuditTypeOK
<1>1. ASSUME NEW k \in Keeps, OpenLog(k) PROVE found' = found /\ made' = made
  BY <1>1 DEF OpenLog
<1>2. CASE EndLog \/ TrimDone \/ ShiftDone \/ Reopen \/ WriteEntry
  <2>1. found' = found /\ made' = made
    BY <1>2 DEF EndLog, TrimDone, ShiftDone, Reopen, WriteEntry
  <2> QED
    BY <2>1
<1>3. CASE AuditPlain \/ AuditCloseFails
  <2>1. found' = found /\ made' = made + 1
    BY <1>3 DEF AuditPlain, AuditCloseFails, NewEntry
  <2> QED
    BY <2>1
<1>4. CASE AuditFull
  <2>1. found' = OnDisk /\ made' = made + 1
    BY <1>4 DEF AuditFull, Rotating, NewEntry
  <2>2. OnDisk \subseteq 1..made
    BY DEF OnDisk
  <2> QED
    BY <2>1, <2>2
<1>5. CASE Trim \/ Shift \/ RenameCurrent
  BY <1>5 DEF Trim, Shift, RenameCurrent, Moved
<1> QED
  BY <1>1, <1>2, <1>3, <1>4, <1>5 DEF AuditNext, Audit

LEMMA AuditTypeStep ==
  AuditTypeOK /\ Pending /\ Ranges /\ [AuditNext]_auditVars
    => AuditTypeOK' /\ Ranges'
<1> SUFFICES ASSUME AuditTypeOK, Pending, Ranges, [AuditNext]_auditVars
             PROVE  AuditTypeOK' /\ Ranges'
  OBVIOUS
<1>1. CASE UNCHANGED auditVars
  BY <1>1 DEF auditVars, logFiles, logConfig, rotation, AuditTypeOK, Ranges
<1>2. CASE AuditNext
  <2>1. /\ usable' \in BOOLEAN /\ failed' \in BOOLEAN /\ sound' \in BOOLEAN
        /\ found' \subseteq 1..made'
    BY <1>2, FlagStep, FoundStep DEF AuditTypeOK
  <2> DEFINE Typed ==
        /\ current \subseteq 1..made
        /\ archive \in [Slots -> SUBSET (1..made)]
        /\ made \in Nat
        /\ auditAt \in {"down", "idle", "trim", "shift", "rename", "reopen",
                        "write"}
        /\ keep \in Slots
        /\ index \in Nat
        /\ newest \in 0..made
        /\ Ranges
  <2>2. Typed'
    <3>0. Typed
      BY DEF AuditTypeOK
    <3> USE AuditAssumption DEF Ranges, Slots, AuditGoto, logFiles, logConfig
    <3>1. ASSUME NEW k \in Keeps, OpenLog(k) PROVE Typed'
      BY <3>0, <3>1 DEF OpenLog
    <3>2. CASE EndLog
      BY <3>0, <3>2 DEF EndLog
    <3>3. CASE AuditPlain \/ AuditFull \/ AuditCloseFails
      <4>1. NewEntry /\ keep' = keep
        BY <3>3 DEF AuditPlain, AuditFull, AuditCloseFails, NewEntry
      <4>2. /\ made' \in Nat /\ newest' \in 0..made' /\ 1..made \subseteq 1..made'
            /\ current' \subseteq 1..made'
            /\ archive' \in [Slots -> SUBSET (1..made')]
        BY <3>0, <4>1 DEF NewEntry
      <4>3. \/ auditAt' = "write" /\ index' = index
            \/ auditAt' = "trim" /\ index' = keep + 1
        BY <3>3 DEF AuditPlain, AuditFull, AuditCloseFails
      <4> QED
        BY <3>0, <4>1, <4>2, <4>3
    <3>4. CASE TrimDone \/ ShiftDone
      <4>1. CASE TrimDone
        BY <3>0, <4>1 DEF TrimDone
      <4>2. CASE ShiftDone
        BY <3>0, <4>2 DEF ShiftDone
      <4> QED
        BY <3>4, <4>1, <4>2
    <3>5. CASE Trim
      <4>1. archive' \in [Slots -> SUBSET (1..made)]
        BY <3>0, <3>5 DEF Trim
      <4>2. /\ auditAt' = "trim" /\ index' = index + 1
            /\ UNCHANGED <<current, made, keep, newest>>
        BY <3>5 DEF Trim
      <4>3. auditAt = "trim"
        BY <3>5 DEF Trim
      <4> QED
        BY <3>0, <4>1, <4>2, <4>3
    <3>6. CASE Shift
      <4>1. index \in Slots /\ index + 1 \in Slots /\ index - 1 \in Nat
        BY <3>0, <3>6 DEF Shift
      <4>2. Renamed(index) \in [Slots -> SUBSET (1..made)]
        BY <3>0, <4>1 DEF Renamed
      <4>3. archive' \in [Slots -> SUBSET (1..made)]
        BY <3>0, <3>6, <4>2 DEF Shift
      <4> QED
        BY <3>0, <3>6, <4>1, <4>3 DEF Shift
    <3>7. CASE RenameCurrent
      BY <3>0, <3>7 DEF RenameCurrent, NewestSlot
    <3>8. CASE Reopen
      BY <3>0, <3>8 DEF Reopen
    <3>9. CASE WriteEntry
      <4>1. newest \in 1..made
        BY <3>0, <3>9 DEF WriteEntry, Pending
      <4>2. current' \subseteq current \cup {newest}
        BY <3>9 DEF WriteEntry
      <4>3. /\ auditAt' = "idle"
            /\ UNCHANGED <<archive, made, keep, newest, index>>
        BY <3>9 DEF WriteEntry
      <4> QED
        BY <3>0, <4>1, <4>2, <4>3
    <3> QED
      BY <1>2, <3>1, <3>2, <3>3, <3>4, <3>5, <3>6, <3>7, <3>8, <3>9
         DEF AuditNext, Audit
  <2> QED
    BY <2>1, <2>2 DEF AuditTypeOK
<1> QED
  BY <1>1, <1>2

-----------------------------------------------------------------------------
(* Order                                                                    *)

\* A rename within the range keeps the order, whatever is where.
LEMMA RenameOrder ==
  ASSUME AuditTypeOK, OrderKept, NEW i \in Slots, i + 1 \in Slots
  PROVE  LET moved == Renamed(i)
         IN  /\ \A j, k \in Slots : j < k => Older(moved[k], moved[j])
             /\ \A j \in Slots : Older(moved[j], current)
             /\ \A j \in Slots : moved[j] # {} =>
                   \E k \in Slots : moved[j] = archive[k]
<1> DEFINE moved == Renamed(i)
<1>1. /\ moved[i] = {} /\ moved[i + 1] = archive[i]
      /\ \A j \in Slots : j # i /\ j # i + 1 => moved[j] = archive[j]
  BY DEF Renamed, AuditTypeOK, Slots
<1>2. ASSUME NEW j \in Slots, NEW k \in Slots, j < k
      PROVE  Older(moved[k], moved[j])
  <2>1. CASE j = i \/ k = i
    BY <1>1, <2>1 DEF Older
  <2>2. CASE k = i + 1 /\ j # i
    <3>1. j < i /\ Older(archive[i], archive[j])
      BY <1>2, <2>2 DEF OrderKept, Slots
    <3> QED
      BY <1>1, <1>2, <2>2, <3>1 DEF Slots
  <2>3. CASE j = i + 1
    <3>1. i < k /\ k # i /\ k # i + 1 /\ Older(archive[k], archive[i])
      BY <1>2, <2>3 DEF OrderKept, Slots
    <3> QED
      BY <1>1, <2>3, <3>1
  <2>4. CASE j \notin {i, i + 1} /\ k \notin {i, i + 1}
    BY <1>1, <1>2, <2>4 DEF OrderKept
  <2> QED
    BY <2>1, <2>2, <2>3, <2>4
<1>3. \A j \in Slots : Older(moved[j], current)
  <2> SUFFICES ASSUME NEW j \in Slots PROVE Older(moved[j], current)
    OBVIOUS
  <2>1. CASE j = i
    BY <1>1, <2>1 DEF Older
  <2>2. CASE j = i + 1
    BY <1>1, <2>2 DEF OrderKept
  <2>3. CASE j \notin {i, i + 1}
    BY <1>1, <2>3 DEF OrderKept
  <2> QED
    BY <2>1, <2>2, <2>3
<1>4. \A j \in Slots : moved[j] # {} => \E k \in Slots : moved[j] = archive[k]
  BY <1>1
<1> HIDE DEF moved
<1>5. moved = Renamed(i)
  BY DEF moved
<1> QED
  BY <1>2, <1>3, <1>4, <1>5

\* What a rename of the current file leaves in order.
LEMMA CurrentOrder ==
  ASSUME AuditTypeOK, OrderKept, current' = {},
         archive' = [archive EXCEPT ![NewestSlot] = current]
  PROVE  OrderKept'
<1> USE AuditAssumption DEF AuditTypeOK, Slots, NewestSlot
<1>1. /\ 1 \in Slots /\ archive'[1] = current
      /\ \A j \in Slots : j # 1 => archive'[j] = archive[j]
  OBVIOUS
<1>2. ASSUME NEW j \in Slots, NEW k \in Slots, j < k
      PROVE  Older(archive'[k], archive'[j])
  <2>1. k # 1 /\ archive'[k] = archive[k]
    BY <1>1, <1>2
  <2> QED
    BY <1>1, <1>2, <2>1 DEF OrderKept
<1>3. \A j \in Slots : Older(archive'[j], current')
  BY DEF Older
<1> QED
  BY <1>2, <1>3 DEF OrderKept

\* Whatever fails, and wherever the process ends.
LEMMA OrderStep ==
  AuditInv /\ [AuditNext]_auditVars => OrderKept' /\ Pending'
<1> SUFFICES ASSUME AuditInv, [AuditNext]_auditVars PROVE OrderKept' /\ Pending'
  OBVIOUS
<1>0. AuditTypeOK /\ OrderKept /\ Pending /\ Ranges
  BY DEF AuditInv
<1> USE DEF AuditGoto, logFiles, logConfig
<1>1. CASE UNCHANGED auditVars
  BY <1>0, <1>1 DEF auditVars, OrderKept, Pending
<1>2. ASSUME NEW k \in Keeps, OpenLog(k) PROVE OrderKept' /\ Pending'
  BY <1>0, <1>2 DEF OpenLog, OrderKept, Pending
<1>3. CASE EndLog
  BY <1>0, <1>3 DEF EndLog, OrderKept, Pending
<1>4. CASE AuditPlain \/ AuditFull \/ AuditCloseFails
  <2>1. NewEntry
    BY <1>4 DEF AuditPlain, AuditFull, AuditCloseFails
  <2>2. OrderKept'
    BY <1>0, <2>1 DEF NewEntry, OrderKept
  <2>3. newest' = made' /\ made' # 0
    BY <1>0, <2>1 DEF NewEntry, AuditTypeOK
  <2>4. \A e \in 1..made : e < made'
    BY <1>0, <2>1 DEF NewEntry, AuditTypeOK
  <2>5. current' \subseteq 1..made /\ \A i \in Slots : archive'[i] \subseteq 1..made
    BY <1>0, <2>1 DEF NewEntry, AuditTypeOK
  <2> QED
    BY <2>2, <2>3, <2>4, <2>5 DEF Pending
<1>5. CASE TrimDone \/ ShiftDone \/ Reopen
  BY <1>0, <1>5 DEF TrimDone, ShiftDone, Reopen, OrderKept, Pending
<1>6. CASE Trim
  <2>1. \A i \in Slots : archive'[i] \subseteq archive[i]
    BY <1>0, <1>6 DEF Trim, AuditTypeOK
  <2>2. /\ auditAt = "trim" /\ auditAt' = "trim"
        /\ UNCHANGED <<current, made, newest>>
    BY <1>6 DEF Trim
  <2> QED
    BY <1>0, <2>1, <2>2 DEF OrderKept, Pending, Older
<1>7. CASE Shift
  <2>1. index \in Slots /\ index + 1 \in Slots
    <3>1. auditAt = "shift" /\ index >= 1
      BY <1>7 DEF Shift
    <3>2. index \in Nat /\ keep \in 1..Top /\ Top \in Nat
      BY <1>0, AuditAssumption DEF AuditTypeOK, Slots
    <3> QED
      BY <1>0, <3>1, <3>2 DEF Ranges, Slots
  <2>2. archive' = archive \/ archive' = Renamed(index)
    BY <1>7 DEF Shift
  <2>3. /\ auditAt = "shift" /\ auditAt' = "shift"
        /\ UNCHANGED <<current, made, newest>>
    BY <1>7 DEF Shift
  <2>4. OrderKept'
    BY <1>0, <2>1, <2>2, <2>3, RenameOrder DEF OrderKept
  <2>5. \A i \in Slots : archive'[i] # {} =>
           \E j \in Slots : archive'[i] = archive[j]
    BY <1>0, <2>1, <2>2, RenameOrder
  <2> QED
    BY <1>0, <2>3, <2>4, <2>5 DEF Pending
<1>8. CASE RenameCurrent
  <2>1. /\ auditAt = "rename" /\ auditAt' = "reopen"
        /\ UNCHANGED <<made, newest>>
    BY <1>8 DEF RenameCurrent
  <2>2. \/ UNCHANGED <<archive, current>>
        \/ current' = {} /\ archive' = [archive EXCEPT ![NewestSlot] = current]
    BY <1>8 DEF RenameCurrent
  <2>3. OrderKept'
    BY <1>0, <2>2, CurrentOrder DEF OrderKept
  <2>4. \A i \in Slots : archive'[i] \subseteq current \/ archive'[i] = archive[i]
    BY <1>0, <2>2 DEF AuditTypeOK, NewestSlot
  <2>5. current' \subseteq current
    BY <2>2
  <2> QED
    BY <1>0, <2>1, <2>3, <2>4, <2>5 DEF Pending
<1>9. CASE WriteEntry
  <2>1. newest = made /\ \A i \in Slots : \A e \in archive[i] : e < made
    BY <1>0, <1>9 DEF WriteEntry, Pending
  <2>2. current' \subseteq current \cup {made} /\ archive' = archive
    BY <1>9, <2>1 DEF WriteEntry
  <2>3. auditAt' = "idle"
    BY <1>9 DEF WriteEntry
  <2> QED
    BY <1>0, <2>1, <2>2, <2>3 DEF OrderKept, Pending, Older
<1> QED
  BY <1>1, <1>2, <1>3, <1>4, <1>5, <1>6, <1>7, <1>8, <1>9 DEF AuditNext, Audit

LEMMA AuditStart == AuditInit => AuditInv /\ Ready
<1> SUFFICES ASSUME AuditInit PROVE AuditInv /\ Ready
  OBVIOUS
<1>1. AuditTypeOK
  <2>1. /\ usable \in BOOLEAN /\ failed \in BOOLEAN /\ sound \in BOOLEAN
        /\ found \subseteq 1..made
    BY Zenon DEF AuditInit
  <2>2. archive \in [Slots -> SUBSET (1..made)] /\ current \subseteq 1..made
    BY DEF AuditInit
  <2>3. keep \in Slots
    BY AuditAssumption DEF AuditInit, Slots
  <2>4. made \in Nat /\ index \in Nat /\ newest \in 0..made
    BY DEF AuditInit
  <2> QED
    BY <2>1, <2>2, <2>3, <2>4 DEF AuditInit, AuditTypeOK
<1>2. OrderKept /\ Pending /\ Ranges /\ Ready
  BY DEF AuditInit, OrderKept, Older, Pending, Ranges, Ready
<1> QED
  BY <1>1, <1>2 DEF AuditInv

LEMMA AuditInvariant == AuditSpec => []AuditInv
<1>1. AuditInv /\ [AuditNext]_auditVars => AuditInv'
  BY AuditTypeStep, OrderStep DEF AuditInv
<1> QED
  BY AuditStart, <1>1, PTL DEF AuditSpec

\* Every variable of the log has its type.
THEOREM AuditTypes == AuditSpec => []AuditTypeOK
<1>1. AuditInv => AuditTypeOK
  BY DEF AuditInv
<1> QED
  BY AuditInvariant, <1>1, PTL

\* A higher archive is older than a lower one, and all are older than the file
\* that is written to, whatever fails (audit.go, shiftArchives).
THEOREM ArchivesInOrder == AuditSpec => []OrderKept
<1>1. AuditInv => OrderKept
  BY DEF AuditInv
<1> QED
  BY AuditInvariant, <1>1, PTL

-----------------------------------------------------------------------------
(* The newest entry                                                         *)

\* The file is open when it is written to, unless a failure has been noted.
LEMMA ReadyStep == AuditInv /\ Ready /\ [AuditNext]_auditVars => Ready'
<1> SUFFICES ASSUME AuditInv, Ready, [AuditNext]_auditVars, ~failed'
             PROVE  /\ auditAt' = "write" => usable'
                    /\ auditAt' = "down" => newest' = 0
                    /\ auditAt' = "idle" /\ newest' # 0 => newest' \in current'
  BY DEF Ready
<1> DEFINE Goal ==
      /\ auditAt' = "write" => usable'
      /\ auditAt' = "down" => newest' = 0
      /\ auditAt' = "idle" /\ newest' # 0 => newest' \in current'
<1> USE DEF AuditGoto, logFiles, logConfig
<1>1. CASE UNCHANGED auditVars
  BY <1>1 DEF auditVars, Ready
<1>2. ASSUME NEW k \in Keeps, OpenLog(k) PROVE Goal
  BY <1>2 DEF OpenLog, Ready
<1>3. CASE EndLog
  BY <1>3 DEF EndLog
<1>4. CASE AuditPlain \/ AuditFull \/ AuditCloseFails
  <2>1. auditAt' \in {"write", "trim"}
    BY <1>4 DEF AuditPlain, AuditFull, AuditCloseFails
  <2>2. auditAt' = "write" => usable'
    <3>1. CASE AuditPlain
      <4>1. usable
        BY <3>1, Zenon DEF AuditPlain
      <4> QED
        BY <3>1, <4>1, Zenon DEF AuditPlain
    <3>2. CASE AuditFull
      BY <3>2 DEF AuditFull
    <3>3. CASE AuditCloseFails
      BY <3>3, Zenon DEF AuditCloseFails
    <3> QED
      BY <1>4, <3>1, <3>2, <3>3
  <2> QED
    BY <2>1, <2>2
<1>5. CASE TrimDone \/ ShiftDone \/ Trim \/ Shift \/ RenameCurrent
  BY <1>5 DEF TrimDone, ShiftDone, Trim, Shift, RenameCurrent
<1>6. CASE Reopen
  <2>1. usable'
    <3>1. PICK ok \in Outcomes("reopen") : usable' = ok /\ Noted(ok)
      BY <1>6, Zenon DEF Reopen
    <3>2. ok
      BY <3>1, Zenon DEF Noted
    <3> QED
      BY <3>1, <3>2, Zenon
  <2>2. auditAt' = "write"
    BY <1>6 DEF Reopen
  <2> QED
    BY <2>1, <2>2
<1>7. CASE WriteEntry
  <2>1. PICK ok \in Outcomes("write") :
          /\ current' = current \cup {e \in {newest} : ok /\ usable}
          /\ Noted(ok /\ usable)
    BY <1>7, Zenon DEF WriteEntry
  <2>2. ok /\ usable
    BY <2>1, Zenon DEF Noted
  <2>3. newest \in current'
    BY <2>1, <2>2
  <2>4. auditAt' = "idle" /\ newest' = newest
    BY <1>7 DEF WriteEntry
  <2> QED
    BY <2>3, <2>4
<1> QED
  BY <1>1, <1>2, <1>3, <1>4, <1>5, <1>6, <1>7 DEF AuditNext, Audit

\* An entry is on disk when Audit returns unless a system call has failed, the
\* one that made the log rotate included.
THEOREM NewestIsOnDisk == AuditSpec => []NewestOnDisk
<1>1. Ready => NewestOnDisk
  BY DEF Ready, NewestOnDisk
<1> QED
  BY AuditInvariant, AuditStart, ReadyStep, <1>1, PTL DEF AuditSpec

-----------------------------------------------------------------------------
(* What is lost                                                             *)

\* What is rotated is there.
Loaded == auditAt \in {"trim", "shift", "rename"} => current # {}

LEMMA LoadedStep == AuditTypeOK /\ Loaded /\ [AuditNext]_auditVars => Loaded'
<1> SUFFICES ASSUME AuditTypeOK, Loaded, [AuditNext]_auditVars,
                    auditAt' \in {"trim", "shift", "rename"}
             PROVE  current' # {}
  BY DEF Loaded
<1> USE DEF AuditGoto, logFiles
<1>1. CASE UNCHANGED auditVars
  BY <1>1 DEF auditVars, Loaded
<1>2. ASSUME NEW k \in Keeps, OpenLog(k) PROVE FALSE
  BY <1>2 DEF OpenLog
<1>3. CASE EndLog \/ AuditPlain \/ AuditCloseFails \/ RenameCurrent \/ Reopen
            \/ WriteEntry
  BY <1>3 DEF EndLog, AuditPlain, AuditCloseFails, RenameCurrent, Reopen, WriteEntry
<1>4. CASE AuditFull
  <2>1. Full /\ current' = current
    BY <1>4 DEF AuditFull, NewEntry
  <2> QED
    BY <2>1, FS_EmptySet, AuditAssumption DEF Full
<1>5. CASE TrimDone \/ Trim \/ Shift \/ ShiftDone
  BY <1>5 DEF TrimDone, Trim, Shift, ShiftDone, Loaded
<1> QED
  BY <1>1, <1>2, <1>3, <1>4, <1>5 DEF AuditNext, Audit

LEMMA OnDiskMember ==
  \A e : e \in OnDisk <=> e \in current \/ \E i \in Slots : e \in archive[i]
BY DEF OnDisk

LEMMA OnDiskMemberNext ==
  \A e : e \in OnDisk' <=> e \in current' \/ \E i \in Slots : e \in archive'[i]
BY DEF OnDisk

\* No entry is in two archives, or in one and in the file.
LEMMA Disjoint ==
  ASSUME AuditTypeOK, OrderKept, NEW i \in Slots, NEW e \in archive[i]
  PROVE  e \notin current /\ \A j \in Slots : e \in archive[j] => j = i
<1>1. e \in Nat
  BY DEF AuditTypeOK
<1>2. e \notin current
  BY <1>1 DEF OrderKept, Older
<1>3. ASSUME NEW j \in Slots, e \in archive[j], j # i PROVE FALSE
  <2>1. i < j \/ j < i
    BY <1>3 DEF Slots
  <2> QED
    BY <1>1, <1>3, <2>1 DEF OrderKept, Older
<1> QED
  BY <1>2, <1>3

\* The trimming loses an archive beyond the count, or none.
LEMMA TrimLoses ==
  ASSUME AuditInv, Trim
  PROVE  /\ index \in Slots /\ index > keep
         /\ UNCHANGED <<current, made, keep, found>> /\ auditAt' = "trim"
         /\ index' = index + 1
         /\ sound' => sound /\ archive' = [archive EXCEPT ![index] = {}]
         /\ \/ UNCHANGED archive
            \/ archive' = [archive EXCEPT ![index] = {}] /\ OnDisk' = OnDisk \ archive[index]
<1>0. AuditTypeOK /\ OrderKept /\ Ranges
  BY DEF AuditInv
<1>1. index \in Slots /\ auditAt = "trim"
  BY DEF Trim, Exists, AuditGoto
<1>2. index > keep
  BY <1>0, <1>1, AuditAssumption DEF Ranges, AuditTypeOK, Slots
<1>3. PICK ok \in Outcomes("remove") :
        /\ archive' = IF ok THEN [archive EXCEPT ![index] = {}] ELSE archive
        /\ Moved(ok)
  BY DEF Trim
<1>4. found' = found /\ (sound' => sound /\ ok)
  BY <1>3, MovedIsNoted
<1>5. /\ UNCHANGED <<current, made, keep>> /\ auditAt' = "trim"
      /\ index' = index + 1
  BY DEF Trim, AuditGoto, logConfig
<1>6. ASSUME archive' = [archive EXCEPT ![index] = {}]
      PROVE  OnDisk' = OnDisk \ archive[index]
  <2>1. archive'[index] = {} /\ \A j \in Slots : j # index => archive'[j] = archive[j]
    BY <1>0, <1>1, <1>6 DEF AuditTypeOK
  <2> QED
    BY <1>0, <1>1, <1>5, <2>1, Disjoint, OnDiskMember, OnDiskMemberNext
<1> QED
  BY <1>1, <1>2, <1>3, <1>4, <1>5, <1>6

\* A rename loses the archive that has the new name.
LEMMA ShiftLoses ==
  ASSUME AuditInv, Shift
  PROVE  /\ index \in Slots /\ index + 1 \in Slots /\ index + 1 <= keep
         /\ auditAt = "shift"
         /\ UNCHANGED <<current, made, keep, found>> /\ auditAt' = "shift"
         /\ index' = index - 1
         /\ sound' => sound /\ archive'[index] = {}
         /\ \/ UNCHANGED archive
            \/ /\ archive' = Renamed(index) /\ Exists(index)
               /\ OnDisk' = OnDisk \ archive[index + 1]
<1>0. AuditTypeOK /\ OrderKept /\ Ranges /\ Top \in Nat
  BY AuditAssumption DEF AuditInv
<1>1. /\ auditAt = "shift" /\ auditAt' = "shift" /\ index >= 1
      /\ UNCHANGED <<current, made, keep>> /\ index' = index - 1
  BY DEF Shift, AuditGoto, logConfig
<1>2. index \in Slots /\ index + 1 \in Slots /\ index + 1 <= keep /\ index # index + 1
  <2>1. index \in Nat /\ keep \in 1..Top /\ index <= keep - 1
    BY <1>0, <1>1 DEF Ranges, AuditTypeOK, Slots
  <2> QED
    BY <1>0, <1>1, <2>1 DEF Slots
<1>3. PICK ok \in Outcomes("rename") :
        /\ archive' = IF ok /\ Exists(index) THEN Renamed(index) ELSE archive
        /\ Moved(ok \/ ~Exists(index))
  BY DEF Shift
<1>4. found' = found /\ (sound' => sound /\ (ok \/ ~Exists(index)))
  BY <1>3, MovedIsNoted
<1>5. ASSUME archive' = Renamed(index)
      PROVE  archive'[index] = {} /\ OnDisk' = OnDisk \ archive[index + 1]
  <2>1. /\ archive'[index] = {} /\ archive'[index + 1] = archive[index]
        /\ \A j \in Slots : j # index /\ j # index + 1 => archive'[j] = archive[j]
    BY <1>0, <1>2, <1>5 DEF Renamed, AuditTypeOK, Slots
  <2>2. OnDisk' \subseteq OnDisk \ archive[index + 1]
    BY <1>0, <1>1, <1>2, <2>1, Disjoint, OnDiskMember, OnDiskMemberNext
  <2>3. OnDisk \ archive[index + 1] \subseteq OnDisk'
    BY <1>1, <1>2, <2>1, OnDiskMember, OnDiskMemberNext
  <2> QED
    BY <2>1, <2>2, <2>3
<1>6. ~Exists(index) => archive' = archive /\ archive[index] = {}
  BY <1>2, <1>3 DEF Exists
<1>7. sound' => archive'[index] = {}
  BY <1>3, <1>4, <1>5, <1>6
<1> QED
  BY <1>1, <1>2, <1>3, <1>4, <1>5, <1>7

\* And so does the one of the file.
LEMMA RenameLoses ==
  ASSUME AuditInv, RenameCurrent
  PROVE  /\ 1 \in Slots /\ auditAt = "rename" /\ auditAt' = "reopen"
         /\ UNCHANGED <<made, keep, found>>
         /\ \A i \in Slots : i # 1 => archive'[i] = archive[i]
         /\ sound' => sound /\ current' = {} /\ archive'[1] = current
         /\ \/ UNCHANGED <<archive, current>>
            \/ OnDisk' = OnDisk \ archive[1] /\ current \subseteq OnDisk'
<1>0. AuditTypeOK /\ OrderKept /\ 1 \in Slots
  BY AuditAssumption DEF AuditInv, Slots
<1>1. /\ auditAt = "rename" /\ auditAt' = "reopen" /\ UNCHANGED <<made, keep>>
  BY DEF RenameCurrent, AuditGoto, logConfig
<1>2. PICK ok \in Outcomes("rename") :
        /\ archive' = IF ok THEN [archive EXCEPT ![1] = current] ELSE archive
        /\ current' = IF ok THEN {} ELSE current
        /\ Moved(ok)
  BY DEF RenameCurrent, NewestSlot
<1>3. found' = found /\ (sound' => sound /\ ok)
  BY <1>2, MovedIsNoted
<1>4. /\ ok => archive'[1] = current
      /\ \A j \in Slots : j # 1 => archive'[j] = archive[j]
  BY <1>0, <1>2 DEF AuditTypeOK
<1>5. ASSUME ok PROVE OnDisk' = OnDisk \ archive[1] /\ current \subseteq OnDisk'
  <2>1. current' = {}
    BY <1>2, <1>5
  <2>2. OnDisk' \subseteq OnDisk \ archive[1]
    BY <1>0, <1>4, <1>5, <2>1, Disjoint, OnDiskMember, OnDiskMemberNext
  <2>3. OnDisk \ archive[1] \subseteq OnDisk'
    BY <1>0, <1>4, <1>5, <2>1, OnDiskMember, OnDiskMemberNext
  <2> QED
    BY <1>0, <1>4, <1>5, <2>2, <2>3, OnDiskMemberNext
<1> QED
  BY <1>0, <1>1, <1>2, <1>3, <1>4, <1>5

-----------------------------------------------------------------------------
(* A sound rotation                                                         *)

\* Nothing is left beyond the count, once the trimming has passed it: it stops
\* at the first that is missing, and behind that there are none.
Trimmed ==
    sound =>
        /\ auditAt = "trim" =>
              /\ \A i \in Slots : keep < i /\ i < index => archive[i] = {}
              /\ \A i, j \in Slots :
                    index <= i /\ i < j /\ archive[i] = {} => archive[j] = {}
        /\ auditAt \in {"shift", "rename", "reopen"} =>
              \A i \in Slots : i > keep => archive[i] = {}

LEMMA TrimmedStep ==
  AuditInv /\ Trimmed /\ [AuditNext]_auditVars => Trimmed'
<1> SUFFICES ASSUME AuditInv, Trimmed, [AuditNext]_auditVars PROVE Trimmed'
  OBVIOUS
<1>0. AuditTypeOK /\ Ranges /\ Top \in Nat /\ Top # 0
  BY AuditAssumption DEF AuditInv
<1> USE DEF AuditGoto, logFiles, logConfig, rotation
<1>1. CASE UNCHANGED auditVars
  BY <1>1 DEF auditVars, Trimmed
<1>2. ASSUME NEW k \in Keeps, OpenLog(k) PROVE Trimmed'
  BY <1>2 DEF OpenLog, Trimmed
<1>3. CASE EndLog \/ AuditPlain \/ AuditCloseFails \/ Reopen \/ WriteEntry
  <2>1. auditAt' \in {"down", "idle", "write"}
    BY <1>3 DEF EndLog, AuditPlain, AuditCloseFails, Reopen, WriteEntry
  <2> QED
    BY <2>1 DEF Trimmed
<1>4. CASE AuditFull
  <2>1. /\ keep' = keep /\ archive' = archive /\ sound' = ~Holed
        /\ auditAt' = "trim" /\ index' = keep + 1
    BY <1>4 DEF AuditFull, NewEntry, Rotating
  <2>2. \A i \in Slots : ~ (keep < i /\ i < keep + 1)
    BY <1>0 DEF AuditTypeOK, Slots
  <2>3. sound' => \A i, j \in Slots : i < j /\ archive[i] = {} => archive[j] = {}
    BY <2>1 DEF Holed, Exists
  <2> QED
    BY <2>1, <2>2, <2>3 DEF Trimmed
<1>5. CASE TrimDone
  <2>1. /\ auditAt = "trim" /\ auditAt' = "shift" /\ ~Exists(index)
        /\ UNCHANGED <<archive, keep, sound>>
    BY <1>5 DEF TrimDone
  <2>2. index >= keep + 1 /\ index \in Nat /\ keep \in 1..Top
    BY <1>0, <2>1 DEF Ranges, AuditTypeOK, Slots
  <2>3. index \in Slots => archive[index] = {}
    BY <2>1 DEF Exists
  <2>4. ASSUME sound, NEW i \in Slots, i > keep PROVE archive[i] = {}
    <3>1. CASE i < index
      BY <2>1, <2>4, <3>1 DEF Trimmed
    <3>2. CASE i = index
      BY <2>3, <3>2
    <3>3. CASE i > index
      <4>1. index \in Slots
        BY <1>0, <2>2, <3>3 DEF Slots
      <4>2. index <= index
        BY <2>2
      <4> QED
        BY <2>1, <2>3, <2>4, <3>3, <4>1, <4>2 DEF Trimmed
    <3> QED
      BY <2>2, <3>1, <3>2, <3>3 DEF Slots
  <2> QED
    BY <2>1, <2>4 DEF Trimmed
<1>6. CASE Trim
  <2>1. /\ index \in Slots /\ keep' = keep /\ index' = index + 1
        /\ auditAt' = "trim" /\ auditAt = "trim"
        /\ sound' => sound /\ archive' = [archive EXCEPT ![index] = {}]
    BY <1>6, TrimLoses DEF Trim
  <2>2. sound' => /\ archive'[index] = {}
                  /\ \A i \in Slots : i # index => archive'[i] = archive[i]
    BY <1>0, <2>1 DEF AuditTypeOK
  <2>3. \A i \in Slots : (i < index + 1 => i < index \/ i = index)
                         /\ (index + 1 <= i => index <= i /\ i # index)
    BY <2>1 DEF Slots
  <2>4. ASSUME sound', NEW i \in Slots, NEW j \in Slots,
               index + 1 <= i, i < j, archive'[i] = {}
        PROVE  archive'[j] = {}
    <3>1. i # index /\ j # index /\ index <= i
      BY <2>1, <2>4 DEF Slots
    <3> QED
      BY <2>1, <2>2, <2>4, <3>1 DEF Trimmed
  <2>5. ASSUME sound', NEW i \in Slots, keep < i, i < index + 1
        PROVE  archive'[i] = {}
    BY <2>1, <2>2, <2>3, <2>5 DEF Trimmed
  <2> QED
    BY <2>1, <2>4, <2>5 DEF Trimmed
<1>7. CASE Shift
  <2>1. /\ index \in Slots /\ index + 1 \in Slots /\ index + 1 <= keep
        /\ auditAt = "shift" /\ auditAt' = "shift" /\ keep' = keep
        /\ sound' => sound
        /\ archive' = archive \/ archive' = Renamed(index)
    BY <1>7, ShiftLoses
  <2>2. \A i \in Slots : i > keep => archive'[i] = archive[i]
    BY <1>0, <2>1 DEF Renamed, AuditTypeOK, Slots
  <2> QED
    BY <2>1, <2>2 DEF Trimmed
<1>8. CASE ShiftDone
  BY <1>8 DEF ShiftDone, Trimmed
<1>9. CASE RenameCurrent
  <2>1. /\ auditAt = "rename" /\ auditAt' = "reopen" /\ keep' = keep
        /\ sound' => sound
        /\ \A i \in Slots : i # 1 => archive'[i] = archive[i]
    BY <1>9, RenameLoses
  <2>2. \A i \in Slots : i > keep => i # 1
    BY <1>0 DEF AuditTypeOK, Slots
  <2> QED
    BY <2>1, <2>2 DEF Trimmed
<1> QED
  BY <1>1, <1>2, <1>3, <1>4, <1>5, <1>6, <1>7, <1>8, <1>9 DEF AuditNext, Audit

\* How long the file is in a life without a failure.
Sized ==
    ~failed =>
        /\ auditAt = "write" => Cardinality(current) <= Limit
        /\ auditAt = "reopen" => current = {}
        /\ auditAt = "down" => newest = 0
        /\ auditAt = "idle" /\ newest # 0 => Cardinality(current) <= Limit + 1

LEMMA CurrentIsFinite ==
  AuditTypeOK => IsFiniteSet(current) /\ Cardinality(current) \in Nat
<1> SUFFICES ASSUME AuditTypeOK
             PROVE  IsFiniteSet(current) /\ Cardinality(current) \in Nat
  OBVIOUS
<1>1. IsFiniteSet(1..made)
  BY FS_Interval DEF AuditTypeOK
<1>2. IsFiniteSet(current)
  BY <1>1, FS_Subset DEF AuditTypeOK
<1> QED
  BY <1>2, FS_CardinalityType

\* A file above the limit is not written to before it has been rotated.
LEMMA SizedStep == AuditInv /\ Sized /\ [AuditNext]_auditVars => Sized'
<1> SUFFICES ASSUME AuditInv, Sized, [AuditNext]_auditVars, ~failed'
    PROVE  /\ auditAt' = "write" => Cardinality(current') <= Limit
           /\ auditAt' = "reopen" => current' = {}
           /\ auditAt' = "down" => newest' = 0
           /\ auditAt' = "idle" /\ newest' # 0 => Cardinality(current') <= Limit + 1
  BY DEF Sized
<1> DEFINE Goal ==
      /\ auditAt' = "write" => Cardinality(current') <= Limit
      /\ auditAt' = "reopen" => current' = {}
      /\ auditAt' = "down" => newest' = 0
      /\ auditAt' = "idle" /\ newest' # 0 => Cardinality(current') <= Limit + 1
<1>0. IsFiniteSet(current) /\ Cardinality(current) \in Nat
  BY CurrentIsFinite DEF AuditInv
<1> USE AuditAssumption DEF AuditGoto, logFiles, logConfig
<1>1. CASE UNCHANGED auditVars
  BY <1>1 DEF auditVars, Sized
<1>2. ASSUME NEW k \in Keeps, OpenLog(k) PROVE Goal
  BY <1>2 DEF OpenLog, Sized
<1>3. CASE EndLog
  BY <1>3 DEF EndLog
<1>4. CASE AuditPlain
  <2>1. ~Full
    BY <1>4, Zenon DEF AuditPlain
  <2>2. auditAt' = "write" /\ current' = current
    BY <1>4 DEF AuditPlain, NewEntry
  <2> QED
    BY <1>0, <2>1, <2>2 DEF Full
<1>5. CASE AuditCloseFails
  BY <1>5, Zenon DEF AuditCloseFails
<1>6. CASE AuditFull \/ TrimDone \/ ShiftDone \/ Trim \/ Shift
  BY <1>6 DEF AuditFull, TrimDone, ShiftDone, Trim, Shift
<1>7. CASE RenameCurrent
  <2>1. PICK ok \in Outcomes("rename") :
          current' = (IF ok THEN {} ELSE current) /\ Noted(ok)
    BY <1>7 DEF RenameCurrent, Moved
  <2>2. ok
    BY <2>1, Zenon DEF Noted
  <2>3. current' = {} /\ auditAt' = "reopen"
    BY <1>7, <2>1, <2>2 DEF RenameCurrent
  <2> QED
    BY <2>3
<1>8. CASE Reopen
  <2>1. ~failed
    BY <1>8, Zenon DEF Reopen, Noted
  <2>2. auditAt = "reopen" /\ auditAt' = "write" /\ current' = current
    BY <1>8 DEF Reopen
  <2> QED
    BY <2>1, <2>2, FS_EmptySet DEF Sized
<1>9. CASE WriteEntry
  <2>1. ~failed
    BY <1>9, Zenon DEF WriteEntry, Noted
  <2>2. PICK ok : current' = current \cup {e \in {newest} : ok /\ usable}
    BY <1>9, Zenon DEF WriteEntry
  <2>3. current' = current \/ current' = current \cup {newest}
    BY <2>2
  <2>4. auditAt = "write" /\ auditAt' = "idle"
    BY <1>9 DEF WriteEntry
  <2>5. Cardinality(current) <= Limit
    BY <2>1, <2>4 DEF Sized
  <2>6. \/ Cardinality(current') = Cardinality(current)
        \/ Cardinality(current') = Cardinality(current) + 1
    <3>1. \/ Cardinality(current \cup {newest}) = Cardinality(current)
          \/ Cardinality(current \cup {newest}) = Cardinality(current) + 1
      BY <1>0, FS_AddElement, Zenon
    <3> QED
      BY <2>3, <3>1
  <2> HIDE DEF AuditGoto, logFiles, logConfig
  <2>7. Cardinality(current') <= Limit + 1
    BY <1>0, <2>5, <2>6
  <2> QED
    BY <2>4, <2>7
<1> QED
  BY <1>1, <1>2, <1>3, <1>4, <1>5, <1>6, <1>7, <1>8, <1>9 DEF AuditNext, Audit

LEMMA SizedStart == AuditInit => Trimmed /\ Sized
BY DEF AuditInit, Trimmed, Sized

\* A rotation that finds no archive missing and in which nothing fails leaves
\* none beyond the retention count, however far that has been lowered, and the
\* file has at most the entry that takes it over the limit.
THEOREM DiskIsBounded == AuditSpec => []DiskBounded
<1>1. Trimmed /\ Sized => DiskBounded
  BY DEF Trimmed, Sized, DiskBounded
<1>2. AuditSpec => [](Trimmed /\ Sized)
  BY AuditInvariant, SizedStart, TrimmedStep, SizedStep, PTL DEF AuditSpec
<1> QED
  BY <1>1, <1>2, PTL

\* A rename finds nothing where it moves an archive to, but in the last place.
Vacated ==
    sound =>
        /\ auditAt = "shift" /\ index + 1 < keep => archive[index + 1] = {}
        /\ auditAt = "rename" /\ keep > 1 => archive[1] = {}

LEMMA VacatedStep == AuditInv /\ Vacated /\ [AuditNext]_auditVars => Vacated'
<1> SUFFICES ASSUME AuditInv, Vacated, [AuditNext]_auditVars, sound'
    PROVE  /\ auditAt' = "shift" /\ index' + 1 < keep' => archive'[index' + 1] = {}
           /\ auditAt' = "rename" /\ keep' > 1 => archive'[1] = {}
  BY DEF Vacated
<1>0. AuditTypeOK /\ Ranges /\ Top \in Nat
  BY AuditAssumption DEF AuditInv
<1> USE DEF AuditGoto, logFiles, logConfig, rotation
<1>1. CASE UNCHANGED auditVars
  BY <1>1 DEF auditVars, Vacated
<1>2. ASSUME NEW k \in Keeps, OpenLog(k) PROVE auditAt' = "idle"
  BY <1>2 DEF OpenLog
<1>3. CASE EndLog \/ AuditPlain \/ AuditFull \/ AuditCloseFails \/ Trim
            \/ RenameCurrent \/ Reopen \/ WriteEntry
  BY <1>3 DEF EndLog, AuditPlain, AuditFull, AuditCloseFails, Trim,
     RenameCurrent, Reopen, WriteEntry
<1>4. CASE TrimDone
  <2>1. auditAt' = "shift" /\ index' = keep - 1 /\ keep' = keep
    BY <1>4 DEF TrimDone
  <2> QED
    BY <1>0, <2>1 DEF AuditTypeOK, Slots
<1>5. CASE Shift
  <2>1. /\ index \in Slots /\ index' = index - 1 /\ auditAt' = "shift"
        /\ archive'[index] = {}
    BY <1>5, ShiftLoses
  <2>2. index' + 1 = index
    BY <2>1 DEF Slots
  <2> QED
    BY <2>1, <2>2
<1>6. CASE ShiftDone
  <2>1. /\ auditAt = "shift" /\ auditAt' = "rename" /\ index = 0
        /\ UNCHANGED <<keep, archive, sound>>
    BY <1>6 DEF ShiftDone
  <2>2. keep > 1 => index + 1 < keep
    BY <1>0, <2>1 DEF AuditTypeOK, Slots
  <2> QED
    BY <2>1, <2>2 DEF Vacated
<1> QED
  BY <1>1, <1>2, <1>3, <1>4, <1>5, <1>6 DEF AuditNext, Audit

\* Nothing that has been lost is newer than what will be kept.
Cut ==
    sound =>
        /\ auditAt = "trim" =>
              /\ Older(found \ OnDisk, current)
              /\ \A i \in Slots : i <= keep => Older(found \ OnDisk, archive[i])
        /\ auditAt \in {"shift", "rename", "reopen"} => Older(found \ OnDisk, OnDisk)

\* The archives beyond i are none, and i is lost.
LEMMA LoseOldest ==
  ASSUME AuditTypeOK, OrderKept, NEW i \in Slots,
         \A j \in Slots : j > i => archive[j] = {},
         OnDisk' = OnDisk \ archive[i], found' = found, Older(found \ OnDisk, OnDisk)
  PROVE  Older(found' \ OnDisk', OnDisk')
<1> SUFFICES ASSUME NEW d \in found \ OnDisk', NEW e \in OnDisk' PROVE d < e
  BY DEF Older
<1>1. e \in OnDisk /\ e \notin archive[i]
  OBVIOUS
<1>2. CASE d \notin OnDisk
  BY <1>1, <1>2 DEF Older
<1>3. CASE d \in OnDisk
  <2>1. d \in archive[i]
    BY <1>3
  <2>2. CASE e \in current
    BY <2>1, <2>2 DEF OrderKept, Older
  <2>3. ASSUME NEW j \in Slots, e \in archive[j] PROVE d < e
    <3>1. j < i
      BY <1>1, <2>3 DEF Slots
    <3> QED
      BY <2>1, <2>3, <3>1 DEF OrderKept, Older
  <2> QED
    BY <1>1, <2>2, <2>3, OnDiskMember
<1> QED
  BY <1>2, <1>3

LEMMA CutStep ==
  AuditInv /\ Trimmed /\ Vacated /\ Cut /\ [AuditNext]_auditVars => Cut'
<1> SUFFICES ASSUME AuditInv, Trimmed, Vacated, Cut, [AuditNext]_auditVars, sound'
    PROVE  /\ auditAt' = "trim" =>
                /\ Older(found' \ OnDisk', current')
                /\ \A i \in Slots : i <= keep' => Older(found' \ OnDisk', archive'[i])
           /\ auditAt' \in {"shift", "rename", "reopen"}
                => Older(found' \ OnDisk', OnDisk')
  BY DEF Cut
<1>0. AuditTypeOK /\ OrderKept /\ Ranges /\ Top \in Nat
  BY AuditAssumption DEF AuditInv
<1> USE DEF AuditGoto, logFiles, logConfig, rotation
<1>1. CASE UNCHANGED auditVars
  BY <1>1 DEF auditVars, Cut, OnDisk
<1>2. ASSUME NEW k \in Keeps, OpenLog(k) PROVE auditAt' = "idle"
  BY <1>2 DEF OpenLog
<1>3. CASE EndLog \/ AuditPlain \/ AuditCloseFails \/ Reopen \/ WriteEntry
  BY <1>3 DEF EndLog, AuditPlain, AuditCloseFails, Reopen, WriteEntry
<1>4. CASE AuditFull
  <2>1. found' = OnDisk /\ auditAt' = "trim" /\ UNCHANGED <<current, archive>>
    BY <1>4 DEF AuditFull, Rotating, NewEntry
  <2>2. found' \ OnDisk' = {}
    BY <2>1 DEF OnDisk
  <2> QED
    BY <2>1, <2>2 DEF Older
<1>5. CASE TrimDone
  <2>1. /\ UNCHANGED <<current, archive, found, sound, keep>>
        /\ auditAt = "trim" /\ auditAt' = "shift"
    BY <1>5 DEF TrimDone
  <2>2. \A i \in Slots : i > keep => archive[i] = {}
    <3>1. Trimmed'
      BY TrimmedStep
    <3> QED
      BY <2>1, <3>1 DEF Trimmed
  <2>3. \A e \in OnDisk : e \in current \/ \E i \in Slots : i <= keep /\ e \in archive[i]
    BY <1>0, <2>2, OnDiskMember DEF AuditTypeOK, Slots
  <2>4. Older(found \ OnDisk, OnDisk)
    BY <2>1, <2>3 DEF Cut, Older
  <2>5. OnDisk' = OnDisk
    BY <2>1 DEF OnDisk
  <2> QED
    BY <2>1, <2>4, <2>5
<1>6. CASE Trim
  <2>1. /\ index \in Slots /\ index > keep
        /\ UNCHANGED <<current, keep, found>> /\ auditAt = "trim" /\ auditAt' = "trim"
        /\ sound /\ archive' = [archive EXCEPT ![index] = {}]
        /\ archive' = archive \/ OnDisk' = OnDisk \ archive[index]
    BY <1>6, TrimLoses DEF Trim
  <2>2. \A d \in found \ OnDisk' : d \in found \ OnDisk \/ d \in archive[index]
    BY <2>1 DEF OnDisk
  <2>3. \A i \in Slots : i <= keep => archive'[i] = archive[i] /\ i < index
    BY <1>0, <2>1 DEF AuditTypeOK, Slots
  <2>4. Older(found' \ OnDisk', current')
    BY <1>0, <2>1, <2>2 DEF Cut, Older, OrderKept
  <2>5. ASSUME NEW i \in Slots, i <= keep PROVE Older(found' \ OnDisk', archive'[i])
    BY <1>0, <2>1, <2>2, <2>3, <2>5 DEF Cut, Older, OrderKept
  <2> QED
    BY <2>1, <2>4, <2>5
<1>7. CASE Shift
  <2>1. /\ index \in Slots /\ index + 1 \in Slots /\ index + 1 <= keep
        /\ UNCHANGED <<current, keep, found>>
        /\ auditAt = "shift" /\ auditAt' = "shift" /\ sound
        /\ archive' = archive \/ OnDisk' = OnDisk \ archive[index + 1]
    BY <1>7, ShiftLoses
  <2>2. Older(found \ OnDisk, OnDisk)
    BY <2>1 DEF Cut
  <2>3. CASE archive' = archive
    BY <2>1, <2>2, <2>3 DEF OnDisk
  <2>4. CASE OnDisk' = OnDisk \ archive[index + 1] /\ index + 1 < keep
    BY <2>1, <2>2, <2>4 DEF Vacated
  <2>5. CASE OnDisk' = OnDisk \ archive[index + 1] /\ index + 1 = keep
    <3>1. \A j \in Slots : j > keep => archive[j] = {}
      BY <2>1 DEF Trimmed
    <3> QED
      BY <1>0, <2>1, <2>2, <2>5, <3>1, LoseOldest
  <2> QED
    BY <1>0, <2>1, <2>3, <2>4, <2>5 DEF AuditTypeOK, Slots
<1>8. CASE ShiftDone
  <2>1. /\ UNCHANGED <<current, archive, found, sound>>
        /\ auditAt = "shift" /\ auditAt' = "rename"
    BY <1>8 DEF ShiftDone
  <2> QED
    BY <2>1 DEF Cut, OnDisk
<1>9. CASE RenameCurrent
  <2>1. /\ 1 \in Slots /\ auditAt = "rename" /\ auditAt' = "reopen"
        /\ found' = found /\ sound
        /\ UNCHANGED <<archive, current>> \/ OnDisk' = OnDisk \ archive[1]
    BY <1>9, RenameLoses
  <2>2. Older(found \ OnDisk, OnDisk)
    BY <2>1 DEF Cut
  <2>3. CASE UNCHANGED <<archive, current>>
    BY <2>1, <2>2, <2>3 DEF OnDisk
  <2>4. CASE OnDisk' = OnDisk \ archive[1] /\ keep > 1
    BY <2>1, <2>2, <2>4 DEF Vacated
  <2>5. CASE OnDisk' = OnDisk \ archive[1] /\ keep = 1
    <3>1. \A j \in Slots : j > 1 => archive[j] = {}
      BY <2>1, <2>5 DEF Trimmed
    <3> QED
      BY <1>0, <2>1, <2>2, <2>5, <3>1, LoseOldest
  <2> QED
    BY <1>0, <2>1, <2>3, <2>4, <2>5 DEF AuditTypeOK, Slots
<1> QED
  BY <1>1, <1>2, <1>3, <1>4, <1>5, <1>6, <1>7, <1>8, <1>9 DEF AuditNext, Audit

\* What a rotation has lost that found no archive missing and in which nothing
\* failed is older than all that it has kept.
THEOREM OldestAreLost == AuditSpec => []OldestGoFirst
<1>1. Cut => OldestGoFirst
  BY DEF Cut, OldestGoFirst
<1>2. AuditInit => Vacated /\ Cut
  BY DEF AuditInit, Vacated, Cut
<1>3. AuditSpec => [](Vacated /\ Cut)
  BY AuditInvariant, SizedStart, TrimmedStep, VacatedStep, CutStep, <1>2, PTL
     DEF AuditSpec
<1> QED
  BY <1>1, <1>3, PTL

-----------------------------------------------------------------------------
(* The trail                                                                *)

\* Losing one archive is forgetting entries that follow one another.
LEMMA LoseArchive ==
  ASSUME AuditTypeOK, OrderKept, NEW i \in Slots, made' = made,
         OnDisk' = OnDisk \ archive[i],
         NEW n \in OnDisk', \A d \in archive[i] : d < n
  PROVE  Trail!Next
<1>1. OnDisk \ OnDisk' = archive[i]
  BY OnDiskMember
<1>2. archive[i] \subseteq Nat /\ OnDisk' \subseteq Nat
  <2>1. current \subseteq Nat /\ \A j \in Slots : archive[j] \subseteq Nat
    BY DEF AuditTypeOK
  <2> QED
    BY <2>1, OnDiskMember
<1>3. ASSUME NEW c \in archive[i], NEW d \in archive[i], NEW e \in OnDisk'
      PROVE  ~(c < e /\ e < d)
  <2>1. c \in Nat /\ d \in Nat /\ e \in Nat
    BY <1>2
  <2>2. CASE e \in current
    BY <2>1, <2>2 DEF OrderKept, Older
  <2>3. ASSUME NEW j \in Slots, e \in archive[j] PROVE ~(c < e /\ e < d)
    <3>1. j < i \/ i < j
      BY <2>3 DEF Slots
    <3> QED
      BY <2>1, <2>3, <3>1 DEF OrderKept, Older
  <2> QED
    BY <2>2, <2>3, OnDiskMember
<1>4. Trail!Forget
  BY <1>1, <1>3 DEF Trail!Forget
<1> QED
  BY <1>4 DEF Trail!Next

\* Each step of the log is one of the trail, or none.
LEMMA TrailStep ==
  AuditInv /\ Loaded /\ [AuditNext]_auditVars => [Trail!Next]_<<made, OnDisk>>
<1> SUFFICES ASSUME AuditInv, Loaded, [AuditNext]_auditVars
             PROVE  [Trail!Next]_<<made, OnDisk>>
  OBVIOUS
<1>0. AuditTypeOK /\ OrderKept /\ Pending
  BY DEF AuditInv
<1> USE DEF AuditGoto, logFiles, logConfig
<1>1. CASE UNCHANGED auditVars
  BY <1>1 DEF auditVars, OnDisk
<1>2. ASSUME NEW k \in Keeps, OpenLog(k) PROVE UNCHANGED <<made, OnDisk>>
  BY <1>2 DEF OpenLog, OnDisk
<1>3. CASE EndLog \/ TrimDone \/ ShiftDone \/ Reopen
  BY <1>3 DEF EndLog, TrimDone, ShiftDone, Reopen, OnDisk
<1>4. CASE AuditPlain \/ AuditFull \/ AuditCloseFails
  <2>1. NewEntry
    BY <1>4 DEF AuditPlain, AuditFull, AuditCloseFails
  <2>2. Trail!Make
    BY <2>1 DEF NewEntry, Trail!Make, OnDisk
  <2> QED
    BY <2>2 DEF Trail!Next
<1>5. CASE Trim
  <2>1. /\ index \in Slots /\ made' = made /\ current' = current
        /\ archive' = archive \/ OnDisk' = OnDisk \ archive[index]
    BY <1>5, TrimLoses
  <2>2. PICK n : n \in current
    BY <1>5 DEF Trim, Loaded
  <2>3. n \in OnDisk' /\ \A d \in archive[index] : d < n
    BY <1>0, <2>1, <2>2 DEF OnDisk, OrderKept, Older
  <2>4. CASE archive' = archive
    BY <2>1, <2>4 DEF OnDisk
  <2>5. CASE OnDisk' = OnDisk \ archive[index]
    BY <1>0, <2>1, <2>3, <2>5, LoseArchive
  <2> QED
    BY <2>1, <2>4, <2>5
<1>6. CASE Shift
  <2>1. /\ index + 1 \in Slots /\ made' = made /\ current' = current
        /\ auditAt = "shift"
        /\ archive' = archive \/ OnDisk' = OnDisk \ archive[index + 1]
    BY <1>6, ShiftLoses
  <2>2. PICK n : n \in current
    BY <2>1 DEF Loaded
  <2>3. n \in OnDisk' /\ \A d \in archive[index + 1] : d < n
    BY <1>0, <2>1, <2>2 DEF OnDisk, OrderKept, Older
  <2>4. CASE archive' = archive
    BY <2>1, <2>4 DEF OnDisk
  <2>5. CASE OnDisk' = OnDisk \ archive[index + 1]
    BY <1>0, <2>1, <2>3, <2>5, LoseArchive
  <2> QED
    BY <2>1, <2>4, <2>5
<1>7. CASE RenameCurrent
  <2>1. /\ 1 \in Slots /\ made' = made /\ auditAt = "rename"
        /\ \/ UNCHANGED <<archive, current>>
           \/ OnDisk' = OnDisk \ archive[1] /\ current \subseteq OnDisk'
    BY <1>7, RenameLoses
  <2>2. PICK n : n \in current
    BY <2>1 DEF Loaded
  <2>3. \A d \in archive[1] : d < n
    BY <1>0, <2>1, <2>2 DEF OrderKept, Older
  <2>4. CASE UNCHANGED <<archive, current>>
    BY <2>1, <2>4 DEF OnDisk
  <2>5. CASE OnDisk' = OnDisk \ archive[1] /\ current \subseteq OnDisk'
    BY <1>0, <2>1, <2>2, <2>3, <2>5, LoseArchive
  <2> QED
    BY <2>1, <2>4, <2>5
<1>8. CASE WriteEntry
  <2>1. /\ newest = made /\ made \in Nat
        /\ \A e \in current : e < made
        /\ \A i \in Slots : \A e \in archive[i] : e < made
    BY <1>0, <1>8 DEF WriteEntry, Pending, AuditTypeOK
  <2>2. current' = current \/ current' = current \cup {made}
    BY <1>8, <2>1 DEF WriteEntry
  <2>3. UNCHANGED <<archive, made>>
    BY <1>8 DEF WriteEntry
  <2>4. made \notin OnDisk
    BY <2>1, OnDiskMember
  <2>5. CASE current' = current
    BY <2>3, <2>5 DEF OnDisk
  <2>6. CASE current' = current \cup {made}
    <3>1. OnDisk' = OnDisk \cup {made}
      BY <2>3, <2>6 DEF OnDisk
    <3>2. Trail!Append
      BY <2>3, <2>4, <3>1 DEF Trail!Append
    <3> QED
      BY <3>2 DEF Trail!Next
  <2> QED
    BY <2>2, <2>5, <2>6
<1> QED
  BY <1>1, <1>2, <1>3, <1>4, <1>5, <1>6, <1>7, <1>8 DEF AuditNext, Audit

\* The log implements AuditTrail, whatever system call fails, wherever the
\* process dies and however far a restart lowers the retention count.
THEOREM TrailIsKept == AuditSpec => TrailKept
<1>1. AuditInit => Trail!Init /\ Loaded
  BY DEF AuditInit, Trail!Init, OnDisk, Loaded
<1>2. AuditInv => AuditTypeOK
  BY DEF AuditInv
<1>3. AuditSpec => [](AuditInv /\ Loaded)
  BY AuditInvariant, LoadedStep, <1>1, <1>2, PTL DEF AuditSpec
<1>4. AuditInv /\ Loaded /\ [AuditNext]_auditVars => [Trail!Next]_<<made, OnDisk>>
  BY TrailStep
<1> QED
  BY <1>1, <1>3, <1>4, PTL DEF AuditSpec, TrailKept, Trail!Spec
=============================================================================
