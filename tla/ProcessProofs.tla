---------------------------- MODULE ProcessProofs ---------------------------
(***************************************************************************)
(* One gateway at a time, and no session lost but by a save cut short or   *)
(* crossed by another, for every number of processes, sessions and states  *)
(* of a session.                                                           *)
(*                                                                         *)
(* The lock, until two starts meet in Acquire: of the processes one at     *)
(* most is in it (OneStarts); the file is its own while it writes, the     *)
(* holder's while there is one, and what is removed as stale is nobody's   *)
(* (FileOwned); a retry finds no file (Retried).  The sessions: while a    *)
(* save that no other gateway has crossed is under way, the file is torn   *)
(* (SaveInv).                                                              *)
(***************************************************************************)
EXTENDS GatewayProcess, TLAPS

LockNext == \E p \in Pids : LockStep(p)

\* The second attempt of Acquire is the last.
Attempts == \A p \in Pids : attempt[p] = 2 => lockAt[p] = "refused"

OneStarts ==
    \A p, q \in Pids : lockAt[p] \in Starting /\ lockAt[q] \in Starting => p = q

\* Whose the lock file is.
FileOwned ==
    \A p \in Pids :
        /\ Holds(p) => lockFile = LockOf(p, TRUE)
        /\ lockAt[p] = "write" => lockFile = LockOf(p, FALSE)
        /\ lockAt[p] = "remove" => \A q \in Pids : ~Holds(q)

\* A start that has removed a stale file finds no other in its place.
Retried ==
    \A p \in Pids :
        /\ lockAt[p] \in {"none", "inspect", "remove"} => attempt[p] = 0
        /\ lockAt[p] = "create" /\ attempt[p] # 0 => lockFile = NoLock

Orderly == ~overlapped => OneStarts /\ FileOwned /\ Retried

\* A gateway has the lock until its sessions have been saved.
Guarded ==
    \A p \in Pids :
        /\ life[p] # "down" => lockAt[p] \in Owning \cup {"leave"}
        /\ life[p] \notin {"down", "saved"} => lockAt[p] = "held"

\* While the file is being written it is torn, unless another has written it.
TornWhileSaving ==
    \A p \in Pids : saveAt[p] = "write" /\ ~crossed[p] => stateFile = Torn

SaveInv == StateTypeOK /\ TornWhileSaving /\ FileIsMemory

LockInv == LockTypeOK /\ Attempts

-----------------------------------------------------------------------------
(* The lock                                                                 *)

LEMMA LockFiles ==
  /\ NoLock \in [pid : Pids \cup {None}, written : BOOLEAN]
  /\ \A p \in Pids, w \in BOOLEAN :
        LockOf(p, w) \in [pid : Pids \cup {None}, written : BOOLEAN]
BY DEF NoLock, LockOf

\* No step of a process breaks a type of the lock, or goes for a third attempt.
LEMMA LockTypeStep == LockInv /\ [LockNext]_lockVars => LockInv'
<1> SUFFICES ASSUME LockInv, [LockNext]_lockVars PROVE LockInv'
  OBVIOUS
<1> USE DEF LockInv, LockTypeOK, Attempts
<1>1. CASE UNCHANGED lockVars
  BY <1>1 DEF lockVars
<1>2. ASSUME NEW p \in Pids, StartGateway(p) PROVE LockInv'
  BY <1>2 DEF StartGateway, LockGoto, Starting
<1>3. ASSUME NEW p \in Pids, Ends(p) PROVE LockInv'
  BY <1>3 DEF Ends
<1>4. ASSUME NEW p \in Pids, OtherProgram(p) PROVE LockInv'
  BY <1>4 DEF OtherProgram
<1>5. ASSUME NEW p \in Pids, Acquire(p) PROVE LockInv'
  <2>1. CASE Create(p)
    BY <2>1, LockFiles, PidAssumption
       DEF Create, LockGoto, LockOf, Starting, Owning
  <2>2. CASE CreateExists(p) \/ CreateFails(p) \/ InspectStale(p) \/ InspectRunning(p)
    BY <2>2 DEF CreateExists, CreateFails, InspectStale, InspectRunning, LockGoto,
       Starting, Owning
  <2>3. CASE WritePid(p)
    BY <2>3, LockFiles, PidAssumption
       DEF WritePid, LockGoto, LockOf, Starting, Owning
  <2>4. CASE WriteFails(p)
    BY <2>4, LockFiles DEF WriteFails, LockGoto, NoLock, Starting, Owning
  <2>5. CASE RemoveStale(p)
    <3>1. attempt[p] \in 0..1
      BY <2>5 DEF RemoveStale, LockGoto
    <3>2. attempt' \in [Pids -> 0..2]
      BY <2>5, <3>1 DEF RemoveStale
    <3>3. Attempts'
      BY <2>5, <3>1 DEF RemoveStale, LockGoto
    <3> QED
      BY <2>5, <3>2, <3>3, LockFiles
         DEF RemoveStale, LockGoto, NoLock, Starting, Owning
  <2> QED
    BY <1>5, <2>1, <2>2, <2>3, <2>4, <2>5 DEF Acquire
<1>6. ASSUME NEW p \in Pids, Release(p) PROVE LockInv'
  BY <1>6, LockFiles
     DEF Release, BeginRelease, ReadOwn, Unlink, LockGoto, NoLock,
         Starting, Owning
<1> QED
  BY <1>1, <1>2, <1>3, <1>4, <1>5, <1>6 DEF LockNext, LockStep

\* Of starts that do not overlap one is in Acquire.
LEMMA OneStartsStep ==
  ASSUME LockTypeOK, OneStarts, [LockNext]_lockVars, ~overlapped'
  PROVE  OneStarts'
<1> USE DEF LockTypeOK, OneStarts
<1>1. CASE UNCHANGED lockVars
  BY <1>1 DEF lockVars
<1>2. ASSUME NEW p \in Pids, StartGateway(p) PROVE OneStarts'
  BY <1>2 DEF StartGateway, LockGoto
<1>3. ASSUME NEW p \in Pids, Ends(p) PROVE OneStarts'
  BY <1>3 DEF Ends, Starting
<1>4. ASSUME NEW p \in Pids, OtherProgram(p) PROVE OneStarts'
  BY <1>4 DEF OtherProgram
<1>5. ASSUME NEW p \in Pids, Acquire(p) PROVE OneStarts'
  <2>1. lockAt[p] \in Starting /\ \A q \in Pids : q # p => lockAt'[q] = lockAt[q]
    BY <1>5 DEF Acquire, Create, CreateExists, CreateFails, WritePid, WriteFails,
       InspectStale, InspectRunning, RemoveStale, LockGoto, Starting
  <2> QED
    BY <2>1
<1>6. ASSUME NEW p \in Pids, Release(p) PROVE OneStarts'
  <2>1. lockAt'[p] \notin Starting /\ \A q \in Pids : q # p => lockAt'[q] = lockAt[q]
    BY <1>6 DEF Release, BeginRelease, ReadOwn, Unlink, LockGoto, Starting
  <2> QED
    BY <2>1
<1> QED
  BY <1>1, <1>2, <1>3, <1>4, <1>5, <1>6 DEF LockNext, LockStep

LEMMA LocksDiffer ==
  /\ \A p, q \in Pids, v, w \in BOOLEAN : LockOf(p, v) = LockOf(q, w) => p = q /\ v = w
  /\ \A p \in Pids, w \in BOOLEAN : LockOf(p, w) # NoLock
BY PidAssumption DEF LockOf, NoLock

\* The file stays its owner's.
LEMMA FileOwnedStep ==
  LockTypeOK /\ OneStarts /\ FileOwned /\ [LockNext]_lockVars => FileOwned'
<1> SUFFICES ASSUME LockTypeOK, OneStarts, FileOwned, [LockNext]_lockVars
             PROVE  FileOwned'
  OBVIOUS
<1> USE DEF LockTypeOK, FileOwned, Holds
<1>1. CASE UNCHANGED lockVars
  BY <1>1 DEF lockVars
<1>2. ASSUME NEW p \in Pids, StartGateway(p) \/ Ends(p) \/ OtherProgram(p)
      PROVE  FileOwned'
  BY <1>2 DEF StartGateway, Ends, OtherProgram, LockGoto, Owning
<1>3. ASSUME NEW p \in Pids, Acquire(p) PROVE FileOwned'
  <2>1. CASE Create(p)
    <3>1. \A q \in Pids : lockAt[q] \notin Owning
      BY <2>1, LocksDiffer DEF Create
    <3>2. \A q \in Pids : q # p => lockAt[q] \notin Starting
      BY <2>1 DEF Create, LockGoto, Starting, OneStarts
    <3> QED
      BY <2>1, <3>1, <3>2 DEF Create, LockGoto, Starting, Owning
  <2>2. CASE CreateExists(p) \/ CreateFails(p) \/ InspectRunning(p)
    BY <2>2 DEF CreateExists, CreateFails, InspectRunning, LockGoto, Owning
  <2>3. CASE WritePid(p)
    <3>1. lockFile = LockOf(p, FALSE)
      BY <2>3 DEF WritePid, LockGoto
    <3>2. lockFile' = LockOf(p, TRUE)
      BY <2>3, <3>1 DEF WritePid, LockOf
    <3>3. \A q \in Pids : lockAt[q] \notin Owning
      BY <3>1, LocksDiffer
    <3>4. \A q \in Pids : q # p => lockAt[q] \notin Starting
      BY <2>3 DEF WritePid, LockGoto, Starting, OneStarts
    <3> QED
      BY <2>3, <3>2, <3>3, <3>4 DEF WritePid, LockGoto, Starting, Owning
  <2>4. CASE WriteFails(p)
    <3>1. lockFile = LockOf(p, FALSE)
      BY <2>4 DEF WriteFails, LockGoto
    <3>2. \A q \in Pids : lockAt[q] \notin Owning
      BY <3>1, LocksDiffer
    <3>3. \A q \in Pids : q # p => lockAt[q] \notin Starting
      BY <2>4 DEF WriteFails, LockGoto, Starting, OneStarts
    <3> QED
      BY <2>4, <3>2, <3>3 DEF WriteFails, LockGoto, Starting, Owning
  <2>5. CASE InspectStale(p)
    <3>1. \A q \in Pids : lockAt[q] \notin Owning
      BY <2>5 DEF InspectStale, Readable, processAlive, LockOf, Owning
    <3> QED
      BY <2>5, <3>1 DEF InspectStale, LockGoto, Owning
  <2>6. CASE RemoveStale(p)
    <3>1. \A q \in Pids : lockAt[q] \notin Owning
      BY <2>6 DEF RemoveStale, LockGoto
    <3>2. \A q \in Pids : q # p => lockAt[q] \notin Starting
      BY <2>6 DEF RemoveStale, LockGoto, Starting, OneStarts
    <3> QED
      BY <2>6, <3>1, <3>2 DEF RemoveStale, LockGoto, Starting, Owning
  <2> QED
    BY <1>3, <2>1, <2>2, <2>3, <2>4, <2>5, <2>6 DEF Acquire
<1>4. ASSUME NEW p \in Pids, Release(p) PROVE FileOwned'
  <2>1. CASE BeginRelease(p) \/ ReadOwn(p)
    BY <2>1 DEF BeginRelease, ReadOwn, LockGoto, Owning
  <2>2. CASE Unlink(p)
    <3>1. lockFile = LockOf(p, TRUE)
      BY <2>2 DEF Unlink, LockGoto, Owning
    <3>2. \A q \in Pids : q # p => lockAt[q] \notin Owning /\ lockAt[q] # "write"
      BY <3>1, LocksDiffer
    <3> QED
      BY <2>2, <3>2 DEF Unlink, LockGoto, Owning
  <2> QED
    BY <1>4, <2>1, <2>2 DEF Release
<1> QED
  BY <1>1, <1>2, <1>3, <1>4 DEF LockNext, LockStep

LEMMA RetriedStep ==
  LockTypeOK /\ OneStarts /\ Retried /\ [LockNext]_lockVars => Retried'
<1> SUFFICES ASSUME LockTypeOK, OneStarts, Retried, [LockNext]_lockVars
             PROVE  Retried'
  OBVIOUS
<1> USE DEF LockTypeOK, Retried
<1>1. CASE UNCHANGED lockVars
  BY <1>1 DEF lockVars
<1>2. ASSUME NEW p \in Pids, StartGateway(p) \/ Ends(p) \/ OtherProgram(p)
      PROVE  Retried'
  BY <1>2 DEF StartGateway, Ends, OtherProgram, LockGoto
<1>3. ASSUME NEW p \in Pids, Acquire(p) PROVE Retried'
  <2>1. \A q \in Pids : q # p => lockAt[q] # "create"
    BY <1>3 DEF OneStarts, Acquire, Create, CreateExists, CreateFails, WritePid, WriteFails,
       InspectStale, InspectRunning, RemoveStale, LockGoto, Starting
  <2>2. CASE RemoveStale(p)
    BY <2>1, <2>2 DEF RemoveStale, LockGoto
  <2>3. CASE ~RemoveStale(p)
    BY <1>3, <2>1, <2>3 DEF Acquire, Create, CreateExists, CreateFails, WritePid,
       WriteFails, InspectStale, InspectRunning, LockGoto
  <2> QED
    BY <2>2, <2>3
<1>4. ASSUME NEW p \in Pids, Release(p) PROVE Retried'
  BY <1>4 DEF Release, BeginRelease, ReadOwn, Unlink, LockGoto
<1> QED
  BY <1>1, <1>2, <1>3, <1>4 DEF LockNext, LockStep

LEMMA OverlapStays ==
  ASSUME [LockNext]_lockVars, overlapped PROVE overlapped'
BY DEF LockNext, LockStep, lockVars, StartGateway, Ends, OtherProgram, Acquire,
   Create, CreateExists, CreateFails, WritePid, WriteFails, InspectStale,
   InspectRunning, RemoveStale, Release, BeginRelease, ReadOwn, Unlink

LEMMA OrderlyStep == LockTypeOK /\ Orderly /\ [LockNext]_lockVars => Orderly'
<1> SUFFICES ASSUME LockTypeOK, Orderly, [LockNext]_lockVars, ~overlapped'
             PROVE  (OneStarts /\ FileOwned /\ Retried)'
  BY DEF Orderly
<1>1. OneStarts /\ FileOwned /\ Retried
  BY OverlapStays DEF Orderly
<1> QED
  BY <1>1, OneStartsStep, FileOwnedStep, RetriedStep

LEMMA OwnedIsOne ==
  ASSUME FileOwned, NEW p \in Pids, Holds(p)
  PROVE  /\ \A q \in Pids : Holds(q) => q = p
         /\ lockFile = LockOf(p, TRUE)
BY LocksDiffer DEF FileOwned

-----------------------------------------------------------------------------
(* The sessions and their file                                              *)

StateNext == \E p \in Pids : Load(p) \/ SessionStep(p) \/ EndSessions(p)

LEMMA MapFacts ==
  /\ Nothing \in Maps
  /\ Down \notin Maps /\ Torn \notin Maps
  /\ \A f \in Maps \cup {Torn} : Loaded(f) \in Maps
  /\ \A f \in Maps : Loaded(f) = f
  /\ Loaded(Torn) = Nothing
BY StateAssumption, TornAssumption DEF Maps, Nothing, Loaded

\* What a change of the sessions does, by either of the two.
LEMMA MemoryStep ==
  ASSUME StateTypeOK, NEW p \in Pids, NEW s \in Sessions,
         Ensure(p, s) \/ \E v \in States : Mutate(p, s, v)
  PROVE  /\ life[p] # "down" /\ saveAt[p] = "idle"
         /\ \E m \in Maps : memory' = [memory EXCEPT ![p] = m]
         /\ saveAt' = [saveAt EXCEPT ![p] = "prepare"]
         /\ UNCHANGED <<stateFile, life, unsaved, crossed>>
<1>1. memory[p] \in Maps /\ life[p] # "down"
  BY DEF Ensure, Mutate, Serving, StateTypeOK
<1>2. PICK v \in States \cup {Absent} : memory' = [memory EXCEPT ![p][s] = v]
  BY StateAssumption DEF Ensure, Mutate
<1>3. [memory[p] EXCEPT ![s] = v] \in Maps
  BY <1>1 DEF Maps
<1> QED
  BY <1>1, <1>2, <1>3 DEF Ensure, Mutate

\* A step of p that leaves the file alone, and gives p sessions that are in it,
\* or begins a save, or has none, keeps the invariant.
LEMMA SaveStep == SaveInv /\ [StateNext]_stateVars => SaveInv'
<1> SUFFICES ASSUME SaveInv, [StateNext]_stateVars PROVE SaveInv'
  OBVIOUS
<1> USE DEF SaveInv, StateTypeOK, TornWhileSaving, FileIsMemory, InStep
<1>1. CASE UNCHANGED stateVars
  BY <1>1 DEF stateVars, ownVars
<1>2. ASSUME NEW p \in Pids, Load(p) PROVE SaveInv'
  BY <1>2, MapFacts DEF Load
<1>3. ASSUME NEW p \in Pids, EndSessions(p) PROVE SaveInv'
  BY <1>3, MapFacts DEF EndSessions, Crossing
<1>4. ASSUME NEW p \in Pids, NEW s \in Sessions,
             Ensure(p, s) \/ \E v \in States : Mutate(p, s, v)
      PROVE  SaveInv'
  <2>1. /\ life[p] # "down" /\ saveAt[p] = "idle"
        /\ saveAt' = [saveAt EXCEPT ![p] = "prepare"]
        /\ UNCHANGED <<stateFile, life, unsaved, crossed>>
    BY <1>4, MemoryStep
  <2>2. PICK m \in Maps : memory' = [memory EXCEPT ![p] = m]
    BY <1>4, MemoryStep
  <2> QED
    BY <2>1, <2>2, MapFacts
<1>5. ASSUME NEW p \in Pids, Stop(p) \/ SaveAtShutdown(p) PROVE SaveInv'
  BY <1>5 DEF Stop, SaveAtShutdown
<1>6. ASSUME NEW p \in Pids, PrepareFails(p) PROVE SaveInv'
  BY <1>6, MapFacts DEF PrepareFails, Saved
<1>7. ASSUME NEW p \in Pids, Truncate(p) PROVE SaveInv'
  BY <1>7, MapFacts DEF Truncate, Crossing
<1>8. ASSUME NEW p \in Pids, WriteState(p) PROVE SaveInv'
  <2>1. memory[p] \in Maps /\ life[p] # "down"
    BY <1>8 DEF WriteState
  <2>2. /\ stateFile' \in {memory[p], Torn}
        /\ ~crossed[p] => stateFile' = memory[p]
    BY <1>8 DEF WriteState, Over
  <2>3. unsaved' \in [Pids -> BOOLEAN]
    BY <1>8 DEF WriteState
  <2> QED
    BY <1>8, <2>1, <2>2, <2>3, MapFacts DEF WriteState, Saved, Crossing
<1>9. ASSUME NEW p \in Pids, WriteStateFails(p) PROVE SaveInv'
  BY <1>9, MapFacts DEF WriteStateFails, Saved, Crossing
<1> QED
  BY <1>1, <1>2, <1>3, <1>4, <1>5, <1>6, <1>7, <1>8, <1>9
     DEF StateNext, SessionStep, saveLocked

-----------------------------------------------------------------------------
(* The sessions as a SessionStore                                           *)

\* Where a SessionStore sees p with its save.
SavingOf(p) == IF saveAt[p] # "write" THEN "no"
               ELSE IF crossed[p] THEN "crossed" ELSE "alone"
savings == [p \in Pids |-> SavingOf(p)]

\* A step that crosses the others is one of a save.
LEMMA CrossingIs ==
  ASSUME StateTypeOK, NEW p \in Pids, NEW own, Crossing(p, own),
         NEW at, SavingOf(p)' = at,
         \A q \in Pids : q # p => saveAt'[q] = saveAt[q]
  PROVE  savings' = [q \in Pids |-> IF q = p THEN at
                        ELSE IF savings[q] = "no" THEN "no" ELSE "crossed"]
<1>1. ASSUME NEW q \in Pids, q # p
      PROVE  SavingOf(q)' = IF SavingOf(q) = "no" THEN "no" ELSE "crossed"
  <2>1. saveAt[q] = "write" => crossed'[q]
    BY <1>1 DEF Crossing, StateTypeOK
  <2> QED
    BY <1>1, <2>1 DEF SavingOf
<1>2. \A q \in Pids : savings[q] = SavingOf(q)
  BY DEF savings
<1>3. savings' = [q \in Pids |-> SavingOf(q)']
  BY DEF savings
<1> HIDE DEF savings, SavingOf
<1> QED
  BY <1>1, <1>2, <1>3

\* Each step of the sessions is one of a SessionStore, or none.
LEMMA StoreStep ==
  SaveInv /\ [StateNext]_stateVars => [Store!Next]_(Store!storeVars)
<1> SUFFICES ASSUME SaveInv, [StateNext]_stateVars
             PROVE  [Store!Next]_(Store!storeVars)
  OBVIOUS
<1> DEFINE kept == Loaded(stateFile)
<1>t. StateTypeOK /\ TornWhileSaving
  BY DEF SaveInv
<1>s. savings = [p \in Pids |-> IF saveAt[p] # "write" THEN "no"
                                ELSE IF crossed[p] THEN "crossed" ELSE "alone"]
  BY DEF savings, SavingOf
<1>q. \A p \in Pids : savings[p] = SavingOf(p)
  BY DEF savings
<1>1. CASE UNCHANGED stateVars
  BY <1>1 DEF stateVars, ownVars, Store!storeVars, Loaded
<1>2. ASSUME NEW p \in Pids, Load(p) PROVE Store!Next
  <2>1. memory[p] = Down /\ saveAt[p] # "write"
    BY <1>2, <1>t DEF Load, StateTypeOK
  <2>2. savings' = savings
    BY <1>2, <2>1 DEF Load, savings, SavingOf
  <2>3. Store!Boot(p)
    BY <1>2, <1>s, <2>1, <2>2 DEF Load, Store!Boot, Loaded, savings, SavingOf
  <2> QED
    BY <2>3 DEF Store!Next
<1>3. ASSUME NEW p \in Pids, NEW at, Crossing(p, crossed'[p]), SavingOf(p)' = at,
             \A q \in Pids : q # p => saveAt'[q] = saveAt[q]
      PROVE  Store!Saving(p, at)
  <2>1. savings' = [q \in Pids |-> IF q = p THEN at
                        ELSE IF savings[q] = "no" THEN "no" ELSE "crossed"]
    BY <1>3, <1>t, CrossingIs
  <2> QED
    BY <2>1 DEF Store!Saving, savings, SavingOf
<1>4. ASSUME NEW p \in Pids, EndSessions(p) PROVE Store!Next
  <2>1. memory[p] # Down
    BY <1>4, <1>t DEF EndSessions, StateTypeOK
  <2>2. CASE saveAt[p] = "write"
    <3>1. Store!Saving(p, "no")
      BY <1>3, <1>4, <1>t, <2>2 DEF EndSessions, StateTypeOK, Crossing, SavingOf
    <3>2. kept' \in {kept, Nothing}
      BY <1>4, <2>2 DEF EndSessions, Loaded
    <3>3. Store!Spoil(p)
      BY <1>4, <2>2, <3>1, <3>2 DEF EndSessions, Store!Spoil
    <3> QED
      BY <3>3 DEF Store!Next
  <2>3. CASE saveAt[p] # "write"
    <3>1. savings' = savings
      BY <1>4, <1>t, <2>3 DEF EndSessions, StateTypeOK, savings, SavingOf
    <3>2. Store!Leave(p)
      BY <1>4, <1>s, <2>1, <2>3, <3>1 DEF EndSessions, Store!Leave, Loaded, savings, SavingOf
    <3> QED
      BY <3>2 DEF Store!Next
  <2> QED
    BY <2>2, <2>3
<1>5. ASSUME NEW p \in Pids, NEW s \in Sessions,
             Ensure(p, s) \/ \E v \in States : Mutate(p, s, v)
      PROVE  Store!Next
  <2>1. /\ life[p] # "down" /\ saveAt[p] = "idle"
        /\ \E m \in Maps : memory' = [memory EXCEPT ![p] = m]
        /\ saveAt' = [saveAt EXCEPT ![p] = "prepare"]
        /\ UNCHANGED <<stateFile, life, unsaved, crossed>>
    BY <1>5, <1>t, MemoryStep
  <2>2. savings' = savings
    BY <1>t, <2>1 DEF StateTypeOK, savings, SavingOf
  <2>3. memory[p] # Down
    BY <1>t, <2>1 DEF StateTypeOK
  <2>4. Store!Change(p)
    BY <1>s, <2>1, <2>2, <2>3 DEF Store!Change, Loaded, savings, SavingOf
  <2> QED
    BY <2>4 DEF Store!Next
<1>6. ASSUME NEW p \in Pids, Stop(p) \/ SaveAtShutdown(p) \/ PrepareFails(p)
      PROVE  UNCHANGED Store!storeVars
  <2>1. savings' = savings
    BY <1>6, <1>t
       DEF Stop, SaveAtShutdown, PrepareFails, Saved, StateTypeOK, savings, SavingOf
  <2>2. memory' = memory /\ stateFile' = stateFile
    BY <1>6 DEF Stop, SaveAtShutdown, PrepareFails, Saved
  <2> QED
    BY <2>1, <2>2 DEF Store!storeVars, Loaded, savings, SavingOf
<1>7. ASSUME NEW p \in Pids, Truncate(p) PROVE Store!Next
  <2>1. saveAt[p] = "prepare" /\ memory[p] # Down /\ savings[p] = "no"
    BY <1>7, <1>t DEF Truncate, StateTypeOK, savings, SavingOf
  <2>2. SavingOf(p)' = "alone"
    BY <1>7, <1>t DEF Truncate, Crossing, StateTypeOK, SavingOf
  <2>3. crossed'[p] = FALSE
    BY <1>7 DEF Truncate, Crossing
  <2>4. Store!Saving(p, "alone")
    BY <1>3, <1>7, <1>t, <2>2, <2>3 DEF Truncate, StateTypeOK
  <2>5. kept' = Nothing
    BY <1>7 DEF Truncate, Loaded
  <2>6. Store!Begin(p)
    BY <1>7, <2>1, <2>4, <2>5 DEF Truncate, Store!Begin, savings, SavingOf
  <2> QED
    BY <2>6 DEF Store!Next
<1>8. ASSUME NEW p \in Pids, WriteState(p) \/ WriteStateFails(p)
      PROVE  /\ Store!Saving(p, "no")
             /\ memory[p] \in Maps /\ memory' = memory
             /\ saveAt[p] = "write"
  <2>1. saveAt[p] = "write" /\ saveAt' = [saveAt EXCEPT ![p] = "idle"]
        /\ memory' = memory /\ Crossing(p, crossed[p])
    BY <1>8 DEF WriteState, WriteStateFails, Saved
  <2>2. SavingOf(p)' = "no" /\ crossed'[p] = crossed[p]
    BY <1>t, <2>1 DEF Crossing, StateTypeOK, SavingOf
  <2>3. Store!Saving(p, "no")
    BY <1>3, <1>t, <2>1, <2>2 DEF StateTypeOK
  <2> QED
    BY <1>t, <2>1, <2>3 DEF StateTypeOK
<1>9. ASSUME NEW p \in Pids, WriteState(p) PROVE Store!Next
  <2>1. kept' = memory[p] \/ (crossed[p] /\ kept' = Nothing)
    BY <1>8, <1>9, MapFacts DEF WriteState, Over, Loaded
  <2>2. Store!Save(p)
    BY <1>8, <1>9, <2>1 DEF Store!Save
  <2> QED
    BY <2>2 DEF Store!Next
<1>10. ASSUME NEW p \in Pids, WriteStateFails(p) PROVE Store!Next
  <2>1. kept' \in {kept, Nothing}
    BY <1>10 DEF WriteStateFails, Loaded
  <2>2. Store!Spoil(p)
    BY <1>8, <1>10, <2>1 DEF Store!Spoil
  <2> QED
    BY <2>2 DEF Store!Next
<1> QED
  BY <1>1, <1>2, <1>4, <1>5, <1>6, <1>7, <1>9, <1>10
     DEF StateNext, SessionStep, saveLocked

-----------------------------------------------------------------------------
(* The gateway as a whole                                                   *)

\* A step of a gateway is one of the lock, and one of the sessions.
LEMMA ProcessParts ==
  [Next]_processVars => [LockNext]_lockVars /\ [StateNext]_stateVars
BY DEF Next, processVars, Outside, New, NewFails, Shutdown, Gone, Work,
   LockNext, LockStep, StateNext

\* The sessions of a process are there while it has the lock, or has given it
\* back after Run.
LEMMA GuardedStep ==
  ASSUME LockTypeOK, StateTypeOK, Guarded, [Next]_processVars
  PROVE  Guarded'
<1> USE DEF Guarded, LockTypeOK, StateTypeOK
<1>1. CASE UNCHANGED processVars
  BY <1>1 DEF processVars, lockVars, stateVars, ownVars
<1>2. ASSUME NEW p \in Pids, Outside(p) PROVE Guarded'
  <2>1. lockAt[p] \notin Owning \cup {"leave"} \/ life[p] = "down"
    BY <1>2 DEF Outside, OtherProgram, StartGateway, Acquire, Create, CreateExists,
       CreateFails, WritePid, WriteFails, InspectStale, InspectRunning, RemoveStale,
       LockGoto, Owning
  <2>2. life' = life /\ \A q \in Pids : q # p => lockAt'[q] = lockAt[q]
    BY <1>2 DEF Outside, OtherProgram, StartGateway, Ends, Acquire, Create,
       CreateExists, CreateFails, WritePid, WriteFails, InspectStale,
       InspectRunning, RemoveStale, LockGoto, stateVars, ownVars
  <2> QED
    BY <2>1, <2>2
<1>3. ASSUME NEW p \in Pids, New(p) PROVE Guarded'
  BY <1>3 DEF New, Load, lockVars, Owning
<1>4. ASSUME NEW p \in Pids, NewFails(p) \/ Shutdown(p) PROVE Guarded'
  <2>1. life[p] \in {"down", "saved"} /\ life' = life
    BY <1>4 DEF NewFails, Shutdown, stateVars, ownVars
  <2>2. /\ lockAt'[p] \in Owning \cup {"leave"}
        /\ \A q \in Pids : q # p => lockAt'[q] = lockAt[q]
    BY <1>4 DEF NewFails, Shutdown, Release, BeginRelease, ReadOwn, Unlink,
       LockGoto, Owning
  <2> QED
    BY <2>1, <2>2
<1>5. ASSUME NEW p \in Pids, Gone(p) PROVE Guarded'
  BY <1>5 DEF Gone, EndSessions, Ends
<1>6. ASSUME NEW p \in Pids, Work(p) PROVE Guarded'
  <2>1. lockAt' = lockAt /\ life[p] # "down"
    BY <1>6 DEF Work, lockVars, SessionStep, Ensure, Mutate, Serving, Stop,
       SaveAtShutdown, saveLocked, PrepareFails, Truncate, WriteState, WriteStateFails
  <2>2. \A q \in Pids : q # p => life'[q] = life[q]
    BY <1>6 DEF Work, SessionStep, Ensure, Mutate, Stop, SaveAtShutdown, saveLocked,
       PrepareFails, Truncate, WriteState, WriteStateFails, Saved
  <2>3. life[p] = "saved" => life'[p] = "saved"
    BY <1>6 DEF Work, SessionStep, Ensure, Mutate, Stop, SaveAtShutdown, saveLocked,
       PrepareFails, Truncate, WriteState, WriteStateFails, Saved
  <2> QED
    BY <2>1, <2>2, <2>3
<1> QED
  BY <1>1, <1>2, <1>3, <1>4, <1>5, <1>6 DEF Next

ProcessInv == LockInv /\ Orderly /\ SaveInv /\ Guarded

LEMMA ProcessInit == Init => ProcessInv
<1> SUFFICES ASSUME Init PROVE ProcessInv
  OBVIOUS
<1>1. LockInv
  <2>1. NoLock.pid = None => ~NoLock.written
    BY DEF NoLock
  <2>2. Attempts
    BY DEF Init, LockInit, Attempts
  <2>3. /\ lockFile \in [pid : Pids \cup {None}, written : BOOLEAN]
        /\ lockFile.pid = None => ~lockFile.written
    BY <2>1, LockFiles DEF Init, LockInit
  <2>4. /\ lockAt \in [Pids -> Starting \cup Owning \cup {"none", "refused", "leave"}]
        /\ foreign \in SUBSET Pids /\ overlapped \in BOOLEAN
    BY DEF Init, LockInit
  <2>5. attempt \in [Pids -> 0..2]
    BY 0 \in 0..2 DEF Init, LockInit
  <2>6. LockTypeOK
    BY <2>3, <2>4, <2>5 DEF LockTypeOK
  <2> QED
    BY <2>2, <2>6 DEF LockInv
<1>2. OneStarts /\ FileOwned /\ Retried
  BY DEF Init, LockInit, OneStarts, FileOwned, Retried, Holds, Starting, Owning
<1>3. SaveInv
  BY MapFacts DEF Init, StateInit, SaveInv, StateTypeOK, TornWhileSaving,
     FileIsMemory, InStep
<1>4. Guarded
  BY DEF Init, StateInit, Guarded
<1> QED
  BY <1>1, <1>2, <1>3, <1>4 DEF ProcessInv, Orderly

LEMMA ProcessInvariant == Spec => []ProcessInv
<1>1. ProcessInv /\ [Next]_processVars => ProcessInv'
  <2> SUFFICES ASSUME ProcessInv, [Next]_processVars PROVE ProcessInv'
    OBVIOUS
  <2>1. [LockNext]_lockVars /\ [StateNext]_stateVars
    BY ProcessParts
  <2>2. LockInv' /\ Orderly' /\ SaveInv'
    BY <2>1, LockTypeStep, OrderlyStep, SaveStep DEF ProcessInv, LockInv
  <2>3. Guarded'
    BY GuardedStep DEF ProcessInv, LockInv, SaveInv
  <2> QED
    BY <2>2, <2>3 DEF ProcessInv
<1> QED
  BY ProcessInit, <1>1, PTL DEF Spec

\* Type correctness of a gateway with its lock file and its sessions, and the
\* lock taken before there are any.
THEOREM ProcessTypes == Spec => []TypeOK
<1>1. ProcessInv => TypeOK
  BY DEF ProcessInv, LockInv, SaveInv, Guarded, TypeOK
<1> QED
  BY ProcessInvariant, <1>1, PTL

\* Between two saves that no other gateway has crossed, the sessions in memory
\* are those a start would find, unless the last save reported an error.
THEOREM FileFollows == Spec => []FileIsMemory
<1>1. ProcessInv => FileIsMemory
  BY DEF ProcessInv, SaveInv
<1> QED
  BY ProcessInvariant, <1>1, PTL

\* Sessions are lost by a save cut short or crossed by another gateway's, and by
\* nothing else: starts and ends of any number of gateways, at any point, are
\* those of a SessionStore.
THEOREM SessionsAreKept == Spec => SessionsKept
<1>1. Init => Store!Init
  BY MapFacts DEF Init, StateInit, Store!Init
<1>2. ProcessInv /\ [Next]_processVars => [Store!Next]_(Store!storeVars)
  BY ProcessParts, StoreStep DEF ProcessInv
<1> QED
  BY ProcessInvariant, <1>1, <1>2, PTL DEF Spec, SessionsKept, Store!Spec

\* Until two starts have met in Acquire, no two gateways hold the instance lock,
\* and the file names the one that does: after deaths anywhere, and with pids
\* that have gone to others.
THEOREM OneGatewayRuns == Spec => []OneGateway
<1>1. ProcessInv => OneGateway
  BY OwnedIsOne DEF ProcessInv, Orderly, OneGateway, FileOwned
<1> QED
  BY ProcessInvariant, <1>1, PTL

\* Until two starts have met in Acquire, a gateway has the lock, alone, from the
\* time it loads its sessions until Run has saved them for the last time.
THEOREM SessionsAreGuarded == Spec => []SessionsGuarded
<1>1. ProcessInv => SessionsGuarded
  <2> SUFFICES ASSUME ProcessInv, ~overlapped,
                      NEW p \in Pids, life[p] \notin {"down", "saved"}
               PROVE  /\ lockFile = LockOf(p, TRUE)
                      /\ \A q \in Pids : Holds(q) => q = p
    BY DEF SessionsGuarded
  <2>1. Holds(p) /\ FileOwned
    BY DEF ProcessInv, Guarded, Orderly, Holds, Owning
  <2> QED
    BY <2>1, OwnedIsOne
<1> QED
  BY ProcessInvariant, <1>1, PTL

\* Until two starts have met in Acquire, a start is refused for another gateway,
\* for a pid that has gone to another process or because the lock cannot be
\* written, and for nothing else: a stale lock is taken over.
THEOREM RefusalIsRight == Spec => RefusedForAnother
<1> DEFINE Right ==
      \A p \in Pids : Refused(p) /\ ~overlapped =>
          \/ WriteFails(p) \/ CreateFails(p)
          \/ \E q \in Pids \ {p} : lockAt[q] # "none"
          \/ lockFile.pid \in foreign \cup {p}
<1>1. LockTypeOK /\ Orderly /\ LockNext => Right
  <2> SUFFICES ASSUME LockTypeOK, Orderly, LockNext, NEW p \in Pids, ~overlapped,
                      Refused(p), ~WriteFails(p), ~CreateFails(p)
               PROVE  \/ \E q \in Pids \ {p} : lockAt[q] # "none"
                      \/ lockFile.pid \in foreign \cup {p}
    OBVIOUS
  <2>1. PICK q \in Pids : LockStep(q)
    BY DEF LockNext
  <2>2. q = p /\ Acquire(p)
    BY <2>1 DEF LockTypeOK, LockStep, Refused, StartGateway, Ends, OtherProgram,
       Acquire, Create, CreateExists, CreateFails, WritePid, WriteFails,
       InspectStale, InspectRunning, RemoveStale, Release, BeginRelease, ReadOwn,
       Unlink, LockGoto
  <2>3. InspectRunning(p)
    BY <2>2 DEF LockTypeOK, Orderly, Retried, Refused, Acquire, Create,
       CreateExists, WritePid, InspectStale, RemoveStale, LockGoto
  <2>4. Readable /\ processAlive(lockFile.pid)
    BY <2>3 DEF InspectRunning
  <2> QED
    BY <2>4 DEF LockTypeOK, Readable, processAlive
<1>2. ProcessInv /\ [Next]_processVars => [Right]_lockVars
  <2> HIDE DEF Right
  <2> QED
    BY <1>1, ProcessParts DEF ProcessInv, LockInv
<1> QED
  BY ProcessInvariant, <1>2, PTL DEF Spec, RefusedForAnother
=============================================================================
