--------------------------- MODULE AgentViewProofs --------------------------
(***************************************************************************)
(* A turn of an agent is one live message; the scrollback of its screen    *)
(* records a line once and loses none that was seen; and scrolling skips   *)
(* nothing, for every screen, every bound, whatever the pty returns and    *)
(* however many readers there are.                                         *)
(*                                                                         *)
(* A message is created on the way from "create" to "store", and all that  *)
(* time agentRun.msgID is 0: a message that is there and not picked up by  *)
(* the next frame belongs to a turn that a later prompt has ended.         *)
(*                                                                         *)
(* For the scrollback it matters that a read of the pty keeps the shape of *)
(* the screen and leaves what is recorded alone: there is one lemma for    *)
(* each operation of the screen, up to FeedMade.  A sniff then goes over   *)
(* the last frame, and every line of it is in this frame, recorded, or too *)
(* short to be worth it (RecordedMade, PersistMade).                       *)
(*                                                                         *)
(* An operator cannot be handed to a lemma, so each loop (a FoldLeft) has  *)
(* the same few steps: the function the loop goes through exists           *)
(* (FoldFnIs), the one FoldLeft chooses is like it (Folds), and its values *)
(* are those of the loop (FoldRun, of DataLemmas).                         *)
(***************************************************************************)
EXTENDS AgentView, DataLemmas

MessageInv ==
    /\ live \in Nat /\ turns \in Nat
    /\ live <= turns + 1
    /\ msgID \in {0, live}
    /\ msgID = 0 /\ relayAt # "store" => live <= turns
    /\ relayAt \in {"create", "store"} => msgID = 0
    /\ relayAt = "store" => editing = live /\ live # 0

-----------------------------------------------------------------------------
\* No step of the relay, nor a prompt between two of them, makes a second one.
LEMMA MessageStep == MessageInv /\ [Next]_vars => MessageInv'
<1> SUFFICES ASSUME MessageInv, [Next]_vars PROVE MessageInv'
  OBVIOUS
<1> USE DEF MessageInv
<1>1. CASE UNCHANGED vars
  BY <1>1 DEF vars, relayVars
<1>2. ASSUME NEW chunk \in Chunks, Pump(chunk) PROVE MessageInv'
  BY <1>2 DEF Pump, relayVars
<1>3. CASE resetTurn
  BY <1>3 DEF resetTurn
<1>4. CASE Claim
  BY <1>4 DEF Claim, relayVars
<1>5. CASE Tick \/ TickRenderFails \/ TickAgain
  <2>1. /\ relayAt \in {"idle", "again"} /\ relayAt' \in {"idle", "again", "pick"}
        /\ UNCHANGED <<editing, msgID, live, turns>>
    BY <1>5 DEF Tick, TickRenderFails, TickAgain, Sniff
  <2> QED
    BY <2>1
<1>6. CASE TickPanics
  BY <1>6 DEF TickPanics
<1>7. CASE PickMessage
  <2>1. /\ relayAt = "pick"
        /\ relayAt' = IF stopped \/ msgID # 0 THEN "idle" ELSE "create"
        /\ UNCHANGED <<editing, msgID, live, turns>>
    BY <1>7 DEF PickMessage, AtRelay
  <2> QED
    BY <2>1
<1>8. CASE Create
  <2>1. relayAt = "create" /\ UNCHANGED <<msgID, turns>>
    BY <1>8 DEF Create, AtRelay
  <2>2. \/ relayAt' = "store" /\ live' = live + 1 /\ editing' = live + 1
        \/ relayAt' = "idle" /\ live' = live
    BY <1>8 DEF Create, AtRelay
  <2> QED
    BY <2>1, <2>2
<1>9. CASE Store
  BY <1>9 DEF Store, AtRelay
<1>10. ASSUME NEW h \in Readers, Reader(h) PROVE MessageInv'
  BY <1>10 DEF Reader, Ask, ReadPosition, SetPosition, ReadBounds, ReadRows,
     Paint, KeepMessage, Unread, relayVars
<1> QED
  BY <1>1, <1>2, <1>3, <1>4, <1>5, <1>6, <1>7, <1>8, <1>9, <1>10
     DEF Next, Relay

\* Of messages that can be edited there is at most one for each prompt and one
\* before the first, and the newest is the one that is edited (agent.go,
\* sendFrame and resetTurn).
THEOREM NewestMessageIsEdited == Spec => []NewestIsEdited
<1>1. Init => MessageInv
  BY DEF Init, MessageInv
<1>2. MessageInv => NewestIsEdited
  BY DEF MessageInv, NewestIsEdited
<1> QED
  BY <1>1, <1>2, MessageStep, PTL DEF Spec

-----------------------------------------------------------------------------
(* The screen                                                               *)

\* What a screen is made of.  The operations of the terminal change none of
\* history, histSeen and lastFrame: Screens(old) has those of old.
Cells == Runes \cup {Blank}
RowSet == {q \in Seq(Cells) : Len(q) <= Cols}
Buffers == [rows : [0..Rows - 1 -> RowSet], r : 0..Rows - 1, c : 0..Cols - 1]
Screens(old) ==
    [main : Buffers, alt : Buffers, altOn : BOOLEAN,
     saved : [r : 0..Rows - 1, c : 0..Cols - 1, alt : BOOLEAN],
     dirty : BOOLEAN, last : Cells \cup {""}, dead : BOOLEAN,
     pstate : {"ground", "esc", "charset", "csi", "osc"}, pparams : Seq(Nat),
     pprivate : BOOLEAN, skip : BOOLEAN,
     history : {old.history}, histSeen : {old.histSeen}, lastFrame : {old.lastFrame}]

\* Between two reads of the pty no byte is left to skip.
Still(old) == {s \in Screens(old) : ~s.skip}

LEMMA Sizes == Rows \in Nat \ {0} /\ Cols \in Nat \ {0} /\ HistoryCap \in Nat \ {0}
               /\ MinRunes \in Nat \ {0}
  BY ScreenAssumption

LEMMA Clamped ==
    ASSUME NEW v \in Int, NEW lo \in Int, NEW hi \in Int, lo <= hi
    PROVE  clamp(v, lo, hi) \in lo..hi /\ clamp(v, lo, hi) \in Int
  BY DEF clamp

-----------------------------------------------------------------------------
(* Rows and buffers                                                         *)

LEMMA CellMade ==
    ASSUME NEW row \in RowSet, NEW c \in Nat
    PROVE  cellAt(row, c) \in Cells
  BY DEF cellAt, RowSet, Cells

LEMMA EmptyRow == <<>> \in RowSet
  BY Sizes DEF RowSet

\* The columns that are written are on the screen.
LEMMA setCellsMade ==
    ASSUME NEW row \in RowSet, NEW cs, cs \subseteq 0..Cols - 1, NEW ch \in Cells
    PROVE  setCells(row, cs, ch) \in RowSet
<1>1. Max(cs \cup {-1}) \in Int
  <2>1. CASE cs = {}
    <3>1. Max(cs \cup {-1}) = -1
      BY <2>1, MaxIs
    <3> QED
      BY <3>1
  <2>2. CASE cs # {}
    <3> DEFINE n == Cols - 1
    <3>1. n \in Nat /\ cs \subseteq 0..n
      BY Sizes
    <3> HIDE DEF n
    <3>2. PICK m \in cs : \A x \in cs : m >= x
      BY <2>2, <3>1, MaxOfNat
    <3>3. m \in Nat /\ m \in cs \cup {-1} /\ cs \cup {-1} \subseteq Int
      BY <3>1
    <3>4. \A x \in cs \cup {-1} : m >= x
      BY <3>2, <3>3
    <3>5. Max(cs \cup {-1}) = m
      BY <3>3, <3>4, MaxIs
    <3> QED
      BY <3>3, <3>5
  <2> QED
    BY <2>1, <2>2
<1> DEFINE end == clamp(Max(cs \cup {-1}) + 1, Len(row), Cols)
           new == [i \in 1..end |-> IF i - 1 \in cs THEN ch ELSE cellAt(row, i - 1)]
<1>2. Len(row) \in Nat /\ Len(row) <= Cols
  BY DEF RowSet
<1>3. end \in Nat /\ end <= Cols
  BY <1>1, <1>2, Sizes DEF clamp
<1> HIDE DEF end
<1>4. \A i \in 1..end : new[i] \in Cells
  BY <1>3, CellMade
<1>5. new \in Seq(Cells) /\ Len(new) = end
  BY <1>3, <1>4
<1>6. new \in RowSet
  BY <1>3, <1>5 DEF RowSet
<1> QED
  BY <1>6 DEF setCells, end

LEMMA PutAtMade ==
    ASSUME NEW b \in Buffers, NEW r \in 0..Rows - 1, NEW cs, cs \subseteq 0..Cols - 1,
           NEW ch \in Cells
    PROVE  PutAt(b, r, cs, ch) \in Buffers
<1>1. setCells(b.rows[r], cs, ch) \in RowSet
  BY setCellsMade DEF Buffers
<1> HIDE DEF RowSet
<1> QED
  BY <1>1 DEF PutAt, Buffers

LEMMA BlankIsCell == Blank \in Cells /\ "a" \in Cells /\ "u" \in Cells /\ Letters \subseteq Cells
  BY DEF Cells, Runes, Letters, Blank

LEMMA eraseLineMade ==
    ASSUME NEW b \in Buffers, NEW cs, cs \subseteq 0..Cols - 1
    PROVE  eraseLine(b, cs) \in Buffers
<1>1. b.r \in 0..Rows - 1
  BY DEF Buffers
<1> QED
  BY <1>1, PutAtMade, BlankIsCell DEF eraseLine

LEMMA GoToMade ==
    ASSUME NEW b \in Buffers, NEW r \in Int, NEW c \in Int
    PROVE  GoTo(b, r, c) \in Buffers
<1>1. clamp(r, 0, Rows - 1) \in 0..Rows - 1 /\ clamp(c, 0, Cols - 1) \in 0..Cols - 1
  BY Sizes DEF clamp
<1> QED
  BY <1>1 DEF GoTo, Buffers

LEMMA CursorMade ==
    ASSUME NEW b \in Buffers, NEW r \in 0..Rows - 1, NEW c \in 0..Cols - 1
    PROVE  [b EXCEPT !.r = r] \in Buffers /\ [b EXCEPT !.c = c] \in Buffers
           /\ [b EXCEPT !.r = r, !.c = c] \in Buffers
  BY DEF Buffers

\* Rows that move by one.
LEMMA RowsMoved ==
    ASSUME NEW b \in Buffers, NEW from \in 0..Rows - 1
    PROVE  RowsUp(b, from) \in Buffers /\ RowsDown(b, from) \in Buffers
<1>1. \A r \in 0..Rows - 1 : r # Rows - 1 => r + 1 \in 0..Rows - 1
  BY Sizes
<1>2. \A r \in 0..Rows - 1 : ~ (r < from) /\ r # from => r - 1 \in 0..Rows - 1
  BY Sizes
<1>3. \A r \in 0..Rows - 1 : b.rows[r] \in RowSet
  BY DEF Buffers
<1>4. RowsUp(b, from).rows \in [0..Rows - 1 -> RowSet]
  BY <1>1, <1>3, EmptyRow DEF RowsUp, Buffers
<1>5. RowsDown(b, from).rows \in [0..Rows - 1 -> RowSet]
  BY <1>2, <1>3, EmptyRow DEF RowsDown, Buffers
<1>6. RowsUp(b, from) = [b EXCEPT !.rows = RowsUp(b, from).rows]
  BY DEF RowsUp, Buffers
<1>7. RowsDown(b, from) = [b EXCEPT !.rows = RowsDown(b, from).rows]
  BY DEF RowsDown, Buffers
<1> QED
  BY <1>4, <1>5, <1>6, <1>7 DEF Buffers

LEMMA LineMade ==
    ASSUME NEW b \in Buffers
    PROVE  LineDown(b) \in Buffers /\ reverseIndex(b) \in Buffers
<1>1. scrollUp(b) \in Buffers /\ scrollDown(b) \in Buffers
  BY RowsMoved, Sizes DEF scrollUp, scrollDown
<1>2. [scrollUp(b) EXCEPT !.r = Rows - 1] \in Buffers
  <2>1. Rows - 1 \in 0..Rows - 1 /\ 0 \in 0..Cols - 1
    BY Sizes
  <2> QED
    BY <1>1, <2>1, CursorMade
<1>3. b.r + 1 < Rows => [b EXCEPT !.r = @ + 1] \in Buffers
  BY Sizes DEF Buffers
<1>4. b.r # 0 => [b EXCEPT !.r = @ - 1] \in Buffers
  BY Sizes DEF Buffers
<1>5. b.r \in Int
  BY DEF Buffers
<1> QED
  BY <1>1, <1>2, <1>3, <1>4, <1>5, Sizes DEF LineDown, reverseIndex

LEMMA newBufferMade == newBuffer \in Buffers
<1>1. [r \in 0..Rows - 1 |-> <<>>] \in [0..Rows - 1 -> RowSet]
  BY EmptyRow
<1> QED
  BY <1>1, Sizes DEF newBuffer, Buffers

-----------------------------------------------------------------------------
(* Writing and erasing                                                      *)

LEMMA ActiveMade ==
    ASSUME NEW old, NEW s \in Screens(old)
    PROVE  /\ active(s) \in Buffers
           /\ active(s).r \in 0..Rows - 1 /\ active(s).c \in 0..Cols - 1
           /\ \A r \in 0..Rows - 1 : active(s).rows[r] \in RowSet
<1>1. active(s) \in Buffers
  BY DEF active, Screens
<1> QED
  BY <1>1 DEF Buffers

LEMMA ScreenMade ==
    ASSUME NEW old, NEW s \in Still(old), NEW b \in Buffers
    PROVE  /\ WithBuffer(s, b) \in Still(old) /\ Dirty(s) \in Still(old)
           /\ Dirty(WithBuffer(s, b)) \in Still(old)
<1>1. ASSUME NEW t \in Still(old) PROVE Dirty(t) \in Still(old)
  BY DEF Dirty, Still, Screens
<1>2. WithBuffer(s, b) \in Still(old)
  BY DEF WithBuffer, Still, Screens
<1> QED
  BY <1>1, <1>2

LEMMA putMade ==
    ASSUME NEW old, NEW s \in Still(old), NEW ch \in Cells
    PROVE  put(s, ch) \in Still(old) /\ put(s, ch).dead = s.dead
<1> DEFINE b == active(s)
           w == IF wrapPending(b) THEN [LineDown(b) EXCEPT !.c = 0] ELSE b
           p == PutAt(w, w.r, {w.c}, ch)
           t == WithBuffer(s, GoTo(p, p.r, p.c + 1))
<1>1. b \in Buffers
  BY ActiveMade DEF Still
<1>2. w \in Buffers
  <2>1. LineDown(b) \in Buffers /\ 0 \in 0..Cols - 1 /\ 0 \in 0..Rows - 1
    BY <1>1, LineMade, Sizes
  <2> HIDE DEF b
  <2> QED
    BY <1>1, <2>1, CursorMade
<1> HIDE DEF w
<1>3. w.r \in 0..Rows - 1 /\ w.c \in 0..Cols - 1
  BY <1>2 DEF Buffers
<1>4. p \in Buffers
  BY <1>2, <1>3, PutAtMade
<1> HIDE DEF p
<1>5. p.r \in Int /\ p.c + 1 \in Int
  BY <1>4 DEF Buffers
<1>6. GoTo(p, p.r, p.c + 1) \in Buffers
  BY <1>4, <1>5, GoToMade
<1>7. t \in Still(old) /\ t.dead = s.dead
  <2> DEFINE d == GoTo(p, p.r, p.c + 1)
  <2> HIDE DEF d
  <2>1. d \in Buffers
    BY <1>6 DEF d
  <2>2. WithBuffer(s, d) \in Still(old)
    BY <2>1, ScreenMade
  <2>3. WithBuffer(s, d).dead = s.dead
    BY DEF WithBuffer, Still, Screens
  <2> QED
    BY <2>2, <2>3 DEF d
<1> HIDE DEF t
<1>8. Dirty([t EXCEPT !.last = ch]) \in Still(old) /\ Dirty([t EXCEPT !.last = ch]).dead = s.dead
  BY <1>7 DEF Dirty, Still, Screens
<1>9. put(s, ch) = Dirty([t EXCEPT !.last = ch])
  BY DEF put, t, p, w
<1> QED
  BY <1>8, <1>9

\* The loops of csi.
LEMMA repeatMade ==
    ASSUME NEW old, NEW s \in Still(old), NEW n \in Nat
    PROVE  repeat(s, n) \in Still(old)
<1> SUFFICES ASSUME s.last # "" PROVE repeat(s, n) \in Still(old)
  BY DEF repeat
<1> DEFINE G == [t \in Still(old) |-> put(t, s.last)]
           Eq(g) == g = [t \in SUBSET DOMAIN [i \in 1..n |-> i] |->
                            IF t = {} THEN s ELSE put(g[t \ {Max(t)}], s.last)]
           it == CHOOSE g : Eq(g)
<1>1. s.last \in Cells
  BY DEF Still, Screens
<1>2. StepIn(G, Still(old))
  BY <1>1, putMade DEF StepIn
<1>3. DOMAIN [i \in 1..n |-> i] = 1..n
  OBVIOUS
<1>4. \A t \in Still(old) : G[t] = put(t, s.last)
  OBVIOUS
<1> HIDE DEF G
<1>5. \E g : Eq(g)
  <2> DEFINE f == TimesFn(n, Still(old), s, G)
  <2>1. RepeatsIn(f, s, G, Still(old), n)
    BY <1>2, TimesFnIs
  <2> HIDE DEF f
  <2>2. \A t \in SUBSET (1..n) : f[t] = IF t = {} THEN s ELSE put(f[t \ {Max(t)}], s.last)
    BY <1>4, <2>1 DEF RepeatsIn
  <2>3. f = [t \in SUBSET (1..n) |-> IF t = {} THEN s ELSE put(f[t \ {Max(t)}], s.last)]
    BY <2>1, <2>2 DEF RepeatsIn
  <2> QED
    BY <1>3, <2>3
<1>6. Eq(it)
  BY <1>5
<1>7. repeat(s, n) = it[1..n]
  BY <1>3, Zenon DEF repeat, Times, FoldLeft, MapThenFoldSet
<1> HIDE DEF it
<1>8. Repeats(it, s, G, Still(old), n)
  BY <1>3, <1>4, <1>6 DEF Repeats
<1> QED
  BY <1>2, <1>7, <1>8, TimesIn

\* Lines deleted, or scrolled off the top ...
LEMMA RowsUpTimes ==
    ASSUME NEW old, NEW b \in Buffers, NEW from \in 0..Rows - 1, NEW n \in Nat
    PROVE  Times(n, LAMBDA u : RowsUp(u, from), b) \in Buffers
<1> DEFINE G == [t \in Buffers |-> RowsUp(t, from)]
           Eq(g) == g = [t \in SUBSET DOMAIN [i \in 1..n |-> i] |->
                            IF t = {} THEN b ELSE RowsUp(g[t \ {Max(t)}], from)]
           it == CHOOSE g : Eq(g)
<1>1. StepIn(G, Buffers)
  BY RowsMoved DEF StepIn
<1>2. DOMAIN [i \in 1..n |-> i] = 1..n
  OBVIOUS
<1>3. \A t \in Buffers : G[t] = RowsUp(t, from)
  OBVIOUS
<1> HIDE DEF G
<1>4. \E g : Eq(g)
  <2> DEFINE f == TimesFn(n, Buffers, b, G)
  <2>1. RepeatsIn(f, b, G, Buffers, n)
    BY <1>1, TimesFnIs
  <2> HIDE DEF f
  <2>2. \A t \in SUBSET (1..n) : f[t] = IF t = {} THEN b ELSE RowsUp(f[t \ {Max(t)}], from)
    BY <1>3, <2>1 DEF RepeatsIn
  <2>3. f = [t \in SUBSET (1..n) |-> IF t = {} THEN b ELSE RowsUp(f[t \ {Max(t)}], from)]
    BY <2>1, <2>2 DEF RepeatsIn
  <2> QED
    BY <1>2, <2>3
<1>5. Eq(it)
  BY <1>4
<1>6. Times(n, LAMBDA u : RowsUp(u, from), b) = it[1..n]
  BY <1>2, Zenon DEF Times, FoldLeft, MapThenFoldSet
<1> HIDE DEF it
<1>7. Repeats(it, b, G, Buffers, n)
  BY <1>2, <1>3, <1>5 DEF Repeats
<1> QED
  BY <1>1, <1>6, <1>7, TimesIn

\* ... and lines inserted, or scrolled in from above.
LEMMA RowsDownTimes ==
    ASSUME NEW old, NEW b \in Buffers, NEW from \in 0..Rows - 1, NEW n \in Nat
    PROVE  Times(n, LAMBDA u : RowsDown(u, from), b) \in Buffers
<1> DEFINE G == [t \in Buffers |-> RowsDown(t, from)]
           Eq(g) == g = [t \in SUBSET DOMAIN [i \in 1..n |-> i] |->
                            IF t = {} THEN b ELSE RowsDown(g[t \ {Max(t)}], from)]
           it == CHOOSE g : Eq(g)
<1>1. StepIn(G, Buffers)
  BY RowsMoved DEF StepIn
<1>2. DOMAIN [i \in 1..n |-> i] = 1..n
  OBVIOUS
<1>3. \A t \in Buffers : G[t] = RowsDown(t, from)
  OBVIOUS
<1> HIDE DEF G
<1>4. \E g : Eq(g)
  <2> DEFINE f == TimesFn(n, Buffers, b, G)
  <2>1. RepeatsIn(f, b, G, Buffers, n)
    BY <1>1, TimesFnIs
  <2> HIDE DEF f
  <2>2. \A t \in SUBSET (1..n) : f[t] = IF t = {} THEN b ELSE RowsDown(f[t \ {Max(t)}], from)
    BY <1>3, <2>1 DEF RepeatsIn
  <2>3. f = [t \in SUBSET (1..n) |-> IF t = {} THEN b ELSE RowsDown(f[t \ {Max(t)}], from)]
    BY <2>1, <2>2 DEF RepeatsIn
  <2> QED
    BY <1>2, <2>3
<1>5. Eq(it)
  BY <1>4
<1>6. Times(n, LAMBDA u : RowsDown(u, from), b) = it[1..n]
  BY <1>2, Zenon DEF Times, FoldLeft, MapThenFoldSet
<1> HIDE DEF it
<1>7. Repeats(it, b, G, Buffers, n)
  BY <1>2, <1>3, <1>5 DEF Repeats
<1> QED
  BY <1>1, <1>6, <1>7, TimesIn

LEMMA tabMade ==
    ASSUME NEW old, NEW s \in Still(old)
    PROVE  tabForward(s) \in Still(old) /\ tabBackward(s) \in Still(old)
<1> DEFINE b == active(s)
<1>1. b \in Buffers /\ b.r \in Int /\ b.c \in Nat
  BY ActiveMade DEF Still
<1> HIDE DEF b
<1>2. (b.c \div 8 + 1) * 8 \in Int /\ b.c - (b.c % 8) - 1 \in Int
  BY <1>1
<1>3. GoTo(b, b.r, (b.c \div 8 + 1) * 8) \in Buffers
      /\ GoTo(b, b.r, b.c - (b.c % 8) - 1) \in Buffers
  BY <1>1, <1>2, GoToMade
<1> QED
  BY <1>3, ScreenMade DEF tabForward, tabBackward, b

LEMMA tabForwardTimes ==
    ASSUME NEW old, NEW s \in Still(old), NEW n \in Nat
    PROVE  Times(n, tabForward, s) \in Still(old)
<1> DEFINE G == [t \in Still(old) |-> tabForward(t)]
           Eq(g) == g = [t \in SUBSET DOMAIN [i \in 1..n |-> i] |->
                            IF t = {} THEN s ELSE tabForward(g[t \ {Max(t)}])]
           it == CHOOSE g : Eq(g)
<1>1. StepIn(G, Still(old))
  BY tabMade DEF StepIn
<1>2. DOMAIN [i \in 1..n |-> i] = 1..n
  OBVIOUS
<1>3. \A t \in Still(old) : G[t] = tabForward(t)
  OBVIOUS
<1> HIDE DEF G
<1>4. \E g : Eq(g)
  <2> DEFINE f == TimesFn(n, Still(old), s, G)
  <2>1. RepeatsIn(f, s, G, Still(old), n)
    BY <1>1, TimesFnIs
  <2> HIDE DEF f
  <2>2. \A t \in SUBSET (1..n) : f[t] = IF t = {} THEN s ELSE tabForward(f[t \ {Max(t)}])
    BY <1>3, <2>1 DEF RepeatsIn
  <2>3. f = [t \in SUBSET (1..n) |-> IF t = {} THEN s ELSE tabForward(f[t \ {Max(t)}])]
    BY <2>1, <2>2 DEF RepeatsIn
  <2> QED
    BY <1>2, <2>3
<1>5. Eq(it)
  BY <1>4
<1>6. Times(n, tabForward, s) = it[1..n]
  BY <1>2, Zenon DEF Times, FoldLeft, MapThenFoldSet
<1> HIDE DEF it
<1>7. Repeats(it, s, G, Still(old), n)
  BY <1>2, <1>3, <1>5 DEF Repeats
<1> QED
  BY <1>1, <1>6, <1>7, TimesIn

LEMMA tabBackwardTimes ==
    ASSUME NEW old, NEW s \in Still(old), NEW n \in Nat
    PROVE  Times(n, tabBackward, s) \in Still(old)
<1> DEFINE G == [t \in Still(old) |-> tabBackward(t)]
           Eq(g) == g = [t \in SUBSET DOMAIN [i \in 1..n |-> i] |->
                            IF t = {} THEN s ELSE tabBackward(g[t \ {Max(t)}])]
           it == CHOOSE g : Eq(g)
<1>1. StepIn(G, Still(old))
  BY tabMade DEF StepIn
<1>2. DOMAIN [i \in 1..n |-> i] = 1..n
  OBVIOUS
<1>3. \A t \in Still(old) : G[t] = tabBackward(t)
  OBVIOUS
<1> HIDE DEF G
<1>4. \E g : Eq(g)
  <2> DEFINE f == TimesFn(n, Still(old), s, G)
  <2>1. RepeatsIn(f, s, G, Still(old), n)
    BY <1>1, TimesFnIs
  <2> HIDE DEF f
  <2>2. \A t \in SUBSET (1..n) : f[t] = IF t = {} THEN s ELSE tabBackward(f[t \ {Max(t)}])
    BY <1>3, <2>1 DEF RepeatsIn
  <2>3. f = [t \in SUBSET (1..n) |-> IF t = {} THEN s ELSE tabBackward(f[t \ {Max(t)}])]
    BY <2>1, <2>2 DEF RepeatsIn
  <2> QED
    BY <1>2, <2>3
<1>5. Eq(it)
  BY <1>4
<1>6. Times(n, tabBackward, s) = it[1..n]
  BY <1>2, Zenon DEF Times, FoldLeft, MapThenFoldSet
<1> HIDE DEF it
<1>7. Repeats(it, s, G, Still(old), n)
  BY <1>2, <1>3, <1>5 DEF Repeats
<1> QED
  BY <1>1, <1>6, <1>7, TimesIn

LEMMA linesMade ==
    ASSUME NEW old, NEW s \in Still(old), NEW n \in Int
    PROVE  /\ insertLines(s, n) \in Still(old) /\ deleteLines(s, n) \in Still(old)
           /\ Unseen(s, Times(clamp(n, 0, Rows), scrollUp, active(s))) \in Still(old)
           /\ Unseen(s, Times(clamp(n, 0, Rows), scrollDown, active(s))) \in Still(old)
<1> DEFINE m == clamp(n, 0, Rows)
           b == active(s)
<1>1. m \in Nat
  BY Sizes DEF clamp
<1>2. b \in Buffers /\ b.r \in 0..Rows - 1
  BY ActiveMade DEF Still
<1>3. 0 \in 0..Rows - 1
  BY Sizes
<1> HIDE DEF m, b
<1>4. Times(m, LAMBDA t : RowsUp(t, b.r), b) \in Buffers
  BY <1>1, <1>2, RowsUpTimes
<1>5. Times(m, LAMBDA t : RowsDown(t, b.r), b) \in Buffers
  BY <1>1, <1>2, RowsDownTimes
<1>6. Times(m, LAMBDA t : RowsUp(t, 0), b) \in Buffers
  BY <1>1, <1>2, <1>3, RowsUpTimes
<1>7. Times(m, LAMBDA t : RowsDown(t, 0), b) \in Buffers
  BY <1>1, <1>2, <1>3, RowsDownTimes
<1>8. Times(m, scrollUp, b) = Times(m, LAMBDA t : RowsUp(t, 0), b)
      /\ Times(m, scrollDown, b) = Times(m, LAMBDA t : RowsDown(t, 0), b)
  BY Zenon DEF scrollUp, scrollDown, Times, FoldLeft, MapThenFoldSet
<1> DEFINE up == Times(m, LAMBDA t : RowsUp(t, b.r), b)
           down == Times(m, LAMBDA t : RowsDown(t, b.r), b)
<1>9. insertLines(s, n) = Dirty(WithBuffer(s, down))
      /\ deleteLines(s, n) = Dirty(WithBuffer(s, up))
  BY Zenon DEF insertLines, deleteLines, m, b
<1> HIDE DEF up, down
<1> QED
  BY <1>4, <1>5, <1>6, <1>7, <1>8, <1>9, ScreenMade DEF Unseen, m, b, up, down

LEMMA clearMade ==
    ASSUME NEW old, NEW s \in Still(old)
    PROVE  clearScreen(s) \in Still(old) /\ linefeed(s) \in Still(old)
<1> DEFINE blank == setCells(<<>>, 0..Cols - 1, Blank)
           b == [newBuffer EXCEPT !.rows = [r \in 0..Rows - 1 |-> blank]]
<1>1. blank \in RowSet
  BY EmptyRow, setCellsMade, BlankIsCell
<1> HIDE DEF blank
<1>2. b \in Buffers
  BY <1>1, newBufferMade DEF Buffers
<1> HIDE DEF b
<1>3. LineDown(active(s)) \in Buffers
  BY ActiveMade, LineMade DEF Still
<1> QED
  BY <1>2, <1>3, ScreenMade DEF clearScreen, linefeed, b, blank

\* A buffer whose rows are new.
LEMMA RowsMade ==
    ASSUME NEW b \in Buffers, NEW rows, rows \in [0..Rows - 1 -> RowSet]
    PROVE  [b EXCEPT !.rows = rows] \in Buffers
  BY DEF Buffers

LEMMA EraseMade ==
    ASSUME NEW b \in Buffers
    PROVE  EraseAbove(b) \in Buffers /\ EraseBelow(b) \in Buffers
<1>1. b.c \in 0..Cols - 1 /\ 0..b.c \subseteq 0..Cols - 1 /\ b.c..Cols - 1 \subseteq 0..Cols - 1
  BY Sizes DEF Buffers
<1> DEFINE above == eraseLine(b, 0..b.c)
           below == eraseLine(b, b.c..Cols - 1)
<1>2. above \in Buffers /\ below \in Buffers
  BY <1>1, eraseLineMade
<1> HIDE DEF above, below
<1>3. ASSUME NEW d \in Buffers, NEW r \in 0..Rows - 1
      PROVE  d.rows[r] \in RowSet /\ setCells(d.rows[r], 0..Cols - 1, Blank) \in RowSet
  <2>1. d.rows[r] \in RowSet
    BY DEF Buffers
  <2> QED
    BY <2>1, setCellsMade, BlankIsCell
<1>4. [r \in 0..Rows - 1 |-> IF r < b.r THEN setCells(above.rows[r], 0..Cols - 1, Blank)
                             ELSE above.rows[r]] \in [0..Rows - 1 -> RowSet]
  BY <1>2, <1>3
<1>5. [r \in 0..Rows - 1 |-> IF r > b.r THEN setCells(below.rows[r], 0..Cols - 1, Blank)
                             ELSE below.rows[r]] \in [0..Rows - 1 -> RowSet]
  BY <1>2, <1>3
<1>6. EraseAbove(b) = [above EXCEPT !.rows =
         [r \in 0..Rows - 1 |-> IF r < b.r THEN setCells(above.rows[r], 0..Cols - 1, Blank)
                                ELSE above.rows[r]]]
  BY <1>2 DEF EraseAbove, above, Buffers
<1>7. EraseBelow(b) = [below EXCEPT !.rows =
         [r \in 0..Rows - 1 |-> IF r > b.r THEN setCells(below.rows[r], 0..Cols - 1, Blank)
                                ELSE below.rows[r]]]
  BY <1>2 DEF EraseBelow, below, Buffers
<1>8. EraseAbove(b) \in Buffers
  BY <1>2, <1>4, <1>6, RowsMade, Zenon
<1>9. EraseBelow(b) \in Buffers
  BY <1>2, <1>5, <1>7, RowsMade, Zenon
<1> QED
  BY <1>8, <1>9

\* A buffer one row of which is new.
LEMMA OneRowMade ==
    ASSUME NEW b \in Buffers, NEW row \in RowSet
    PROVE  [b EXCEPT !.rows[b.r] = row] \in Buffers
<1> HIDE DEF RowSet
<1> QED
  BY DEF Buffers

LEMMA DeadMade ==
    ASSUME NEW old, NEW s \in Still(old)
    PROVE  [s EXCEPT !.dead = TRUE] \in Still(old)
  BY DEF Still, Screens

\* The slice the code takes is in range, or the screen is dead.
LEMMA deleteCharsMade ==
    ASSUME NEW old, NEW s \in Still(old), NEW n \in Nat
    PROVE  deleteChars(s, n) \in Still(old)
<1> DEFINE b == active(s)
           row == b.rows[b.r]
           to == clamp(b.c + n, 0, Cols)
           new == setCells(SubSeq(row, to + 1, Len(row)), Len(row) - to..Cols - 1, Blank)
<1>1. b \in Buffers /\ b.c \in 0..Cols - 1 /\ row \in RowSet
  BY ActiveMade DEF Still
<1>2. to \in Nat
  BY <1>1, Sizes DEF clamp
<1> SUFFICES ASSUME to <= Len(row)
             PROVE  Dirty(WithBuffer(s, [b EXCEPT !.rows[b.r] = new])) \in Still(old)
  <2>1. Len(row) \in Nat
    BY <1>1 DEF RowSet
  <2>2. ~ (to <= Len(row)) => to > Len(row)
    BY <1>2, <2>1
  <2>3. CASE to <= Len(row)
    BY <2>3, DeadMade DEF deleteChars
  <2>4. CASE to > Len(row)
    BY <2>4, DeadMade DEF deleteChars
  <2> QED
    BY <2>2, <2>3, <2>4
<1> HIDE DEF b, row, to
<1>3. Len(row) \in Nat /\ row \in Seq(Cells) /\ Len(row) <= Cols
  BY <1>1 DEF RowSet
<1>4. SubSeq(row, to + 1, Len(row)) \in RowSet
  <2>1. SubSeq(row, to + 1, Len(row)) \in Seq(Cells)
    BY <1>2, <1>3
  <2>2. Len(SubSeq(row, to + 1, Len(row))) <= Cols
    BY <1>2, <1>3, Sizes, RestOf
  <2> QED
    BY <2>1, <2>2 DEF RowSet
<1>5. Len(row) - to..Cols - 1 \subseteq 0..Cols - 1
  BY <1>2, <1>3
<1>6. new \in RowSet
  BY <1>4, <1>5, setCellsMade, BlankIsCell
<1> HIDE DEF new
<1> QED
  BY <1>1, <1>6, OneRowMade, ScreenMade

LEMMA insertCharsMade ==
    ASSUME NEW old, NEW s \in Still(old), NEW n \in Nat
    PROVE  insertChars(s, n) \in Still(old)
<1> DEFINE b == active(s)
           row == b.rows[b.r]
           moved == b.c + n <= Cols - 1
           inside == Cols - 1 - n < Len(row)
           shifted == [i \in 1..Cols |-> IF i - 1 < b.c + n THEN cellAt(row, i - 1)
                                         ELSE cellAt(row, i - 1 - n)]
           w == IF moved THEN shifted ELSE row
           new == setCells(w, {b.c}, Blank)
<1>1. b \in Buffers /\ b.c \in 0..Cols - 1 /\ row \in RowSet
  BY ActiveMade DEF Still
<1> SUFFICES Dirty(WithBuffer(s, [b EXCEPT !.rows[b.r] = new])) \in Still(old)
  BY DeadMade DEF insertChars
<1> HIDE DEF b, row
<1>2. \A i \in 1..Cols : shifted[i] \in Cells
  <2> SUFFICES ASSUME NEW i \in 1..Cols PROVE shifted[i] \in Cells
    OBVIOUS
  <2>1. CASE i - 1 < b.c + n
    <3>1. i - 1 \in Nat
      OBVIOUS
    <3>2. cellAt(row, i - 1) \in Cells
      BY <1>1, <3>1, CellMade
    <3> QED
      BY <2>1, <3>2
  <2>2. CASE ~ (i - 1 < b.c + n)
    <3>1. i - 1 - n \in Nat
      BY <1>1, <2>2
    <3>2. cellAt(row, i - 1 - n) \in Cells
      BY <1>1, <3>1, CellMade
    <3> QED
      BY <2>2, <3>2
  <2> QED
    BY <2>1, <2>2
<1>3. shifted \in RowSet
  <2>1. Cols \in Nat
    BY Sizes
  <2>2. shifted \in Seq(Cells) /\ Len(shifted) = Cols
    BY <1>2, <2>1
  <2> QED
    BY <2>1, <2>2 DEF RowSet
<1> HIDE DEF shifted
<1>4. w \in RowSet
  BY <1>1, <1>3
<1> HIDE DEF w
<1>5. new \in RowSet
  BY <1>1, <1>4, setCellsMade, BlankIsCell
<1> HIDE DEF new
<1> QED
  BY <1>1, <1>5, OneRowMade, ScreenMade

\* The alternate buffer, and the cursor saved in one and restored in the other.
LEMMA buffersMade ==
    ASSUME NEW old, NEW s \in Still(old)
    PROVE  /\ saveCursor(s) \in Still(old)
           /\ enterAlt(s) \in Still(old) /\ exitAlt(s) \in Still(old)
           /\ restoreCursor(s) \in Still(old)
<1>1. ASSUME NEW u \in Still(old) PROVE enterAlt(u) \in Still(old)
  <2>1. u.main.r \in 0..Rows - 1 /\ u.main.c \in 0..Cols - 1
    BY DEF Still, Screens, Buffers
  <2>2. [u EXCEPT !.saved.r = u.main.r, !.saved.c = u.main.c,
                  !.alt = newBuffer, !.altOn = TRUE] \in Still(old)
    <3> HIDE DEF Buffers
    <3> QED
      BY <2>1, newBufferMade DEF Still, Screens
  <2> QED
    BY <2>2, ScreenMade, newBufferMade DEF enterAlt
<1>2. ASSUME NEW u \in Still(old) PROVE exitAlt(u) \in Still(old)
  <2>1. [u EXCEPT !.alt = newBuffer, !.altOn = FALSE] \in Still(old)
    BY newBufferMade DEF Still, Screens
  <2> QED
    BY <2>1, ScreenMade, newBufferMade DEF exitAlt
<1>3. saveCursor(s) \in Still(old)
  BY ActiveMade DEF saveCursor, Still, Screens
<1> DEFINE t == CASE s.saved.alt = s.altOn -> s
                  [] s.saved.alt /\ ~s.altOn -> enterAlt(s)
                  [] ~s.saved.alt /\ s.altOn -> exitAlt(s)
<1>4. t \in Still(old)
  <2>1. s.saved.alt \in BOOLEAN /\ s.altOn \in BOOLEAN
    BY DEF Still, Screens
  <2> QED
    BY <1>1, <1>2, <2>1
<1> HIDE DEF t
<1>5. t.saved.r \in 0..Rows - 1 /\ t.saved.c \in 0..Cols - 1
  BY <1>4 DEF Still, Screens
<1>6. [active(t) EXCEPT !.r = t.saved.r, !.c = t.saved.c] \in Buffers
  BY <1>4, <1>5, ActiveMade, CursorMade DEF Still
<1>7. restoreCursor(s) \in Still(old)
  BY <1>4, <1>6, ScreenMade DEF restoreCursor, t
<1> QED
  BY <1>1, <1>2, <1>3, <1>7

\* Every final byte, with whatever parameters.
LEMMA csiMade ==
    ASSUME NEW old, NEW s \in Still(old), NEW params \in Seq(Nat),
           NEW private \in BOOLEAN, NEW final
    PROVE  csi(s, params, private, final) \in Still(old)
<1> DEFINE b == active(s)
           p(i, def) == IF i > Len(params) THEN def ELSE params[i]
           n == p(1, 1)
           cs == CASE p(1, 0) = 0 -> b.c..Cols - 1
                   [] p(1, 0) = 1 -> 0..b.c
                   [] p(1, 0) = 2 -> 0..Cols - 1
                   [] OTHER -> {}
           x == b.c..clamp(b.c + n, 0, Cols) - 1
<1>1. b \in Buffers /\ b.r \in Int /\ b.c \in Int /\ b.r \in 0..Rows - 1 /\ b.c \in 0..Cols - 1
  BY ActiveMade DEF Still
<1>2. \A i \in Nat \ {0}, def \in Nat : p(i, def) \in Nat
  OBVIOUS
<1>3. n \in Nat /\ p(2, 1) \in Nat
  BY <1>2
<1>4. cs \subseteq 0..Cols - 1
  <2> HIDE DEF b, p
  <2>1. b.c..Cols - 1 \subseteq 0..Cols - 1 /\ 0..b.c \subseteq 0..Cols - 1
    BY <1>1, Sizes
  <2> QED
    BY <2>1
<1>5. x \subseteq 0..Cols - 1
  BY <1>1, <1>3, Sizes DEF clamp
<1>6. \A d \in Buffers : Unseen(s, d) \in Still(old)
  BY ScreenMade DEF Unseen
<1> HIDE DEF b, cs, x, n
<1>7. /\ Unseen(s, GoTo(b, b.r - n, b.c)) \in Still(old)
      /\ Unseen(s, GoTo(b, b.r + n, b.c)) \in Still(old)
      /\ Unseen(s, GoTo(b, b.r, b.c + n)) \in Still(old)
      /\ Unseen(s, GoTo(b, b.r, b.c - n)) \in Still(old)
      /\ Unseen(s, GoTo(b, b.r + n, 0)) \in Still(old)
      /\ Unseen(s, GoTo(b, b.r - n, 0)) \in Still(old)
      /\ Unseen(s, GoTo(b, b.r, n - 1)) \in Still(old)
      /\ Unseen(s, GoTo(b, n - 1, b.c)) \in Still(old)
      /\ Unseen(s, GoTo(b, n - 1, p(2, 1) - 1)) \in Still(old)
  BY <1>1, <1>3, <1>6, GoToMade
<1>8. /\ clearScreen(s) \in Still(old)
      /\ Unseen(s, EraseAbove(b)) \in Still(old)
      /\ Unseen(s, EraseBelow(b)) \in Still(old)
      /\ Dirty(WithBuffer(s, eraseLine(b, cs))) \in Still(old)
      /\ Unseen(s, eraseLine(b, x)) \in Still(old)
  BY <1>1, <1>4, <1>5, <1>6, clearMade, EraseMade, eraseLineMade, ScreenMade
<1>9. /\ repeat(s, n) \in Still(old)
      /\ deleteChars(s, n) \in Still(old) /\ insertChars(s, n) \in Still(old)
      /\ insertLines(s, n) \in Still(old) /\ deleteLines(s, n) \in Still(old)
  <2>1. n \in Nat /\ n \in Int
    BY <1>3
  <2> QED
    BY <2>1, repeatMade, deleteCharsMade, insertCharsMade, linesMade
<1>10. /\ Unseen(s, Times(clamp(n, 0, Rows), scrollUp, b)) \in Still(old)
       /\ Unseen(s, Times(clamp(n, 0, Rows), scrollDown, b)) \in Still(old)
  <2>1. n \in Int
    BY <1>3
  <2> QED
    BY <2>1, linesMade, Zenon DEF b
<1>11. Times(n, tabForward, s) \in Still(old) /\ Times(n, tabBackward, s) \in Still(old)
  BY <1>3, tabForwardTimes, tabBackwardTimes
<1>12. enterAlt(s) \in Still(old) /\ exitAlt(s) \in Still(old)
  BY buffersMade
<1> QED
  BY <1>7, <1>8, <1>9, <1>10, <1>11, <1>12 DEF csi, b, cs, x, n

-----------------------------------------------------------------------------
(* The parser                                                               *)

LEMMA StateMade ==
    ASSUME NEW old, NEW s \in Still(old)
    PROVE  /\ \A state \in {"ground", "esc", "charset", "csi", "osc"} : To(s, state) \in Still(old)
           /\ \A q \in Seq(Nat), v \in BOOLEAN :
                 [s EXCEPT !.pparams = q, !.pprivate = v] \in Still(old)
           /\ [s EXCEPT !.pprivate = TRUE] \in Still(old)
           /\ \A q \in Seq(Nat) : [s EXCEPT !.pparams = q] \in Still(old)
           /\ s.pparams \in Seq(Nat) /\ s.pprivate \in BOOLEAN
           /\ [s EXCEPT !.skip = TRUE] \in Screens(old)
           /\ [s EXCEPT !.skip = TRUE].skip
           /\ [s EXCEPT !.skip = TRUE].dead = s.dead
  BY DEF To, Still, Screens

\* What a byte leaves: nothing to skip, or the second byte of a pair, which is
\* in the same chunk.
Parsed(old, t, next) ==
    /\ t \in Screens(old)
    /\ t.skip => next # "none" /\ ~t.dead

LEMMA GroundMade ==
    ASSUME NEW old, NEW s \in Still(old), ~s.dead, NEW byte, NEW next
    PROVE  Parsed(old, GroundByte(s, byte, next), next)
<1> DEFINE b == active(s)
<1>1. b \in Buffers /\ b.r \in Int /\ b.c \in Int /\ b.c - 1 \in Int
  BY ActiveMade DEF Still
<1>2. \A t \in Still(old) : Parsed(old, t, next)
  BY DEF Parsed, Still
<1>3. \A ch \in Letters \cup {Blank} : ch \in Cells
  BY BlankIsCell
<1>4. \A ch \in Letters \cup {Blank} : put(s, ch) \in Still(old)
  BY <1>3, putMade
<1>5. next = "u2" => Parsed(old, [put(s, "u") EXCEPT !.skip = TRUE], next)
  <2> DEFINE t == put(s, "u")
  <2>1. t \in Still(old) /\ ~t.dead
    BY putMade, BlankIsCell
  <2> HIDE DEF t
  <2>2. next = "u2" => Parsed(old, [t EXCEPT !.skip = TRUE], next)
    BY <2>1, StateMade DEF Parsed
  <2> QED
    BY <2>2 DEF t
<1>6. To(s, "esc") \in Still(old)
  BY StateMade
<1>7. Unseen(s, [b EXCEPT !.c = 0]) \in Still(old)
  <2>1. 0 \in 0..Rows - 1 /\ 0 \in 0..Cols - 1
    BY Sizes
  <2> QED
    BY <1>1, <2>1, CursorMade, ScreenMade DEF Unseen
<1>8. Unseen(s, GoTo(b, b.r, b.c - 1)) \in Still(old)
  BY <1>1, GoToMade, ScreenMade DEF Unseen
<1>9. linefeed(s) \in Still(old) /\ clearScreen(s) \in Still(old) /\ tabForward(s) \in Still(old)
      /\ put(s, "a") \in Still(old)
  BY clearMade, tabMade, putMade, BlankIsCell
<1> QED
  BY <1>2, <1>4, <1>5, <1>6, <1>7, <1>8, <1>9 DEF GroundByte

LEMMA EscMade ==
    ASSUME NEW old, NEW s \in Still(old), NEW byte
    PROVE  EscByte(s, byte) \in Still(old)
<1> DEFINE g == To(s, "ground")
<1>1. g \in Still(old) /\ To(s, "csi") \in Still(old) /\ To(s, "osc") \in Still(old)
      /\ To(s, "charset") \in Still(old)
  BY StateMade
<1> HIDE DEF g
<1>2. [To(s, "csi") EXCEPT !.pparams = <<>>, !.pprivate = FALSE] \in Still(old)
  <2>1. <<>> \in Seq(Nat) /\ FALSE \in BOOLEAN
    OBVIOUS
  <2> QED
    BY <1>1, <2>1, StateMade
<1>3. saveCursor(g) \in Still(old) /\ restoreCursor(g) \in Still(old)
  BY <1>1, buffersMade
<1>4. linefeed(clearScreen(g)) \in Still(old) /\ linefeed(g) \in Still(old)
  BY <1>1, clearMade
<1>5. Dirty(WithBuffer(g, reverseIndex(active(g)))) \in Still(old)
  BY <1>1, ActiveMade, LineMade, ScreenMade DEF Still
<1> QED
  BY <1>1, <1>2, <1>3, <1>4, <1>5 DEF EscByte, g

\* A digit is a number.
LEMMA DigitIs ==
    ASSUME NEW byte \in Range(Digits)
    PROVE  Digit(byte) \in Nat
<1>1. PICK i \in 1..10 : Digits[i] = byte
  BY DEF Range, Digits
<1>2. \E k \in 0..9 : Digits[k + 1] = byte
  <2>1. i - 1 \in 0..9 /\ (i - 1) + 1 = i
    OBVIOUS
  <2> QED
    BY <1>1, <2>1
<1>3. Digit(byte) \in 0..9
  <2> HIDE DEF Digits
  <2> QED
    BY <1>2, Zenon DEF Digit
<1> QED
  BY <1>3

LEMMA CsiMade ==
    ASSUME NEW old, NEW s \in Still(old), NEW byte
    PROVE  CsiByte(s, byte) \in Still(old)
<1> DEFINE n == Len(s.pparams)
<1>1. s.pparams \in Seq(Nat) /\ s.pprivate \in BOOLEAN /\ n \in Nat
  <2>1. s.pparams \in Seq(Nat) /\ s.pprivate \in BOOLEAN
    BY StateMade
  <2> QED
    BY <2>1
<1>2. [s EXCEPT !.pprivate = TRUE] \in Still(old)
  BY StateMade
<1>3. byte \in Range(Digits) => [s EXCEPT !.pparams = <<Digit(byte)>>] \in Still(old)
  <2> SUFFICES ASSUME byte \in Range(Digits)
               PROVE  [s EXCEPT !.pparams = <<Digit(byte)>>] \in Still(old)
    OBVIOUS
  <2>1. <<Digit(byte)>> \in Seq(Nat)
    BY DigitIs
  <2> QED
    BY <2>1, StateMade
<1>4. byte \in Range(Digits) /\ n > 0 =>
         [s EXCEPT !.pparams[n] = @ * 10 + Digit(byte)] \in Still(old)
  <2> SUFFICES ASSUME byte \in Range(Digits), n > 0
               PROVE  [s EXCEPT !.pparams[n] = @ * 10 + Digit(byte)] \in Still(old)
    OBVIOUS
  <2> DEFINE d == Digit(byte)
             v == s.pparams[n] * 10 + d
             q == [s.pparams EXCEPT ![n] = v]
  <2>1. d \in Nat
    BY DigitIs
  <2> HIDE DEF d
  <2>2. s.pparams[n] \in Nat
    BY <1>1
  <2>3. v \in Nat
    BY <2>1, <2>2
  <2> HIDE DEF v
  <2>4. q \in Seq(Nat)
    BY <1>1, <2>3
  <2>5. [s EXCEPT !.pparams[n] = @ * 10 + Digit(byte)] = [s EXCEPT !.pparams = q]
    <3>1. s \in [DOMAIN s -> Range(s)] /\ "pparams" \in DOMAIN s
      BY DEF Still, Screens, Range
    <3> QED
      BY Zenon DEF q, v, d
  <2> QED
    BY <2>4, <2>5, StateMade
<1>5. [s EXCEPT !.pparams = Append(@, 0)] \in Still(old)
  <2>1. Append(s.pparams, 0) \in Seq(Nat)
    BY <1>1
  <2> QED
    BY <2>1, StateMade
<1>6. To(csi(s, s.pparams, s.pprivate, byte), "ground") \in Still(old)
  BY <1>1, csiMade, StateMade
<1> HIDE DEF n
<1> QED
  BY <1>2, <1>3, <1>4, <1>5, <1>6 DEF CsiByte, n

LEMMA OscMade ==
    ASSUME NEW old, NEW s \in Still(old), ~s.dead, NEW byte, NEW next
    PROVE  Parsed(old, OscByte(s, byte, next), next)
<1>1. To(s, "ground") \in Still(old) /\ To(s, "ground").dead = s.dead
  <2>1. To(s, "ground") \in Still(old)
    BY StateMade
  <2>2. To(s, "ground").dead = s.dead
    BY DEF To, Still, Screens
  <2> QED
    BY <2>1, <2>2
<1>2. \A t \in Still(old) : Parsed(old, t, next)
  BY DEF Parsed, Still
<1>3. next = "\\" => Parsed(old, [To(s, "ground") EXCEPT !.skip = TRUE], next)
  BY <1>1, StateMade DEF Parsed
<1> QED
  BY <1>1, <1>2, <1>3 DEF OscByte

\* Within a read: a byte to skip is one of a screen that goes on.
Parsing(old) == {t \in Screens(old) : t.skip => ~t.dead}

LEMMA ParseMade ==
    ASSUME NEW old, NEW s \in Parsing(old), NEW data, NEW i,
           NEW next, next = IF i < Len(data) THEN data[i + 1] ELSE "none"
    PROVE  Parsed(old, ParseByte(s, data, i), next)
<1> DEFINE byte == data[i]
<1>1. \A t \in Still(old) : Parsed(old, t, next)
  BY DEF Parsed, Still
<1>2. CASE s.dead
  <2>1. ParseByte(s, data, i) = s
    BY <1>2 DEF ParseByte
  <2> QED
    BY <1>2, <2>1 DEF Parsing, Parsed
<1>3. CASE ~s.dead /\ s.skip
  <2>1. ParseByte(s, data, i) = [s EXCEPT !.skip = FALSE]
    BY <1>3 DEF ParseByte
  <2>2. [s EXCEPT !.skip = FALSE] \in Still(old)
    BY DEF Parsing, Still, Screens
  <2> QED
    BY <1>1, <2>1, <2>2
<1>4. CASE ~s.dead /\ ~s.skip
  <2>1. s \in Still(old)
    BY <1>4 DEF Parsing, Still
  <2>2. s.pstate \in {"ground", "esc", "charset", "csi", "osc"}
    BY DEF Parsing, Screens
  <2>3. ParseByte(s, data, i) = CASE s.pstate = "ground" -> GroundByte(s, byte, next)
                        [] s.pstate = "esc" -> EscByte(s, byte)
                        [] s.pstate = "charset" -> To(s, "ground")
                        [] s.pstate = "csi" -> CsiByte(s, byte)
                        [] s.pstate = "osc" -> OscByte(s, byte, next)
    BY <1>4, Zenon DEF ParseByte
  <2>4. Parsed(old, GroundByte(s, byte, next), next) /\ Parsed(old, OscByte(s, byte, next), next)
    BY <1>4, <2>1, GroundMade, OscMade
  <2>5. /\ EscByte(s, byte) \in Still(old) /\ CsiByte(s, byte) \in Still(old)
        /\ To(s, "ground") \in Still(old)
    BY <2>1, EscMade, CsiMade, StateMade
  <2> HIDE DEF byte
  <2> QED
    BY <1>1, <2>2, <2>3, <2>4, <2>5
<1> QED
  BY <1>2, <1>3, <1>4

\* One read: the bytes in turn.  The last one has no second byte after it, so it
\* leaves none to skip.
LEMMA FeedMade ==
    ASSUME NEW old, NEW s \in Still(old), NEW S, NEW data \in Seq(S)
    PROVE  Feed(s, data) \in Still(old)
<1> DEFINE n == Len(data)
           next(i) == IF i < Len(data) THEN data[i + 1] ELSE "none"
           F == [p \in Parsing(old) \X (1..n) |-> ParseByte(p[1], data, p[2])]
           q == [i \in 1..Len(data) |-> i]
           Eq(g) == g = [t \in SUBSET DOMAIN q |->
                            IF t = {} THEN s ELSE ParseByte(g[t \ {Max(t)}], data, q[Max(t)])]
           it == CHOOSE g : Eq(g)
<1>1. n \in Nat /\ DOMAIN q = 1..n /\ \A i \in 1..n : q[i] = i
  OBVIOUS
<1>2. \A t \in Parsing(old), i \in 1..n : ParseByte(t, data, i) \in Parsing(old)
  BY ParseMade DEF Parsed, Parsing
<1>3. \A t \in Parsing(old), i \in 1..n : F[<<t, i>>] = ParseByte(t, data, i)
  OBVIOUS
<1>4. StepsIn(F, Parsing(old), n)
  BY <1>2, <1>3 DEF StepsIn
<1>5. s \in Parsing(old)
  BY DEF Still, Parsing
<1> HIDE DEF F, q, n
<1>6. \E g : Eq(g)
  <2> DEFINE f == FoldFn(n, s, F)
             h == [t \in SUBSET (1..n) |-> f[t]]
  <2>1. FoldsIn(f, s, F, Parsing(old), n)
    BY <1>1, <1>4, <1>5, FoldFnIs
  <2> HIDE DEF f
  <2>2. ASSUME NEW t \in SUBSET (1..n)
        PROVE  h[t] = IF t = {} THEN s ELSE ParseByte(h[t \ {Max(t)}], data, q[Max(t)])
    <3>1. CASE t = {}
      BY <2>1, <3>1 DEF FoldsIn
    <3>2. CASE t # {}
      <4>1. Max(t) \in 1..n /\ t \ {Max(t)} \in SUBSET (1..n)
        BY <1>1, <3>2, MaxIndex
      <4> QED
        BY <1>1, <1>3, <2>1, <3>2, <4>1 DEF FoldsIn
    <3> QED
      BY <3>1, <3>2
  <2>3. Eq(h)
    BY <1>1, <2>2
  <2> QED
    BY <2>3
<1>7. Eq(it)
  BY <1>6
<1>8. Feed(s, data) = it[1..n]
  BY <1>1, Zenon DEF Feed, FoldLeft, MapThenFoldSet, q
<1> HIDE DEF it
<1>9. Folds(it, s, F, Parsing(old), n)
  <2>1. it[{}] = s
    BY <1>1, <1>7
  <2>2. ASSUME NEW t \in SUBSET (1..n), t # {}, it[t \ {Max(t)}] \in Parsing(old)
        PROVE  it[t] = F[<<it[t \ {Max(t)}], Max(t)>>]
    <3>1. Max(t) \in 1..n
      BY <1>1, <2>2, MaxIndex
    <3>2. it[t] = ParseByte(it[t \ {Max(t)}], data, q[Max(t)])
      BY <1>1, <1>7, <2>2
    <3> QED
      BY <1>1, <1>3, <2>2, <3>1, <3>2
  <2> QED
    BY <2>1, <2>2 DEF Folds
<1>10. /\ it[1..0] = s
       /\ \A i \in 0..n : it[1..i] \in Parsing(old)
       /\ \A i \in 1..n : it[1..i] = F[<<it[1..i - 1], i>>]
  BY <1>1, <1>4, <1>5, <1>9, FoldRun
<1>11. CASE n = 0
  BY <1>8, <1>10, <1>11
<1>12. CASE n # 0
  <2>1. n \in 1..n /\ n - 1 \in 0..n
    BY <1>1, <1>12
  <2>2. it[1..n] = ParseByte(it[1..n - 1], data, n) /\ it[1..n - 1] \in Parsing(old)
    BY <1>3, <1>10, <2>1
  <2>3. "none" = IF n < Len(data) THEN data[n + 1] ELSE "none"
    BY <1>1 DEF n
  <2>4. Parsed(old, it[1..n], "none")
    BY <2>2, <2>3, ParseMade
  <2> QED
    BY <1>8, <2>4 DEF Parsed, Still
<1> QED
  BY <1>11, <1>12

-----------------------------------------------------------------------------
(* The scrollback                                                           *)

\* The width of a line, trimmed or not.
LEMMA SolidIs ==
    ASSUME NEW row \in RowSet
    PROVE  /\ Solid(row) \subseteq 1..Len(row) /\ Len(row) \in Nat
           /\ Max(Solid(row) \cup {0}) \in 0..Len(row)
           /\ Trimmed(row) \in Int
           /\ Trimmed(row) \in Nat
<1>1. Solid(row) \subseteq 1..Len(row) /\ Len(row) \in Nat /\ Len(row) <= Cols
  BY DEF Solid, RowSet
<1> DEFINE n == Len(row)
           sol == Solid(row)
<1> HIDE DEF n, sol
<1>2. n \in Nat /\ sol \subseteq 0..n /\ sol \subseteq 1..n /\ 0 \in 0..n
  BY <1>1 DEF n, sol
<1>3. Max(sol \cup {0}) \in 0..n
  <2>1. sol \cup {0} \subseteq 0..n /\ sol \cup {0} # {}
    BY <1>2
  <2>2. Max(sol \cup {0}) \in sol \cup {0}
    BY <1>2, <2>1, MaxOfNat
  <2> QED
    BY <2>1, <2>2
<1>4. Trimmed(row) \in Nat
  <2>1. CASE sol = {}
    BY <2>1 DEF Trimmed, IsBlank, sol
  <2>2. CASE sol # {}
    <3> DEFINE a == Max(sol)
               b == Min(sol)
    <3>1. a \in sol /\ \A x \in sol : a >= x
      BY <1>2, <2>2, MaxOfNat
    <3>2. sol \subseteq Nat
      BY <1>2
    <3>3. b \in sol
      BY <2>2, <3>2, MinOfNat
    <3> HIDE DEF a, b
    <3>4. a - b + 1 \in Nat
      BY <3>1, <3>2, <3>3
    <3> QED
      BY <2>2, <3>4 DEF Trimmed, IsBlank, sol, a, b
  <2> QED
    BY <2>1, <2>2
<1> QED
  BY <1>1, <1>3, <1>4 DEF n, sol

LEMMA frameRowsMade ==
    ASSUME NEW old, NEW s \in Still(old)
    PROVE  frameRows(s) \in Seq(RowSet) /\ Len(frameRows(s)) = Rows
<1>1. ASSUME NEW row \in RowSet PROVE TrimRight(row) \in RowSet
  <2> DEFINE m == Max(Solid(row) \cup {0})
  <2>1. m \in 0..Len(row) /\ Len(row) \in Nat /\ Len(row) <= Cols /\ row \in Seq(Cells)
    BY SolidIs DEF RowSet
  <2> HIDE DEF m
  <2>2. SubSeq(row, 1, m) \in Seq(Cells) /\ Len(SubSeq(row, 1, m)) = m
    <3>1. SubSeq(row, 1, m) = [i \in 1..m |-> row[i]]
      BY <2>1
    <3>2. \A i \in 1..m : row[i] \in Cells
      BY <2>1
    <3> QED
      BY <2>1, <3>1, <3>2
  <2>3. m <= Cols
    BY <2>1, Sizes
  <2>4. SubSeq(row, 1, m) \in RowSet
    BY <2>2, <2>3 DEF RowSet
  <2> QED
    BY <2>4 DEF TrimRight, m
<1>2. ASSUME NEW i \in 1..Rows PROVE TrimRight(active(s).rows[i - 1]) \in RowSet
  <2>1. i - 1 \in 0..Rows - 1
    BY Sizes
  <2>2. active(s).rows[i - 1] \in RowSet
    BY <2>1, ActiveMade DEF Still
  <2> QED
    BY <1>1, <2>2
<1> DEFINE f == [i \in 1..Rows |-> TrimRight(active(s).rows[i - 1])]
<1>3. f \in Seq(RowSet) /\ Len(f) = Rows
  <2>1. Rows \in Nat /\ f = [i \in 1..Rows |-> f[i]] /\ \A i \in 1..Rows : f[i] \in RowSet
    BY <1>2, Sizes
  <2> HIDE DEF f, RowSet
  <2> QED
    BY <2>1
<1> QED
  BY <1>3 DEF frameRows

\* A screen with a scrollback in which every line is there once and known.
Lines == {h \in Seq(RowSet) : IsInjective(h)}
Keep(s, h) == [s EXCEPT !.history = h, !.histSeen = Range(h)]
Kept(s) == {Keep(s, h) : h \in Lines}

\* What becomes of a line that was in the last frame.
Found(t, cur, row) == row \in Range(cur) \cup Range(t.history) \/ Trimmed(row) < MinRunes

LEMMA KeepIs ==
    ASSUME NEW old, NEW s \in Screens(old), NEW h
    PROVE  /\ Keep(s, h).history = h /\ Keep(s, h).histSeen = Range(h)
           /\ \A g : Keep(Keep(s, h), g) = Keep(s, g)
  BY DEF Keep, Screens

\* A line that is recorded is new.
LEMMA RecordMade ==
    ASSUME NEW old, NEW s \in Screens(old), NEW cur, NEW row \in RowSet, NEW t \in Kept(s)
    PROVE  /\ Record(t, cur, row) \in Kept(s)
           /\ Found(Record(t, cur, row), cur, row)
           /\ Range(t.history) \subseteq Range(Record(t, cur, row).history)
           /\ Len(t.history) <= Len(Record(t, cur, row).history)
<1>1. PICK h \in Lines : t = Keep(s, h)
  BY DEF Kept
<1>2. t.history = h /\ t.histSeen = Range(h)
  BY <1>1, KeepIs
<1>3. h \in Seq(RowSet) /\ IsInjective(h) /\ Len(h) \in Nat
  BY DEF Lines
<1>4. CASE row \in Range(cur) \cup Range(h) \/ Trimmed(row) < MinRunes
  <2>1. Record(t, cur, row) = t
    BY <1>2, <1>4 DEF Record
  <2> QED
    BY <1>2, <1>3, <1>4, <2>1 DEF Found
<1>5. CASE ~ (row \in Range(cur) \cup Range(h) \/ Trimmed(row) < MinRunes)
  <2> DEFINE g == Append(h, row)
  <2>1. g \in Seq(RowSet) /\ Len(g) = Len(h) + 1
    BY <1>3, AppendOf
  <2>2. Range(g) = Range(h) \cup {row} /\ IsInjective(g)
    BY <1>3, <1>5, AppendRange
  <2>3. Record(t, cur, row) = [t EXCEPT !.history = g, !.histSeen = Range(h) \cup {row}]
    BY <1>2, <1>5 DEF Record
  <2> HIDE DEF g
  <2>4. Record(t, cur, row) = Keep(t, g)
    BY <2>2, <2>3 DEF Keep
  <2>5. Record(t, cur, row) = Keep(s, g)
    BY <1>1, <2>4, KeepIs
  <2>6. Record(t, cur, row).history = g
    BY <2>5, KeepIs
  <2>7. g \in Lines
    BY <2>1, <2>2 DEF Lines
  <2> QED
    BY <1>2, <1>3, <2>1, <2>2, <2>5, <2>6, <2>7 DEF Kept, Found
<1> QED
  BY <1>4, <1>5

\* The loop over the last frame.
Recorded(s, cur) == FoldLeft(LAMBDA t, row : Record(t, cur, row), s, s.lastFrame)

LEMMA RecordedMade ==
    ASSUME NEW old, NEW s \in Screens(old), NEW cur, s.lastFrame \in Seq(RowSet),
           s.history \in Lines, s.histSeen = Range(s.history)
    PROVE  LET t == Recorded(s, cur)
           IN  /\ t \in Kept(s)
               /\ \A x \in Range(s.lastFrame) : Found(t, cur, x)
               /\ Range(s.history) \subseteq Range(t.history)
               /\ Len(s.history) <= Len(t.history)
<1> DEFINE q == s.lastFrame
           n == Len(q)
           F == [p \in Kept(s) \X (1..n) |-> Record(p[1], cur, q[p[2]])]
           Eq(g) == g = [t \in SUBSET DOMAIN q |->
                            IF t = {} THEN s ELSE Record(g[t \ {Max(t)}], cur, q[Max(t)])]
           it == CHOOSE g : Eq(g)
           fold == Recorded(s, cur)
<1>1. q \in Seq(RowSet) /\ n \in Nat /\ DOMAIN q = 1..n /\ \A i \in 1..n : q[i] \in RowSet
  OBVIOUS
<1>2. s \in Kept(s)
  <2>1. s = Keep(s, s.history)
    BY DEF Keep, Screens
  <2> QED
    BY <2>1 DEF Kept
<1> HIDE DEF n, q
<1>3. \A t \in Kept(s), i \in 1..n : F[<<t, i>>] = Record(t, cur, q[i])
  OBVIOUS
<1>4. StepsIn(F, Kept(s), n)
  <2>1. \A t \in Kept(s), i \in 1..n : Record(t, cur, q[i]) \in Kept(s)
    BY <1>1, RecordMade
  <2> HIDE DEF F
  <2> QED
    BY <1>3, <2>1 DEF StepsIn
<1> HIDE DEF F
<1>5. \E g : Eq(g)
  <2> DEFINE f == FoldFn(n, s, F)
             h == [t \in SUBSET (1..n) |-> f[t]]
  <2>1. FoldsIn(f, s, F, Kept(s), n)
    BY <1>1, <1>2, <1>4, FoldFnIs
  <2> HIDE DEF f
  <2>2. ASSUME NEW t \in SUBSET (1..n)
        PROVE  h[t] = IF t = {} THEN s ELSE Record(h[t \ {Max(t)}], cur, q[Max(t)])
    <3>1. CASE t = {}
      BY <2>1, <3>1 DEF FoldsIn
    <3>2. CASE t # {}
      <4>1. Max(t) \in 1..n /\ t \ {Max(t)} \in SUBSET (1..n)
        BY <1>1, <3>2, MaxIndex
      <4> QED
        BY <1>1, <1>3, <2>1, <3>2, <4>1 DEF FoldsIn
    <3> QED
      BY <3>1, <3>2
  <2>3. Eq(h)
    BY <1>1, <2>2
  <2> QED
    BY <2>3
<1>6. Eq(it)
  BY <1>5
<1>7. fold = it[1..n]
  BY <1>1, Zenon DEF Recorded, FoldLeft, MapThenFoldSet, q
<1> HIDE DEF it, fold
<1>8. Folds(it, s, F, Kept(s), n)
  <2>1. it[{}] = s
    BY <1>1, <1>6
  <2>2. ASSUME NEW t \in SUBSET (1..n), t # {}, it[t \ {Max(t)}] \in Kept(s)
        PROVE  it[t] = F[<<it[t \ {Max(t)}], Max(t)>>]
    <3>1. Max(t) \in 1..n
      BY <1>1, <2>2, MaxIndex
    <3>2. it[t] = Record(it[t \ {Max(t)}], cur, q[Max(t)])
      BY <1>1, <1>6, <2>2
    <3> QED
      BY <1>1, <1>3, <2>2, <3>1, <3>2
  <2> QED
    BY <2>1, <2>2 DEF Folds
<1>9. /\ it[1..0] = s
      /\ \A i \in 0..n : it[1..i] \in Kept(s)
      /\ \A i \in 1..n : it[1..i] = F[<<it[1..i - 1], i>>]
  BY <1>1, <1>2, <1>4, <1>8, FoldRun
<1> DEFINE U == {m \in Nat : m <= n =>
                    /\ \A i \in 1..m : Found(it[1..m], cur, q[i])
                    /\ Range(s.history) \subseteq Range(it[1..m].history)
                    /\ Len(s.history) <= Len(it[1..m].history)}
<1>10. \A t \in Kept(s) : Len(t.history) \in Nat
  <2>1. \A h \in Lines : Len(h) \in Nat
    BY DEF Lines
  <2> QED
    BY <2>1, KeepIs DEF Kept
<1>11. 0 \in U
  <2>1. 1..0 = {} /\ Len(s.history) \in Nat
    BY <1>2, <1>10
  <2> QED
    BY <1>9, <2>1
<1>12. ASSUME NEW m \in Nat, m \in U PROVE m + 1 \in U
  <2> SUFFICES ASSUME m + 1 <= n
               PROVE  /\ \A i \in 1..m + 1 : Found(it[1..m + 1], cur, q[i])
                      /\ Range(s.history) \subseteq Range(it[1..m + 1].history)
                      /\ Len(s.history) <= Len(it[1..m + 1].history)
    OBVIOUS
  <2> DEFINE t == it[1..m]
             u == it[1..m + 1]
  <2>1. m <= n /\ m \in 0..n /\ m + 1 \in 1..n /\ (m + 1) - 1 = m /\ m + 1 \in 0..n
    BY <1>1
  <2>2. t \in Kept(s) /\ u \in Kept(s) /\ u = Record(t, cur, q[m + 1])
    BY <1>3, <1>9, <2>1
  <2>3. /\ \A i \in 1..m : Found(t, cur, q[i])
        /\ Range(s.history) \subseteq Range(t.history)
        /\ Len(s.history) <= Len(t.history)
    BY <1>12, <2>1
  <2> HIDE DEF t, u
  <2>4. /\ Found(u, cur, q[m + 1])
        /\ Range(t.history) \subseteq Range(u.history)
        /\ Len(t.history) <= Len(u.history)
    BY <1>1, <2>1, <2>2, RecordMade
  <2>5. ASSUME NEW i \in 1..m + 1 PROVE Found(u, cur, q[i])
    <3>1. i \in 1..m \/ i = m + 1
      OBVIOUS
    <3> QED
      BY <2>3, <2>4, <3>1 DEF Found
  <2>6. Len(s.history) <= Len(u.history)
    BY <1>2, <1>10, <2>2, <2>3, <2>4
  <2> QED
    BY <2>3, <2>4, <2>5, <2>6 DEF u
<1>13. n \in U
  <2> HIDE DEF U
  <2> QED
    BY <1>1, <1>11, <1>12, NatInduct
<1>14. /\ \A i \in 1..n : Found(fold, cur, q[i])
       /\ Range(s.history) \subseteq Range(fold.history)
       /\ Len(s.history) <= Len(fold.history)
  BY <1>1, <1>7, <1>13
<1>15. fold \in Kept(s)
  <2>1. n \in 0..n
    BY <1>1
  <2> QED
    BY <1>7, <1>9, <2>1
<1>16. \A x \in Range(q) : Found(fold, cur, x)
  BY <1>1, <1>14 DEF Range
<1> QED
  BY <1>14, <1>15, <1>16 DEF fold, q

\* What a sniff does to the scrollback.
LEMMA PersistMade ==
    ASSUME NEW s, s \in Still(s), s.lastFrame \in Seq(RowSet),
           s.history \in Lines, s.histSeen = Range(s.history),
           Len(s.history) <= HistoryCap
    PROVE  LET cur == frameRows(s)
           IN  \E h \in Lines :
                  /\ persistScroll(s) = [Keep(s, h) EXCEPT !.lastFrame = cur]
                  /\ Len(h) <= HistoryCap
                  /\ Len(h) < HistoryCap =>
                        /\ Len(s.history) < HistoryCap
                        /\ Range(s.history) \subseteq Range(h)
                        /\ \A x \in Range(s.lastFrame) :
                              x \in Range(cur) \cup Range(h) \/ Trimmed(x) < MinRunes
<1> DEFINE cur == frameRows(s)
           t == Recorded(s, cur)
<1>1. s \in Screens(s)
  BY DEF Still
<1>2. /\ t \in Kept(s)
      /\ \A x \in Range(s.lastFrame) : Found(t, cur, x)
      /\ Range(s.history) \subseteq Range(t.history)
      /\ Len(s.history) <= Len(t.history)
  BY <1>1, RecordedMade
<1>3. persistScroll(s) = DropOldest([t EXCEPT !.lastFrame = cur])
  BY DEF persistScroll, Recorded
<1> HIDE DEF t, cur
<1>4. PICK g \in Lines : t = Keep(s, g)
  BY <1>2 DEF Kept
<1>5. t.history = g /\ t.histSeen = Range(g)
  BY <1>1, <1>4, KeepIs
<1>6. g \in Seq(RowSet) /\ IsInjective(g) /\ Len(g) \in Nat /\ Len(s.history) \in Nat
  BY DEF Lines
<1> DEFINE v == [t EXCEPT !.lastFrame = cur]
           drop == clamp(Len(g) - HistoryCap, 0, Len(g))
           h == SubSeq(g, drop + 1, Len(g))
<1>7. /\ drop \in Nat /\ drop <= Len(g)
      /\ Len(g) - drop <= HistoryCap
      /\ Len(g) - drop < HistoryCap => drop = 0
  BY <1>6, Sizes DEF clamp
<1>8. v.history = g /\ v.histSeen = Range(g)
  BY <1>1, <1>4, <1>5 DEF Keep, Screens
<1>9. DropOldest(v) = [v EXCEPT !.history = h, !.histSeen = Range(g) \ Range(SubSeq(g, 1, drop))]
  BY <1>8 DEF DropOldest
<1> HIDE DEF drop
<1>10. /\ h \in Seq(RowSet) /\ Len(h) = Len(g) - drop /\ IsInjective(h)
       /\ Range(h) = Range(g) \ Range(SubSeq(g, 1, drop))
  BY <1>6, <1>7, DropOf
<1>11. drop = 0 => h = g
  BY <1>6
<1> HIDE DEF h
<1>12. persistScroll(s) = [v EXCEPT !.history = h, !.histSeen = Range(h)]
  BY <1>3, <1>9, <1>10
<1>13. [v EXCEPT !.history = h, !.histSeen = Range(h)] = [Keep(s, h) EXCEPT !.lastFrame = cur]
  BY <1>1, <1>4 DEF Keep, Screens
<1>14. h \in Lines
  BY <1>10 DEF Lines
<1>15. ASSUME Len(h) < HistoryCap
       PROVE  /\ Len(s.history) < HistoryCap
              /\ Range(s.history) \subseteq Range(h)
              /\ \A x \in Range(s.lastFrame) :
                    x \in Range(cur) \cup Range(h) \/ Trimmed(x) < MinRunes
  <2>1. h = g /\ Len(g) < HistoryCap
    BY <1>7, <1>10, <1>11, <1>15
  <2>2. Len(s.history) < HistoryCap
    BY <1>2, <1>5, <1>6, <2>1, Sizes
  <2> QED
    BY <1>2, <1>5, <2>1, <2>2 DEF Found
<1>16. Len(h) <= HistoryCap
  BY <1>7, <1>10
<1> QED
  BY <1>12, <1>13, <1>14, <1>15, <1>16 DEF cur

-----------------------------------------------------------------------------
(* The view of the reader                                                   *)

\* Showing a row adds at most that row.
LEMMA ShowMade ==
    ASSUME NEW out \in Seq(RowSet), NEW row \in RowSet
    PROVE  Show(out, row) \in Seq(RowSet)
<1> HIDE DEF RowSet
<1>1. Append(out, row) \in Seq(RowSet)
  BY AppendOf
<1> QED
  BY <1>1 DEF Show

Shown(rows) == FoldLeft(Show, <<>>, rows)

LEMMA ShownMade ==
    ASSUME NEW q \in Seq(RowSet)
    PROVE  Shown(q) \in Seq(RowSet)
<1> DEFINE n == Len(q)
           S == Seq(RowSet)
           F == [p \in S \X (1..n) |-> Show(p[1], q[p[2]])]
           Eq(g) == g = [t \in SUBSET DOMAIN q |->
                            IF t = {} THEN <<>> ELSE Show(g[t \ {Max(t)}], q[Max(t)])]
           it == CHOOSE g : Eq(g)
<1>1. n \in Nat /\ DOMAIN q = 1..n /\ \A i \in 1..n : q[i] \in RowSet
  OBVIOUS
<1>2. <<>> \in S
  OBVIOUS
<1>3. \A t \in S, i \in 1..n : F[<<t, i>>] = Show(t, q[i])
  OBVIOUS
<1>4. StepsIn(F, S, n)
  <2>1. \A t \in S, i \in 1..n : Show(t, q[i]) \in S
    BY <1>1, ShowMade
  <2> HIDE DEF F, S
  <2> QED
    BY <1>3, <2>1 DEF StepsIn
<1> HIDE DEF F, S, n
<1>5. \E g : Eq(g)
  <2> DEFINE f == FoldFn(n, <<>>, F)
             h == [t \in SUBSET (1..n) |-> f[t]]
  <2>1. FoldsIn(f, <<>>, F, S, n)
    BY <1>1, <1>2, <1>4, FoldFnIs
  <2> HIDE DEF f
  <2>2. ASSUME NEW t \in SUBSET (1..n)
        PROVE  h[t] = IF t = {} THEN <<>> ELSE Show(h[t \ {Max(t)}], q[Max(t)])
    <3>1. CASE t = {}
      BY <2>1, <3>1 DEF FoldsIn
    <3>2. CASE t # {}
      <4>1. Max(t) \in 1..n /\ t \ {Max(t)} \in SUBSET (1..n)
        BY <1>1, <3>2, MaxIndex
      <4> QED
        BY <1>1, <1>3, <2>1, <3>2, <4>1 DEF FoldsIn
    <3> QED
      BY <3>1, <3>2
  <2>3. Eq(h)
    BY <1>1, <2>2
  <2> QED
    BY <2>3
<1>6. Eq(it)
  BY <1>5
<1>7. Shown(q) = it[1..n]
  BY <1>1, Zenon DEF Shown, FoldLeft, MapThenFoldSet
<1> HIDE DEF it
<1>8. Folds(it, <<>>, F, S, n)
  <2>1. it[{}] = <<>>
    BY <1>1, <1>6
  <2>2. ASSUME NEW t \in SUBSET (1..n), t # {}, it[t \ {Max(t)}] \in S
        PROVE  it[t] = F[<<it[t \ {Max(t)}], Max(t)>>]
    <3>1. Max(t) \in 1..n
      BY <1>1, <2>2, MaxIndex
    <3>2. it[t] = Show(it[t \ {Max(t)}], q[Max(t)])
      BY <1>1, <1>6, <2>2
    <3> QED
      BY <1>1, <1>3, <2>2, <3>1, <3>2
  <2> QED
    BY <2>1, <2>2 DEF Folds
<1>9. it[1..n] \in S
  BY <1>1, <1>2, <1>4, <1>8, FoldRun
<1> QED
  BY <1>7, <1>9 DEF S

\* The view has a length.
LEMMA ViewMade ==
    ASSUME NEW old, NEW s \in Still(old), s.history \in Seq(RowSet)
    PROVE  ViewCount(s) \in Nat
<1>1. frameRows(s) \in Seq(RowSet)
  BY frameRowsMade
<1>2. Shown(frameRows(s)) \in Seq(RowSet)
  BY <1>1, ShownMade
<1>3. viewRows(s) = s.history \o Shown(frameRows(s))
  BY DEF viewRows, Shown
<1>4. \A p, q \in Seq(RowSet) : Len(p \o q) \in Nat
  OBVIOUS
<1> HIDE DEF RowSet
<1> QED
  BY <1>2, <1>3, <1>4 DEF ViewCount

-----------------------------------------------------------------------------
(* The state of the view                                                    *)

Dirs == {"none", "open", "up", "down", "top", "bottom", "off"}
Requests(n) == [dir : Dirs, total : Nat, end : Nat, msg : 0..n]

\* Between two steps: the screen a read leaves, and a scrollback without
\* repetitions that fits.
ScreenInv ==
    /\ scr \in Still(scr)
    /\ scr.history \in Lines /\ scr.histSeen = Range(scr.history)
    /\ Len(scr.history) <= HistoryCap
    /\ scr.lastFrame \in Seq(RowSet)

\* What was seen was worth recording: a sniff that drops a line from the frame
\* drops it only if it records it.
SeenInv ==
    /\ \A x \in seen : Trimmed(x) >= MinRunes
    /\ NothingSeenIsForgotten

RelayInv ==
    /\ relayAt \in {"idle", "again", "pick", "create", "store"}
    /\ live \in Nat /\ editing \in 0..live /\ msgID \in 0..live

\* A reader that moves or sets the position has counted a line.
ReaderInv ==
    /\ histEnd \in Nat /\ pages \in Nat /\ histMsgID \in 0..pages
    /\ asked \in [Readers -> Requests(pages)]
    /\ DOMAIN readerAt = Readers
    /\ \A h \in Readers : readerAt[h] \in {"move", "set"} => asked[h].total # 0

ViewInv == ScreenInv /\ SeenInv /\ RelayInv /\ ReaderInv

LEMMA StillOf ==
    ASSUME NEW old, NEW s \in Still(old)
    PROVE  /\ s \in Still(s)
           /\ s.history = old.history /\ s.histSeen = old.histSeen
           /\ s.lastFrame = old.lastFrame
  BY DEF Still, Screens

LEMMA NewScreenMade ==
    /\ NewScreen \in Still(NewScreen)
    /\ NewScreen.history = <<>> /\ NewScreen.histSeen = {} /\ NewScreen.lastFrame = <<>>
<1>1. newBuffer \in Buffers
  BY newBufferMade
<1>2. 0 \in 0..Rows - 1 /\ 0 \in 0..Cols - 1
  BY Sizes
<1>3. /\ NewScreen.main = newBuffer /\ NewScreen.alt = newBuffer
      /\ NewScreen.history = <<>> /\ NewScreen.histSeen = {} /\ NewScreen.lastFrame = <<>>
  BY DEF NewScreen
<1> HIDE DEF newBuffer, Buffers, Cells
<1>4. NewScreen \in Screens(NewScreen)
  BY <1>1, <1>2, <1>3 DEF NewScreen, Screens
<1> QED
  BY <1>3, <1>4 DEF Still, NewScreen

LEMMA ViewInit == Init => ViewInv
<1> SUFFICES ASSUME Init PROVE ViewInv
  OBVIOUS
<1>1. ScreenInv
  <2>1. scr = NewScreen
    BY DEF Init
  <2>2. <<>> \in Lines /\ Range(<<>>) = {} /\ Len(<<>>) <= HistoryCap
        /\ <<>> \in Seq(RowSet)
    BY Sizes DEF Lines, IsInjective, Range
  <2> QED
    BY <2>1, <2>2, NewScreenMade DEF ScreenInv
<1>2. SeenInv
  BY DEF Init, SeenInv, NothingSeenIsForgotten
<1>3. RelayInv
  BY DEF Init, RelayInv
<1>4. ReaderInv
  BY DEF Init, ReaderInv, Requests, Dirs, NoRequest
<1> QED
  BY <1>1, <1>2, <1>3, <1>4 DEF ViewInv

\* A read of the pty leaves the scrollback as it is ...
LEMMA PumpScreen ==
    ASSUME ScreenInv, SeenInv, NEW chunk \in Chunks, Pump(chunk)
    PROVE  ScreenInv' /\ SeenInv'
<1>1. chunk \in Seq(STRING)
  BY ViewAssumption
<1>2. scr \in Still(scr) /\ scr' = Feed(scr, chunk) /\ seen' = seen
  BY DEF Pump, ScreenInv
<1>3. scr' \in Still(scr)
  BY <1>1, <1>2, FeedMade
<1>4. /\ scr' \in Still(scr')
      /\ scr'.history = scr.history /\ scr'.histSeen = scr.histSeen
      /\ scr'.lastFrame = scr.lastFrame
  BY <1>3, StillOf
<1>5. ScreenInv'
  BY <1>4 DEF ScreenInv
<1>6. SeenInv'
  BY <1>2, <1>4 DEF SeenInv, NothingSeenIsForgotten
<1> QED
  BY <1>5, <1>6

\* The screen a sniff leaves.
Snap(s, h, cur) == [Keep(s, h) EXCEPT !.lastFrame = cur]
Flag(s, d) == [s EXCEPT !.dirty = d]
Holds(s, h, cur) ==
    s \in Still(s) /\ s.history = h /\ s.histSeen = Range(h) /\ s.lastFrame = cur

LEMMA SnapMade ==
    ASSUME NEW s, s \in Still(s), NEW h, NEW cur
    PROVE  Holds(Snap(s, h, cur), h, cur)
<1> DEFINE r == Snap(s, h, cur)
<1>1. s \in Screens(s) /\ ~s.skip
  BY DEF Still
<1>2. r = [s EXCEPT !.history = h, !.histSeen = Range(h), !.lastFrame = cur]
  BY <1>1 DEF Keep, Snap, Screens
<1>3. r.history = h /\ r.histSeen = Range(h) /\ r.lastFrame = cur /\ r.skip = s.skip
  BY <1>1, <1>2 DEF Screens
<1>4. r \in Screens(r)
  BY <1>1, <1>2, <1>3 DEF Screens
<1> QED
  BY <1>1, <1>3, <1>4 DEF Still, Holds

LEMMA FlagMade ==
    ASSUME NEW s, NEW h, NEW cur, Holds(s, h, cur), NEW d \in BOOLEAN
    PROVE  Holds(Flag(s, d), h, cur)
<1> DEFINE t == Flag(s, d)
<1>1. /\ s \in Screens(s) /\ ~s.skip
      /\ s.history = h /\ s.histSeen = Range(h) /\ s.lastFrame = cur
  BY DEF Still, Holds
<1>2. t.history = h /\ t.histSeen = Range(h) /\ t.lastFrame = cur /\ t.skip = s.skip
  BY <1>1 DEF Screens, Flag
<1>3. t \in Screens(t)
  BY <1>1, <1>2 DEF Screens, Flag
<1> QED
  BY <1>1, <1>2, <1>3 DEF Still, Holds

\* ... and a sniff records what has left the frame.
LEMMA SniffScreen ==
    ASSUME ScreenInv, SeenInv, NEW d \in BOOLEAN,
           scr' = [persistScroll(scr) EXCEPT !.dirty = d] \/ scr' = persistScroll(scr),
           seen' = seen \cup Worth(scr)
    PROVE  ScreenInv' /\ SeenInv'
<1> DEFINE cur == frameRows(scr)
<1>1. /\ scr \in Still(scr) /\ scr.lastFrame \in Seq(RowSet)
      /\ scr.history \in Lines /\ scr.histSeen = Range(scr.history)
      /\ Len(scr.history) <= HistoryCap
  BY DEF ScreenInv
<1>2. PICK h \in Lines :
         /\ persistScroll(scr) = [Keep(scr, h) EXCEPT !.lastFrame = cur]
         /\ Len(h) <= HistoryCap
         /\ Len(h) < HistoryCap =>
               /\ Len(scr.history) < HistoryCap
               /\ Range(scr.history) \subseteq Range(h)
               /\ \A x \in Range(scr.lastFrame) :
                     x \in Range(cur) \cup Range(h) \/ Trimmed(x) < MinRunes
  BY <1>1, PersistMade
<1>3. cur \in Seq(RowSet)
  BY <1>1, frameRowsMade
<1> HIDE DEF cur
<1>4. /\ scr' \in Still(scr')
      /\ scr'.history = h /\ scr'.histSeen = Range(h) /\ scr'.lastFrame = cur
  <2>1. scr' = Snap(scr, h, cur) \/ scr' = Flag(Snap(scr, h, cur), d)
    BY <1>2 DEF Snap, Flag
  <2>2. Holds(Snap(scr, h, cur), h, cur)
    BY <1>1, SnapMade
  <2>3. Holds(Flag(Snap(scr, h, cur), d), h, cur)
    BY <2>2, FlagMade
  <2> QED
    BY <2>1, <2>2, <2>3 DEF Holds
<1>5. ScreenInv'
  BY <1>2, <1>3, <1>4 DEF ScreenInv
<1>6. \A x \in Worth(scr) : x \in Range(cur) /\ Trimmed(x) >= MinRunes
  BY DEF Worth, cur
<1>7. ASSUME Len(h) < HistoryCap, NEW x \in seen
      PROVE  x \in Range(h) \cup Range(cur)
  <2>1. x \in Range(scr.history) \cup Range(scr.lastFrame)
    BY <1>1, <1>2, <1>7 DEF SeenInv, NothingSeenIsForgotten
  <2>2. CASE x \in Range(scr.history)
    BY <1>2, <1>7, <2>2
  <2>3. CASE x \in Range(scr.lastFrame)
    <3>1. x \in RowSet
      BY <1>1, <2>3 DEF Range
    <3>2. Trimmed(x) \in Nat /\ Trimmed(x) >= MinRunes
      BY <1>7, <3>1, SolidIs DEF SeenInv
    <3>3. ~ (Trimmed(x) < MinRunes)
      BY <3>2, Sizes
    <3> QED
      BY <1>2, <1>7, <2>3, <3>3
  <2> QED
    BY <2>1, <2>2, <2>3
<1>8. SeenInv'
  BY <1>4, <1>6, <1>7 DEF SeenInv, NothingSeenIsForgotten
<1> QED
  BY <1>5, <1>8

LEMMA SetMade ==
    ASSUME NEW n \in Nat, NEW a \in Requests(n)
    PROVE  NewPosition(a) \in Nat
<1>1. Page \in Nat /\ Step \in Nat
  BY ViewAssumption DEF Step
<1>2. a.total \in Nat /\ a.end \in Nat
  BY DEF Requests
<1> QED
  BY <1>1, <1>2 DEF NewPosition, agentHistoryTop, agentHistoryViewBounds, clamp

\* A message that is edited has been created.
LEMMA RelayStep ==
    ASSUME RelayInv, Relay
    PROVE  RelayInv'
<1> USE DEF RelayInv
<1>1. CASE Tick
  BY <1>1 DEF Tick, Sniff
<1>2. CASE TickRenderFails
  BY <1>2 DEF TickRenderFails, Sniff
<1>3. CASE TickAgain
  BY <1>3 DEF TickAgain, Sniff
<1>4. CASE TickPanics
  BY <1>4 DEF TickPanics
<1>5. CASE PickMessage
  BY <1>5 DEF PickMessage, AtRelay
<1>6. CASE Create
  BY <1>6 DEF Create, AtRelay
<1>7. CASE Store
  BY <1>7 DEF Store, AtRelay
<1> QED
  BY <1>1, <1>2, <1>3, <1>4, <1>5, <1>6, <1>7 DEF Relay

LEMMA RelayScreen ==
    ASSUME ScreenInv, SeenInv, Relay
    PROVE  ScreenInv' /\ SeenInv'
<1>1. CASE Tick \/ TickRenderFails \/ TickAgain
  <2>1. /\ scr' = [persistScroll(scr) EXCEPT !.dirty = FALSE]
        /\ seen' = seen \cup Worth(scr)
    BY <1>1 DEF Tick, TickRenderFails, TickAgain, Sniff
  <2> QED
    BY <2>1, SniffScreen
<1>2. CASE TickPanics
  BY <1>2, SniffScreen DEF TickPanics
<1>3. CASE PickMessage \/ Create \/ Store
  <2>1. scr' = scr /\ seen' = seen
    BY <1>3 DEF PickMessage, Create, Store
  <2> QED
    BY <2>1 DEF ScreenInv, SeenInv, NothingSeenIsForgotten
<1> QED
  BY <1>1, <1>2, <1>3 DEF Relay

LEMMA RelayReader ==
    ASSUME ReaderInv, Relay
    PROVE  ReaderInv'
  BY DEF ReaderInv, Relay, Tick, TickRenderFails, TickAgain, TickPanics,
     PickMessage, Create, Store, readerVars

\* One step of a reader: only its own request changes.
LEMMA AskedMade ==
    ASSUME ReaderInv, NEW h \in Readers, NEW a, NEW here,
           pages' \in Nat, pages <= pages',
           a \in Requests(pages'),
           asked' = [asked EXCEPT ![h] = a],
           readerAt' = [readerAt EXCEPT ![h] = here],
           here \in {"move", "set"} => a.total # 0,
           histEnd' \in Nat, histMsgID' \in 0..pages'
    PROVE  ReaderInv'
<1>1. /\ asked \in [Readers -> Requests(pages)] /\ DOMAIN readerAt = Readers /\ pages \in Nat
      /\ \A k \in Readers : readerAt[k] \in {"move", "set"} => asked[k].total # 0
  BY DEF ReaderInv
<1>2. Requests(pages) \subseteq Requests(pages')
  <2>1. 0..pages \subseteq 0..pages'
    BY <1>1
  <2> QED
    BY <2>1 DEF Requests
<1>3. asked' \in [Readers -> Requests(pages')]
  BY <1>1, <1>2
<1>4. DOMAIN readerAt' = Readers
  BY <1>1
<1>5. \A k \in Readers : readerAt'[k] \in {"move", "set"} => asked'[k].total # 0
  BY <1>1
<1> QED
  BY <1>3, <1>4, <1>5 DEF ReaderInv

LEMMA ReaderStep ==
    ASSUME ScreenInv, ReaderInv, NEW h \in Readers, Reader(h)
    PROVE  ReaderInv'
<1> DEFINE a == asked[h]
<1>1. /\ histEnd \in Nat /\ pages \in Nat /\ histMsgID \in 0..pages
      /\ asked \in [Readers -> Requests(pages)] /\ DOMAIN readerAt = Readers
      /\ readerAt[h] \in {"move", "set"} => a.total # 0
      /\ a \in Requests(pages)
  BY DEF ReaderInv
<1>2. a.total \in Nat /\ a.end \in Nat /\ a.msg \in 0..pages /\ a.dir \in Dirs
  BY <1>1 DEF Requests
<1>3. ViewCount(scr) \in Nat
  BY ViewMade DEF ScreenInv, Lines
<1>11. ASSUME NEW new \in Requests(pages), NEW here,
              asked' = [asked EXCEPT ![h] = new],
              readerAt' = [readerAt EXCEPT ![h] = here],
              here \in {"move", "set"} => new.total # 0,
              histEnd' \in Nat, histMsgID' \in 0..pages, pages' = pages
       PROVE  ReaderInv'
  <2>1. pages <= pages' /\ pages' \in Nat
    BY <1>1, <1>11
  <2>2. new \in Requests(pages') /\ histMsgID' \in 0..pages'
    BY <1>11
  <2> QED
    BY <1>11, <2>1, <2>2, AskedMade
<1>4. ASSUME NEW dir \in {"open", "up", "down", "top", "bottom", "off"}, Ask(h, dir)
      PROVE  ReaderInv'
  <2> DEFINE new == IF ViewCount(scr) = 0 THEN a
                    ELSE [a EXCEPT !.dir = dir, !.total = ViewCount(scr)]
             here == IF ViewCount(scr) = 0 THEN "idle"
                     ELSE IF dir = "off" THEN "bounds" ELSE "move"
  <2>1. /\ asked' = [asked EXCEPT ![h] = new] /\ readerAt' = [readerAt EXCEPT ![h] = here]
        /\ histEnd' = histEnd /\ histMsgID' = histMsgID /\ pages' = pages
    BY <1>4 DEF Ask, AtReader
  <2>2. new \in Requests(pages) /\ (here \in {"move", "set"} => new.total # 0)
    BY <1>1, <1>2, <1>3 DEF Requests, Dirs
  <2> HIDE DEF new, here
  <2> QED
    BY <1>1, <2>1, <2>2, <1>11
<1>5. CASE ReadPosition(h)
  <2> DEFINE new == [a EXCEPT !.end = IF histEnd = 0 THEN a.total ELSE histEnd]
  <2>1. /\ asked' = [asked EXCEPT ![h] = new] /\ readerAt' = [readerAt EXCEPT ![h] = "set"]
        /\ histEnd' = histEnd /\ histMsgID' = histMsgID /\ pages' = pages
        /\ readerAt[h] = "move"
    BY <1>5 DEF ReadPosition, AtReader
  <2>2. new \in Requests(pages) /\ new.total # 0
    BY <1>1, <1>2, <2>1 DEF Requests
  <2> HIDE DEF new
  <2> QED
    BY <1>1, <2>1, <2>2, <1>11
<1>6. CASE SetPosition(h)
  <2>1. /\ asked' = asked /\ readerAt' = [readerAt EXCEPT ![h] = "bounds"]
        /\ histEnd' = NewPosition(a) /\ histMsgID' = histMsgID /\ pages' = pages
    BY <1>6 DEF SetPosition, AtReader
  <2>2. NewPosition(a) \in Nat
    BY <1>1, SetMade
  <2>3. asked' = [asked EXCEPT ![h] = a]
    BY <1>1, <2>1
  <2> HIDE DEF a
  <2> QED
    BY <1>1, <2>1, <2>2, <2>3, <1>11
<1>7. CASE ReadBounds(h)
  <2> DEFINE new == [NoRequest EXCEPT !.end = histEnd, !.msg = histMsgID]
  <2>1. /\ asked' = [asked EXCEPT ![h] = new] /\ readerAt' = [readerAt EXCEPT ![h] = "rows"]
        /\ histEnd' = histEnd /\ histMsgID' = histMsgID /\ pages' = pages
    BY <1>7 DEF ReadBounds, AtReader
  <2>2. new \in Requests(pages)
    BY <1>1 DEF Requests, NoRequest, Dirs
  <2> HIDE DEF new
  <2> QED
    BY <1>1, <2>1, <2>2, <1>11
<1>8. CASE ReadRows(h)
  <2> DEFINE rows == ViewRows(scr, a.end, Page)
             new == IF rows = <<>> THEN NoRequest ELSE [a EXCEPT !.end = 0]
             here == IF rows = <<>> THEN "idle" ELSE "paint"
  <2>1. /\ asked' = [asked EXCEPT ![h] = new] /\ readerAt' = [readerAt EXCEPT ![h] = here]
        /\ histEnd' = histEnd /\ histMsgID' = histMsgID /\ pages' = pages
    BY <1>8 DEF ReadRows, AtReader
  <2> HIDE DEF rows
  <2>2. new \in Requests(pages) /\ here \notin {"move", "set"}
    BY <1>1 DEF Requests, NoRequest, Dirs
  <2> HIDE DEF new, here
  <2> QED
    BY <1>1, <2>1, <2>2, <1>11
<1>9. CASE Paint(h)
  <2>1. PICK ok \in Works("reader") :
          LET created == ok /\ asked[h].msg = 0
          IN  /\ AtReader(h, "paint", IF created THEN "keep" ELSE "idle")
              /\ pages' = IF created THEN pages + 1 ELSE pages
              /\ asked' = [asked EXCEPT ![h].msg = IF created THEN pages + 1 ELSE 0]
              /\ UNCHANGED <<Unread, histEnd, histMsgID>>
    BY <1>9 DEF Paint
  <2> DEFINE created == ok /\ a.msg = 0
             new == [a EXCEPT !.msg = IF created THEN pages + 1 ELSE 0]
             here == IF created THEN "keep" ELSE "idle"
  <2>2. /\ asked' = [asked EXCEPT ![h] = new] /\ readerAt' = [readerAt EXCEPT ![h] = here]
        /\ histEnd' = histEnd /\ histMsgID' = histMsgID
        /\ pages' = IF created THEN pages + 1 ELSE pages
    BY <2>1 DEF AtReader
  <2>3. pages' \in Nat /\ pages <= pages' /\ histMsgID' \in 0..pages' /\ histEnd' \in Nat
    BY <1>1, <2>2
  <2>4. (IF created THEN pages + 1 ELSE 0) \in 0..pages'
    BY <1>1, <2>2
  <2>5. new \in Requests(pages') /\ here \notin {"move", "set"}
    BY <1>1, <2>4 DEF Requests
  <2> HIDE DEF new, here
  <2> QED
    BY <2>2, <2>3, <2>5, AskedMade
<1>10. CASE KeepMessage(h)
  <2>1. /\ asked' = [asked EXCEPT ![h] = NoRequest]
        /\ readerAt' = [readerAt EXCEPT ![h] = "idle"]
        /\ histEnd' = histEnd /\ histMsgID' = a.msg /\ pages' = pages
    BY <1>10 DEF KeepMessage, AtReader
  <2>2. NoRequest \in Requests(pages)
    BY <1>1 DEF Requests, NoRequest, Dirs
  <2> QED
    BY <1>1, <1>2, <2>1, <2>2, <1>11
<1> QED
  BY <1>4, <1>5, <1>6, <1>7, <1>8, <1>9, <1>10 DEF Reader

LEMMA ViewStep == ViewInv /\ [Next]_vars => ViewInv'
<1> SUFFICES ASSUME ViewInv, [Next]_vars PROVE ViewInv'
  OBVIOUS
<1> USE DEF ViewInv
<1>1. ASSUME scr' = scr, seen' = seen PROVE ScreenInv' /\ SeenInv'
  BY <1>1 DEF ScreenInv, SeenInv, NothingSeenIsForgotten
<1>2. ASSUME UNCHANGED <<relayAt, editing, live>>, msgID' \in {0, msgID} PROVE RelayInv'
  BY <1>2 DEF RelayInv
<1>3. ASSUME UNCHANGED readerVars PROVE ReaderInv'
  BY <1>3 DEF ReaderInv, readerVars
<1>4. CASE UNCHANGED vars
  <2>1. /\ scr' = scr /\ seen' = seen /\ UNCHANGED readerVars
        /\ UNCHANGED <<relayAt, editing, live>> /\ msgID' = msgID
    BY <1>4 DEF vars, relayVars
  <2> QED
    BY <1>1, <1>2, <1>3, <2>1
<1>5. ASSUME NEW chunk \in Chunks, Pump(chunk) PROVE ViewInv'
  <2>1. UNCHANGED readerVars /\ UNCHANGED <<relayAt, editing, live>> /\ msgID' = msgID
    BY <1>5 DEF Pump, relayVars
  <2>2. ScreenInv' /\ SeenInv'
    BY <1>5, PumpScreen
  <2> QED
    BY <1>2, <1>3, <2>1, <2>2
<1>6. CASE resetTurn \/ Claim
  <2>1. /\ scr' = scr /\ seen' = seen /\ UNCHANGED readerVars
        /\ UNCHANGED <<relayAt, editing, live>> /\ msgID' \in {0, msgID}
    BY <1>6 DEF resetTurn, Claim, relayVars
  <2> QED
    BY <1>1, <1>2, <1>3, <2>1
<1>7. CASE Relay
  BY <1>7, RelayScreen, RelayStep, RelayReader
<1>8. ASSUME NEW h \in Readers, Reader(h) PROVE ViewInv'
  <2>1. /\ scr' = scr /\ seen' = seen
        /\ UNCHANGED <<relayAt, editing, live>> /\ msgID' = msgID
    BY <1>8 DEF Reader, Ask, ReadPosition, SetPosition, ReadBounds, ReadRows,
       Paint, KeepMessage, Unread, relayVars
  <2>2. ReaderInv'
    BY <1>8, ReaderStep
  <2> QED
    BY <1>1, <1>2, <2>1, <2>2
<1> QED
  BY <1>4, <1>5, <1>6, <1>7, <1>8 DEF Next

LEMMA ViewHolds == Spec => []ViewInv
  BY ViewInit, ViewStep, PTL DEF Spec

\* Whatever the pty returns, in reads cut at any byte, the cursor of each buffer
\* and the saved one stay on the screen, no row is longer than the screen is
\* wide, and no byte is left to skip by the next read (screen.go, Feed).
THEOREM ViewTypeCorrect == Spec => []ViewTypeOK
<1>1. ASSUME NEW b \in Buffers PROVE BufferOK(b)
  BY DEF Buffers, BufferOK, RowSet, Cells
<1>2. ViewInv => ViewTypeOK
  <2> SUFFICES ASSUME ViewInv PROVE ViewTypeOK
    OBVIOUS
  <2>1. scr \in Still(scr)
    BY DEF ViewInv, ScreenInv
  <2>2. scr.main \in Buffers /\ scr.alt \in Buffers
    BY <2>1 DEF Still, Screens
  <2>3. /\ scr.saved.r \in 0..Rows - 1 /\ scr.saved.c \in 0..Cols - 1
        /\ scr.pstate \in {"ground", "esc", "charset", "csi", "osc"} /\ ~scr.skip
    BY <2>1 DEF Still, Screens
  <2> QED
    BY <1>1, <2>2, <2>3 DEF ViewTypeOK, ViewInv, RelayInv, ReaderInv
<1> QED
  BY <1>2, ViewHolds, PTL

\* The scrollback holds no line twice, knows exactly the lines it holds, and is
\* never longer than its cap (screen.go, persistScroll).
THEOREM ScrollbackIsOnce == Spec => []ScrollbackOnce
<1>1. ViewInv => ScrollbackOnce
  BY DEF ViewInv, ScreenInv, ScrollbackOnce, Lines
<1> QED
  BY <1>1, ViewHolds, PTL

\* A line worth recording that a sniff has seen is not forgotten until the
\* scrollback is full: a line that leaves the frame is recorded by the sniff
\* that misses it, and is in the frame before it until then (screen.go,
\* persistScroll).
THEOREM SeenIsKept == Spec => []NothingSeenIsForgotten
<1>1. ViewInv => NothingSeenIsForgotten
  BY DEF ViewInv, SeenInv
<1> QED
  BY <1>1, ViewHolds, PTL

\* Up and down move by a page less the overlap: for every number of lines and
\* every position, one of a view that has become shorter included, the new page
\* is in range and shares a line with the old one (agent.go,
\* agentHistoryViewBounds).
THEOREM PagesOverlap ==
  ASSUME NEW total \in Nat \ {0}, NEW end \in Nat, NEW dir \in {"up", "down"}
  PROVE  LET before == clamp(end, 1, total)
             after == agentHistoryViewBounds(total, end, dir)
         IN  /\ after \in 1..total
             /\ Window(before) \cap Window(after) # {}
             /\ dir = "up" => after <= before
             /\ dir = "down" => after >= before
<1> DEFINE before == clamp(end, 1, total)
           after == agentHistoryViewBounds(total, end, dir)
<1>1. Step \in Nat \ {0} /\ Page \in Nat /\ Step < Page
  BY ViewAssumption DEF Step
<1>2. before \in 1..total /\ after \in 1..total
  BY <1>1 DEF clamp, agentHistoryViewBounds
<1>3. /\ dir = "up" => after <= before /\ before - after <= Step
      /\ dir = "down" => after >= before /\ after - before <= Step
  BY <1>1 DEF clamp, agentHistoryViewBounds
<1> HIDE DEF before, after
<1>4. CASE dir = "up"
  <2>1. after \in Window(before) /\ after \in Window(after)
    BY <1>1, <1>2, <1>3, <1>4 DEF Window, clamp
  <2> QED
    BY <1>2, <1>3, <1>4, <2>1 DEF before, after
<1>5. CASE dir = "down"
  <2>1. before \in Window(before) /\ before \in Window(after)
    BY <1>1, <1>2, <1>3, <1>5 DEF Window, clamp
  <2> QED
    BY <1>2, <1>3, <1>5, <2>1 DEF before, after
<1> QED
  BY <1>4, <1>5

\* A reader that goes up or down shows a window that overlaps the one before it
\* and stays within the lines it counted, however many other readers move the
\* position between its steps (telegram/agent.go, moveAgentHistory).
THEOREM ScrollIsContinuous == Spec => ScrollSkipsNothing
<1>1. ASSUME ViewInv, NEW h \in Readers, SetPosition(h),
             asked[h].dir \in {"up", "down"}
      PROVE  Continues(h)
  <2> DEFINE a == asked[h]
  <2>1. a \in Requests(pages) /\ readerAt[h] = "set" /\ a.total # 0
    BY <1>1 DEF ViewInv, ReaderInv, SetPosition, AtReader
  <2>2. a.total \in Nat \ {0} /\ a.end \in Nat /\ a.dir \in {"up", "down"}
    BY <1>1, <2>1 DEF Requests
  <2>3. histEnd' = agentHistoryViewBounds(a.total, a.end, a.dir)
    BY <1>1, <2>2 DEF SetPosition, NewPosition
  <2> HIDE DEF a
  <2>4. LET before == clamp(a.end, 1, a.total)
            after == agentHistoryViewBounds(a.total, a.end, a.dir)
        IN  /\ after \in 1..a.total
            /\ Window(before) \cap Window(after) # {}
            /\ a.dir = "up" => after <= before
            /\ a.dir = "down" => after >= before
    BY <2>2, PagesOverlap
  <2> QED
    BY <2>3, <2>4 DEF Continues, a
<1>2. ViewInv => [\A h \in Readers : Continues(h)]_vars
  BY <1>1 DEF Continues
<1> QED
  BY <1>2, ViewHolds, PTL DEF ScrollSkipsNothing
=============================================================================
