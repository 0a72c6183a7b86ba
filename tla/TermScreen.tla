----------------------------- MODULE TermScreen -----------------------------
(***************************************************************************)
(* The screen of internal/agent/screen.go: what a chunk of terminal output *)
(* does to the buffers, the cursor and the parser, and what the scrollback *)
(* keeps of it.  A screen is a record, a row the sequence of its runes     *)
(* (rows are as long as what was written into them), and a chunk a         *)
(* sequence of byte classes.  Rows and columns are numbered from 0.        *)
(*                                                                         *)
(* Colours are left out: SGR sequences change no rune.  "dead" stands for  *)
(* an index out of range: the pump goroutine has no recover, so the panic  *)
(* ends the process.                                                       *)
(***************************************************************************)
EXTENDS Integers, Sequences, SequencesExt, FiniteSets

CONSTANTS
    Rows, Cols,     \* screenRows, screenCols
    MinRunes,       \* the shortest line worth recording (3 in the code)
    HistoryCap      \* historyCap

ASSUME ScreenAssumption ==
    /\ {Rows, Cols, MinRunes, HistoryCap} \subseteq Nat \ {0}

Letters == {"a", "b"}
Blank == " "
Runes == Letters \cup {"u"}     \* "u" takes two bytes: "u1" and "u2"

newBuffer == [rows |-> [r \in 0..Rows - 1 |-> <<>>], r |-> 0, c |-> 0]

NewScreen ==
    [main |-> newBuffer, alt |-> newBuffer, altOn |-> FALSE,
     saved |-> [r |-> 0, c |-> 0, alt |-> FALSE],
     dirty |-> FALSE, last |-> "", dead |-> FALSE,
     pstate |-> "ground", pparams |-> <<>>, pprivate |-> FALSE, skip |-> FALSE,
     history |-> <<>>, histSeen |-> {}, lastFrame |-> <<>>]

active(s) == IF s.altOn THEN s.alt ELSE s.main
WithBuffer(s, b) == IF s.altOn THEN [s EXCEPT !.alt = b] ELSE [s EXCEPT !.main = b]
Dirty(s) == [s EXCEPT !.dirty = TRUE]

clamp(v, lo, hi) == IF v < lo THEN lo ELSE IF v > hi THEN hi ELSE v
GoTo(b, r, c) == [b EXCEPT !.r = clamp(r, 0, Rows - 1), !.c = clamp(c, 0, Cols - 1)]

\* op applied n times.
Times(n, op(_), s) == FoldLeft(LAMBDA t, i : op(t), s, [i \in 1..n |-> i])

-----------------------------------------------------------------------------
(* Rows                                                                     *)

cellAt(row, c) == IF c < Len(row) THEN row[c + 1] ELSE Blank

\* Write ch into the columns of cs, padding the row with blanks up to them.
setCells(row, cs, ch) ==
    LET end == clamp(Max(cs \cup {-1}) + 1, Len(row), Cols)
    IN  [i \in 1..end |-> IF i - 1 \in cs THEN ch ELSE cellAt(row, i - 1)]

PutAt(b, r, cs, ch) == [b EXCEPT !.rows[r] = setCells(@, cs, ch)]
eraseLine(b, cs) == PutAt(b, b.r, cs, Blank)

\* Rows from..Rows - 1 move by one: up over row from, or down from it.
RowsUp(b, from) ==
    [b EXCEPT !.rows = [r \in 0..Rows - 1 |->
        IF r < from THEN @[r] ELSE IF r = Rows - 1 THEN <<>> ELSE @[r + 1]]]
RowsDown(b, from) ==
    [b EXCEPT !.rows = [r \in 0..Rows - 1 |->
        IF r < from THEN @[r] ELSE IF r = from THEN <<>> ELSE @[r - 1]]]
scrollUp(b) == RowsUp(b, 0)
scrollDown(b) == RowsDown(b, 0)

\* One row down, the screen scrolling at the bottom; and one row up.
LineDown(b) ==
    IF b.r + 1 >= Rows THEN [scrollUp(b) EXCEPT !.r = Rows - 1]
    ELSE [b EXCEPT !.r = @ + 1]
reverseIndex(b) == IF b.r = 0 THEN scrollDown(b) ELSE [b EXCEPT !.r = @ - 1]

-----------------------------------------------------------------------------
(* Writing and erasing                                                      *)

\* Any rune in the last column counts as the one just written there.
wrapPending(b) == b.c = Cols - 1 /\ cellAt(b.rows[b.r], b.c) # Blank

\* A plausible error: the cursor leaves the screen behind the last column.
putPast(s, ch) ==
    LET b == active(s)
        w == IF wrapPending(b) THEN [LineDown(b) EXCEPT !.c = 0] ELSE b
        p == PutAt(w, w.r, {w.c}, ch)
    IN  Dirty([WithBuffer(s, [p EXCEPT !.c = p.c + 1]) EXCEPT !.last = ch])

put(s, ch) ==
    LET b == active(s)
        w == IF wrapPending(b) THEN [LineDown(b) EXCEPT !.c = 0] ELSE b
        p == PutAt(w, w.r, {w.c}, ch)
    IN  Dirty([WithBuffer(s, GoTo(p, p.r, p.c + 1)) EXCEPT !.last = ch])

repeat(s, n) ==
    IF s.last = "" THEN s ELSE Times(n, LAMBDA t : put(t, s.last), s)

clearScreen(s) ==
    LET blank == setCells(<<>>, 0..Cols - 1, Blank)
    IN  Dirty(WithBuffer(s, [newBuffer EXCEPT !.rows = [r \in 0..Rows - 1 |-> blank]]))

linefeed(s) == Dirty(WithBuffer(s, LineDown(active(s))))

\* ED 1 and ED 0: everything up to the cursor, everything from it.
EraseAbove(b) ==
    [eraseLine(b, 0..b.c) EXCEPT !.rows =
        [r \in 0..Rows - 1 |-> IF r < b.r THEN setCells(@[r], 0..Cols - 1, Blank)
                               ELSE @[r]]]
EraseBelow(b) ==
    [eraseLine(b, b.c..Cols - 1) EXCEPT !.rows =
        [r \in 0..Rows - 1 |-> IF r > b.r THEN setCells(@[r], 0..Cols - 1, Blank)
                               ELSE @[r]]]

\* The row moves left until the n runes from the cursor on, and whatever was
\* before the cursor, are gone.  Asking for more runes than the row has is a
\* slice out of range.
deleteChars(s, n) ==
    LET b == active(s)
        row == b.rows[b.r]
        to == clamp(b.c + n, 0, Cols)
    IN  IF Len(row) < b.c THEN s
        ELSE IF to > Len(row) THEN [s EXCEPT !.dead = TRUE]
        ELSE Dirty(WithBuffer(s, [b EXCEPT !.rows[b.r] =
                 setCells(SubSeq(row, to + 1, Len(row)),
                          Len(row) - to..Cols - 1, Blank)]))

\* The runes from the cursor on move right by n, and one blank is written.  The
\* loop runs from the last column down and only an erase lengthens the row, so
\* a row whose last column is erased first is long enough for the rest.
insertChars(s, n) ==
    LET b == active(s)
        row == b.rows[b.r]
        moved == b.c + n <= Cols - 1
        inside == Cols - 1 - n < Len(row)   \* the last column takes a rune
        shifted == [i \in 1..Cols |-> IF i - 1 < b.c + n THEN cellAt(row, i - 1)
                                      ELSE cellAt(row, i - 1 - n)]
        w == IF moved THEN shifted ELSE row
    IN  IF Len(row) < b.c THEN s
        ELSE IF moved /\ inside /\ Len(row) < Cols THEN [s EXCEPT !.dead = TRUE]
        ELSE Dirty(WithBuffer(s, [b EXCEPT !.rows[b.r] = setCells(w, {b.c}, Blank)]))

insertLines(s, n) ==
    LET b == active(s)
    IN  Dirty(WithBuffer(s, Times(clamp(n, 0, Rows), LAMBDA t : RowsDown(t, b.r), b)))
deleteLines(s, n) ==
    LET b == active(s)
    IN  Dirty(WithBuffer(s, Times(clamp(n, 0, Rows), LAMBDA t : RowsUp(t, b.r), b)))

tabForward(s) ==
    LET b == active(s)
    IN  Dirty(WithBuffer(s, GoTo(b, b.r, (b.c \div 8 + 1) * 8)))
tabBackward(s) ==
    LET b == active(s)
    IN  Dirty(WithBuffer(s, GoTo(b, b.r, b.c - (b.c % 8) - 1)))

-----------------------------------------------------------------------------
(* The alternate buffer and the saved cursor                                *)

saveCursor(s) ==
    [s EXCEPT !.saved = [r |-> active(s).r, c |-> active(s).c, alt |-> s.altOn]]
enterAlt(s) ==
    IF s.altOn THEN s
    ELSE Dirty([s EXCEPT !.saved.r = s.main.r, !.saved.c = s.main.c,
                         !.alt = newBuffer, !.altOn = TRUE])
exitAlt(s) ==
    IF s.altOn THEN Dirty([s EXCEPT !.alt = newBuffer, !.altOn = FALSE]) ELSE s

\* enterAlt overwrites the saved position before it is restored.
restoreCursor(s) ==
    LET t == CASE s.saved.alt = s.altOn -> s
               [] s.saved.alt /\ ~s.altOn -> enterAlt(s)
               [] ~s.saved.alt /\ s.altOn -> exitAlt(s)
    IN  WithBuffer(t, [active(t) EXCEPT !.r = t.saved.r, !.c = t.saved.c])

-----------------------------------------------------------------------------
(* Control sequences                                                        *)

Digits == <<"0", "1", "2", "3", "4", "5", "6", "7", "8", "9">>
Digit(d) == CHOOSE n \in 0..9 : Digits[n + 1] = d

Unseen(s, b) == WithBuffer(s, b)        \* a change that leaves dirty alone

\* csi: one entry per final byte; n is the first parameter, 1 when left out.
csi(s, params, private, final) ==
    LET b == active(s)
        p(i, def) == IF i > Len(params) THEN def ELSE params[i]
        n == p(1, 1)
        buffer == private /\ p(1, 0) = 47      \* 1047 and 1049 alike
    IN  CASE final = "A" -> Unseen(s, GoTo(b, b.r - n, b.c))
          [] final = "B" -> Unseen(s, GoTo(b, b.r + n, b.c))
          [] final = "C" -> Unseen(s, GoTo(b, b.r, b.c + n))
          [] final = "D" -> Unseen(s, GoTo(b, b.r, b.c - n))
          [] final = "E" -> Unseen(s, GoTo(b, b.r + n, 0))
          [] final = "F" -> Unseen(s, GoTo(b, b.r - n, 0))
          [] final = "G" -> Unseen(s, GoTo(b, b.r, n - 1))
          [] final = "d" -> Unseen(s, GoTo(b, n - 1, b.c))
          [] final = "H" -> Unseen(s, GoTo(b, n - 1, p(2, 1) - 1))
          [] final = "J" /\ p(1, 0) \in {2, 3} -> clearScreen(s)
          [] final = "J" /\ p(1, 0) = 1 -> Unseen(s, EraseAbove(b))
          [] final = "J" -> Unseen(s, EraseBelow(b))
          [] final = "K" ->
                 LET cs == CASE p(1, 0) = 0 -> b.c..Cols - 1
                             [] p(1, 0) = 1 -> 0..b.c
                             [] p(1, 0) = 2 -> 0..Cols - 1
                             [] OTHER -> {}
                 IN  Dirty(WithBuffer(s, eraseLine(b, cs)))
          [] final = "X" ->
                 Unseen(s, eraseLine(b, b.c..clamp(b.c + n, 0, Cols) - 1))
          [] final = "b" -> repeat(s, n)
          [] final = "P" -> deleteChars(s, n)
          [] final = "@" -> insertChars(s, n)
          [] final = "L" -> insertLines(s, n)
          [] final = "M" -> deleteLines(s, n)
          [] final = "S" -> Unseen(s, Times(clamp(n, 0, Rows), scrollUp, b))
          [] final = "T" -> Unseen(s, Times(clamp(n, 0, Rows), scrollDown, b))
          [] final = "I" -> Times(n, tabForward, s)
          [] final = "Z" -> Times(n, tabBackward, s)
          [] final = "h" /\ buffer -> enterAlt(s)
          [] final = "l" /\ buffer -> exitAlt(s)
          [] OTHER -> s

-----------------------------------------------------------------------------
(* The parser                                                               *)

To(s, state) == [s EXCEPT !.pstate = state]

\* A byte outside every sequence.  The first byte of a two-byte rune needs the
\* second in the same chunk; without it both are dropped.
GroundByte(s, byte, next) ==
    CASE byte \in Letters \cup {Blank} -> put(s, byte)
      [] byte = "u1" /\ next = "u2" -> [put(s, "u") EXCEPT !.skip = TRUE]
      [] byte = "esc" -> To(s, "esc")
      [] byte = "cr" -> Unseen(s, [active(s) EXCEPT !.c = 0])
      [] byte = "lf" -> linefeed(s)
      [] byte = "ff" -> clearScreen(s)
      [] byte = "bs" -> Unseen(s, GoTo(active(s), active(s).r, active(s).c - 1))
      [] byte = "tab" -> tabForward(s)
      [] byte \in {"bel", "u1", "u2"} -> s
      [] OTHER -> put(s, "a")       \* a byte of a sequence read as text

EscByte(s, byte) ==
    LET g == To(s, "ground")
    IN  CASE byte = "[" -> [To(s, "csi") EXCEPT !.pparams = <<>>, !.pprivate = FALSE]
          [] byte = "]" -> To(s, "osc")
          [] byte \in {"(", ")"} -> To(s, "charset")
          [] byte = "7" -> saveCursor(g)
          [] byte = "8" -> restoreCursor(g)
          [] byte = "c" -> linefeed(clearScreen(g))
          [] byte = "M" -> Dirty(WithBuffer(g, reverseIndex(active(g))))
          [] byte = "D" -> linefeed(g)
          [] OTHER -> g

\* Of the bytes from 0x20 to 0x2f, those that a chunk may hold.
Intermediate == {Blank, "!", "(", ")"}

CsiByte(s, byte) ==
    LET n == Len(s.pparams)
    IN  CASE byte = "?" -> [s EXCEPT !.pprivate = TRUE]
          [] byte \in Range(Digits) /\ n = 0 -> [s EXCEPT !.pparams = <<Digit(byte)>>]
          [] byte \in Range(Digits) /\ n > 0 ->
                 [s EXCEPT !.pparams[n] = @ * 10 + Digit(byte)]
          [] byte = ";" -> [s EXCEPT !.pparams = Append(@, 0)]
          [] byte \in {">", "="} \cup Intermediate -> s
          [] OTHER -> To(csi(s, s.pparams, s.pprivate, byte), "ground")

\* An OSC string ends at BEL, or at an ESC whose backslash is in this chunk.
OscByte(s, byte, next) ==
    CASE byte = "bel" -> To(s, "ground")
      [] byte = "esc" /\ next = "\\" -> [To(s, "ground") EXCEPT !.skip = TRUE]
      [] OTHER -> s

\* The i-th byte of a chunk.
ParseByte(s, data, i) ==
    LET byte == data[i]
        next == IF i < Len(data) THEN data[i + 1] ELSE "none"
    IN  CASE s.dead -> s
          [] ~s.dead /\ s.skip -> [s EXCEPT !.skip = FALSE]
          [] OTHER -> CASE s.pstate = "ground" -> GroundByte(s, byte, next)
                        [] s.pstate = "esc" -> EscByte(s, byte)
                        [] s.pstate = "charset" -> To(s, "ground")
                        [] s.pstate = "csi" -> CsiByte(s, byte)
                        [] s.pstate = "osc" -> OscByte(s, byte, next)

Feed(s, data) == FoldLeft(LAMBDA t, i : ParseByte(t, data, i), s,
                          [i \in 1..Len(data) |-> i])

-----------------------------------------------------------------------------
(* The visible text and the scrollback                                      *)

Solid(row) == {i \in 1..Len(row) : row[i] # Blank}
TrimRight(row) == SubSeq(row, 1, Max(Solid(row) \cup {0}))
IsBlank(row) == Solid(row) = {}
\* The runes of a line between its first and its last that is not a blank.
Trimmed(row) == IF IsBlank(row) THEN 0 ELSE Max(Solid(row)) - Min(Solid(row)) + 1

frameRows(s) == [i \in 1..Rows |-> TrimRight(active(s).rows[i - 1])]

\* Without the blank rows at the end, and at most two blank rows in a row.
TextOf(rows) ==
    LET end == Max({i \in 1..Len(rows) : ~IsBlank(rows[i])} \cup {0})
        kept == {i \in 1..end : i < 3 \/ \E j \in i - 2..i : ~IsBlank(rows[j])}
    IN  [k \in 1..Cardinality(kept) |->
            rows[CHOOSE i \in kept : Cardinality({j \in kept : j <= i}) = k]]
TextNoLock(s) == TextOf(frameRows(s))

\* A plausible error: a line of just the shortest length is not recorded.
RecordLonger(s, cur, row) ==
    IF row \in Range(cur) \cup s.histSeen \/ Trimmed(row) <= MinRunes THEN s
    ELSE [s EXCEPT !.history = Append(@, row), !.histSeen = @ \cup {row}]

\* A line of the last frame that is gone from this one is recorded, once.
Record(s, cur, row) ==
    IF row \in Range(cur) \cup s.histSeen \/ Trimmed(row) < MinRunes THEN s
    ELSE [s EXCEPT !.history = Append(@, row), !.histSeen = @ \cup {row}]

\* A plausible error: a line that is dropped is still taken for a known one.
DropLinesOnly(s) ==
    LET drop == clamp(Len(s.history) - HistoryCap, 0, Len(s.history))
    IN  [s EXCEPT !.history = SubSeq(@, drop + 1, Len(@))]

\* The oldest lines give way above the cap, and may be recorded again.
DropOldest(s) ==
    LET drop == clamp(Len(s.history) - HistoryCap, 0, Len(s.history))
    IN  [s EXCEPT !.history = SubSeq(@, drop + 1, Len(@)),
                  !.histSeen = @ \ Range(SubSeq(s.history, 1, drop))]

persistScroll(s) ==
    LET cur == frameRows(s)
        recorded == FoldLeft(LAMBDA t, row : Record(t, cur, row), s, s.lastFrame)
    IN  DropOldest([recorded EXCEPT !.lastFrame = cur])

\* A row that is blank, or that repeats the last one shown, is not a new line.
Show(out, row) ==
    IF IsBlank(row) \/ (out # <<>> /\ Last(out) = row) THEN out ELSE Append(out, row)

\* The scrollback, then the rows still on the screen.
viewRows(s) == s.history \o FoldLeft(Show, <<>>, frameRows(s))
=============================================================================
