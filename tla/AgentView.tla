----------------------------- MODULE AgentView ------------------------------
(***************************************************************************)
(* How one agent's screen reaches its chat: the pump that feeds the screen *)
(* (internal/agent/host.go), the relay that sends a frame every tick and   *)
(* the scrollback reader of /agent history, up, down, top and bottom       *)
(* (internal/telegram/agent.go).                                           *)
(*                                                                         *)
(* The pump, the relay and the goroutine of every reader command share the *)
(* screen under Screen.mu and the run under agentRun.mu; a step below is   *)
(* one critical section or one call to Telegram.  How a run starts and who *)
(* ends it is AgentRun's subject: here the session is running, and Claim   *)
(* is whoever finalises it.                                                *)
(***************************************************************************)
EXTENDS TermScreen

CONSTANTS
    Chunks,         \* what one read of the pty may return
    Readers,        \* the reader commands handled at the same time
    Page, Overlap,  \* agentHistoryPage, agentHistoryOverlap
    Failures,       \* what may fail on the way to the chat
    MaxInputs       \* bound: chunks read, prompts and reader commands together

ASSUME ViewAssumption ==
    /\ Overlap \in Nat \ {0} /\ Page \in Nat /\ Overlap < Page
    /\ Failures \subseteq {"render", "panic", "photo", "markdown", "reader"}
    /\ MaxInputs \in Nat
    /\ Chunks \subseteq Seq(STRING)

\* A plausible error: a step that leaves the overlap out.
StepPast == Page + Overlap

Step == Page - Overlap      \* agentHistoryStep

VARIABLES
    scr,        \* Session.scrn
    seen,       \* history: every line worth recording that a sniff saw
    pngMode,    \* agentRun.pngMode
    relayAt,    \* where renderFrame is
    editing,    \* its local: the message it has just created, or 0
    msgID,      \* agentRun.msgID: the number of a live message, or 0
    stopped,    \* agentRun.stopped
    live,       \* how many messages the relay has created and can edit
    turns,      \* prompts written to the session
    histEnd,    \* agentRun.histEnd
    histMsgID,  \* agentRun.histMsgID: the number of a reader message, or 0
    readerAt,   \* where each reader command is
    asked,      \* its locals: the command, its total, the position it read or
                \* shows, and the message it edits
    pages,      \* how many reader messages there are
    inputs      \* how many chunks, prompts and commands

relayVars == <<pngMode, relayAt, editing, msgID, live>>
readerVars == <<histEnd, histMsgID, readerAt, asked, pages>>
vars == <<scr, seen, relayVars, stopped, turns, readerVars, inputs>>

NoRequest == [dir |-> "none", total |-> 0, end |-> 0, msg |-> 0]

Init ==
    /\ scr = NewScreen
    /\ seen = {}
    /\ pngMode \in BOOLEAN              \* agent.screen.mode
    /\ relayAt = "idle" /\ editing = 0
    /\ msgID = 0 /\ stopped = FALSE /\ live = 0 /\ turns = 0
    /\ histEnd = 0 /\ histMsgID = 0
    /\ readerAt = [h \in Readers |-> "idle"]
    /\ asked = [h \in Readers |-> NoRequest]
    /\ pages = 0
    /\ inputs = 0

Input == inputs < MaxInputs /\ inputs' = inputs + 1

\* What a call that can fail in this way may report.
Works(failure) == {TRUE, failure \notin Failures}

-----------------------------------------------------------------------------
(* The session and its owner                                                *)

\* pump: one read.  A panic in Feed takes the process down.
Pump(chunk) ==
    /\ ~scr.dead /\ Input
    /\ scr' = Feed(scr, chunk)
    /\ UNCHANGED <<seen, relayVars, stopped, turns, readerVars>>

\* relayAgentInput: after the prompt is written, the next frame is a new message.
resetTurn ==
    /\ ~scr.dead /\ Input
    /\ msgID' = 0
    /\ turns' = turns + 1
    /\ UNCHANGED <<scr, seen, pngMode, relayAt, editing, live, stopped, readerVars>>

\* The run is finalised, by whoever comes first.
Claim ==
    /\ ~scr.dead /\ ~stopped
    /\ stopped' = TRUE
    /\ UNCHANGED <<scr, seen, relayVars, turns, readerVars, inputs>>

-----------------------------------------------------------------------------
(* The relay                                                                *)

Worth(s) == {row \in Range(frameRows(s)) : Trimmed(row) >= MinRunes}

\* Sniff and SniffPNG: the frame, whether it changed, and the flag cleared, in
\* one critical section.
Sniff(changed, unchanged) ==
    /\ ~scr.dead
    /\ scr' = [persistScroll(scr) EXCEPT !.dirty = FALSE]
    /\ seen' = seen \cup Worth(scr)
    /\ relayAt' = IF scr.dirty THEN changed ELSE unchanged

\* A tick of the relay, up to the sniff of renderFrame.
Tick ==
    /\ relayAt = "idle"
    /\ Sniff("pick", "idle")
    /\ UNCHANGED <<pngMode, editing, msgID, live, stopped, turns, readerVars, inputs>>

\* The renderer fails: the flag was cleared with the frame, and the same tick
\* sniffs again for text.
TickRenderFails ==
    /\ relayAt = "idle" /\ pngMode /\ "render" \in Failures
    /\ Sniff("again", "again")
    /\ pngMode' = FALSE
    /\ UNCHANGED <<editing, msgID, live, stopped, turns, readerVars, inputs>>

TickAgain ==
    /\ relayAt = "again"
    /\ Sniff("pick", "idle")
    /\ UNCHANGED <<pngMode, editing, msgID, live, stopped, turns, readerVars, inputs>>

\* The renderer panics before the flag is cleared, and frameSafely ends the tick.
TickPanics ==
    /\ ~scr.dead /\ relayAt = "idle" /\ pngMode /\ "panic" \in Failures
    /\ scr' = persistScroll(scr)
    /\ seen' = seen \cup Worth(scr)
    /\ pngMode' = FALSE
    /\ UNCHANGED <<relayAt, editing, msgID, live, stopped, turns, readerVars, inputs>>

AtRelay(here, next) == ~scr.dead /\ relayAt = here /\ relayAt' = next

\* Under agentRun.mu: is the run still open, and which message is it.  Every
\* frame after a turn's first replaces what its message shows, and an edit that
\* fails is not noticed.
PickMessage ==
    /\ AtRelay("pick", IF stopped \/ msgID # 0 THEN "idle" ELSE "create")
    /\ UNCHANGED <<scr, seen, pngMode, editing, msgID, live, stopped, turns,
                   readerVars, inputs>>

\* The first frame of a turn is a new message.  A photo that cannot be sent
\* ends image mode and loses this frame; a text that cannot be sent as markdown
\* is sent plain, and its id is not kept.
Create ==
    \E ok \in Works(IF pngMode THEN "photo" ELSE "markdown") :
        /\ AtRelay("create", IF ok THEN "store" ELSE "idle")
        /\ pngMode' = (pngMode /\ ok)
        /\ live' = IF ok THEN live + 1 ELSE live
        /\ editing' = IF ok THEN live + 1 ELSE 0
        /\ UNCHANGED <<scr, seen, msgID, stopped, turns, readerVars, inputs>>

\* A plausible error: the id is not kept.
StoreNothing ==
    /\ AtRelay("store", "idle")
    /\ editing' = 0
    /\ UNCHANGED <<scr, seen, pngMode, msgID, live, stopped, turns, readerVars, inputs>>

\* The id of the new message, under agentRun.mu again.
Store ==
    /\ AtRelay("store", "idle")
    /\ msgID' = editing
    /\ editing' = 0
    /\ UNCHANGED <<scr, seen, pngMode, live, stopped, turns, readerVars, inputs>>

-----------------------------------------------------------------------------
(* The reader                                                               *)

ViewCount(s) == Len(viewRows(s))

\* The last n lines up to the end-th, or the whole view when it has become
\* shorter than that.
ViewRows(s, end, n) ==
    LET all == viewRows(s)
        last == clamp(end, 0, Len(all))
    IN  SubSeq(all, clamp(last - n, 0, Len(all)) + 1, last)

agentHistoryTop(total) == IF total > Page THEN Page ELSE total
agentHistoryViewBounds(total, end, dir) ==
    clamp(IF dir = "up" THEN end - Step ELSE end + Step, 1, total)

AtReader(h, here, next) ==
    /\ ~scr.dead /\ readerAt[h] = here
    /\ readerAt' = [readerAt EXCEPT ![h] = next]
Unread == <<scr, seen, relayVars, stopped, turns, inputs>>

\* handleAgentHistory: the run must be there and have drawn something.
Ask(h, dir) ==
    LET total == ViewCount(scr)
    IN  /\ ~stopped /\ Input
        /\ AtReader(h, "idle", IF total = 0 THEN "idle"
                               ELSE IF dir = "off" THEN "bounds" ELSE "move")
        /\ asked' = [asked EXCEPT ![h] =
              IF total = 0 THEN @ ELSE [@ EXCEPT !.dir = dir, !.total = total]]
        /\ UNCHANGED <<scr, seen, relayVars, stopped, turns, histEnd, histMsgID, pages>>

\* moveAgentHistory reads the position, and starts from the newest line if
\* there is none yet.
ReadPosition(h) ==
    /\ AtReader(h, "move", "set")
    /\ asked' = [asked EXCEPT ![h].end = IF histEnd = 0 THEN asked[h].total ELSE histEnd]
    /\ UNCHANGED <<Unread, histEnd, histMsgID, pages>>

NewPosition(a) ==
    CASE a.dir \in {"open", "bottom"} -> a.total
      [] a.dir = "top" -> agentHistoryTop(a.total)
      [] OTHER -> agentHistoryViewBounds(a.total, a.end, a.dir)

SetPosition(h) ==
    /\ AtReader(h, "set", "bounds")
    /\ histEnd' = NewPosition(asked[h])
    /\ UNCHANGED <<Unread, histMsgID, asked, pages>>

\* renderAgentHistory: the position and the message of one moment, the lines of
\* a later one.
ReadBounds(h) ==
    /\ AtReader(h, "bounds", "rows")
    /\ asked' = [asked EXCEPT ![h] = [NoRequest EXCEPT !.end = histEnd, !.msg = histMsgID]]
    /\ UNCHANGED <<Unread, histEnd, histMsgID, pages>>

ReadRows(h) ==
    LET rows == ViewRows(scr, asked[h].end, Page)
    IN  /\ AtReader(h, "rows", IF rows = <<>> THEN "idle" ELSE "paint")
        /\ asked' = [asked EXCEPT ![h] = IF rows = <<>> THEN NoRequest
                                         ELSE [@ EXCEPT !.end = 0]]
        /\ UNCHANGED <<Unread, histEnd, histMsgID, pages>>

\* repaintHistory and repaintHistoryText: a new message the first time, the same
\* one afterwards.
Paint(h) ==
    \E ok \in Works("reader") :
        LET created == ok /\ asked[h].msg = 0
        IN  /\ AtReader(h, "paint", IF created THEN "keep" ELSE "idle")
            /\ pages' = IF created THEN pages + 1 ELSE pages
            /\ asked' = [asked EXCEPT ![h].msg = IF created THEN pages + 1 ELSE 0]
            /\ UNCHANGED <<Unread, histEnd, histMsgID>>

KeepMessage(h) ==
    /\ AtReader(h, "keep", "idle")
    /\ histMsgID' = asked[h].msg
    /\ asked' = [asked EXCEPT ![h] = NoRequest]
    /\ UNCHANGED <<Unread, histEnd, pages>>

-----------------------------------------------------------------------------
Relay == Tick \/ TickRenderFails \/ TickAgain \/ TickPanics \/ PickMessage
         \/ Create \/ Store

Reader(h) ==
    \/ \E dir \in {"open", "up", "down", "top", "bottom", "off"} : Ask(h, dir)
    \/ ReadPosition(h) \/ SetPosition(h) \/ ReadBounds(h) \/ ReadRows(h)
    \/ Paint(h) \/ KeepMessage(h)

Next ==
    \/ \E chunk \in Chunks : Pump(chunk)
    \/ resetTurn \/ Claim
    \/ Relay
    \/ \E h \in Readers : Reader(h)

Spec == Init /\ [][Next]_vars

-----------------------------------------------------------------------------
(* Properties                                                               *)

\* The shape of the state: the cursor of each buffer is on the screen, and no
\* row is longer than the screen is wide.
BufferOK(b) ==
    /\ b.r \in 0..Rows - 1 /\ b.c \in 0..Cols - 1
    /\ \A r \in 0..Rows - 1 : b.rows[r] \in Seq(Runes \cup {Blank}) /\ Len(b.rows[r]) <= Cols
ViewTypeOK ==
    /\ BufferOK(scr.main) /\ BufferOK(scr.alt)
    /\ scr.saved.r \in 0..Rows - 1 /\ scr.saved.c \in 0..Cols - 1
    /\ scr.pstate \in {"ground", "esc", "charset", "csi", "osc"} /\ ~scr.skip
    /\ relayAt \in {"idle", "again", "pick", "create", "store"}
    /\ {editing, msgID} \subseteq 0..live
    /\ histEnd \in Nat /\ histMsgID \in 0..pages

\* The scrollback holds no line twice, knows exactly the lines it holds, and
\* never grows past its cap, however the screen is redrawn between two sniffs
\* ("Each distinct line is recorded at most once").
ScrollbackOnce ==
    /\ IsInjective(scr.history)
    /\ scr.histSeen = Range(scr.history)
    /\ Len(scr.history) <= HistoryCap

\* A line a sniff has seen is not forgotten, whatever is drawn or erased between
\* two sniffs: it is in the scrollback, or in the frame of the last sniff, from
\* which the next one records it if it is gone by then; until the scrollback is
\* full and gives its oldest lines away.
NothingSeenIsForgotten ==
    Len(scr.history) < HistoryCap => seen \subseteq scr.histSeen \cup Range(scr.lastFrame)

\* The relay leaves no message behind that it could still edit: it creates at
\* most one for each prompt and one before the first, and the one it edits is
\* always the newest, whichever of its steps a new prompt falls between.  (That
\* a turn gets a message of its own is another matter, see MCAgentTurns.)
NewestIsEdited ==
    /\ live <= turns + 1
    /\ msgID \in {0, live}

\* A step of the reader shows a window that overlaps the one before it, and
\* stays within the lines that were counted: scrolling skips no line.
Window(end) == clamp(end - Page + 1, 1, end)..end
Continues(h) ==
    (SetPosition(h) /\ asked[h].dir \in {"up", "down"}) =>
        LET before == clamp(asked[h].end, 1, asked[h].total)
        IN  /\ histEnd' \in 1..asked[h].total
            /\ Window(before) \cap Window(histEnd') # {}
            /\ asked[h].dir = "up" => histEnd' <= before
            /\ asked[h].dir = "down" => histEnd' >= before
ScrollSkipsNothing == [][\A h \in Readers : Continues(h)]_vars

-----------------------------------------------------------------------------
(* What the repository says of this code, and the code does not do          *)

\* "Scrolling up from the bottom never lands in a gap": a line a sniff has seen
\* is among those the reader shows, while the scrollback is not full.  A line
\* that has left the screen since the last sniff is in neither half of the view
\* until the next one (screen.go:248-265).
NoGapInView ==
    Len(scr.history) < HistoryCap => seen \subseteq Range(viewRows(scr))

\* Feed "reports whether any visible change was made since the flag was last
\* cleared by Sniff": a screen that differs from the frame last sniffed is
\* flagged.
FlagIsHonest ==
    TextNoLock(scr) # TextOf(scr.lastFrame) => scr.dirty
=============================================================================
