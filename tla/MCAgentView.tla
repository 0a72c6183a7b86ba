---------------------------- MODULE MCAgentView -----------------------------
(***************************************************************************)
(* Instances of AgentView for TLC: a screen of two rows by three columns   *)
(* and reads of the pty that use every sequence the screen knows.          *)
(***************************************************************************)
EXTENDS AgentView

Csi(args) == <<"esc", "[">> \o args

\* Lines that scroll the screen, one of them in a run of reads.
Lines == {<<"a", "cr", "lf">>, <<"b", "cr", "lf", "a", "b", "cr", "lf", "u1", "u2">>}
\* Writing at a place, over the right margin, at a tab, and a run of one rune
\* after a sequence with an intermediate byte.
Writes == {Csi(<<"2", ";", "3", "H", "u1", "u2", "u1">>), <<"tab", "b", "bs">> \o Csi(<<"Z">>),
           <<"a">> \o Csi(<<"2", Blank, "q">>) \o Csi(<<"4", "b">>)}
\* Runes deleted where the row has them and where it may not, and inserted.
Shifts == {Csi(<<"H">>) \o Csi(<<"P">>), Csi(<<"2", "@">>), Csi(<<"2", "P">>)}
Erases == {Csi(<<"2", "J">>) \o Csi(<<"H">>), Csi(<<"J">>), Csi(<<"1", "K">>),
           Csi(<<"A">>) \o Csi(<<"X">>), Csi(<<"1", "J">>)}
Scrolls == {<<"esc", "M">>, Csi(<<"S">>), Csi(<<"T">>), Csi(<<"L">>), Csi(<<"H">>) \o Csi(<<"M">>)}
\* The alternate buffer, and a cursor saved in one and restored in the other.
Buffers == {<<"esc", "7">> \o Csi(<<"?", "4", "7", "h">>), Csi(<<"?", "4", "7", "l", "a">>),
            <<"esc", "8">>}
\* Sequences cut between two reads.
Split == {<<"esc", "]", "a", "esc">>, <<"\\", "[">>}
MCChunks == Lines \cup Writes \cup Shifts \cup Erases \cup Scrolls \cup Buffers \cup Split
=============================================================================
