-------------------------- MODULE MCServiceInstall --------------------------
(***************************************************************************)
(* Instances of ServiceInstall for TLC.  Two base directories and a bound  *)
(* of three stand for the four and the six of path.go.                     *)
(***************************************************************************)
EXTENDS ServiceInstall

CONSTANTS usr, bin, brew, home, gone

MCBase == <<usr, bin>>

\* What a terminal, a non-interactive shell, an interactive one and a stripped
\* environment have.
Rich     == <<Clean(brew), Clean(usr), Clean(bin)>>
Plain    == <<Clean(usr), Clean(bin)>>
Repeated == <<Entry(usr, "slash"), Clean(usr), Entry(home, "tilde"), Clean(bin),
              Entry(brew, "nested"), Entry(brew, "relative"), Clean(usr)>>
Stale    == <<Clean(gone), Clean(home), Entry(gone, "slash"), Clean(bin),
              Clean(brew)>>
Bare     == <<Clean(bin)>>

Capture(i, l) == [inherited |-> i, login |-> l]

\* Either is adequate, neither is and both together are, neither by any means.
MCCaptures == {Capture(Rich, Plain), Capture(Repeated, Rich),
               Capture(Plain, Repeated), Capture(Stale, Rich),
               Capture(Bare, Stale), Capture(Repeated, Bare),
               Capture(Stale, <<>>), Capture(<<>>, Bare)}

\* For what has nothing to do with the PATHs.
OneCapture == {Capture(Bare, Rich)}
=============================================================================
