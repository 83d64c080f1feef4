--------------------------- MODULE MCThreeDsCrypto ---------------------------
(***************************************************************************)
(* The TLC instance of ThreeDsCrypto (ThreeDsCrypto.cfg): two operations   *)
(* over two files, killed at any time.                                     *)
(***************************************************************************)
EXTENDS ThreeDsCrypto

CONSTANTS m0, m1    \* the crypto methods 0x00 and 0x01

FlagsOf(m, fixed, newKeyY) ==
  [method |-> m, fixed |-> fixed, newKeyY |-> newKeyY, noCrypto |-> FALSE]

Layout(kind, has, flags) == [kind |-> kind, has |-> has, flags |-> flags]

\* The game: every section under each choice of keys, or no program.
Games ==
  {Layout("ncch", Sections, FlagsOf(m0, FALSE, FALSE)),
   Layout("ncch", Sections, FlagsOf(m1, FALSE, TRUE)),
   Layout("ncch", Sections, FlagsOf(m1, TRUE, FALSE)),
   Layout("ncch", {"romfs"}, FlagsOf(m0, FALSE, FALSE))}

\* What follows it under flags g: a manual, a child program with .code, one with
\* a key of its own, nothing, or an entry past the end of a truncated file.
Seconds(g) ==
  {Layout("ncch", {"romfs"}, [g EXCEPT !.method = m0]),
   Layout("ncch", Sections, [g EXCEPT !.method = m0]),
   Layout("ncch", Sections, FlagsOf(m1, FALSE, FALSE)),
   Layout("skipped", {}, FlagsOf(m0, FALSE, FALSE)),
   Layout("past", {}, FlagsOf(m0, FALSE, FALSE))}

MCRoms ==
  UNION {{[p \in Parts |-> IF p = 0 THEN game ELSE second] :
            second \in Seconds(game.flags)} : game \in Games}
=============================================================================
