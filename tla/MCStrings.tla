----------------------------- MODULE MCStrings -----------------------------
(***************************************************************************)
(* Strings on texts of up to MaxPieces pieces: single bytes that begin, end *)
(* or upset an escape, and whole units with one, two, three and four byte   *)
(* characters, both halves of a pair, and NUL.                              *)
(***************************************************************************)
EXTENDS Strings

MCOpenings == {<<Quote>>, <<97>>}

Units ==
    { <<Backslash, LowerU, 48, 48, 48, 48>>,      \* U+0000
      <<Backslash, LowerU, 48, 48, 49, 70>>,      \* U+001F
      <<Backslash, LowerU, 48, 48, 69, 57>>,      \* U+00E9
      <<Backslash, LowerU, 50, 48, 97, 99>>,      \* U+20AC
      <<Backslash, LowerU, 100, 56, 51, 68>>,     \* high half of U+1F431
      <<Backslash, LowerU, 100, 99, 51, 49>> }    \* low half of U+1F431

MCPieces ==
    { <<Backslash>>, <<Quote>>, <<110>>, <<LowerU>>, <<10>>, <<195, 169>> } \union Units
============================================================================
