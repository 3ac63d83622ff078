------------------------------ MODULE MCWindows -----------------------------
(***************************************************************************)
(* A screen of two pixels, a region inside another one, and a text too     *)
(* long for both.                                                          *)
(***************************************************************************)
EXTENDS Windows, TLC

CONSTANTS short, other, long, black, white, s0, s1

Nested == {{1, 2}, {2}}

LongTextOverflow ==
    [rt \in Rects \X Texts |-> IF rt[2] = long THEN Cells ELSE {}]

NoOverflow == [rt \in Rects \X Texts |-> {}]

(* What programs that broke the rules drew does not matter any more.        *)
Relevant == <<screen, slot, Window_aktiv, script, orderly, IF orderly THEN <<base, order>> ELSE <<>>>>

(* Colors and slots are interchangeable.                                    *)
Interchangeable == Permutations({black, white}) \cup Permutations({s0, s1})

=============================================================================
