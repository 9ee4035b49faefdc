--------------------------- MODULE MCHeaderReader ---------------------------
(***************************************************************************)
(* Instances of HeaderReader for TLC.                                      *)
(***************************************************************************)
EXTENDS HeaderReader

\* One byte and two, and both sides of the border; with a low byte of 0, and
\* lengths whose check values differ in one byte.
MCSizes == {0, 1, 8, 9, 127, 255, 256, 257, 300, 511, 513, 1000}
MCFewSizes == {0, 256}

=============================================================================
