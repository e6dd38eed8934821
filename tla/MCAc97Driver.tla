----------------------------- MODULE MCAc97Driver -----------------------------
(***************************************************************************)
(* Ac97Driver on small instances: two handles, requests on both sides of   *)
(* every range check, two pool blocks.                                     *)
(***************************************************************************)
EXTENDS Ac97Driver, TLC

CONSTANTS h1, h2, b1, b2

MCHandles == {h1, h2}
MCBlocks == {b1, b2}
Symm == Permutations(MCHandles) \cup Permutations(MCBlocks)

Request(r, c, b) == [SampleRate |-> r, Channels |-> c, BitsPerSample |-> b]

\* The player's own request, one whose rate does not fit 16 bits, and one
\* just outside each range the driver checks.
MCRequests == {Request(22050, 1, 16), Request(96000, 2, 8), Request(3999, 1, 16),
               Request(96001, 1, 16), Request(22050, 0, 16), Request(22050, 3, 16),
               Request(22050, 1, 12)}

\* One 16-bit frame, an odd length, and a single byte.
MCSizes == {1, 3, 4}

===============================================================================
