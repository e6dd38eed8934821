------------------------------- MODULE MCPlayer -------------------------------
(***************************************************************************)
(* Player on small instances: two device handles, one pool block, four     *)
(* bytes of audio offset and videos of each kind.                          *)
(***************************************************************************)
EXTENDS Player

CONSTANTS h1, h2, b1

MCHandles == {h1, h2}
MCBlocks == {b1}

Vid(m, n, fs, s) == [magic |-> m, frameCount |-> n, frameSize |-> fs, size |-> s]

\* Whole, and long enough for the audio offset to wrap.
MCEmbedded == Vid(TRUE, 5, 2, 10)

\* A truncated copy, frames too large for the buffer, and not a video.
MCFiles == {Vid(TRUE, 3, 2, 5), Vid(TRUE, 1, 4, 4), Vid(FALSE, 0, 0, 0)}

===============================================================================
