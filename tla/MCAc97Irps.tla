------------------------------ MODULE MCAc97Irps ------------------------------
(***************************************************************************)
(* Ac97Irps with two handles and the PnP manager, the player's request and *)
(* one that is refused.                                                    *)
(***************************************************************************)
EXTENDS Ac97Irps, TLC

CONSTANTS h1, h2, b1, b2

MCHandles == {h1, h2}
MCBlocks == {b1, b2}
Symm == Permutations(MCHandles) \cup Permutations(MCBlocks)

MCRequests == {[SampleRate |-> 22050, Channels |-> 1, BitsPerSample |-> 16],
               [SampleRate |-> 3999, Channels |-> 1, BitsPerSample |-> 16]}
MCSizes == {4}

===============================================================================
