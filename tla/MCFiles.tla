--------------------------------- MODULE MCFiles ---------------------------------
(***************************************************************************)
(* Files on a disk of three names; a file is empty, one short read long,   *)
(* or a whole read and a short one.                                        *)
(***************************************************************************)
EXTENDS Files, TLC

CONSTANTS n1, n2, n3

MCNames == {n1, n2, n3}
MCContents == {<<>>, <<1>>, <<2, 3, 4>>}
Symm == Permutations(MCNames)

==================================================================================
