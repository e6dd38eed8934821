-------------------------------- MODULE MCShell --------------------------------
(***************************************************************************)
(* Shell with a directory of up to three pages and trees of four devices.  *)
(***************************************************************************)
EXTENDS Shell

CONSTANT imagePath

MCValues == {imagePath}
================================================================================
