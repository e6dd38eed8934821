------------------------------ MODULE MCLineInput ------------------------------
(***************************************************************************)
(* LineInput with a prompt of one character.                               *)
(***************************************************************************)
EXTENDS LineInput

MCPrompt == <<[key |-> ">", shift |-> FALSE]>>

===============================================================================
