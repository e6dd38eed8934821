---------------------------- MODULE MCCommandLine ----------------------------
(***************************************************************************)
(* CommandLine with two letters, of which the command words are made (cd   *)
(* keeps its own, none is the beginning of another, and copy is short      *)
(* enough for its two arguments), and two drives.                          *)
(***************************************************************************)
EXTENDS CommandLine

MCLetters == {"c", "d"}
MCWhite == {" "}
MCWords == [cd |-> <<"c", "d">>, copy |-> <<"d">>, dir |-> <<"c", "c", "c">>,
            exit |-> <<"c", "c", "d">>]
MCDirs == {<<"c", ":", Slash>>, <<"c", ":", Slash, "d">>, <<"d", ":", Slash>>}
===============================================================================
