-------------------------------- MODULE MCFormat --------------------------------
(***************************************************************************)
(* Format with words of six bits, a block of nine bytes and every message  *)
(* of up to three items that takes at most two arguments.                  *)
(***************************************************************************)
EXTENDS Format

MCAscii == {"y"}
MCSymbols == {"y", "w", "s", "S", "c", "d", "u", "x", "%", "0"}

Given == {Number(n) : n \in {0, 9, 10, 16, 31, 32, 63}}
         \cup {Character("y"), Narrow(<<>>), Narrow(<<"y", "y", "y">>),
               WideString(<<"y", "w">>), WideString(<<"w", "y", "y", "w", "y", "y">>)}

MCItems == {Literal("y")} \cup {Conversion(c) : c \in {"s", "S", "c", "d", "u", "x", "%", "0"}}

\* What is taken for a string is a string of that kind or a number, and what
\* is taken for a character is one.
Suited(c, a) == \/ c = "s" /\ a.type \in {"char*", "int"}
                \/ c = "S" /\ a.type \in {"wchar_t*", "int"}
                \/ c = "c" /\ a.type = "char"
                \/ c \in Numbers /\ a.type # "char"

TakenOf(f) == SelectSeq(f, LAMBDA item : Takes(item) /\ item.char \in Supported)

\* As many arguments as the caller counts conversions.
MCCalls ==
  {[format |-> f, args |-> a] :
     f \in UNION {[1..n -> MCItems] : n \in 0..3}, a \in UNION {[1..n -> Given] : n \in 0..2}}

MCSuitedCalls ==
  {c \in MCCalls :
     /\ Len(c.args) = Len(SelectSeq(c.format, Takes))
     /\ \A i \in DOMAIN TakenOf(c.format) : Suited(TakenOf(c.format)[i].char, c.args[i])}
================================================================================
