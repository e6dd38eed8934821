--------------------------------- MODULE Format ---------------------------------
(***************************************************************************)
(* RtlCliDisplayString (display.c) with the printf of the native build     *)
(* (native_vsnprintf, nativertl.c).  A step is one turn of the loop over   *)
(* the format; an item of a format is a character or a % with the          *)
(* character behind it.                                                    *)
(*                                                                         *)
(* External: the heap block before it is written, what is behind it, and   *)
(* what the heap makes of a store there; the arguments and their           *)
(* addresses.  Allocations succeed.                                        *)
(***************************************************************************)
EXTENDS Integers, SequencesExt

CONSTANTS Size,        \* 512: bytes of MessageBuffer
          HalfInt,     \* 2^31: an int is in -HalfInt..HalfInt-1
          Symbols,     \* the characters, without Nul
          Ascii,       \* those below 128
          Calls,       \* the formats displayed, with their arguments
          Addresses,   \* where a string argument may be
          MaxDigits    \* bound of the reference: no word has more digits

Words == 0..(2 * HalfInt - 1)
DigitChars == <<"0", "1", "2", "3", "4", "5", "6", "7", "8", "9", "a", "b", "c", "d", "e", "f">>

Literal(c) == [percent |-> FALSE, char |-> c]
Conversion(c) == [percent |-> TRUE, char |-> c]

\* An argument is an int (a null pointer is 0), a character, or a string of
\* narrow or of wide characters.
Number(n) == [type |-> "int", value |-> n]
Character(c) == [type |-> "char", value |-> c]
Narrow(s) == [type |-> "char*", value |-> s]
WideString(s) == [type |-> "wchar_t*", value |-> s]
Null == Number(0)

Nul == "NUL"
Garbage == "garbage"     \* what an allocated block holds

Items == [percent : BOOLEAN, char : Symbols]
Arguments == [type : {"int"}, value : Words] \cup [type : {"char"}, value : Symbols]
             \cup [type : {"char*", "wchar_t*"}, value : Seq(Symbols)]

\* What a caller passes an argument for, and how many of these are among the
\* first i items of format f.
Takes(item) == item.percent /\ item.char # "%"
Taken(f, i) == Cardinality({j \in 1..i : Takes(f[j])})

ASSUME SizeAssumption == Size \in Nat /\ Size >= 2
ASSUME HalfIntAssumption == HalfInt \in Nat \ {0}
ASSUME SymbolsAssumption == Ascii \subseteq Symbols /\ Nul \notin Symbols
ASSUME AddressesAssumption == Addresses \subseteq Words \ {0}
ASSUME CallsAssumption ==
  \A c \in Calls : /\ c.format \in Seq(Items) /\ c.args \in Seq(Arguments)
                   /\ Taken(c.format, Len(c.format)) <= Len(c.args)

VARIABLES stage,    \* "idle", "format", "displayed" or "dead"
          call,     \* the message being displayed
          fmt,      \* what is left of the format
          ap,       \* the arguments that were not taken yet
          buf,      \* MessageBuffer, and a byte stored behind it
          pos,
          heap,     \* "whole" or "damaged"
          message   \* what was displayed

formatVars == <<stage, call, fmt, ap, buf, pos, heap, message>>
--------------------------------------------------------------------------------
Empty == [k \in 0..(Size - 1) |-> Garbage]
NoCall == [format |-> <<>>, args |-> <<>>]

FormatInit == /\ stage = "idle"
              /\ call = NoCall /\ fmt = <<>> /\ ap = <<>>
              /\ buf = Empty /\ pos = 0 /\ heap = "whole"
              /\ message = <<>>

\* An allocation or a free, and on to the next stage; a damaged heap may
\* fault in it.
HeapCall(next) == stage' = next \/ (heap' = "damaged" /\ stage' = "dead")

\* The block for the message is not cleared.
RtlCliDisplayString ==
  /\ stage = "idle"
  /\ HeapCall("format")
  /\ call' \in Calls
  /\ fmt' = call'.format /\ ap' = call'.args
  /\ UNCHANGED <<buf, pos, heap, message>>

\* Mutant of FmtWrite: its test is left out.
FmtWrite_Unbounded(s) ==
  /\ buf' = [k \in DOMAIN buf \cup pos..(pos + Len(s) - 1) |->
               IF pos <= k /\ k < pos + Len(s) THEN s[k - pos + 1] ELSE buf[k]]
  /\ pos' = pos + Len(s)

\* fmt_write_char of each character: pos goes on when nothing is written any
\* more.  size is Size - 1 by then.
FmtWrite(s) ==
  /\ buf' = [k \in DOMAIN buf |->
               IF pos <= k /\ k < pos + Len(s) /\ k < Size - 2 THEN s[k - pos + 1] ELSE buf[k]]
  /\ pos' = pos + Len(s)

\* Mutant of Digits: no digit for 0.
Digits_NoZero(n, base) ==
  LET digits[v \in Words] == IF v = 0 THEN <<>> ELSE Append(digits[v \div base], v % base)
  IN  digits[n]

\* The digits of fmt_utoa_dec and fmt_utoa_hex, collected from the last one.
Digits(n, base) ==
  LET digits[v \in Words] == IF v < base THEN <<v>> ELSE Append(digits[v \div base], v % base)
  IN  digits[n]

FmtUtoa(n, base) == [i \in 1..Len(Digits(n, base)) |-> DigitChars[Digits(n, base)[i] + 1]]

\* fmt_itoa_dec: -(val + 1) is an int even for the least one.
FmtItoa(n) ==
  LET val == IF n >= HalfInt THEN n - 2 * HalfInt ELSE n
  IN  IF val < 0 THEN <<"-">> \o FmtUtoa((-(val + 1) + 1) % (2 * HalfInt), 10) ELSE FmtUtoa(n, 10)

AsNarrow(s) == [i \in 1..Len(s) |-> IF s[i] \in Ascii THEN s[i] ELSE "?"]

\* The next argument, as a word: a string's is its address.
WordsOf(a) == IF a.type = "int" THEN {a.value} ELSE Addresses

Took == ap' = Tail(ap)

\* An access violation: a word that is no address was taken for a string.
Fault == /\ stage' = "dead"
         /\ UNCHANGED <<ap, buf, pos>>

Goes == UNCHANGED stage

NullText == <<"(", "n", "u", "l", "l", ")">>

FormatString ==
  LET a == Head(ap) IN
  \/ a.type = "char*" /\ FmtWrite(a.value) /\ Took /\ Goes
  \/ a = Null /\ FmtWrite(NullText) /\ Took /\ Goes
  \/ a.type = "int" /\ a # Null /\ Fault

FormatWide ==
  LET a == Head(ap) IN
  \/ a.type = "wchar_t*" /\ FmtWrite(AsNarrow(a.value)) /\ Took /\ Goes
  \/ a = Null /\ FmtWrite(<<>>) /\ Took /\ Goes
  \/ a.type = "int" /\ a # Null /\ Fault

FormatNumber(c) ==
  \E n \in WordsOf(Head(ap)) :
    /\ FmtWrite(CASE c \in {"d", "i"} -> FmtItoa(n)
                  [] c = "u" -> FmtUtoa(n, 10)
                  [] c \in {"x", "X"} -> FmtUtoa(n, 16))
    /\ Took /\ Goes

FormatChar == FmtWrite(<<Head(ap).value>>) /\ Took /\ Goes

Numbers == {"d", "i", "u", "x", "X"}
Supported == {"s", "S", "c", "%"} \cup Numbers

\* Flags, widths, %p and %l: displayed as they are.
Unsupported(c) == FmtWrite(<<"%", c>>) /\ UNCHANGED ap /\ Goes

Convert(c) ==
  \/ c = "s" /\ FormatString
  \/ c = "S" /\ FormatWide
  \/ c \in Numbers /\ FormatNumber(c)
  \/ c = "c" /\ FormatChar
  \/ c = "%" /\ FmtWrite(<<"%">>) /\ UNCHANGED ap /\ Goes
  \/ c \notin Supported /\ Unsupported(c)

\* The loop of native_vsnprintf.
NativeVsnprintf ==
  /\ stage = "format" /\ fmt # <<>> /\ pos < Size - 1
  /\ fmt' = Tail(fmt)
  /\ LET c == Head(fmt).char IN
       IF Head(fmt).percent THEN Convert(c)
       ELSE FmtWrite(<<c>>) /\ UNCHANGED ap /\ Goes
  /\ UNCHANGED <<call, heap, message>>

Ended == fmt = <<>> \/ pos >= Size - 1

\* The string in b; one without end goes on behind the block.
Displayed(b) ==
  LET ends == {k \in 0..(Size - 1) : b[k] = Nul}
      end == IF ends = {} THEN Size ELSE CHOOSE k \in ends : \A j \in ends : k <= j
  IN  [i \in 1..end |-> b[i - 1]] \o (IF ends = {} THEN <<Garbage>> ELSE <<>>)

\* buf[pos] = 0, wherever pos has got to.
Terminate(b) == [k \in DOMAIN b \cup {pos} |-> IF k = pos THEN Nul ELSE b[k]]

\* The return of _vsnprintf, RtlCreateUnicodeStringFromAsciiz, which allocates,
\* and RtlCliPrintString.
EndOfMessage ==
  /\ stage = "format" /\ Ended
  /\ buf' = Terminate(buf)
  /\ heap' = IF pos >= Size THEN "damaged" ELSE heap
  /\ HeapCall("displayed")
  /\ message' = IF stage' = "displayed" THEN Displayed(buf') ELSE <<>>
  /\ fmt' = <<>> /\ ap' = <<>> /\ pos' = 0
  /\ UNCHANGED call

\* RtlFreeHeap and the return to the caller.
FreeMessage ==
  /\ stage = "displayed"
  /\ HeapCall("idle")
  /\ call' = NoCall /\ buf' = Empty /\ message' = <<>>
  /\ UNCHANGED <<fmt, ap, pos, heap>>

FormatNext == RtlCliDisplayString \/ NativeVsnprintf \/ EndOfMessage \/ FreeMessage

FormatSpec == FormatInit /\ [][FormatNext]_formatVars
--------------------------------------------------------------------------------
(***************************************************************************)
(* Reference: the text a call stands for, item by item, a number as the    *)
(* shortest row of digits with its value.                                  *)
(***************************************************************************)
Rows(base) == UNION {[1..m -> 0..(base - 1)] : m \in 1..MaxDigits}

Value(row, base) ==
  LET value[i \in 0..Len(row)] == IF i = 0 THEN 0 ELSE value[i - 1] * base + row[i]
  IN  value[Len(row)]

ASSUME MaxDigitsAssumption ==
  /\ MaxDigits \in Nat
  /\ \A base \in {10, 16} : \A n \in Words : \E row \in Rows(base) : Value(row, base) = n

Shortest(n, base) ==
  CHOOSE row \in Rows(base) : Value(row, base) = n /\ (Len(row) > 1 => row[1] # 0)

Numeral(n, base) ==
  LET row == Shortest(n, base) IN [i \in 1..Len(row) |-> DigitChars[row[i] + 1]]

Signed(n) == IF n >= HalfInt THEN <<"-">> \o Numeral(2 * HalfInt - n, 10) ELSE Numeral(n, 10)

\* The arguments a conversion may be given, and its text.
Fits(c, a) == \/ c = "s" /\ (a.type = "char*" \/ a = Null)
              \/ c = "S" /\ (a.type = "wchar_t*" \/ a = Null)
              \/ c = "c" /\ a.type = "char"
              \/ c \in Numbers /\ a.type = "int"

Text(c, a) == CASE c = "s" -> IF a = Null THEN NullText ELSE a.value
                [] c = "S" -> IF a = Null THEN <<>> ELSE AsNarrow(a.value)
                [] c = "c" -> <<a.value>>
                [] c \in {"d", "i"} -> Signed(a.value)
                [] c = "u" -> Numeral(a.value, 10)
                [] c \in {"x", "X"} -> Numeral(a.value, 16)

\* The argument of the item at i is the one with as many before it.
ArgumentOf(cl, i) == cl.args[Taken(cl.format, i)]

Matched(cl) ==
  \A i \in DOMAIN cl.format :
    Takes(cl.format[i]) => Fits(cl.format[i].char, ArgumentOf(cl, i))

ItemText(cl, i) == IF Takes(cl.format[i]) THEN Text(cl.format[i].char, ArgumentOf(cl, i))
                   ELSE <<cl.format[i].char>>

Whole(cl) ==
  LET text[i \in 0..Len(cl.format)] == IF i = 0 THEN <<>> ELSE text[i - 1] \o ItemText(cl, i)
  IN  text[Len(cl.format)]

(***************************************************************************)
(* Every variable has its type.  No byte of a text is stored behind the    *)
(* block; the Nul at its end may be, and damages the heap when it is.      *)
(***************************************************************************)
MessageTypeOK ==
  /\ stage \in {"idle", "format", "displayed", "dead"}
  /\ heap \in {"whole", "damaged"}
  /\ \A k \in DOMAIN buf :
       k >= Size => buf[k] = Nul /\ heap = "damaged" /\ stage \in {"displayed", "dead"}
  /\ pos \in Nat
  /\ IsSuffix(fmt, call.format) /\ IsSuffix(ap, call.args)

(***************************************************************************)
(* A format whose conversions are supported and match their arguments is   *)
(* displayed as the text it stands for, whatever numbers and null pointers *)
(* are in it, if that leaves two bytes of the block; of a longer text      *)
(* everything before those two is displayed.  A text that fits the block   *)
(* stores nothing behind it, and no text faults but on a heap that a       *)
(* longer one has damaged.                                                 *)
(***************************************************************************)
TextDisplayed ==
  Matched(call) =>
    LET text == Whole(call)
    IN  /\ stage = "dead" => heap = "damaged"
        /\ Len(text) < Size => \A k \in DOMAIN buf : k < Size
        /\ stage = "displayed" =>
             IF Len(text) <= Size - 2 THEN message = text
             ELSE IsPrefix(SubSeq(text, 1, Size - 2), message)
================================================================================
