------------------------------- MODULE LineInput -------------------------------
(***************************************************************************)
(* The shell's line editor: RtlCliGetLine and RtlCliGetChar (input.c), the *)
(* scan code translation (keytrans.c) and the display buffer behind the    *)
(* backspace (display.c).  A step reads one keyboard event and runs until  *)
(* the next one is wanted.                                                 *)
(*                                                                         *)
(* External: the keyboard, and what NtDisplayString does to the screen: it *)
(* overwrites from the cursor on, goes on in the next row behind the last  *)
(* column, and has '\r' go back to the first column of the row it is in.   *)
(***************************************************************************)
EXTENDS Integers, Sequences

CONSTANTS Keys,       \* the keys of the keyboard
          PathKeys,   \* the characters of a path
          Prompt,     \* the prompt: the current directory and what follows it
          Columns,    \* of the screen
          HalfChar,   \* 128: a CHAR is in -HalfChar..HalfChar-1
          MaxTyped    \* bound: characters the user types on one line

ASSUME ColumnsAssumption == Columns \in Nat \ {0}
ASSUME HalfCharAssumption == HalfChar \in Nat \ {0}
ASSUME MaxTypedAssumption == MaxTyped \in Nat
ASSUME PromptAssumption == Prompt \in Seq([key : PathKeys, shift : BOOLEAN])

LeftShift == "LeftShift"        \* scan codes 2a and 36, without prefix
RightShift == "RightShift"
FakeShift == "FakeShift"        \* E0 2a, sent around an arrow key
Enter == "Enter"
Backspace == "Backspace"
DeadKey == "F1"                 \* a scan code that is not in ScanToAscii
Shifts == {LeftShift, RightShift}
Letters == Keys \ (Shifts \cup {FakeShift, Enter, Backspace, DeadKey})

Blank == [key |-> " ", shift |-> FALSE]
Index == (-HalfChar)..(HalfChar - 1)

VARIABLES pc,               \* "prompt", "read" or "command"
          down,             \* the keys that are physically down
          dwControlKeyState,\* its SHIFT_PRESSED bit
          stale,            \* history: the bit is set and no shift key has
                            \* been read since a program had the keyboard
          Line,             \* Line[] at every index a CHAR can have
          CurrentPosition,
          display,          \* DisplayBuffer up to LinePos; the screen row the
                            \* cursor is in, its column, and whether the line
                            \* begins here or in a row above
          text,             \* history: what the keys typed so far amount to
          wrapped           \* history: CurrentPosition has left the buffer

vars == <<pc, down, dwControlKeyState, stale, Line, CurrentPosition, display, text, wrapped>>
--------------------------------------------------------------------------------
\* Mutant of Char: a CHAR without sign.
Char_Unsigned(n) == n % (2 * HalfChar)

\* n as a signed CHAR.
Char(n) == ((n + HalfChar) % (2 * HalfChar)) - HalfChar

\* row with s from position c on.
Overwrite(row, s, c) == SubSeq(row, 1, c) \o s \o SubSeq(row, c + Len(s) + 1, Len(row))

\* NtDisplayString of s, from the cursor on.
Draw(d, s) ==
  LET flat == Overwrite(d.row, s, d.cursor)
      end == d.cursor + Len(s)
      column == end % Columns
  IN  IF end < Columns
      THEN [buffer |-> d.buffer, row |-> flat, cursor |-> end, begins |-> d.begins]
      ELSE [buffer |-> d.buffer, row |-> SubSeq(flat, end - column + 1, end),
            cursor |-> column, begins |-> "above"]

\* RtlCliPutChar of a character, of '\r' and of '\n'.
RtlCliPutChar(d, c) == Draw([d EXCEPT !.buffer = Append(@, c)], <<c>>)

CarriageReturn(d) == [d EXCEPT !.cursor = 0]

NewLine == [buffer |-> <<>>, row |-> <<>>, cursor |-> 0, begins |-> "here"]

\* RtlClipBackspace: the buffer less its last character, displayed.
RtlClipBackspace(d) ==
  LET shorter == SubSeq(d.buffer, 1, Len(d.buffer) - 1)
  IN  Draw([d EXCEPT !.buffer = shorter], shorter)

\* Mutant of Erase: the character is not overwritten.
Erase_NoBlank(d) == RtlClipBackspace(CarriageReturn(d))

\* The backspace of RtlCliGetLine.
Erase(d) ==
  LET once == RtlClipBackspace(CarriageReturn(d))
  IN  RtlClipBackspace(CarriageReturn(RtlCliPutChar(once, Blank)))

\* Mutant of IntUpdateControlKeyState: the E0 prefix is not looked at.
IntUpdateControlKeyState_NoPrefix(state, k, press) ==
  IF k \in Shifts \cup {FakeShift} THEN press ELSE state

\* One bit for both shift keys; an E0 prefix rules out either.
IntUpdateControlKeyState(state, k, press) == IF k \in Shifts THEN press ELSE state

\* RtlCliPrintString: RtlCliPutChar of one character after the other.
RtlCliPrintString(d, s) == Draw([d EXCEPT !.buffer = @ \o s], s)
--------------------------------------------------------------------------------
Init == /\ pc = "prompt"
        /\ down = {}
        /\ dwControlKeyState = FALSE
        /\ stale = FALSE
        /\ Line = [i \in Index |-> Blank]
        /\ CurrentPosition = 0
        /\ display = NewLine
        /\ text = <<>>
        /\ wrapped = FALSE

\* RtlCliShellLoop prints the prompt and calls RtlCliGetLine.
ShowPrompt ==
  /\ pc = "prompt"
  /\ display' = RtlCliPrintString(display, Prompt)
  /\ text' = <<>>
  /\ pc' = "read"
  /\ UNCHANGED <<down, dwControlKeyState, stale, Line, CurrentPosition, wrapped>>

\* A command of the shell's own runs and its output ends with a new line.
RunCommand ==
  /\ pc = "command"
  /\ display' = NewLine
  /\ pc' = "prompt"
  /\ UNCHANGED <<down, dwControlKeyState, stale, Line, CurrentPosition, text, wrapped>>

\* A program runs.  The keyboard is closed meanwhile, so what becomes of the
\* keys is not read; the control key state is a static that keeps its value.
RunProgram ==
  /\ pc = "command"
  /\ down' \in SUBSET Keys
  /\ stale' = dwControlKeyState
  /\ display' = NewLine
  /\ pc' = "prompt"
  /\ UNCHANGED <<dwControlKeyState, Line, CurrentPosition, text, wrapped>>

Terminator == [key |-> "NUL", shift |-> FALSE]

\* Mutant of ReturnLine: the line is not terminated.
ReturnLine_NoNull ==
  /\ CurrentPosition' = 0
  /\ pc' = "command"
  /\ UNCHANGED <<Line, display, text, wrapped>>

ReturnLine ==
  /\ Line' = [Line EXCEPT ![CurrentPosition] = Terminator]
  /\ CurrentPosition' = 0
  /\ pc' = "command"
  /\ UNCHANGED <<display, text, wrapped>>

\* Refused at the beginning of the line.
EraseLast ==
  /\ IF CurrentPosition # 0
     THEN /\ display' = Erase(display)
          /\ CurrentPosition' = Char(CurrentPosition - 1)
          /\ text' = SubSeq(text, 1, Len(text) - 1)
     ELSE UNCHANGED <<display, CurrentPosition, text>>
  /\ UNCHANGED <<pc, Line, wrapped>>

\* Mutant of AddChar: the position is advanced first.
AddChar_After(c) ==
  /\ CurrentPosition' = Char(CurrentPosition + 1)
  /\ Line' = [Line EXCEPT ![CurrentPosition'] = c]
  /\ display' = RtlCliPutChar(display, c)
  /\ text' = Append(text, c)
  /\ wrapped' = (wrapped \/ CurrentPosition' < 0)
  /\ UNCHANGED pc

\* Stored in the line, echoed on the display.
AddChar(c) ==
  /\ Line' = [Line EXCEPT ![CurrentPosition] = c]
  /\ CurrentPosition' = Char(CurrentPosition + 1)
  /\ display' = RtlCliPutChar(display, c)
  /\ text' = Append(text, c)
  /\ wrapped' = (wrapped \/ CurrentPosition' < 0)
  /\ UNCHANGED pc

\* RtlCliGetChar reads a key going down, or one that is down coming up.
RtlCliGetChar(k, press) ==
  /\ ~press => k \in down
  /\ down' = IF press THEN down \cup {k} ELSE down \ {k}
  /\ dwControlKeyState' = IntUpdateControlKeyState(dwControlKeyState, k, press)
  /\ stale' = (stale /\ k \notin Shifts)

\* RtlCliGetChar returns -1 on a release and 0 on a key without character;
\* neither does anything to the line.
KeyEvent(k, press) ==
  /\ pc = "read"
  /\ RtlCliGetChar(k, press)
  /\ \/ press /\ k = Enter /\ ReturnLine
     \/ press /\ k = Backspace /\ EraseLast
     \/ /\ press /\ k \in Letters /\ Len(text) < MaxTyped
        /\ AddChar([key |-> k, shift |-> dwControlKeyState'])
     \/ /\ ~press \/ k \in Shifts \cup {FakeShift, DeadKey}
        /\ UNCHANGED <<pc, Line, CurrentPosition, display, text, wrapped>>

RtlCliGetLine == \E k \in Keys, press \in BOOLEAN : KeyEvent(k, press)

\* A command that waits for a key reads events too: a page of lm or dir,
\* the question of devtree.
AwaitKey ==
  /\ pc = "command"
  /\ \E k \in Keys, press \in BOOLEAN : RtlCliGetChar(k, press)
  /\ UNCHANGED <<pc, Line, CurrentPosition, display, text, wrapped>>

Next == ShowPrompt \/ RtlCliGetLine \/ AwaitKey \/ RunCommand \/ RunProgram

Spec == Init /\ [][Next]_vars
--------------------------------------------------------------------------------
Chars == [key : Letters \cup {" ", "NUL"}, shift : BOOLEAN]
\* What the screen can show.
Glyphs == [key : Letters \cup PathKeys \cup {" ", "NUL"}, shift : BOOLEAN]
Display == [buffer : Seq(Glyphs), row : Seq(Glyphs), cursor : 0..(Columns - 1),
            begins : {"here", "above"}]

(***************************************************************************)
(* Every variable has its type.                                            *)
(***************************************************************************)
TypeOK ==
  /\ pc \in {"prompt", "read", "command"}
  /\ down \subseteq Keys
  /\ dwControlKeyState \in BOOLEAN /\ stale \in BOOLEAN
  /\ Line \in [Index -> Chars]
  /\ CurrentPosition \in Index
  /\ display \in Display
  /\ text \in Seq(Chars) /\ Len(text) <= MaxTyped
  /\ wrapped \in BOOLEAN

(***************************************************************************)
(* After any sequence of keys the screen row shows exactly DisplayBuffer,  *)
(* with nothing of what was erased, and the cursor is behind it: the two   *)
(* redraws of the backspace hack cancel out.  That is so for a line that   *)
(* has not left its first row: '\r' goes back one row at most, so the       *)
(* redraw of a line that has begins again below what was displayed of it.  *)
(***************************************************************************)
ScreenShowsBuffer ==
  LET n == Len(display.buffer)
  IN  display.begins = "here" =>
        /\ display.cursor = n
        /\ SubSeq(display.row, 1, n) = display.buffer
        /\ \A i \in (n + 1)..Len(display.row) : display.row[i] = Blank

(***************************************************************************)
(* What the user sees behind the prompt is what Line holds, character by   *)
(* character, as long as CurrentPosition never left the buffer.            *)
(***************************************************************************)
EchoIsStored ==
  pc = "read" /\ ~wrapped =>
    /\ display.buffer = Prompt \o text
    /\ CurrentPosition = Len(text)
    /\ \A i \in 1..Len(text) : Line[i - 1] = text[i]

(***************************************************************************)
(* The string the command parser gets is the line typed and edited, with   *)
(* nothing left of a longer line before it.                                *)
(***************************************************************************)
ReturnsTyped ==
  pc = "command" /\ ~wrapped =>
    /\ \A i \in 1..Len(text) : Line[i - 1] = text[i]
    /\ Line[Len(text)] = Terminator

(***************************************************************************)
(* Characters are shifted only while a shift key is down, whatever the     *)
(* presses, repeats, releases and prefixed codes.  A release that happens  *)
(* while a program has the keyboard is lost and the bit then stays on, but *)
(* no longer than to the next event of either shift key.                   *)
(***************************************************************************)
ShiftTracksKeys == dwControlKeyState /\ ~stale => down \cap Shifts # {}
================================================================================
