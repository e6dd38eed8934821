------------------------------ MODULE CommandLine ------------------------------
(***************************************************************************)
(* What the shell makes of the characters of a line: the line buffer that  *)
(* keeps what is behind a shorter line (input.c), the splitting of a copy  *)
(* of it in place (StringToArguments, shell.c), the comparison with the    *)
(* command words and the paths handed to the system (main.c, file.c,       *)
(* shell.c), and the path AudioWriteDriverToFile (audio.c) computes.       *)
(*                                                                         *)
(* Strings are sequences of characters, buffers functions from their       *)
(* indices.  The editing of a line is LineInput's; here a line is only     *)
(* typed.                                                                  *)
(*                                                                         *)
(* External: the current directory the system keeps and which files exist. *)
(***************************************************************************)
EXTENDS Integers, SequencesExt

CONSTANTS Letters,   \* the characters that mean nothing to the shell
          White,     \* space and tab
          Words,     \* the command words, by name
          Dirs,      \* the directories of the machine, the roots included
          MaxLine,   \* bound: characters of a line
          NUM_ARGS   \* 256: the entries of xargv

Nul == "NUL"
Quotes == {"\"", "'"}
Colon == ":"
Space == " "
Slash == "\\"
Characters == Letters \cup White \cup Quotes \cup {Colon}
Buffer == [0..MaxLine -> Characters \cup {Nul}]

Commands == {"exit", "cd", "dir", "copy"}
ExeSuffix == << ".", "e", "x", "e" >>

ASSUME MaxLineAssumption == MaxLine \in Nat
ASSUME NumArgsAssumption == NUM_ARGS \in Nat \ {0}
ASSUME WordsAssumption ==
         /\ Words \in [Commands -> Seq(Letters) \ {<<>>}]
         /\ Len(Words["cd"]) = 2
         /\ \A c, d \in Commands : IsPrefix(Words[c], Words[d]) => c = d
ASSUME CharactersAssumption ==
         /\ Nul \notin Characters /\ Space \in White
         /\ White \cap Quotes = {} /\ Letters \cap (White \cup Quotes) = {}
ASSUME DirsAssumption == \A d \in Dirs : Len(d) >= 3 /\ d[2] = Colon /\ d[3] = Slash

VARIABLES pc,          \* "menu", "prompt", "read", "split", "dispatch"
          Line,        \* Line[]
          CurrentPosition,
          CommandBuf,  \* the copy StringToArguments works on
          string,      \* its pointer into it
          argv,        \* xargv: where in CommandBuf the arguments begin
          cwd,         \* the current directory
          request,     \* what the last command asked of the system
          typed        \* history: the characters of the line

vars == <<pc, Line, CurrentPosition, CommandBuf, string, argv, cwd, request, typed>>
--------------------------------------------------------------------------------
\* The first index from i on whose character is in S.
Find(b, i, S) == CHOOSE j \in i..MaxLine : b[j] \in S /\ \A k \in i..(j - 1) : b[k] \notin S

\* The string that begins at index i.
String(b, i) == [k \in 1..(Find(b, i, {Nul}) - i) |-> b[i + k - 1]]

NotWhite == (Characters \ White) \cup {Nul}

\* Mutant of TokenEnd: either quote closes the token.
TokenEnd_AnyQuote(b, i) ==
  IF b[i] \in Quotes THEN Find(b, i + 1, Quotes \cup {Nul}) ELSE Find(b, i, White \cup {Nul})

\* Where the token at index i ends: a quoted one at its quote or at the end.
TokenEnd(b, i) ==
  IF b[i] \in Quotes THEN Find(b, i + 1, {b[i], Nul}) ELSE Find(b, i, White \cup {Nul})

TokenStart(b, i) == IF b[i] \in Quotes THEN i + 1 ELSE i

\* GetFullPath: a name with a drive stands for itself.
GetFullPath(name, add_slash) ==
  LET path == IF Len(name) > 1 /\ name[2] = Colon THEN name
              ELSE cwd \o (IF Last(cwd) = Slash THEN <<>> ELSE <<Slash>>) \o name
  IN  IF add_slash THEN Append(path, Slash) ELSE path

\* RtlCliListDirectory is given the current directory and what was typed.
DirPath(names) == IF names = <<>> THEN cwd ELSE cwd \o <<Slash>> \o names[1]

\* RtlCliSetCurrentDirectory.
CdPath(name) == IF Len(name) >= 2 /\ name[2] = Colon THEN name ELSE GetFullPath(name, TRUE)

\* RtlSetCurrentDirectory_U: a bare drive stands for the directory that is
\* current on it; a directory that does not exist is refused.
Reached(path) ==
  IF Len(path) = 2 THEN {d \in Dirs : SubSeq(d, 1, 2) = path}
  ELSE {d \in Dirs : path \in {d, Append(d, Slash)}}

SetCurrentDirectory(path) == cwd' \in IF Reached(path) = {} THEN {cwd} ELSE Reached(path)
--------------------------------------------------------------------------------
Nothing == [op |-> "none", paths |-> <<>>, line |-> <<>>]

Init == /\ pc = "menu"
        /\ Line = [i \in 0..MaxLine |-> Nul]
        /\ CurrentPosition = 0
        /\ CommandBuf = Line
        /\ string = 0
        /\ argv = <<>>
        /\ cwd \in Dirs
        /\ request = Nothing
        /\ typed = <<>>

\* [3] Shell.
RtlCliShowMenu ==
  /\ pc = "menu"
  /\ pc' = "prompt"
  /\ request' = Nothing
  /\ UNCHANGED <<Line, CurrentPosition, CommandBuf, string, argv, cwd, typed>>

ShowPrompt ==
  /\ pc = "prompt"
  /\ pc' = "read"
  /\ request' = Nothing
  /\ UNCHANGED <<Line, CurrentPosition, CommandBuf, string, argv, cwd, typed>>

TypeCharacter(c) ==
  /\ pc = "read" /\ CurrentPosition < MaxLine
  /\ Line' = [Line EXCEPT ![CurrentPosition] = c]
  /\ CurrentPosition' = CurrentPosition + 1
  /\ typed' = Append(typed, c)
  /\ UNCHANGED <<pc, CommandBuf, string, argv, cwd, request>>

\* Mutant of Copied: CommandBuf is not zeroed before.
Copied_NoZero(line) ==
  [i \in 0..MaxLine |-> IF i < Len(line) THEN line[i + 1] ELSE CHOOSE c \in Letters : TRUE]

\* strncpy(CommandBuf, Command, ...): what is behind the line is not copied.
Copied(line) == [i \in 0..MaxLine |-> IF i < Len(line) THEN line[i + 1] ELSE Nul]

\* Enter: RtlCliGetLine returns; "exit" is compared with the line itself.
RtlCliShellLoop ==
  /\ pc = "read"
  /\ Line' = [Line EXCEPT ![CurrentPosition] = Nul]
  /\ CurrentPosition' = 0
  /\ LET Command == String(Line', 0) IN
       IF Command = <<>> \/ IsPrefix(Words["exit"], Command)
       THEN /\ pc' = IF Command = <<>> THEN "prompt" ELSE "menu"
            /\ typed' = <<>>
            /\ UNCHANGED CommandBuf
       ELSE /\ pc' = "split"
            /\ CommandBuf' = Copied(Command)
            /\ UNCHANGED typed
  /\ UNCHANGED <<string, argv, cwd, request>>

\* Mutant of StringToArguments: the line itself is split.
StringToArguments_InLine ==
  /\ pc = "split"
  /\ LET start == Find(CommandBuf, string, NotWhite)
         end == Find(CommandBuf, start, {Nul})
         tokenEnd == TokenEnd(CommandBuf, start)
     IN  IF start = end
         THEN pc' = "dispatch" /\ UNCHANGED <<Line, CommandBuf, string, argv>>
         ELSE /\ CommandBuf' = [CommandBuf EXCEPT ![tokenEnd] = Nul]
              /\ Line' = [Line EXCEPT ![tokenEnd] = Nul]
              /\ argv' = Append(argv, TokenStart(CommandBuf, start))
              /\ string' = tokenEnd + 1
              /\ pc' = IF tokenEnd = end \/ Len(argv') >= NUM_ARGS THEN "dispatch" ELSE "split"
  /\ UNCHANGED <<CurrentPosition, cwd, request, typed>>

\* One turn of its loop: the token is cut off in place.
StringToArguments ==
  /\ pc = "split"
  /\ LET start == Find(CommandBuf, string, NotWhite)
         end == Find(CommandBuf, start, {Nul})
         tokenEnd == TokenEnd(CommandBuf, start)
     IN  IF start = end
         THEN pc' = "dispatch" /\ UNCHANGED <<CommandBuf, string, argv>>
         ELSE /\ CommandBuf' = [CommandBuf EXCEPT ![tokenEnd] = Nul]
              /\ argv' = Append(argv, TokenStart(CommandBuf, start))
              /\ string' = tokenEnd + 1
              /\ pc' = IF tokenEnd = end \/ Len(argv') >= NUM_ARGS THEN "dispatch" ELSE "split"
  /\ UNCHANGED <<Line, CurrentPosition, cwd, request, typed>>
--------------------------------------------------------------------------------
Arguments == [i \in 1..Len(argv) |-> String(CommandBuf, argv[i])]

\* _strnicmp with the length of the word: any longer name matches too.
Is(command) == IsPrefix(Words[command], Arguments[1])

Ask(op, paths) == request' = [op |-> op, paths |-> paths, line |-> String(Line, 0)]

\* cd is given &Command[3], whatever is there.
ChangeDirectory ==
  LET path == CdPath(String(Line, 3))
  IN  Is("cd") /\ Ask("cd", <<path>>) /\ SetCurrentDirectory(path)

ListDirectory == Is("dir") /\ Ask("dir", <<DirPath(Tail(Arguments))>>) /\ UNCHANGED cwd

CopyFile ==
  /\ Is("copy")
  /\ IF Len(argv) > 2
     THEN Ask("copy", <<GetFullPath(Arguments[2], FALSE), GetFullPath(Arguments[3], FALSE)>>)
     ELSE UNCHANGED request
  /\ UNCHANGED cwd

ChangeDrive ==
  /\ Len(Arguments[1]) = 2 /\ Arguments[1][2] = Colon
  /\ Ask("drive", <<Arguments[1]>>)
  /\ SetCurrentDirectory(Arguments[1])

\* The name as it is, then with .exe; the child is given the whole line.
RunProgram ==
  LET name == GetFullPath(Arguments[1], FALSE)
  IN  /\ Ask("run", <<name>>) \/ Ask("run", <<name \o ExeSuffix>>) \/ UNCHANGED request
      /\ UNCHANGED cwd

\* " exit" matches here, and does nothing.  CommandBuf is a local.
RtlClipProcessMessage ==
  /\ pc = "dispatch"
  /\ pc' = "prompt"
  /\ CommandBuf' = [i \in 0..MaxLine |-> Nul]
  /\ string' = 0 /\ argv' = <<>> /\ typed' = <<>>
  /\ IF argv = <<>> \/ Is("exit") THEN UNCHANGED <<request, cwd>>
     ELSE IF \E c \in Commands : Is(c)
          THEN ChangeDirectory \/ ListDirectory \/ CopyFile
          ELSE IF Len(Arguments[1]) = 2 /\ Arguments[1][2] = Colon
               THEN ChangeDrive ELSE RunProgram
  /\ UNCHANGED <<Line, CurrentPosition>>

\* \Windows\System32\drivers\BadAppleAudio.sys, the first four characters one
\* by one.
DriverFile == << Slash, "W", "i", "n", "dows", Slash, "System32", Slash, "drivers", Slash,
                 "BadAppleAudio.sys" >>

NtPrefix == << Slash, "?", "?", Slash >>

\* The dosPath of AudioWriteDriverToFile.  The first backslash of filePath is
\* the first character of the prefix: the whole of it is replaced, and the
\* current directory plays no part.
DriverDosPath ==
  LET filePath == NtPrefix \o cwd
      p == CHOOSE i \in 1..Len(filePath) :
             filePath[i] = Slash /\ \A k \in 1..(i - 1) : filePath[k] # Slash
      replaced == SubSeq(filePath, 1, p - 1) \o DriverFile
  IN  SubSeq(replaced, 5, Len(replaced))

\* NtFileOpenFile puts the prefix in front of a path as it is.
NtFileOpenFile(path) == NtPrefix \o path

\* [1] Play Bad Apple, when the driver's device cannot be opened.  Windows
\* defines no DOS device "dows", so that neither open finds what it names.
PlayBadApple ==
  /\ pc = "menu"
  /\ request' = [op |-> "install", paths |-> <<NtFileOpenFile(DriverDosPath)>>, line |-> <<>>]
  /\ UNCHANGED <<pc, Line, CurrentPosition, CommandBuf, string, argv, cwd, typed>>

Next == \/ RtlCliShowMenu \/ PlayBadApple \/ ShowPrompt
        \/ \E c \in Characters : TypeCharacter(c)
        \/ RtlCliShellLoop \/ StringToArguments \/ RtlClipProcessMessage

Spec == Init /\ [][Next]_vars
--------------------------------------------------------------------------------
(***************************************************************************)
(* Reference: the arguments of a line, character by character.  Between    *)
(* two arguments a quote begins a quoted one, which ends at the same quote *)
(* (quotes inside another argument are characters); what is not closed     *)
(* ends with the line.                                                     *)
(***************************************************************************)
Between == [mode |-> "between", tokens |-> <<>>, token |-> <<>>]

Ended(s) == [Between EXCEPT !.tokens = Append(s.tokens, s.token)]

Lex(s, c) ==
  CASE s.mode = "between" /\ c \in White    -> s
    [] s.mode = "between" /\ c \in Quotes   -> [s EXCEPT !.mode = c]
    [] s.mode = "between" /\ c \notin White \cup Quotes
                                            -> [s EXCEPT !.mode = "plain", !.token = <<c>>]
    [] s.mode = "plain" /\ c \in White      -> Ended(s)
    [] s.mode \in Quotes /\ c = s.mode      -> Ended(s)
    [] OTHER                                -> [s EXCEPT !.token = Append(@, c)]

\* The state behind each character of a line.
Lexed(line) == LET s[k \in 0..Len(line)] == IF k = 0 THEN Between ELSE Lex(s[k - 1], line[k])
               IN  s

Tokens(line) == LET s == Lexed(line)[Len(line)]
                IN  IF s.mode = "between" THEN s.tokens ELSE Ended(s).tokens

(***************************************************************************)
(* Every variable has its type, and pointers stay inside their buffers.    *)
(***************************************************************************)
TypeOK ==
  /\ pc \in {"menu", "prompt", "read", "split", "dispatch"}
  /\ Line \in Buffer /\ CommandBuf \in Buffer
  /\ CurrentPosition \in 0..MaxLine
  /\ Line[MaxLine] = Nul /\ CommandBuf[MaxLine] = Nul
  /\ pc = "split" => string \in 0..MaxLine
  /\ \A i \in 1..Len(argv) : argv[i] \in 0..MaxLine
  /\ cwd \in Dirs
  /\ request.op \in {"none", "cd", "dir", "copy", "drive", "run", "install"}

(***************************************************************************)
(* However a line mixes whitespace and quotes, the strings argv points to  *)
(* when the command is chosen are the arguments of the line: cutting a     *)
(* token off in place damages none that was found before.                  *)
(***************************************************************************)
ArgvIsTokens ==
  pc = "dispatch" =>
    LET all == Tokens(typed)
    IN  Arguments = SubSeq(all, 1, IF Len(all) < NUM_ARGS THEN Len(all) ELSE NUM_ARGS)

(***************************************************************************)
(* When the command is chosen the line is still the typed one, although it *)
(* has been split: a child process gets all of it, and cd, which takes its *)
(* argument at a fixed place of the line, gets the one argv has, if one    *)
(* space and no quote is before it.                                        *)
(***************************************************************************)
LineKept ==
  [][pc = "dispatch" =>
       /\ String(Line, 0) = typed
       /\ LET name == SubSeq(typed, 4, Len(typed)) IN
          /\ typed = Words["cd"] \o <<Space>> \o name /\ Len(argv) = 2
          /\ \A i \in 1..Len(name) : name[i] \notin White \cup Quotes
          => request'.paths = <<CdPath(Arguments[2])>>]_vars

(***************************************************************************)
(* audio.c:48 says of the embedded driver "Write to System32\drivers - the *)
(* only place boot-load drivers can be found": the object it opens to      *)
(* write is that file, on the drive of the current directory.              *)
(***************************************************************************)
DriverInDrivers ==
  request.op = "install" =>
    request.paths = <<NtPrefix \o SubSeq(cwd, 1, 2) \o DriverFile>>
================================================================================
