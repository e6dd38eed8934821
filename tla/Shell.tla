--------------------------------- MODULE Shell ---------------------------------
(***************************************************************************)
(* The commands of native.exe's shell that work with handles, pages and    *)
(* other processes (main.c, process.c, file.c, sysinfo.c, input.c),        *)
(* composed with the devtree listing (HardwareTree) and the self-install   *)
(* of the badapple command (SelfInstall).  The shell has one thread; child *)
(* processes, the user and a loss of power act between any two of its      *)
(* steps.  The file commands are in Files, the playback in Player, and the *)
(* line a command comes from in LineInput and CommandLine.                 *)
(*                                                                         *)
(* runtime is the printf the program is linked with: Makefile.native takes *)
(* nativertl.c, Makefile.mingw and sources the C library.                  *)
(*                                                                         *)
(* External: the user, the files, the processes and the kernel.            *)
(***************************************************************************)
EXTENDS HardwareTree, SelfInstall

CONSTANTS MaxEntries,  \* bound: entries of a directory, modules
          DirPage,     \* 21: entries RtlCliListDirectory displays at a time
          ModulePage   \* 20: modules RtlCliListDrivers displays at a time

ASSUME PageAssumption == /\ MaxEntries \in Nat
                         /\ DirPage \in Nat \ {0} /\ ModulePage \in Nat \ {0}

VARIABLES pc,        \* where the shell's thread is
          runtime,   \* "nativertl" or "crt"
          hKeyboard, \* "open", "closed" or "garbage"
          child,     \* the program run last: "none" or "running"
          suspended, \* a process was created and never resumed
          held,      \* what the command has open or allocated
          list       \* the listing that is under way

shellVars == <<pc, runtime, hKeyboard, child, suspended, held, list>>
vars == <<shellVars, treeVars, installVars>>
processVars == <<runtime, hKeyboard, child, suspended>>
--------------------------------------------------------------------------------
\* entries: how many there are; scan: how many the system has returned;
\* block: those that are not displayed yet; shown: those displayed, a history,
\* as is since, how many of them since the user was last asked; i: the code's
\* counter.
NewList(n, returned) ==
  [entries |-> n, scan |-> returned, block |-> [k \in 1..returned |-> k], shown |-> <<>>,
   since |-> 0, i |-> 0, FirstQuery |-> TRUE]

NoList == NewList(0, 0)

\* The local variables are gone, and what they still held with them.
Return == pc' = "prompt" /\ held' = {} /\ list' = NoList

\* shell_main; the handle returned by a refused open is not initialised.
Init == /\ TreeInit /\ InstallInit
        /\ pc = "prompt"
        /\ runtime \in {"nativertl", "crt"}
        /\ hKeyboard \in {"open", "garbage"}
        /\ child = "none" /\ suspended = FALSE
        /\ held = {} /\ list = NoList

\* An access violation that nothing handles ends the process.
Fault == /\ pc' = "dead" /\ held' = {} /\ list' = NoList
--------------------------------------------------------------------------------
\* A name that is no command, of a file that exists.
RunProgram ==
  /\ pc = "prompt"
  /\ hKeyboard' = "closed"
  /\ pc' = "create"
  /\ UNCHANGED <<runtime, child, suspended, held, list, treeVars, installVars>>

\* Mutant of CreateNativeProcess: a program that is not run ends the command.
CreateNativeProcess_Returns ==
  /\ pc = "create"
  /\ \/ /\ pc' = "prompt"
        /\ UNCHANGED <<child, suspended>>
     \/ /\ suspended' = TRUE
        /\ pc' = "reopen"
        /\ UNCHANGED child
     \/ /\ child' = "running"
        /\ pc' = "wait"
        /\ UNCHANGED suspended
  /\ UNCHANGED <<runtime, hKeyboard, held, list, treeVars, installVars>>

\* RtlCreateProcessParameters or RtlCreateUserProcess fails; or the process
\* is there, but not for the native subsystem or not to be resumed; or it
\* runs.
CreateNativeProcess ==
  /\ pc = "create"
  /\ \/ /\ pc' = "reopen"
        /\ UNCHANGED <<child, suspended>>
     \/ /\ suspended' = TRUE
        /\ pc' = "reopen"
        /\ UNCHANGED child
     \/ /\ child' = "running"
        /\ pc' = "wait"
        /\ UNCHANGED suspended
  /\ UNCHANGED <<runtime, hKeyboard, held, list, treeVars, installVars>>

ChildEnds ==
  /\ child = "running"
  /\ child' = "none"
  /\ UNCHANGED <<pc, runtime, hKeyboard, suspended, held, list, treeVars, installVars>>

\* NtWaitForSingleObject(hProcess, FALSE, NULL).
WaitForChild ==
  /\ pc = "wait" /\ child = "none"
  /\ pc' = "reopen"
  /\ UNCHANGED <<processVars, held, list, treeVars, installVars>>

\* Its status is the one of NtCreateEvent, and nobody looks at it.
RtlCliOpenInputDevice ==
  /\ pc = "reopen"
  /\ hKeyboard' \in {"open", "garbage"}
  /\ Return
  /\ UNCHANGED <<runtime, child, suspended, treeVars, installVars>>
--------------------------------------------------------------------------------
\* The directory cannot be opened; no memory; no event; or the first query.
RtlCliListDirectory ==
  /\ pc = "prompt"
  /\ \/ Return
     \/ \E n \in 0..MaxEntries :
          /\ list' = NewList(n, 0)
          /\ held' = {"directory", "block", "event"}
          /\ pc' = "query"
  /\ UNCHANGED <<processVars, treeVars, installVars>>

\* Mutant of QueryDirectory: every query is a first one.
QueryDirectory_Restarts ==
  /\ pc = "query"
  /\ \/ \E n \in 1..list.entries :
          /\ list' = [list EXCEPT !.scan = n, !.block = [k \in 1..n |-> k]]
          /\ pc' = "show"
          /\ UNCHANGED held
     \/ Return
  /\ UNCHANGED <<processVars, treeVars, installVars>>

\* ZwQueryDirectoryFile fills the block with as many entries as fit, from the
\* first on if FirstQuery.  No more of them, or an error, ends the listing;
\* the event is not closed.
QueryDirectory ==
  /\ pc = "query"
  /\ LET first == IF list.FirstQuery THEN 0 ELSE list.scan
     IN  \/ \E n \in 1..(list.entries - first) :
              /\ list' = [list EXCEPT !.scan = first + n, !.block = [k \in 1..n |-> first + k]]
              /\ pc' = "show"
              /\ UNCHANGED held
         \/ Return
  /\ UNCHANGED <<processVars, treeVars, installVars>>

\* What follows an entry: the next one of the block, or the next query.
NextEntry(l) == IF l.block # <<>> THEN list' = l /\ pc' = "show"
                ELSE list' = [l EXCEPT !.FirstQuery = FALSE] /\ pc' = "query"

\* The first entry of the block is displayed, and counted.
Display(l, i) == [l EXCEPT !.block = Tail(@), !.shown = Append(@, Head(l.block)),
                           !.since = @ + 1, !.i = i]

\* RtlCliDumpFileInfo.  For nativertl.c "%02d" takes no argument, so that "%s"
\* gets Time.Day for a string.
DumpFileInfo ==
  /\ pc = "show"
  /\ IF runtime = "nativertl" THEN Fault
     ELSE /\ IF list.i + 1 >= DirPage THEN list' = Display(list, 0) /\ pc' = "page"
             ELSE NextEntry(Display(list, list.i + 1))
          /\ UNCHANGED held
  /\ UNCHANGED <<processVars, treeVars, installVars>>

\* "Continue listing (y/n):"; any other key is read again.
AnswerPage ==
  /\ pc = "page"
  /\ \/ NextEntry([list EXCEPT !.since = 0]) /\ UNCHANGED held
     \/ Return
  /\ UNCHANGED <<processVars, treeVars, installVars>>
--------------------------------------------------------------------------------
\* The query's status is not looked at until the end: the block is zeroed.
\* Without a block the number of modules is read through a null pointer.
RtlCliListDrivers ==
  /\ pc = "prompt"
  /\ \/ Fault
     \/ \E n \in 0..MaxEntries :
          /\ list' = NewList(n, n)
          /\ held' = {"block"}
          /\ pc' = "modules"
  /\ UNCHANGED <<processVars, treeVars, installVars>>

ShowModule(l) == list' = Display(l, l.i + 1) /\ pc' = "modules"

ListModule ==
  /\ pc = "modules"
  /\ IF list.block = <<>> THEN Return
     ELSE /\ IF list.i # 0 /\ list.i % ModulePage = 0 THEN pc' = "hold" /\ UNCHANGED list
             ELSE ShowModule(list)
          /\ UNCHANGED held
  /\ UNCHANGED <<processVars, treeVars, installVars>>

\* Mutant of PressSpace: the test is made again.
PressSpace_Again ==
  /\ pc = "hold"
  /\ pc' = "modules"
  /\ UNCHANGED <<list, held, processVars, treeVars, installVars>>

\* "--- PRESS SPACE TO CONTINUE ---".
PressSpace ==
  /\ pc = "hold"
  /\ ShowModule([list EXCEPT !.since = 0])
  /\ UNCHANGED <<held, processVars, treeVars, installVars>>

\* No memory, or more processes than fit; else all are listed, and the block
\* stays allocated.  For nativertl.c "[%lx] %S" takes the process id for a
\* string: 0, of the first process, displays nothing, the next one faults.
RtlCliListProcesses ==
  /\ pc = "prompt"
  /\ Return \/ (runtime = "nativertl" /\ Fault)
  /\ UNCHANGED <<processVars, treeVars, installVars>>
--------------------------------------------------------------------------------
DumpHardwareTree ==
  /\ pc = "prompt"
  /\ RtlCliListHardwareTree
  /\ pc' = "devtree"
  /\ UNCHANGED <<processVars, held, list, installVars>>

DevtreeStep ==
  /\ pc = "devtree"
  /\ RtlCliListSubNodes
  /\ UNCHANGED <<shellVars, installVars>>

DevtreeReturns ==
  /\ pc = "devtree" /\ AllListed
  /\ ForgetTree
  /\ Return
  /\ UNCHANGED <<processVars, installVars>>

\* badapple, when the driver's device cannot be opened.
PlayBadApple ==
  /\ pc = "prompt"
  /\ AudioInit
  /\ pc' = "install"
  /\ UNCHANGED <<processVars, held, list, treeVars>>

InstallStep ==
  /\ pc = "install"
  /\ AudioWriteDriverToFile \/ AudioCreateServiceKey
  /\ UNCHANGED <<shellVars, treeVars>>

\* The playback goes on, without sound.
InstallReturns ==
  /\ pc = "install" /\ at = "idle"
  /\ Return
  /\ UNCHANGED <<processVars, treeVars, installVars>>
--------------------------------------------------------------------------------
\* The machine comes up again, with the shell where it was.
Reboot ==
  /\ Restart
  /\ ForgetTree
  /\ Return
  /\ hKeyboard' \in {"open", "garbage"}
  /\ child' = "none" /\ suspended' = FALSE
  /\ UNCHANGED runtime

\* shutdown, reboot and poweroff; a refusal does nothing.
RtlCliShutdown == pc = "prompt" /\ Reboot

PowerLoss == Reboot

\* What a command does from the first step to its last.
Command == \/ CreateNativeProcess \/ WaitForChild \/ RtlCliOpenInputDevice
           \/ QueryDirectory \/ DumpFileInfo \/ ListModule
           \/ DevtreeStep \/ DevtreeReturns \/ InstallStep \/ InstallReturns

Start == \/ RunProgram \/ RtlCliListDirectory \/ RtlCliListDrivers \/ RtlCliListProcesses
         \/ DumpHardwareTree \/ PlayBadApple \/ RtlCliShutdown

User == AnswerPage \/ PressSpace

Next == Start \/ Command \/ User \/ ChildEnds \/ PowerLoss

\* The thread is scheduled, and the user answers what is asked; a keyboard
\* that is not open gives no answer.  Nothing makes a child end.
Spec == /\ Init /\ [][Next]_vars
        /\ WF_vars(Command)
        /\ WF_vars(hKeyboard = "open" /\ User)
--------------------------------------------------------------------------------
Working == {"create", "wait", "reopen", "query", "show", "modules", "devtree", "install"}
Reading == {"prompt", "page", "hold"}

DirectorySteps == {"query", "show", "page"}
ModuleSteps == {"modules", "hold"}
Listings == DirectorySteps \cup ModuleSteps

\* What a command has to hold at its steps.
Holds == CASE pc \in DirectorySteps -> {"directory", "block", "event"}
           [] pc \in ModuleSteps -> {"block"}
           [] OTHER -> {}

(***************************************************************************)
(* Every variable has its type; a listing holds what it uses and nothing   *)
(* else does, and its entries and counters are those of its listing.       *)
(***************************************************************************)
TypeOK ==
  /\ TreeTypeOK /\ InstallTypeOK
  /\ pc \in Working \cup Reading \cup {"dead"}
  /\ runtime \in {"nativertl", "crt"}
  /\ hKeyboard \in {"open", "closed", "garbage"}
  /\ child \in {"none", "running"} /\ suspended \in BOOLEAN
  /\ held = Holds
  /\ list.entries \in 0..MaxEntries /\ list.scan \in 0..list.entries
  /\ list.block \in Seq(1..list.entries) /\ list.shown \in Seq(1..list.entries)
  /\ list.since \in 0..Len(list.shown) /\ list.i \in 0..Len(list.shown)
  /\ list.FirstQuery \in BOOLEAN
  /\ pc \notin Listings => list = NoList
  /\ Listing <=> pc = "devtree"
  /\ at # "idle" => pc = "install"

(***************************************************************************)
(* The keyboard is handed over and back: while a program runs the shell    *)
(* waits and has its keyboard closed, and it never reads from a handle it  *)
(* has closed, whichever call of the creation failed.                      *)
(***************************************************************************)
KeyboardHandedOver ==
  /\ child = "running" => pc = "wait" /\ hKeyboard = "closed"
  /\ pc \in Reading => hKeyboard # "closed"

(***************************************************************************)
(* However the entries are spread over queries and pages, what is          *)
(* displayed and what is left of the block are the entries that the system *)
(* has returned, from the first to the last of them, each once and in      *)
(* order; never more than a page of them goes by without the user being    *)
(* asked, and the user is asked at a full page only.                       *)
(***************************************************************************)
EntriesShownOnce ==
  pc \in Listings =>
    LET page == IF pc \in DirectorySteps THEN DirPage ELSE ModulePage
    IN  /\ list.shown \o list.block = [k \in 1..list.scan |-> k]
        /\ list.since <= page
        /\ pc \in {"page", "hold"} => list.since = page

(***************************************************************************)
(* audio.c:127 says of the service key "NtLoadDriver requires this key to  *)
(* exist": it is made, and the user told, only when the whole driver is in *)
(* the file AudioWriteDriverToFile has opened, whatever earlier attempts   *)
(* and losses of power left there.  Only where there is a device "dows" is *)
(* there such a file at all; the key's ImagePath names another one, in     *)
(* \SystemRoot.                                                            *)
(***************************************************************************)
KeyAfterDriver ==
  [][at = "key" /\ at' = "idle" /\ told' = "installed"
       => service' /\ file' = "whole"]_vars

(***************************************************************************)
(* Every command gives the prompt back or ends the shell, unless the       *)
(* program it runs does not end, or it asks for a key that cannot come.    *)
(***************************************************************************)
CommandReturns ==
  (pc \in Working \cup Reading)
    ~> (\/ pc \in {"prompt", "dead"}
        \/ child = "running"
        \/ pc \in Reading /\ hKeyboard = "garbage")

(***************************************************************************)
(* The tree listing recurses once per level: the indentation it shares     *)
(* between the calls is that of the device, in the order of the tree.      *)
(***************************************************************************)
TreeShown == ListedInOrder /\ IndentIsDepth

(***************************************************************************)
(* hardware.c:191 says of the recursion "Now get the entire tree".         *)
(***************************************************************************)
DevtreeEntire == AllListed /\ allowed => EntireTree
================================================================================
