------------------------------ MODULE HardwareTree ------------------------------
(***************************************************************************)
(* The devtree command (hardware.c): RtlCliListHardwareTree and the        *)
(* recursion of RtlCliListSubNodes over the PnP manager's answers.  A      *)
(* frame is a call of RtlCliListSubNodes; its Current is a pointer, to the *)
(* caller's FoundChild at first and to its own FoundSibling from then on.  *)
(*                                                                         *)
(* Devices are numbered in the order a depth-first listing of the whole    *)
(* tree meets them; last[d] is the last device of the subtree of d.  The   *)
(* tree may be another one at each listing, but stays as it is during one. *)
(*                                                                         *)
(* External: NtPlugPlayControl, which reads the name it is given before it *)
(* writes the name it returns, and refuses the empty name; the registry,   *)
(* where every device has a description.                                   *)
(***************************************************************************)
EXTENDS Naturals, Sequences, FiniteSets

CONSTANT N          \* the number of devices below the root

ASSUME NAssumption == N \in Nat \ {0}

Devices == 1..N
Empty == 0                            \* the empty string
Names == Devices \cup {Empty}

VARIABLES last,      \* the tree
          frames,    \* the calls of RtlCliListSubNodes, the innermost first
          Level,
          listed,    \* what has been displayed, with its indentation
          allowed    \* the shell has the privilege NtPlugPlayControl wants

treeVars == <<last, frames, Level, listed, allowed>>

NoTree == <<>>     \* between two listings
--------------------------------------------------------------------------------
Trees == {t \in [Devices -> Devices] :
            \A d \in Devices : /\ t[d] >= d
                               /\ \A e \in Devices : d < e /\ e <= t[d] => t[e] <= t[d]}

Ancestors(d) == {a \in Devices : a < d /\ d <= last[a]}

\* PNP_GET_CHILD_DEVICE and PNP_GET_SIBLING_DEVICE; Empty where there is none.
Child(d) == IF last[d] > d THEN d + 1 ELSE Empty

Sibling(d) == IF last[d] < N /\ Ancestors(last[d] + 1) = Ancestors(d)
              THEN last[d] + 1 ELSE Empty

Answer(d, relation) ==
  CASE ~allowed \/ d \notin Devices -> Empty
    [] allowed /\ d \in Devices /\ relation = "child" -> Child(d)
    [] allowed /\ d \in Devices /\ relation = "sibling" -> Sibling(d)

TreeInit == /\ last = NoTree
            /\ frames = <<>>
            /\ Level = 0
            /\ listed = <<>>
            /\ allowed = FALSE

\* A call on device d.
Call(d) == [at |-> "sibling", Current |-> "argument", argument |-> d, FoundSibling |-> Empty]

\* A query that is refused does not end the listing: Buffer is handed on with
\* whatever the stack holds, the name of a device perhaps.
RtlCliListHardwareTree ==
  /\ last = NoTree
  /\ last' \in Trees
  /\ allowed' \in BOOLEAN
  /\ \E d \in Names : /\ allowed' => d = 1
                      /\ frames' = <<Call(d)>>
  /\ UNCHANGED <<Level, listed>>

Listing == last # NoTree
AllListed == Listing /\ frames = <<>>

\* The outermost call has returned, and so does RtlCliListHardwareTree.
ForgetTree == /\ last' = NoTree /\ frames' = <<>> /\ Level' = 0
              /\ listed' = <<>> /\ allowed' = FALSE

Frame == frames[1]
At(step) == frames # <<>> /\ Frame.at = step
Current == IF Frame.Current = "argument" THEN Frame.argument ELSE Frame.FoundSibling
Go(f) == frames' = <<f>> \o Tail(frames)

\* RtlCliGetChildOrSibling(Current, FoundSibling, PNP_GET_SIBLING_DEVICE):
\* writes the very buffer Current points to from the second turn on.
GetSibling ==
  /\ At("sibling")
  /\ Go([Frame EXCEPT !.at = "print",
          !.FoundSibling = Answer(Current, "sibling")])
  /\ UNCHANGED <<last, Level, listed, allowed>>

\* The empty name opens the Enum key itself, which describes no device.
RtlCliPrintDeviceName ==
  /\ At("print")
  /\ Go([Frame EXCEPT !.at = "child"])
  /\ listed' = IF Current \in Devices THEN Append(listed, [device |-> Current, indent |-> Level])
               ELSE listed
  /\ UNCHANGED <<last, Level, allowed>>

\* Mutant of ListSubNodes: Level is raised for the first child only.
ListSubNodes_KeepsLevel ==
  /\ At("child")
  /\ IF Answer(Current, "child") # Empty
     THEN /\ frames' = <<Call(Answer(Current, "child")), [Frame EXCEPT !.at = "next"]>> \o Tail(frames)
          /\ Level' = IF Frame.Current = "argument" THEN Level + 1 ELSE Level
     ELSE /\ Go([Frame EXCEPT !.at = "next"])
          /\ UNCHANGED Level
  /\ UNCHANGED <<last, listed, allowed>>

\* The recursive call on the child, if there is one.
ListSubNodes ==
  /\ At("child")
  /\ IF Answer(Current, "child") # Empty
     THEN /\ frames' = <<Call(Answer(Current, "child")), [Frame EXCEPT !.at = "next"]>> \o Tail(frames)
          /\ Level' = Level + 1
     ELSE /\ Go([Frame EXCEPT !.at = "next"])
          /\ UNCHANGED Level
  /\ UNCHANGED <<last, listed, allowed>>

\* Mutant of NextSibling: the return leaves Level as it is.
NextSibling_KeepsLevel ==
  /\ At("next")
  /\ IF Frame.FoundSibling # Empty
     THEN Go([Frame EXCEPT !.at = "sibling", !.Current = "FoundSibling"])
     ELSE frames' = Tail(frames)
  /\ UNCHANGED <<last, Level, listed, allowed>>

\* Current = FoundSibling: the next turn, or the return.
NextSibling ==
  /\ At("next")
  /\ IF Frame.FoundSibling # Empty
     THEN /\ Go([Frame EXCEPT !.at = "sibling", !.Current = "FoundSibling"])
          /\ UNCHANGED Level
     ELSE /\ frames' = Tail(frames)
          /\ Level' = IF Len(frames) > 1 THEN Level - 1 ELSE Level
  /\ UNCHANGED <<last, listed, allowed>>

RtlCliListSubNodes == GetSibling \/ RtlCliPrintDeviceName \/ ListSubNodes \/ NextSibling
--------------------------------------------------------------------------------
TreeTypeOK ==
  /\ last \in Trees \cup {NoTree} /\ allowed \in BOOLEAN
  /\ \A i \in 1..Len(frames) :
       /\ frames[i].at \in {"sibling", "print", "child", "next"}
       /\ frames[i].argument \in Names /\ frames[i].FoundSibling \in Names
  /\ Level = IF frames = <<>> THEN 0 ELSE Len(frames) - 1

(***************************************************************************)
(* Devices are listed in the order of the tree, none of them twice.        *)
(***************************************************************************)
ListedInOrder ==
  \A i, j \in 1..Len(listed) : i < j => listed[i].device < listed[j].device

(***************************************************************************)
(* Each is indented by its depth, whatever was listed before it, although  *)
(* Level is one variable for all the calls.                                *)
(***************************************************************************)
IndentIsDepth ==
  allowed => \A i \in 1..Len(listed) :
               listed[i].indent = Cardinality(Ancestors(listed[i].device))

(***************************************************************************)
(* hardware.c:191 says of the recursion "Now get the entire tree".         *)
(***************************************************************************)
EntireTree == \A d \in Devices : \E i \in 1..Len(listed) : listed[i].device = d
================================================================================
