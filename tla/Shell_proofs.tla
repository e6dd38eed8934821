------------------------------ MODULE Shell_proofs ------------------------------
(***************************************************************************)
(* Proofs about Shell, HardwareTree and SelfInstall, for any number of     *)
(* devices and entries and any sizes of a page.                     *)
(***************************************************************************)
EXTENDS Shell, SequenceTheorems, FiniteSetTheorems, TLAPS

(***************************************************************************)
(* The recursion of the devtree listing, for any tree of any number of     *)
(* devices.                                                                *)
(***************************************************************************)
FrameType == [at : {"sibling", "print", "child", "next"},
              Current : {"argument", "FoundSibling"},
              argument : Names, FoundSibling : Names]

CurrentOf(f) == IF f.Current = "argument" THEN f.argument ELSE f.FoundSibling

\* Everything listed is before device d, or not behind it.
Before(d) == \A i \in 1..Len(listed) : listed[i].device < d
UpTo(d) == \A i \in 1..Len(listed) : listed[i].device <= d

\* What has been listed when a frame has come to its step.
Walked(f) ==
  /\ f.at = "sibling" => IF f.Current = "argument" THEN Before(f.argument)
                         ELSE f.FoundSibling \in Devices /\ UpTo(last[f.FoundSibling])
  /\ f.at = "print" /\ CurrentOf(f) \in Devices => Before(CurrentOf(f))
  /\ f.at = "child" /\ CurrentOf(f) \in Devices => UpTo(CurrentOf(f))
  /\ f.at = "next" /\ CurrentOf(f) \in Devices => UpTo(last[CurrentOf(f)])

(***************************************************************************)
(* A frame at a depth of the tree: its devices have the same ancestors, as *)
(* many as the depth says, and the sibling it goes on with is behind the   *)
(* subtree it was called for.                                              *)
(***************************************************************************)
FrameOK(f, depth) ==
  /\ f.argument \in Devices
  /\ f.FoundSibling \in Devices => Ancestors(f.FoundSibling) = Ancestors(f.argument)
  /\ f.Current = "argument" /\ f.FoundSibling \in Devices => f.FoundSibling > last[f.argument]
  /\ Cardinality(Ancestors(f.argument)) = depth
  /\ Walked(f)

\* A frame that waits for the recursive call is about an ancestor of
\* everything the inner ones are about.
Waits(k) ==
  /\ frames[k].at = "next"
  /\ CurrentOf(frames[k]) \in Devices
  /\ \A j \in 1..(k - 1) : CurrentOf(frames[k]) \in Ancestors(frames[j].argument)

Stack ==
  /\ \A k \in 1..Len(frames) : FrameOK(frames[k], Len(frames) - k)
  /\ \A k \in 2..Len(frames) : Waits(k)

\* Without the privilege no device but the first name is ever displayed.
Alone(f) == /\ f.Current = "argument" /\ f.FoundSibling = Empty
            /\ f.at \in {"sibling", "print"} => listed = <<>>

Refused == /\ Len(frames) \in {0, 1} /\ Len(listed) \in {0, 1}
           /\ \A k \in 1..Len(frames) : Alone(frames[k])

LineType == [device : Devices, indent : Nat]

Walk ==
  /\ listed \in Seq(LineType)
  /\ ListedInOrder
  /\ IndentIsDepth
  /\ allowed => Stack
  /\ ~allowed => Refused
--------------------------------------------------------------------------------
LEMMA AnswerLemma ==
  ASSUME last \in Trees, NEW d, NEW relation \in {"child", "sibling"}
  PROVE  Answer(d, relation) \in Names
<1>1. CASE ~allowed \/ d \notin Devices
  BY <1>1 DEF Answer, Names
<1>2. CASE allowed /\ d \in Devices
  <2>1. d \in Nat /\ last[d] \in 1..N /\ N \in Nat
    BY <1>2, NAssumption DEF Trees, Devices
  <2>2. Child(d) \in Names
    <3>1. CASE last[d] > d
      <4>1. d + 1 \in 1..N
        BY <2>1, <3>1
      <4>2. QED
        BY <3>1, <4>1 DEF Child, Names, Devices
    <3>2. QED
      BY <3>1 DEF Child, Names
  <2>3. Sibling(d) \in Names
    <3>1. CASE last[d] < N
      <4>1. last[d] + 1 \in 1..N
        BY <2>1, <3>1
      <4>2. QED
        BY <4>1 DEF Sibling, Names, Devices
    <3>2. QED
      BY <3>1 DEF Sibling, Names
  <2>4. QED
    BY <1>2, <2>2, <2>3 DEF Answer
<1>3. QED
  BY <1>1, <1>2

\* A call replaces its own frame.
LEMMA GoLemma ==
  ASSUME NEW S, NEW s \in Seq(S), s # <<>>, NEW f \in S
  PROVE  LET t == <<f>> \o Tail(s)
         IN  t \in Seq(S) /\ t # <<>> /\ Len(t) = Len(s)
<1>1. Tail(s) \in Seq(S) /\ Len(Tail(s)) = Len(s) - 1 /\ Len(s) \in Nat /\ Len(s) > 0
  BY HeadTailProperties, EmptySeq, LenProperties
<1>2. <<f>> \in Seq(S) /\ Len(<<f>>) = 1
  OBVIOUS
<1>3. <<f>> \o Tail(s) \in Seq(S) /\ Len(<<f>> \o Tail(s)) = 1 + Len(Tail(s))
  BY <1>1, <1>2, ConcatProperties
<1>4. QED
  BY <1>1, <1>3

LEMMA FrameLemma ==
  ASSUME NEW S, NEW s \in Seq(S), s # <<>>
  PROVE  s[1] \in S /\ Len(s) \in Nat \ {0} /\ Tail(s) \in Seq(S) /\ Len(Tail(s)) = Len(s) - 1
  BY HeadTailProperties, EmptySeq, LenProperties, ElementOfSeq

LEMMA TreeLemma ==
  ASSUME last \in Trees, NEW d \in Devices
  PROVE  /\ d \in Nat /\ N \in Nat /\ last[d] \in Devices /\ d <= last[d] /\ last[d] <= N
         /\ \A a \in Ancestors(d) : a \in Devices /\ a < d /\ last[d] <= last[a]
<1>1. last \in [Devices -> Devices]
  BY DEF Trees
<1>2. /\ last[d] >= d
      /\ \A a \in Devices : a < d /\ d <= last[a] => last[d] <= last[a]
  BY DEF Trees
<1>3. d \in 1..N /\ last[d] \in 1..N /\ N \in Nat
  BY <1>1, NAssumption DEF Devices
<1>4. QED
  BY <1>1, <1>2, <1>3 DEF Ancestors

LEMMA AncestorsFinite ==
  ASSUME NEW d
  PROVE  IsFiniteSet(Ancestors(d)) /\ Cardinality(Ancestors(d)) \in Nat
<1>1. IsFiniteSet(Devices)
  BY NAssumption, FS_Interval DEF Devices
<1>2. Ancestors(d) \subseteq Devices
  BY DEF Ancestors
<1>3. QED
  BY <1>1, <1>2, FS_Subset, FS_CardinalityType

\* One level further down: the device itself is one more ancestor.
LEMMA ChildLemma ==
  ASSUME last \in Trees, allowed, NEW d \in Devices
  PROVE  LET c == Answer(d, "child")
         IN  \/ c = Empty /\ last[d] = d
             \/ /\ c = d + 1 /\ c \in Devices
                /\ Ancestors(c) = Ancestors(d) \cup {d}
                /\ Cardinality(Ancestors(c)) = Cardinality(Ancestors(d)) + 1
<1>1. Answer(d, "child") = Child(d)
  BY DEF Answer
<1>2. /\ d \in Nat /\ N \in Nat /\ last[d] \in Nat /\ d <= last[d] /\ last[d] <= N
      /\ \A a \in Ancestors(d) : a \in Devices /\ a < d /\ last[d] <= last[a]
  BY TreeLemma DEF Devices
<1>3. CASE last[d] > d
  <2>0. d + 1 <= last[d] /\ d + 1 \in 1..N
    BY <1>2, <1>3
  <2>1. Child(d) = d + 1 /\ d + 1 \in Devices
    BY <1>3, <2>0 DEF Child, Devices
  <2>2. \A a \in Devices : a \in Nat /\ last[a] \in Nat
    BY DEF Trees, Devices
  <2>3. \A a \in Devices : a < d + 1 /\ d + 1 <= last[a] => a = d \/ a \in Ancestors(d)
    BY <1>2, <2>2 DEF Ancestors
  <2>4. \A a \in Ancestors(d) : a < d + 1 /\ d + 1 <= last[a]
    <3>1. TAKE a \in Ancestors(d)
    <3>2. a \in Nat /\ last[a] \in Nat /\ a < d /\ last[d] <= last[a]
      BY <1>2, <2>2
    <3>3. QED
      BY <1>2, <2>0, <3>2
  <2>5. Ancestors(d + 1) = Ancestors(d) \cup {d}
    <3>1. \A a : a \in Ancestors(d + 1) => a \in Ancestors(d) \cup {d}
      BY <2>3 DEF Ancestors
    <3>2. \A a \in Ancestors(d) : a \in Ancestors(d + 1)
      BY <2>4 DEF Ancestors
    <3>3. d \in Ancestors(d + 1)
      BY <1>2, <1>3 DEF Ancestors
    <3>4. QED
      BY <3>1, <3>2, <3>3
  <2>6. d \notin Ancestors(d)
    BY <1>2
  <2>7. Cardinality(Ancestors(d) \cup {d}) = Cardinality(Ancestors(d)) + 1
    BY <2>6, AncestorsFinite, FS_AddElement
  <2>8. QED
    BY <1>1, <2>1, <2>5, <2>7
<1>4. CASE ~(last[d] > d)
  BY <1>1, <1>2, <1>4 DEF Child
<1>5. QED
  BY <1>3, <1>4

\* The sibling is behind the device's subtree, and on the same level.
LEMMA SiblingLemma ==
  ASSUME last \in Trees, allowed, NEW d \in Devices, Answer(d, "sibling") \in Devices
  PROVE  LET s == Answer(d, "sibling")
         IN  s = last[d] + 1 /\ Ancestors(s) = Ancestors(d)
<1>1. Empty \notin Devices
  BY NAssumption DEF Empty, Devices
<1>2. QED
  BY <1>1 DEF Answer, Sibling

LEMMA EmptyLemma == Empty \notin Devices /\ \A n \in Names : n # Empty => n \in Devices
  BY NAssumption DEF Empty, Devices, Names
--------------------------------------------------------------------------------
\* A frame that is left as it is: nothing new is listed, or nothing that is
\* behind what it waits for.
LEMMA SameFrame ==
  ASSUME NEW f, NEW depth, FrameOK(f, depth), UNCHANGED last,
         \/ UNCHANGED listed
         \/ /\ f.at = "next"
            /\ \A i \in 1..Len(listed') : listed'[i].device <= last[CurrentOf(f)]
  PROVE  FrameOK(f, depth)'
<1>1. \A d : Ancestors(d)' = Ancestors(d)
  BY DEF Ancestors
<1>2. Walked(f)'
  <2>1. CASE UNCHANGED listed
    BY <2>1 DEF FrameOK, Walked, Before, UpTo, CurrentOf
  <2>2. CASE /\ f.at = "next"
             /\ \A i \in 1..Len(listed') : listed'[i].device <= last[CurrentOf(f)]
    BY <2>2 DEF Walked, UpTo, CurrentOf
  <2>3. QED
    BY <2>1, <2>2
<1>3. QED
  BY <1>1, <1>2 DEF FrameOK

\* The innermost frame makes a step, and the others go on waiting.
LEMMA GoStack ==
  ASSUME Stack, frames \in Seq(FrameType), frames # <<>>, UNCHANGED last,
         NEW f \in FrameType, Go(f), f.argument = Frame.argument,
         NEW depth, depth = Len(frames) - 1, FrameOK(f, depth)',
         \A k \in 2..Len(frames) :
            \A i \in 1..Len(listed') : listed'[i].device <= last[CurrentOf(frames[k])]
  PROVE  Stack'
<1>1. /\ Len(frames') = Len(frames) /\ Len(frames) \in Nat \ {0}
      /\ frames'[1] = f /\ \A k \in 2..Len(frames) : frames'[k] = frames[k]
  BY GoLemma DEF Go
<1>2. ASSUME NEW k \in 1..Len(frames)
      PROVE  FrameOK(frames[k], Len(frames) - k)'
  <2>1. CASE k = 1
    BY <1>1, <2>1
  <2>2. CASE k \in 2..Len(frames)
    <3>1. PICK g, e : g = frames[k] /\ e = Len(frames) - k
      OBVIOUS
    <3>2. FrameOK(g, e) /\ g.at = "next"
      BY <2>2, <3>1 DEF Stack, Waits
    <3>3. FrameOK(g, e)'
      BY <2>2, <3>1, <3>2, SameFrame
    <3>4. QED
      BY <1>1, <2>2, <3>1, <3>3
  <2>3. QED
    BY <1>1, <2>1, <2>2
<1>3. ASSUME NEW k \in 2..Len(frames)
      PROVE  Waits(k)'
  <2>1. Waits(k) /\ frames'[k] = frames[k]
    BY <1>1 DEF Stack
  <2>2. \A j \in 1..(k - 1) : frames'[j].argument = frames[j].argument
    <3>1. SUFFICES ASSUME NEW j \in 1..(k - 1)
                   PROVE  frames'[j].argument = frames[j].argument
      OBVIOUS
    <3>2. CASE j = 1
      BY <1>1, <3>2 DEF Frame
    <3>3. CASE j # 1
      <4>1. j \in 2..Len(frames)
        BY <1>1, <3>3
      <4>2. QED
        BY <1>1, <4>1
    <3>4. QED
      BY <3>2, <3>3
  <2>3. \A d : Ancestors(d)' = Ancestors(d)
    BY DEF Ancestors
  <2>4. QED
    BY <2>1, <2>2, <2>3 DEF Waits, CurrentOf
<1>4. QED
  BY <1>1, <1>2, <1>3 DEF Stack

\* What the frames that wait know of the list.
LEMMA WaitingUpTo ==
  ASSUME Stack, NEW k \in 2..Len(frames)
  PROVE  \A i \in 1..Len(listed) : listed[i].device <= last[CurrentOf(frames[k])]
<1>1. Waits(k) /\ FrameOK(frames[k], Len(frames) - k)
  BY DEF Stack
<1>2. QED
  BY <1>1 DEF Waits, FrameOK, Walked, UpTo

LEMMA Innermost ==
  ASSUME Stack, frames \in Seq(FrameType), frames # <<>>
  PROVE  /\ Frame \in FrameType /\ Len(frames) \in Nat \ {0}
         /\ FrameOK(Frame, Len(frames) - 1)
         /\ Current = CurrentOf(Frame) /\ Current \in Names
<1>1. Frame \in FrameType /\ Len(frames) \in Nat \ {0}
  BY FrameLemma DEF Frame
<1>2. QED
  BY <1>1 DEF Stack, Frame, Current, CurrentOf, FrameType

LEMMA ListedType ==
  ASSUME listed \in Seq(LineType)
  PROVE  \A i \in 1..Len(listed) : listed[i] \in LineType /\ listed[i].device \in Nat
<1> TAKE i \in 1..Len(listed)
<1>1. listed[i] \in LineType
  BY ElementOfSeq
<1>2. QED
  BY <1>1 DEF LineType, Devices

LEMMA GetSiblingStep ==
  ASSUME last \in Trees, allowed, frames \in Seq(FrameType), listed \in Seq(LineType),
         Stack, GetSibling
  PROVE  Stack'
<1>1. frames # <<>> /\ Frame.at = "sibling" /\ UNCHANGED <<last, listed>>
  BY DEF GetSibling, At
<1>2. /\ Frame \in FrameType /\ FrameOK(Frame, Len(frames) - 1) /\ Len(frames) \in Nat \ {0}
      /\ Current = CurrentOf(Frame)
  BY <1>1, Innermost
<1>3. Current \in Devices
  BY <1>1, <1>2 DEF CurrentOf, FrameOK, Walked, FrameType
<1>4. PICK s : s = Answer(Current, "sibling")
  OBVIOUS
<1>5. s \in Names
  BY <1>4, AnswerLemma
<1>6. s \in Devices => s = last[Current] + 1 /\ Ancestors(s) = Ancestors(Current)
  BY <1>3, <1>4, SiblingLemma
<1>7. last[Current] \in Nat
  BY <1>3, TreeLemma DEF Devices
<1>8. PICK f : f = [Frame EXCEPT !.at = "print", !.FoundSibling = s]
  OBVIOUS
<1>9. /\ f \in FrameType /\ f.argument = Frame.argument /\ f.at = "print"
      /\ f.Current = Frame.Current /\ f.FoundSibling = s
  BY <1>2, <1>5, <1>8 DEF FrameType
<1>10. Go(f)
  BY <1>4, <1>8 DEF GetSibling
<1>11. FrameOK(f, Len(frames) - 1)
  <2>1. CASE Frame.Current = "argument"
    <3>1. Current = Frame.argument /\ CurrentOf(f) = Frame.argument /\ Before(Frame.argument)
      BY <1>1, <1>2, <1>9, <2>1 DEF CurrentOf, FrameOK, Walked
    <3>2. s \in Devices => s > last[Frame.argument]
      BY <1>6, <1>7, <3>1
    <3>3. QED
      BY <1>2, <1>6, <1>9, <3>1, <3>2 DEF FrameOK, Walked
  <2>2. CASE Frame.Current # "argument"
    <3>1. /\ Current = Frame.FoundSibling /\ CurrentOf(f) = s /\ UpTo(last[Current])
          /\ Current \in Devices
      BY <1>1, <1>2, <1>9, <2>2 DEF CurrentOf, FrameOK, Walked
    <3>2. Ancestors(Current) = Ancestors(Frame.argument)
      BY <1>2, <3>1 DEF FrameOK
    <3>3. s \in Devices => Before(s)
      BY <1>6, <1>7, <3>1, ListedType DEF UpTo, Before
    <3>4. QED
      BY <1>2, <1>6, <1>9, <2>2, <3>1, <3>2, <3>3 DEF FrameOK, Walked
  <2>3. QED
    BY <2>1, <2>2
<1>12. PICK depth : depth = Len(frames) - 1
  OBVIOUS
<1>13. FrameOK(f, depth)'
  BY <1>1, <1>11, <1>12, SameFrame
<1>14. QED
  BY <1>1, <1>9, <1>10, <1>12, <1>13, WaitingUpTo, GoStack

LEMMA PrintStep ==
  ASSUME last \in Trees, allowed, frames \in Seq(FrameType), listed \in Seq(LineType),
         Stack, RtlCliPrintDeviceName
  PROVE  Stack'
<1>1. frames # <<>> /\ Frame.at = "print" /\ UNCHANGED last
  BY DEF RtlCliPrintDeviceName, At
<1>2. /\ Frame \in FrameType /\ FrameOK(Frame, Len(frames) - 1) /\ Len(frames) \in Nat \ {0}
      /\ Current = CurrentOf(Frame)
  BY <1>1, Innermost
<1>3. PICK f, depth : f = [Frame EXCEPT !.at = "child"] /\ depth = Len(frames) - 1
  OBVIOUS
<1>4. /\ f \in FrameType /\ f.argument = Frame.argument /\ f.at = "child"
      /\ f.Current = Frame.Current /\ f.FoundSibling = Frame.FoundSibling
  BY <1>2, <1>3 DEF FrameType
<1>5. Go(f)
  BY <1>3 DEF RtlCliPrintDeviceName
<1>6. CASE Current \notin Devices
  <2>1. UNCHANGED listed
    BY <1>6 DEF RtlCliPrintDeviceName
  <2>2. FrameOK(f, depth)
    BY <1>2, <1>3, <1>4, <1>6 DEF FrameOK, Walked, CurrentOf
  <2>3. FrameOK(f, depth)'
    BY <1>1, <2>1, <2>2, SameFrame
  <2>4. QED
    BY <1>1, <1>3, <1>4, <1>5, <2>1, <2>3, WaitingUpTo, GoStack
<1>7. CASE Current \in Devices
  <2>1. PICK d : d = Current
    OBVIOUS
  <2>2. /\ Len(listed') = Len(listed) + 1 /\ Len(listed) \in Nat
        /\ \A i \in 1..Len(listed) : listed'[i] = listed[i]
        /\ listed'[Len(listed) + 1].device = d
    BY <1>7, <2>1 DEF RtlCliPrintDeviceName
  <2>3. Before(d) /\ d \in Nat /\ d \in Devices
    BY <1>1, <1>2, <1>7, <2>1 DEF FrameOK, Walked, Devices
  <2>4. \A i \in 1..Len(listed') : listed'[i].device <= d /\ listed'[i].device \in Nat
    <3>1. TAKE i \in 1..Len(listed')
    <3>2. i \in 1..Len(listed) \/ i = Len(listed) + 1
      BY <2>2
    <3>3. QED
      BY <2>2, <2>3, <3>2, ListedType DEF Before
  <2>5. \A e : Ancestors(e)' = Ancestors(e)
    BY <1>1 DEF Ancestors
  <2>6. CurrentOf(f) = d /\ UpTo(d)'
    BY <1>2, <1>4, <2>1, <2>4 DEF CurrentOf, UpTo
  <2>7. FrameOK(f, depth)'
    BY <1>1, <1>2, <1>3, <1>4, <2>5, <2>6 DEF FrameOK, Walked, CurrentOf
  <2>8. ASSUME NEW k \in 2..Len(frames), NEW i \in 1..Len(listed')
        PROVE  listed'[i].device <= last[CurrentOf(frames[k])]
    <3>1. Waits(k)
      BY DEF Stack
    <3>2. CurrentOf(frames[k]) \in Ancestors(Frame.argument) /\ CurrentOf(frames[k]) \in Devices
      BY <1>2, <3>1 DEF Waits, Frame
    <3>3. Ancestors(d) = Ancestors(Frame.argument)
      BY <1>2, <2>1, <2>3 DEF FrameOK, CurrentOf
    <3>4. last[CurrentOf(frames[k])] >= d /\ last[CurrentOf(frames[k])] \in Nat
      BY <3>2, <3>3, TreeLemma DEF Ancestors, Devices
    <3>5. QED
      BY <2>3, <2>4, <3>4
  <2>9. QED
    BY <1>1, <1>3, <1>4, <1>5, <2>7, <2>8, GoStack
<1>8. QED
  BY <1>6, <1>7

\* What the step that follows the child's call finds.
LEMMA ChildDone ==
  ASSUME last \in Trees, listed \in Seq(LineType), NEW f \in FrameType, NEW depth,
         FrameOK(f, depth), f.at = "child", NEW g, g = [f EXCEPT !.at = "next"]
  PROVE  /\ g \in FrameType /\ g.argument = f.argument /\ g.at = "next"
         /\ CurrentOf(g) = CurrentOf(f)
         /\ FrameOK(g, depth)
<1>1. /\ g \in FrameType /\ g.argument = f.argument /\ g.at = "next"
      /\ g.Current = f.Current /\ g.FoundSibling = f.FoundSibling
  BY DEF FrameType
<1>2. CurrentOf(g) = CurrentOf(f)
  BY <1>1 DEF CurrentOf
<1>3. ASSUME CurrentOf(f) \in Devices
      PROVE  UpTo(last[CurrentOf(f)])
  <2>1. PICK d : d = CurrentOf(f)
    OBVIOUS
  <2>2. UpTo(d) /\ d \in Nat /\ last[d] \in Nat /\ d <= last[d]
    BY <1>3, <2>1, TreeLemma DEF FrameOK, Walked, Devices
  <2>3. QED
    BY <2>1, <2>2, ListedType DEF UpTo
<1>4. QED
  BY <1>1, <1>2, <1>3 DEF FrameOK, Walked

LEMMA ListSubNodesStep ==
  ASSUME last \in Trees, allowed, frames \in Seq(FrameType), listed \in Seq(LineType),
         Stack, ListSubNodes
  PROVE  Stack'
<1>1. frames # <<>> /\ Frame.at = "child" /\ UNCHANGED <<last, listed>>
  BY DEF ListSubNodes, At
<1>2. /\ Frame \in FrameType /\ FrameOK(Frame, Len(frames) - 1) /\ Len(frames) \in Nat \ {0}
      /\ Current = CurrentOf(Frame) /\ Current \in Names
  BY <1>1, Innermost
<1>3. PICK f, n, c, d : /\ f = [Frame EXCEPT !.at = "next"] /\ n = Len(frames)
                        /\ c = Answer(Current, "child") /\ d = Current
  OBVIOUS
<1>4. /\ f \in FrameType /\ f.argument = Frame.argument /\ f.at = "next"
      /\ CurrentOf(f) = CurrentOf(Frame)
      /\ FrameOK(f, n - 1)
  BY <1>1, <1>2, <1>3, ChildDone
<1>5. FrameOK(f, n - 1)'
  <2>1. PICK depth : depth = n - 1
    OBVIOUS
  <2>2. FrameOK(f, depth)'
    BY <1>1, <1>4, <2>1, SameFrame
  <2>3. QED
    BY <2>1, <2>2
<1>6. CASE c = Empty
  <2>1. Go(f)
    BY <1>3, <1>6 DEF ListSubNodes
  <2>2. QED
    BY <1>1, <1>3, <1>4, <1>5, <2>1, WaitingUpTo, GoStack
<1>7. CASE c # Empty
  <2>1. frames' = <<Call(c), f>> \o Tail(frames)
    BY <1>3, <1>7 DEF ListSubNodes
  <2>2. c \in Devices /\ d \in Devices
    BY <1>3, <1>7, AnswerLemma, EmptyLemma DEF Answer
  <2>3. /\ c = d + 1 /\ Ancestors(c) = Ancestors(d) \cup {d}
        /\ Cardinality(Ancestors(c)) = Cardinality(Ancestors(d)) + 1
    BY <1>3, <1>7, <2>2, ChildLemma
  <2>4. Ancestors(d) = Ancestors(Frame.argument) /\ Cardinality(Ancestors(d)) = n - 1 /\ UpTo(d)
    BY <1>1, <1>2, <1>3, <2>2 DEF FrameOK, Walked, CurrentOf
  <2>5. PICK g : g = Call(c)
    OBVIOUS
  <2>6. /\ g \in FrameType /\ g.at = "sibling" /\ g.Current = "argument" /\ g.argument = c
        /\ g.FoundSibling = Empty
    BY <2>2, <2>5 DEF Call, FrameType, Names
  <2>7. FrameOK(g, n)
    <3>1. Before(c)
      BY <2>2, <2>3, <2>4, ListedType DEF UpTo, Before, Devices
    <3>2. QED
      BY <1>2, <1>3, <2>2, <2>3, <2>4, <2>6, <3>1, EmptyLemma DEF FrameOK, Walked
  <2>8. FrameOK(g, n)'
    BY <1>1, <2>7, SameFrame
  <2>9. /\ Len(frames') = n + 1 /\ frames'[1] = g /\ frames'[2] = f
        /\ \A k \in 3..(n + 1) : frames'[k] = frames[k - 1]
    <3>1. /\ Tail(frames) \in Seq(FrameType) /\ Len(Tail(frames)) = n - 1
          /\ \A i \in 1..(n - 1) : Tail(frames)[i] = frames[i + 1]
      BY <1>1, <1>3, HeadTailProperties
    <3>2. /\ <<g, f>> \in Seq(FrameType) /\ Len(<<g, f>>) = 2 /\ <<g, f>>[1] = g
          /\ <<g, f>>[2] = f
      BY <1>4, <2>6
    <3>3. /\ Len(frames') = 2 + Len(Tail(frames))
          /\ \A i \in 1..(2 + Len(Tail(frames))) :
               frames'[i] = IF i <= 2 THEN <<g, f>>[i] ELSE Tail(frames)[i - 2]
      BY <2>1, <2>5, <3>1, <3>2, ConcatProperties
    <3>4. ASSUME NEW k \in 3..(n + 1)
          PROVE  frames'[k] = frames[k - 1]
      <4>1. k - 2 \in 1..(n - 1) /\ ~(k <= 2) /\ k \in 1..(2 + (n - 1)) /\ (k - 2) + 1 = k - 1
        BY <1>2, <1>3
      <4>2. frames'[k] = Tail(frames)[k - 2] /\ Tail(frames)[k - 2] = frames[(k - 2) + 1]
        BY <3>1, <3>3, <4>1
      <4>3. QED
        BY <4>1, <4>2
    <3>5. QED
      BY <1>2, <1>3, <3>1, <3>2, <3>3, <3>4
  <2>10. ASSUME NEW k \in 1..(n + 1)
         PROVE  FrameOK(frames[k], Len(frames) - k)'
    <3>1. CASE k = 1
      <4>1. PICK e : e = n
        OBVIOUS
      <4>2. Len(frames') - k = e
        BY <1>2, <1>3, <2>9, <3>1, <4>1
      <4>3. QED
        BY <2>8, <2>9, <3>1, <4>1, <4>2
    <3>2. CASE k = 2
      <4>1. Len(frames') - k = n - 1
        BY <1>2, <1>3, <2>9, <3>2
      <4>2. QED
        BY <1>5, <2>9, <3>2, <4>1
    <3>3. CASE k \in 3..(n + 1)
      <4>1. PICK h, e, j : j = k - 1 /\ h = frames[j] /\ e = n - j
        OBVIOUS
      <4>2. j \in 1..n /\ Len(frames') - k = e
        BY <1>2, <1>3, <2>9, <3>3, <4>1
      <4>3. FrameOK(h, e)
        BY <1>3, <4>1, <4>2 DEF Stack
      <4>4. FrameOK(h, e)'
        BY <1>1, <4>3, SameFrame
      <4>5. QED
        BY <2>9, <3>3, <4>1, <4>2, <4>4
    <3>4. QED
      BY <1>2, <1>3, <3>1, <3>2, <3>3
  <2>11. \A e : Ancestors(e)' = Ancestors(e)
    BY <1>1 DEF Ancestors
  <2>12. ASSUME NEW k \in 2..(n + 1)
         PROVE  Waits(k)'
    <3>1. CASE k = 2
      <4>1. \A j \in 1..(k - 1) : frames'[j].argument = c
        BY <2>6, <2>9, <3>1
      <4>2. CurrentOf(frames'[k]) = d /\ frames'[k].at = "next" /\ d \in Ancestors(c)
        BY <1>2, <1>3, <1>4, <2>3, <2>9, <3>1
      <4>3. QED
        BY <2>2, <2>11, <4>1, <4>2 DEF Waits, CurrentOf
    <3>2. CASE k \in 3..(n + 1)
      <4>1. PICK i : i = k - 1
        OBVIOUS
      <4>2. i \in 2..n /\ frames'[k] = frames[i]
        BY <1>2, <1>3, <2>9, <3>2, <4>1
      <4>3. Waits(i)
        BY <1>3, <4>2 DEF Stack
      <4>4. PICK a : a = CurrentOf(frames[i])
        OBVIOUS
      <4>5. a \in Ancestors(Frame.argument)
        BY <4>2, <4>3, <4>4 DEF Waits, Frame
      <4>6. a \in Ancestors(c)
        BY <2>3, <2>4, <4>5
      <4>7. ASSUME NEW j \in 1..(k - 1)
            PROVE  a \in Ancestors(frames'[j].argument)
        <5>1. CASE j = 1
          BY <2>6, <2>9, <4>6, <5>1
        <5>2. CASE j = 2
          BY <1>4, <2>9, <4>5, <5>2
        <5>3. CASE j \in 3..(k - 1)
          <6>1. j \in 3..(n + 1) /\ j - 1 \in 1..(i - 1)
            BY <3>2, <4>1, <5>3, <1>2, <1>3
          <6>2. frames'[j] = frames[j - 1]
            BY <2>9, <6>1
          <6>3. QED
            BY <4>3, <4>4, <6>1, <6>2 DEF Waits
        <5>4. QED
          BY <3>2, <5>1, <5>2, <5>3
      <4>8. frames'[k].at = "next" /\ CurrentOf(frames'[k]) = a /\ a \in Devices
        BY <4>2, <4>3, <4>4 DEF Waits
      <4>9. QED
        BY <2>11, <4>7, <4>8 DEF Waits, CurrentOf
    <3>3. QED
      BY <1>2, <1>3, <3>1, <3>2
  <2>13. QED
    BY <2>9, <2>10, <2>12 DEF Stack
<1>8. QED
  BY <1>6, <1>7

LEMMA NextSiblingStep ==
  ASSUME last \in Trees, allowed, frames \in Seq(FrameType), listed \in Seq(LineType),
         Stack, NextSibling
  PROVE  Stack'
<1>1. frames # <<>> /\ Frame.at = "next" /\ UNCHANGED <<last, listed>>
  BY DEF NextSibling, At
<1>2. /\ Frame \in FrameType /\ FrameOK(Frame, Len(frames) - 1) /\ Len(frames) \in Nat \ {0}
  BY <1>1, Innermost
<1>3. CASE Frame.FoundSibling # Empty
  <2>1. PICK f, depth, s : /\ f = [Frame EXCEPT !.at = "sibling", !.Current = "FoundSibling"]
                           /\ depth = Len(frames) - 1 /\ s = Frame.FoundSibling
    OBVIOUS
  <2>2. /\ f \in FrameType /\ f.argument = Frame.argument /\ f.at = "sibling"
        /\ f.Current = "FoundSibling" /\ f.FoundSibling = s
    BY <1>2, <2>1 DEF FrameType
  <2>3. Go(f)
    BY <1>3, <2>1 DEF NextSibling
  <2>4. s \in Devices
    BY <1>2, <1>3, <2>1, EmptyLemma DEF FrameType
  <2>5. s \in Nat /\ last[s] \in Nat /\ s <= last[s]
    BY <2>4, TreeLemma DEF Devices
  <2>6. UpTo(last[s])
    <3>1. CASE Frame.Current = "argument"
      <4>1. PICK a : a = last[Frame.argument]
        OBVIOUS
      <4>2. UpTo(a) /\ s > a
        BY <1>1, <1>2, <2>1, <2>4, <3>1, <4>1 DEF FrameOK, Walked, CurrentOf
      <4>3. a \in Nat
        BY <1>2, <4>1, TreeLemma DEF FrameOK, Devices
      <4>4. QED
        BY <2>5, <4>2, <4>3, ListedType DEF UpTo
    <3>2. CASE Frame.Current # "argument"
      BY <1>1, <1>2, <2>1, <2>4, <3>2 DEF FrameOK, Walked, CurrentOf
    <3>3. QED
      BY <3>1, <3>2
  <2>7. FrameOK(f, depth)
    BY <1>2, <2>1, <2>2, <2>4, <2>6 DEF FrameOK, Walked
  <2>8. FrameOK(f, depth)'
    BY <1>1, <2>7, SameFrame
  <2>9. QED
    BY <1>1, <2>1, <2>2, <2>3, <2>8, WaitingUpTo, GoStack
<1>4. CASE Frame.FoundSibling = Empty
  <2>1. PICK n : n = Len(frames)
    OBVIOUS
  <2>2. frames' = Tail(frames)
    BY <1>4 DEF NextSibling
  <2>3. Len(frames') = n - 1 /\ n \in Nat \ {0} /\ \A k \in 1..(n - 1) : frames'[k] = frames[k + 1]
    BY <1>1, <1>2, <2>1, <2>2, HeadTailProperties
  <2>4. ASSUME NEW k \in 1..(n - 1)
        PROVE  FrameOK(frames[k], Len(frames) - k)'
    <3>1. PICK j, h, e : j = k + 1 /\ h = frames[j] /\ e = n - j
      OBVIOUS
    <3>2. j \in 1..n /\ Len(frames') - k = e /\ frames'[k] = h
      BY <2>3, <3>1
    <3>3. FrameOK(h, e)
      BY <2>1, <3>1, <3>2 DEF Stack
    <3>4. FrameOK(h, e)'
      BY <1>1, <3>3, SameFrame
    <3>5. QED
      BY <3>2, <3>4
  <2>5. \A e : Ancestors(e)' = Ancestors(e)
    BY <1>1 DEF Ancestors
  <2>6. ASSUME NEW k \in 2..(n - 1)
        PROVE  Waits(k)'
    <3>1. PICK i : i = k + 1
      OBVIOUS
    <3>2. i \in 2..n /\ frames'[k] = frames[i]
      BY <2>3, <3>1
    <3>3. Waits(i)
      BY <2>1, <3>2 DEF Stack
    <3>4. ASSUME NEW j \in 1..(k - 1)
          PROVE  frames'[j] = frames[j + 1] /\ j + 1 \in 1..(i - 1)
      BY <2>3, <3>1
    <3>5. QED
      BY <2>5, <3>2, <3>3, <3>4 DEF Waits, CurrentOf
  <2>7. QED
    BY <2>3, <2>4, <2>6 DEF Stack
<1>5. QED
  BY <1>3, <1>4

LEMMA StackStep ==
  ASSUME last \in Trees, allowed, frames \in Seq(FrameType), listed \in Seq(LineType),
         Stack, RtlCliListSubNodes
  PROVE  Stack'
  BY GetSiblingStep, PrintStep, ListSubNodesStep, NextSiblingStep DEF RtlCliListSubNodes
--------------------------------------------------------------------------------
\* Without the privilege every answer is the empty name.
LEMMA RefusedStep ==
  ASSUME ~allowed, frames \in Seq(FrameType), listed \in Seq(LineType), Refused,
         RtlCliListSubNodes
  PROVE  Refused'
<1>0. frames # <<>>
  BY DEF RtlCliListSubNodes, GetSibling, RtlCliPrintDeviceName, ListSubNodes, NextSibling, At
<1>1. Len(frames) = 1 /\ frames # <<>> /\ Len(listed) \in {0, 1}
  <2>1. Len(frames) \in Nat \ {0} /\ Len(listed) \in Nat
    BY <1>0, FrameLemma, LenProperties
  <2>2. QED
    BY <1>0, <2>1, SMT DEF Refused
<1>2. PICK f : f = Frame
  OBVIOUS
<1>3. /\ f \in FrameType /\ f.Current = "argument" /\ f.FoundSibling = Empty
      /\ f.at \in {"sibling", "print"} => listed = <<>>
  BY <1>1, <1>2, FrameLemma DEF Refused, Alone, Frame
<1>4. Tail(frames) = <<>>
  <2>1. Tail(frames) \in Seq(FrameType) /\ Len(Tail(frames)) = 0
    BY <1>1, HeadTailProperties
  <2>2. QED
    BY <2>1, EmptySeq
<1>5. \A d, r : Answer(d, r) = Empty
  BY DEF Answer
<1>6. ASSUME NEW g, Go(g), g.Current = "argument", g.FoundSibling = Empty,
             Len(listed') \in {0, 1}, g.at \in {"sibling", "print"} => listed' = <<>>
      PROVE  Refused'
  <2>1. frames' = <<g>>
    <3>1. frames' = <<g>> \o Tail(frames)
      BY <1>6 DEF Go
    <3>2. <<g>> \in Seq({g})
      OBVIOUS
    <3>3. <<g>> \o <<>> = <<g>>
      BY <3>2, ConcatEmptySeq
    <3>4. QED
      BY <1>4, <3>1, <3>3
  <2>2. Len(frames') = 1 /\ \A k \in 1..1 : frames'[k] = g
    BY <2>1
  <2>3. Alone(g)'
    BY <1>6 DEF Alone
  <2>4. QED
    BY <1>6, <2>2, <2>3 DEF Refused
<1>7. CASE GetSibling
  <2>1. PICK g : g = [f EXCEPT !.at = "print", !.FoundSibling = Empty]
    OBVIOUS
  <2>2. g.at = "print" /\ g.Current = "argument" /\ g.FoundSibling = Empty
    BY <1>3, <2>1 DEF FrameType
  <2>3. Go(g) /\ UNCHANGED listed /\ f.at = "sibling"
    BY <1>2, <1>5, <1>7, <2>1 DEF GetSibling, At
  <2>4. QED
    BY <1>1, <1>3, <1>6, <2>2, <2>3
<1>8. CASE RtlCliPrintDeviceName
  <2>1. PICK g : g = [f EXCEPT !.at = "child"]
    OBVIOUS
  <2>2. g.at = "child" /\ g.Current = "argument" /\ g.FoundSibling = Empty
    BY <1>3, <2>1 DEF FrameType
  <2>3. Go(g) /\ f.at = "print"
    BY <1>2, <1>8, <2>1 DEF RtlCliPrintDeviceName, At
  <2>4. Len(listed') \in {0, 1}
    BY <1>3, <1>8, <2>3 DEF RtlCliPrintDeviceName
  <2>5. QED
    BY <1>6, <2>2, <2>3, <2>4
<1>9. CASE ListSubNodes
  <2>1. PICK g : g = [f EXCEPT !.at = "next"]
    OBVIOUS
  <2>2. g.at = "next" /\ g.Current = "argument" /\ g.FoundSibling = Empty
    BY <1>3, <2>1 DEF FrameType
  <2>3. Go(g) /\ UNCHANGED listed
    BY <1>2, <1>5, <1>9, <2>1 DEF ListSubNodes
  <2>4. QED
    BY <1>1, <1>6, <2>2, <2>3
<1>10. CASE NextSibling
  <2>1. frames' = <<>> /\ UNCHANGED listed
    BY <1>2, <1>3, <1>4, <1>10 DEF NextSibling
  <2>2. QED
    BY <1>1, <2>1 DEF Refused
<1>11. QED
  BY <1>7, <1>8, <1>9, <1>10 DEF RtlCliListSubNodes

\* What is displayed: the device of the innermost frame, at its depth.
LEMMA ListedStep ==
  ASSUME last \in Trees, frames \in Seq(FrameType), RtlCliListSubNodes, Walk,
         Level = IF frames = <<>> THEN 0 ELSE Len(frames) - 1
  PROVE  listed' \in Seq(LineType) /\ ListedInOrder' /\ IndentIsDepth'
<1>1. UNCHANGED last
  BY DEF RtlCliListSubNodes, GetSibling, RtlCliPrintDeviceName, ListSubNodes, NextSibling
<1>2. \A e : Ancestors(e)' = Ancestors(e)
  BY <1>1 DEF Ancestors
<1>3. UNCHANGED allowed
  BY DEF RtlCliListSubNodes, GetSibling, RtlCliPrintDeviceName, ListSubNodes, NextSibling
<1>4. CASE UNCHANGED listed
  BY <1>2, <1>3, <1>4 DEF Walk, ListedInOrder, IndentIsDepth
<1>5. CASE RtlCliPrintDeviceName /\ Current \in Devices
  <2>1. frames # <<>> /\ Frame.at = "print" /\ Level = Len(frames) - 1 /\ Len(frames) \in Nat \ {0}
    BY <1>5, FrameLemma DEF RtlCliPrintDeviceName, At
  <2>2. PICK d, n : d = Current /\ n = Len(listed)
    OBVIOUS
  <2>3. /\ listed' = Append(listed, [device |-> d, indent |-> Level]) /\ d \in Devices
    BY <1>5, <2>2 DEF RtlCliPrintDeviceName
  <2>4. [device |-> d, indent |-> Level] \in LineType
    BY <2>1, <2>3 DEF LineType
  <2>5. /\ listed' \in Seq(LineType) /\ Len(listed') = n + 1 /\ n \in Nat
        /\ \A i \in 1..n : listed'[i] = listed[i]
        /\ listed'[n + 1].device = d /\ listed'[n + 1].indent = Level
    BY <2>2, <2>3, <2>4 DEF Walk
  <2>6. \A i \in 1..n : listed[i].device < d
    <3>1. CASE allowed
      BY <1>5, <2>1, <2>2, <3>1, Innermost DEF Walk, FrameOK, Walked, Before
    <3>2. CASE ~allowed
      <4>1. listed = <<>>
        BY <2>1, <3>2 DEF Walk, Refused, Alone, Frame
      <4>2. QED
        BY <2>2, <4>1
    <3>3. QED
      BY <3>1, <3>2
  <2>7. ListedInOrder'
    <3>1. SUFFICES ASSUME NEW i \in 1..(n + 1), NEW j \in 1..(n + 1), i < j
                   PROVE  listed'[i].device < listed'[j].device
      BY <2>5 DEF ListedInOrder
    <3>2. i \in 1..n
      BY <2>5, <3>1
    <3>3. CASE j \in 1..n
      BY <2>2, <2>5, <3>1, <3>2, <3>3 DEF Walk, ListedInOrder
    <3>4. CASE j = n + 1
      BY <2>5, <2>6, <3>2, <3>4
    <3>5. QED
      BY <2>5, <3>3, <3>4
  <2>8. ASSUME allowed
        PROVE  Cardinality(Ancestors(d)) = Level
    <3>1. FrameOK(Frame, Len(frames) - 1) /\ d = CurrentOf(Frame)
      BY <2>1, <2>2, <2>8, Innermost DEF Walk
    <3>2. Ancestors(d) = Ancestors(Frame.argument)
      BY <2>3, <3>1 DEF FrameOK, CurrentOf
    <3>3. QED
      BY <2>1, <3>1, <3>2 DEF FrameOK
  <2>9. IndentIsDepth'
    <3>1. SUFFICES ASSUME allowed, NEW i \in 1..(n + 1)
                   PROVE  listed'[i].indent = Cardinality(Ancestors(listed'[i].device))
      BY <1>2, <1>3, <2>5 DEF IndentIsDepth
    <3>2. CASE i \in 1..n
      BY <2>2, <2>5, <3>1, <3>2 DEF Walk, IndentIsDepth
    <3>3. CASE i = n + 1
      BY <2>5, <2>8, <3>1, <3>3
    <3>4. QED
      BY <2>5, <3>2, <3>3
  <2>10. QED
    BY <2>5, <2>7, <2>9
<1>6. QED
  BY <1>4, <1>5
     DEF RtlCliListSubNodes, GetSibling, RtlCliPrintDeviceName, ListSubNodes, NextSibling

LEMMA WalkStep ==
  ASSUME last \in Trees, frames \in Seq(FrameType), RtlCliListSubNodes, Walk,
         Level = IF frames = <<>> THEN 0 ELSE Len(frames) - 1
  PROVE  Walk'
<1>1. UNCHANGED allowed
  BY DEF RtlCliListSubNodes, GetSibling, RtlCliPrintDeviceName, ListSubNodes, NextSibling
<1>2. QED
  BY <1>1, ListedStep, StackStep, RefusedStep DEF Walk

\* The first call of a listing is for the root's first child.
LEMMA WalkStarts ==
  ASSUME RtlCliListHardwareTree, listed = <<>>
  PROVE  Walk'
<1>1. PICK d \in Names : (allowed' => d = 1) /\ frames' = <<Call(d)>>
  BY DEF RtlCliListHardwareTree
<1>2. listed' = <<>> /\ last' \in Trees
  BY DEF RtlCliListHardwareTree
<1>3. PICK f : f = Call(d)
  OBVIOUS
<1>4. /\ f.at = "sibling" /\ f.Current = "argument" /\ f.argument = d
      /\ f.FoundSibling = Empty
  BY <1>3 DEF Call
<1>5. Len(frames') = 1 /\ frames'[1] = f
  BY <1>1, <1>3
<1>6. listed' \in Seq(LineType) /\ ListedInOrder' /\ IndentIsDepth'
  <2>1. \A i \in 1..Len(listed') : FALSE
    BY <1>2
  <2>2. <<>> \in Seq(LineType)
    BY EmptySeq
  <2>3. QED
    BY <1>2, <2>1, <2>2 DEF ListedInOrder, IndentIsDepth
<1>7. ASSUME allowed'
      PROVE  Stack'
  <2>1. d = 1 /\ 1 \in Devices
    BY <1>1, <1>7, NAssumption DEF Devices
  <2>2. \A a \in Devices : ~(a < 1)
    BY DEF Devices
  <2>3. Ancestors(d)' = {}
    BY <2>1, <2>2 DEF Ancestors
  <2>4. Cardinality(Ancestors(d)') = 0
    BY <2>3, FS_EmptySet
  <2>5. Before(d)'
    BY <1>2 DEF Before
  <2>6. FrameOK(f, 0)'
    BY <1>4, <2>1, <2>4, <2>5, EmptyLemma DEF FrameOK, Walked
  <2>7. QED
    BY <1>5, <2>6 DEF Stack
<1>8. ASSUME ~allowed'
      PROVE  Refused'
  BY <1>2, <1>4, <1>5 DEF Refused, Alone
<1>9. QED
  BY <1>6, <1>7, <1>8 DEF Walk

\* Between two listings.
LEMMA WalkIdle ==
  ASSUME frames = <<>>, listed = <<>>
  PROVE  Walk
<1>1. listed \in Seq(LineType)
  BY EmptySeq
<1>2. ListedInOrder /\ IndentIsDepth
  <2>1. \A i \in 1..Len(listed) : FALSE
    OBVIOUS
  <2>2. QED
    BY <2>1 DEF ListedInOrder, IndentIsDepth
<1>3. Stack /\ Refused
  BY DEF Stack, Refused
<1>4. QED
  BY <1>1, <1>2, <1>3 DEF Walk

LEMMA WalkForgotten ==
  ASSUME ForgetTree
  PROVE  Walk'
<1>1. listed' \in Seq(LineType)
  BY EmptySeq DEF ForgetTree
<1>2. ListedInOrder' /\ IndentIsDepth'
  <2>1. \A i \in 1..Len(listed') : FALSE
    BY DEF ForgetTree
  <2>2. QED
    BY <2>1 DEF ListedInOrder, IndentIsDepth
<1>3. Stack' /\ Refused'
  BY DEF ForgetTree, Stack, Refused
<1>4. QED
  BY <1>1, <1>2, <1>3 DEF Walk

LEMMA WalkStays ==
  ASSUME Walk, UNCHANGED treeVars
  PROVE  Walk'
<1>1. UNCHANGED <<last, frames, listed, allowed>>
  BY DEF treeVars
<1>2. \A d : Ancestors(d)' = Ancestors(d)
  BY <1>1 DEF Ancestors
<1>3. ListedInOrder' /\ IndentIsDepth'
  BY <1>1, <1>2 DEF Walk, ListedInOrder, IndentIsDepth
<1>4. ASSUME Refused
      PROVE  Refused'
  BY <1>1, <1>4 DEF Refused, Alone
<1>5. ASSUME Stack
      PROVE  Stack'
  <2>1. ASSUME NEW k \in 1..Len(frames)
        PROVE  FrameOK(frames[k], Len(frames) - k)'
    <3>1. PICK f, depth : f = frames[k] /\ depth = Len(frames) - k
      OBVIOUS
    <3>2. FrameOK(f, depth)
      BY <1>5, <3>1 DEF Stack
    <3>3. FrameOK(f, depth)'
      BY <1>1, <3>2, SameFrame
    <3>4. QED
      BY <1>1, <3>1, <3>3
  <2>2. ASSUME NEW k \in 2..Len(frames)
        PROVE  Waits(k)'
    BY <1>1, <1>2, <1>5 DEF Stack, Waits, CurrentOf
  <2>3. QED
    BY <1>1, <2>1, <2>2 DEF Stack
<1>6. QED
  BY <1>1, <1>3, <1>4, <1>5 DEF Walk
--------------------------------------------------------------------------------
(***************************************************************************)
(* The keyboard is closed exactly while a program is run, and only the     *)
(* wait finds a child.                                                     *)
(***************************************************************************)
Running == {"create", "wait", "reopen"}

Keys ==
  /\ pc \in Working \cup Reading \cup {"dead"}
  /\ runtime \in {"nativertl", "crt"}
  /\ hKeyboard \in {"open", "closed", "garbage"}
  /\ child \in {"none", "running"} /\ suspended \in BOOLEAN
  /\ (hKeyboard = "closed") <=> (pc \in Running)
  /\ child = "running" => pc = "wait"

(***************************************************************************)
(* The entries up to the pth are shown, and the block has the others that  *)
(* the system has returned.  A directory's counter is what the user has    *)
(* seen since the last answer; a module's index is that much past a        *)
(* multiple of a page.  Nothing is left of the block at a query, and the   *)
(* first query finds nothing shown.                                        *)
(***************************************************************************)
Upto(n) == [k \in 1..n |-> k]
Rest(p, n) == [k \in 1..(n - p) |-> p + k]

ListType == [entries : 0..MaxEntries, scan : Nat, block : Seq(Nat), shown : Seq(Nat),
             since : Nat, i : Nat, FirstQuery : BOOLEAN]

Shown(l, p) ==
  /\ p <= l.scan /\ l.scan <= l.entries
  /\ l.shown = Upto(p) /\ l.block = Rest(p, l.scan)
  /\ l.since <= p /\ l.i <= p

Indexed(l, q) == l.i = (ModulePage * q) + l.since /\ (l.since = 0 => l.i = 0)

Entries ==
  /\ held = Holds
  /\ list \in ListType
  /\ \E p \in Nat : Shown(list, p)
  /\ pc \notin Listings => list = NoList
  /\ pc \in {"query", "show"} => list.i = list.since /\ list.since < DirPage
  /\ pc = "page" => list.i = 0 /\ list.since = DirPage
  /\ pc = "query" => list.block = <<>> /\ (list.FirstQuery => list.scan = 0)
  /\ pc = "show" => list.block # <<>>
  /\ pc \in ModuleSteps => list.since <= ModulePage /\ \E q \in Nat : Indexed(list, q)
  /\ pc = "hold" => list.since = ModulePage /\ list.block # <<>>

(***************************************************************************)
(* The self-install comes to the key with the whole driver in its file.    *)
(***************************************************************************)
Installing ==
  /\ InstallTypeOK
  /\ at # "idle" => pc = "install"
  /\ at = "key" => file = "whole"

(***************************************************************************)
(* A call of RtlCliListSubNodes for each level of indentation, the first   *)
(* one without, and none between two listings; what they have listed is    *)
(* the part of the tree that they have walked.                             *)
(***************************************************************************)
Tree ==
  /\ last \in Trees \cup {NoTree} /\ allowed \in BOOLEAN
  /\ frames \in Seq(FrameType)
  /\ Level = IF frames = <<>> THEN 0 ELSE Len(frames) - 1
  /\ Listing <=> pc = "devtree"
  /\ ~Listing => frames = <<>> /\ listed = <<>>
  /\ Walk

IInv == Keys /\ Entries /\ Installing /\ Tree
--------------------------------------------------------------------------------
LEMMA KeysStep ==
  ASSUME Keys, [Next]_vars
  PROVE  Keys'
<1> USE DEF Keys, Running, Working, Reading, processVars
<1>1. CASE RunProgram
  BY <1>1 DEF RunProgram
<1>2. CASE CreateNativeProcess
  BY <1>2 DEF CreateNativeProcess
<1>3. CASE WaitForChild
  BY <1>3 DEF WaitForChild
<1>4. CASE RtlCliOpenInputDevice
  BY <1>4 DEF RtlCliOpenInputDevice, Return
<1>5. CASE ChildEnds
  BY <1>5 DEF ChildEnds
<1>6. CASE RtlCliListDirectory
  BY <1>6 DEF RtlCliListDirectory, Return
<1>7. CASE QueryDirectory
  BY <1>7 DEF QueryDirectory, Return
<1>8. CASE DumpFileInfo
  <2>1. pc = "show" /\ pc' \in {"page", "show", "query", "dead"} /\ UNCHANGED processVars
    BY <1>8 DEF DumpFileInfo, NextEntry, Fault
  <2>2. QED
    BY <2>1
<1>9. CASE AnswerPage
  BY <1>9 DEF AnswerPage, NextEntry, Return
<1>10. CASE RtlCliListDrivers
  BY <1>10 DEF RtlCliListDrivers, Fault
<1>11. CASE ListModule
  BY <1>11 DEF ListModule, ShowModule, Return
<1>12. CASE PressSpace
  BY <1>12 DEF PressSpace, ShowModule
<1>13. CASE RtlCliListProcesses
  BY <1>13 DEF RtlCliListProcesses, Return, Fault
<1>14. CASE DumpHardwareTree
  BY <1>14 DEF DumpHardwareTree
<1>15. CASE DevtreeStep
  BY <1>15 DEF DevtreeStep, shellVars
<1>16. CASE DevtreeReturns
  BY <1>16 DEF DevtreeReturns, Return
<1>17. CASE PlayBadApple
  BY <1>17 DEF PlayBadApple
<1>18. CASE InstallStep
  BY <1>18 DEF InstallStep, shellVars
<1>19. CASE InstallReturns
  BY <1>19 DEF InstallReturns, Return
<1>20. CASE Reboot
  BY <1>20 DEF Reboot, Return
<1>21. CASE UNCHANGED vars
  BY <1>21 DEF vars, shellVars
<1>22. QED
  BY <1>1, <1>2, <1>3, <1>4, <1>5, <1>6, <1>7, <1>8, <1>9, <1>10, <1>11, <1>12, <1>13, <1>14,
     <1>15, <1>16, <1>17, <1>18, <1>19, <1>20, <1>21
     DEF Next, Start, Command, User, PowerLoss, RtlCliShutdown
--------------------------------------------------------------------------------
LEMMA InstallStepLemma ==
  ASSUME Installing, AudioWriteDriverToFile \/ AudioCreateServiceKey
  PROVE  InstallTypeOK' /\ (at' = "key" => file' = "whole")
<1> USE DEF Installing, InstallTypeOK
<1>1. CASE OpenExisting
  BY <1>1 DEF OpenExisting
<1>2. CASE CreateFile
  BY <1>2 DEF CreateFile, End
<1>3. CASE WriteFile
  BY <1>3 DEF WriteFile, End
<1>4. CASE AudioCreateServiceKey
  BY <1>4 DEF AudioCreateServiceKey, End
<1>5. QED
  BY <1>1, <1>2, <1>3, <1>4 DEF AudioWriteDriverToFile

LEMMA InstallingStep ==
  ASSUME Installing, [Next]_vars
  PROVE  Installing'
<1>1. CASE PlayBadApple
  BY <1>1 DEF AudioInit, PlayBadApple, Installing, InstallTypeOK
<1>2. CASE InstallStep
  <2>1. AudioWriteDriverToFile \/ AudioCreateServiceKey
    BY <1>2 DEF InstallStep
  <2>2. pc = "install" /\ pc' = pc
    BY <1>2 DEF InstallStep, shellVars
  <2>3. QED
    BY <2>1, <2>2, InstallStepLemma DEF Installing
<1>3. CASE Reboot
  BY <1>3 DEF Reboot, Restart, End, Installing, InstallTypeOK
<1>4. CASE UNCHANGED installVars /\ (pc = "install" /\ at # "idle" => pc' = "install")
  BY <1>4 DEF installVars, Installing, InstallTypeOK
<1>5. CASE InstallReturns
  <2>1. at = "idle" /\ UNCHANGED installVars
    BY <1>5 DEF InstallReturns
  <2>2. QED
    BY <2>1 DEF installVars, Installing, InstallTypeOK
<1>6. CASE UNCHANGED vars
  BY <1>6, <1>4 DEF vars, shellVars
<1>7. QED
  BY <1>1, <1>2, <1>3, <1>4, <1>5, <1>6
     DEF Next, Start, Command, User, PowerLoss, RtlCliShutdown, RunProgram, CreateNativeProcess,
         WaitForChild, RtlCliOpenInputDevice, ChildEnds, RtlCliListDirectory, QueryDirectory,
         DumpFileInfo, AnswerPage, RtlCliListDrivers, ListModule, PressSpace,
         RtlCliListProcesses, DumpHardwareTree, DevtreeStep, DevtreeReturns, PlayBadApple,
         shellVars
--------------------------------------------------------------------------------
LEMMA RemainderLemma ==
  ASSUME NEW m \in Nat \ {0}, NEW q \in Nat, NEW r \in 0..(m - 1)
  PROVE  ((m * q) + r) % m = r
  BY SMTT(60)

\* The entries that are shown, those of the block, and one that is moved.
LEMMA SplitLemma ==
  ASSUME NEW p \in Nat, NEW n \in Nat, p <= n
  PROVE  /\ Upto(p) \in Seq(1..n) /\ Rest(p, n) \in Seq(1..n)
         /\ Len(Upto(p)) = p /\ Len(Rest(p, n)) = n - p
         /\ Upto(p) \o Rest(p, n) = Upto(n)
<1>1. PICK u, r : u = Upto(p) /\ r = Rest(p, n)
  OBVIOUS
<1>2. n - p \in Nat
  OBVIOUS
<1>3. u \in [1..p -> 1..n] /\ r \in [1..(n - p) -> 1..n]
  BY <1>1 DEF Upto, Rest
<1>4. u \in Seq(1..n) /\ r \in Seq(1..n) /\ Len(u) = p /\ Len(r) = n - p
  <2>1. ASSUME NEW k \in Nat, NEW f \in [1..k -> 1..n]
        PROVE  f \in Seq(1..n) /\ Len(f) = k
    OBVIOUS
  <2>2. QED
    BY <1>2, <1>3, <2>1
<1>5. PICK c : c = u \o r
  OBVIOUS
<1>6. /\ c \in Seq(1..n) /\ Len(c) = n
      /\ \A k \in 1..n : c[k] = IF k <= p THEN u[k] ELSE r[k - p]
  <2>1. /\ u \o r \in Seq(1..n) /\ Len(u \o r) = Len(u) + Len(r)
        /\ \A i \in 1..(Len(u) + Len(r)) :
             (u \o r)[i] = IF i <= Len(u) THEN u[i] ELSE r[i - Len(u)]
    BY <1>4, ConcatProperties, Zenon
  <2>2. Len(u) + Len(r) = n /\ Len(u) = p
    BY <1>4
  <2>3. QED
    BY <1>5, <2>1, <2>2
<1>7. \A k \in 1..n : c[k] = k
  <2>1. TAKE k \in 1..n
  <2>2. CASE k <= p
    BY <1>1, <1>6, <2>2 DEF Upto
  <2>3. CASE ~(k <= p)
    <3>1. k - p \in 1..(n - p) /\ p + (k - p) = k
      BY <2>3
    <3>2. r[k - p] = p + (k - p)
      BY <1>1, <3>1 DEF Rest
    <3>3. QED
      BY <1>6, <2>3, <3>1, <3>2
  <2>4. QED
    BY <2>2, <2>3
<1>8. PICK w : w = Upto(n)
  OBVIOUS
<1>9. w \in Seq(1..n) /\ Len(w) = n /\ \A k \in 1..n : w[k] = k
  <2>1. w \in [1..n -> 1..n]
    BY <1>8 DEF Upto
  <2>2. QED
    BY <1>8, <2>1 DEF Upto
<1>10. c = w
  BY <1>6, <1>7, <1>9, SeqEqual
<1>11. QED
  BY <1>1, <1>4, <1>5, <1>8, <1>10

LEMMA MoveLemma ==
  ASSUME NEW p \in Nat, NEW n \in Nat, p <= n
  PROVE  /\ Rest(p, n) = <<>> <=> p = n
         /\ p < n => /\ Head(Rest(p, n)) = p + 1
                     /\ Tail(Rest(p, n)) = Rest(p + 1, n)
                     /\ Append(Upto(p), p + 1) = Upto(p + 1)
<1>1. PICK u, r : u = Upto(p) /\ r = Rest(p, n)
  OBVIOUS
<1>2. u \in Seq(1..n) /\ r \in Seq(1..n) /\ Len(u) = p /\ Len(r) = n - p
  BY <1>1, SplitLemma
<1>3. r = <<>> <=> p = n
  <2>1. r = <<>> <=> Len(r) = 0
    BY <1>2, EmptySeq
  <2>2. QED
    BY <1>2, <2>1
<1>4. ASSUME p < n
      PROVE  Head(r) = p + 1 /\ Tail(r) = Rest(p + 1, n) /\ Append(u, p + 1) = Upto(p + 1)
  <2>1. 1 \in 1..(n - p) /\ p + 1 \in 1..n /\ p + 1 \in Nat /\ p + 1 <= n /\ r # <<>>
    BY <1>3, <1>4
  <2>2. \A k \in 1..(n - p) : r[k] = p + k
    BY <1>1 DEF Rest
  <2>3. Head(r) = p + 1
    BY <1>2, <2>1, <2>2, HeadTailProperties
  <2>4. PICK t, v : t = Tail(r) /\ v = Rest(p + 1, n)
    OBVIOUS
  <2>5. /\ t \in Seq(1..n) /\ Len(t) = Len(r) - 1
        /\ \A k \in 1..Len(t) : t[k] = r[k + 1]
    BY <1>2, <2>1, <2>4, HeadTailProperties
  <2>6. v \in Seq(1..n) /\ Len(v) = n - (p + 1)
    BY <2>1, <2>4, SplitLemma
  <2>7. \A k \in 1..Len(v) : v[k] = t[k]
    <3>1. TAKE k \in 1..Len(v)
    <3>2. /\ k \in 1..(n - (p + 1)) /\ k \in 1..Len(t) /\ k + 1 \in 1..(n - p)
          /\ p + (k + 1) = (p + 1) + k
      BY <1>2, <2>1, <2>5, <2>6
    <3>3. v[k] = (p + 1) + k
      BY <2>4, <3>2 DEF Rest
    <3>4. QED
      BY <2>2, <2>5, <3>2, <3>3
  <2>8. Len(t) = Len(v)
    BY <1>2, <2>1, <2>5, <2>6
  <2>9. t = v
    BY <2>5, <2>6, <2>7, <2>8, SeqEqual
  <2>10. PICK a, w : a = Append(u, p + 1) /\ w = Upto(p + 1)
    OBVIOUS
  <2>11. /\ a \in Seq(1..n) /\ Len(a) = p + 1 /\ a[p + 1] = p + 1
         /\ \A k \in 1..p : a[k] = u[k]
    BY <1>2, <2>1, <2>10, AppendProperties
  <2>12. w \in Seq(1..n) /\ Len(w) = p + 1
    BY <2>1, <2>10, SplitLemma
  <2>13. \A k \in 1..(p + 1) : w[k] = k /\ a[k] = k
    <3>1. TAKE k \in 1..(p + 1)
    <3>2. w[k] = k
      BY <2>10 DEF Upto
    <3>3. CASE k = p + 1
      BY <2>11, <3>2, <3>3
    <3>4. CASE k # p + 1
      <4>1. k \in 1..p
        BY <3>4
      <4>2. u[k] = k
        BY <1>1, <4>1 DEF Upto
      <4>3. QED
        BY <2>11, <3>2, <4>1, <4>2
    <3>5. QED
      BY <3>3, <3>4
  <2>14. a = w
    BY <2>11, <2>12, <2>13, SeqEqual
  <2>15. QED
    BY <2>3, <2>4, <2>9, <2>10, <2>14
<1>5. QED
  BY <1>1, <1>3, <1>4

LEMMA UptoLemma == ASSUME NEW n \in Nat PROVE Upto(n) = Rest(0, n) /\ Upto(0) = <<>>
<1>1. n - 0 = n /\ \A k \in 1..n : 0 + k = k
  OBVIOUS
<1>2. Upto(n) = Rest(0, n)
  BY <1>1 DEF Upto, Rest
<1>3. Upto(0) \in Seq(1..0) /\ Len(Upto(0)) = 0
  BY SplitLemma
<1>4. QED
  BY <1>2, <1>3, EmptySeq

\* The lists that the steps of a listing leave.
LEMMA NewListLemma ==
  ASSUME NEW n \in 0..MaxEntries, NEW m \in 0..n, NEW l, l = NewList(n, m)
  PROVE  /\ l \in ListType /\ l.scan = m /\ l.block = Upto(m) /\ l.FirstQuery
         /\ l.since = 0 /\ l.i = 0 /\ Shown(l, 0)
<1>1. m \in Nat /\ n \in Nat /\ 0 <= m /\ m <= n
  BY PageAssumption
<1>2. PICK b : b = Upto(m)
  OBVIOUS
<1>3. b \in Seq(1..m) /\ b = Rest(0, m) /\ Upto(0) = <<>>
  BY <1>1, <1>2, SplitLemma, UptoLemma
<1>4. b \in Seq(Nat) /\ <<>> \in Seq(Nat) /\ 0 \in Nat /\ TRUE \in BOOLEAN
  <2>1. 1..m \subseteq Nat
    OBVIOUS
  <2>2. QED
    BY <1>3, <2>1, SeqMonotonic, EmptySeq
<1>5. l = [entries |-> n, scan |-> m, block |-> b, shown |-> <<>>, since |-> 0, i |-> 0,
           FirstQuery |-> TRUE]
  BY <1>2 DEF NewList, Upto
<1>6. /\ l \in ListType /\ l.entries = n /\ l.scan = m /\ l.block = b /\ l.shown = <<>>
      /\ l.since = 0 /\ l.i = 0 /\ l.FirstQuery
  BY <1>1, <1>4, <1>5 DEF ListType
<1>7. Shown(l, 0)
  BY <1>1, <1>3, <1>6 DEF Shown
<1>8. QED
  BY <1>2, <1>6, <1>7

LEMMA NoListLemma ==
  NoList \in ListType /\ Shown(NoList, 0) /\ NoList.block = <<>>
<1>1. Upto(0) = <<>> /\ 0 \in 0..MaxEntries /\ 0 \in 0..0
  BY UptoLemma, PageAssumption
<1>2. QED
  BY <1>1, NewListLemma DEF NoList

LEMMA DisplayLemma ==
  ASSUME NEW l \in ListType, NEW p \in Nat, Shown(l, p), l.block # <<>>,
         NEW i \in Nat, i <= p + 1, NEW d, d = Display(l, i)
  PROVE  /\ d \in ListType /\ Shown(d, p + 1)
         /\ d.since = l.since + 1 /\ d.i = i /\ d.FirstQuery = l.FirstQuery
<1>1. PICK n \in Nat : n = l.scan
  BY DEF ListType
<1>2. p <= n /\ l.shown = Upto(p) /\ l.block = Rest(p, n) /\ l.since <= p /\ n <= l.entries
  BY <1>1 DEF Shown
<1>3. p < n
  BY <1>1, <1>2, MoveLemma
<1>4. /\ Head(Rest(p, n)) = p + 1 /\ Tail(Rest(p, n)) = Rest(p + 1, n)
      /\ Append(Upto(p), p + 1) = Upto(p + 1)
  BY <1>3, MoveLemma
<1>5. PICK b, s, t : b = Tail(l.block) /\ s = Append(l.shown, Head(l.block)) /\ t = l.since + 1
  OBVIOUS
<1>6. b = Rest(p + 1, n) /\ s = Upto(p + 1)
  BY <1>2, <1>4, <1>5
<1>7. b \in Seq(1..n) /\ s \in Seq(1..n) /\ 1..n \subseteq Nat /\ p + 1 \in Nat /\ p + 1 <= n
  <2>1. PICK q : q = p + 1
    OBVIOUS
  <2>2. q \in Nat /\ q <= n /\ 1..q \subseteq 1..n /\ q <= q
    BY <1>3, <2>1
  <2>3. Upto(q) \in Seq(1..q) /\ Rest(q, n) \in Seq(1..n)
    BY <2>2, SplitLemma
  <2>4. Upto(q) \in Seq(1..n)
    BY <2>2, <2>3, SeqMonotonic
  <2>5. QED
    BY <1>6, <2>1, <2>2, <2>3, <2>4
<1>8. b \in Seq(Nat) /\ s \in Seq(Nat) /\ t \in Nat /\ t <= p + 1
  <2>1. b \in Seq(Nat) /\ s \in Seq(Nat)
    BY <1>7, SeqMonotonic
  <2>2. l.since \in Nat
    BY DEF ListType
  <2>3. QED
    BY <1>2, <1>5, <2>1, <2>2, SMTT(60)
<1>9. /\ d \in ListType /\ d.block = b /\ d.shown = s /\ d.since = t /\ d.i = i
      /\ d.scan = n /\ d.entries = l.entries /\ d.FirstQuery = l.FirstQuery
  BY <1>1, <1>5, <1>8 DEF Display, ListType
<1>10. /\ p + 1 <= d.scan /\ d.scan <= d.entries /\ d.shown = Upto(p + 1)
       /\ d.block = Rest(p + 1, d.scan) /\ d.since <= p + 1 /\ d.i <= p + 1
  BY <1>2, <1>6, <1>7, <1>8, <1>9
<1>11. Shown(d, p + 1)
  BY <1>10 DEF Shown
<1>12. QED
  BY <1>5, <1>9, <1>11

\* The user has answered.
LEMMA SinceLemma ==
  ASSUME NEW l \in ListType, NEW p \in Nat, Shown(l, p), NEW d, d = [l EXCEPT !.since = 0]
  PROVE  /\ d \in ListType /\ Shown(d, p) /\ d.since = 0 /\ d.i = l.i
         /\ d.block = l.block /\ d.scan = l.scan /\ d.FirstQuery = l.FirstQuery
<1>1. /\ d \in ListType /\ d.since = 0 /\ d.i = l.i /\ d.entries = l.entries
      /\ d.shown = l.shown /\ d.block = l.block /\ d.scan = l.scan
      /\ d.FirstQuery = l.FirstQuery
  BY DEF ListType
<1>2. QED
  BY <1>1 DEF Shown

LEMMA ReturnLemma ==
  ASSUME list' = NoList, held' = {}, pc' \notin Listings
  PROVE  Entries'
  BY NoListLemma DEF Entries, Holds, Listings, DirectorySteps, ModuleSteps

\* A step of a directory's listing leaves the list l.
LEMMA DirectoryList ==
  ASSUME NEW l \in ListType, NEW p \in Nat, Shown(l, p), list' = l,
         held' = {"directory", "block", "event"},
         \/ pc' = "query" /\ l.block = <<>> /\ (l.FirstQuery => l.scan = 0)
         \/ pc' = "show" /\ l.block # <<>>
         \/ pc' = "page",
         IF pc' = "page" THEN l.i = 0 /\ l.since = DirPage ELSE l.i = l.since /\ l.since < DirPage
  PROVE  Entries'
<1>1. Holds' = {"directory", "block", "event"}
  BY DEF Holds, DirectorySteps, ModuleSteps
<1>2. QED
  BY <1>1 DEF Entries, Listings, DirectorySteps, ModuleSteps

LEMMA QueryStep ==
  ASSUME Entries, QueryDirectory
  PROVE  Entries'
<1>1. CASE Return
  BY <1>1, ReturnLemma DEF Return, Listings, DirectorySteps, ModuleSteps
<1>2. CASE ~Return
  <2>1. /\ pc = "query" /\ list \in ListType /\ list.block = <<>>
        /\ list.FirstQuery => list.scan = 0
        /\ list.i = list.since /\ list.since < DirPage
        /\ held = {"directory", "block", "event"}
    <3>1. pc = "query" /\ Holds = {"directory", "block", "event"}
      BY DEF QueryDirectory, Holds, DirectorySteps, ModuleSteps
    <3>2. QED
      BY <3>1 DEF Entries
  <2> DEFINE first == IF list.FirstQuery THEN 0 ELSE list.scan
  <2>2. first = list.scan /\ first \in Nat
    BY <2>1 DEF ListType
  <2>3. PICK n \in 1..(list.entries - first) :
          list' = [list EXCEPT !.scan = first + n, !.block = [k \in 1..n |-> first + k]]
    BY <1>2 DEF QueryDirectory
  <2> HIDE DEF first
  <2>4. pc' = "show" /\ held' = held
    BY <1>2 DEF QueryDirectory
  <2>5. PICK p \in Nat : Shown(list, p)
    BY DEF Entries
  <2>6. p = first
    BY <2>1, <2>2, <2>5, MoveLemma DEF Shown
  <2>7. n \in Nat \ {0} /\ first + n \in Nat /\ first + n <= list.entries
        /\ (first + n) - first = n
    BY <2>1, <2>2, <2>3, PageAssumption DEF ListType
  <2>8. PICK b, m : b = Rest(first, m) /\ m = first + n
    OBVIOUS
  <2>9. b = [k \in 1..n |-> first + k]
    BY <2>7, <2>8 DEF Rest
  <2>10. b \in Seq(1..m) /\ 1..m \subseteq Nat /\ b # <<>>
    <3>1. m \in Nat /\ first <= m /\ first # m /\ 1..m \subseteq Nat
      BY <2>2, <2>7, <2>8
    <3>2. b \in Seq(1..m)
      BY <2>2, <2>8, <3>1, SplitLemma
    <3>3. b # <<>>
      BY <2>2, <2>8, <3>1, MoveLemma
    <3>4. QED
      BY <3>1, <3>2, <3>3
  <2>11. b \in Seq(Nat)
    BY <2>10, SeqMonotonic
  <2>12. PICK l : l = [list EXCEPT !.scan = m, !.block = b]
    OBVIOUS
  <2>13. /\ l \in ListType /\ l.scan = m /\ l.block = b /\ l.entries = list.entries
         /\ l.shown = list.shown /\ l.since = list.since /\ l.i = list.i
    BY <2>1, <2>7, <2>8, <2>11, <2>12 DEF ListType
  <2>14. Shown(l, p)
    BY <2>2, <2>5, <2>6, <2>7, <2>8, <2>13 DEF Shown
  <2>15. list' = l
    BY <2>3, <2>8, <2>9, <2>12
  <2>16. QED
    BY <2>1, <2>4, <2>10, <2>13, <2>14, <2>15, DirectoryList
<1>3. QED
  BY <1>1, <1>2

\* What follows an entry that leaves the listing as l.
LEMMA NextEntryLemma ==
  ASSUME NEW l \in ListType, NEW p \in Nat, Shown(l, p), l.i = l.since, l.since < DirPage,
         NextEntry(l), held' = {"directory", "block", "event"}
  PROVE  Entries'
<1>1. CASE l.block # <<>>
  BY <1>1, DirectoryList DEF NextEntry
<1>2. CASE l.block = <<>>
  <2>1. list' = [l EXCEPT !.FirstQuery = FALSE] /\ pc' = "query"
    BY <1>2 DEF NextEntry
  <2>2. PICK d : d = [l EXCEPT !.FirstQuery = FALSE]
    OBVIOUS
  <2>3. /\ d \in ListType /\ Shown(d, p) /\ d.block = l.block /\ ~d.FirstQuery
        /\ d.i = l.i /\ d.since = l.since
    BY <2>2 DEF ListType, Shown
  <2>4. QED
    BY <1>2, <2>1, <2>2, <2>3, DirectoryList
<1>3. QED
  BY <1>1, <1>2

LEMMA DumpStep ==
  ASSUME Entries, DumpFileInfo
  PROVE  Entries'
<1>1. CASE Fault
  BY <1>1, ReturnLemma DEF Fault, Listings, DirectorySteps, ModuleSteps
<1>2. CASE runtime # "nativertl"
  <2>1. /\ pc = "show" /\ held' = held
        /\ IF list.i + 1 >= DirPage THEN list' = Display(list, 0) /\ pc' = "page"
           ELSE NextEntry(Display(list, list.i + 1))
    BY <1>2 DEF DumpFileInfo
  <2>2. /\ list \in ListType /\ list.block # <<>>
        /\ list.i = list.since /\ list.since < DirPage
        /\ held = {"directory", "block", "event"}
    <3>1. Holds = {"directory", "block", "event"}
      BY <2>1 DEF Holds, DirectorySteps, ModuleSteps
    <3>2. QED
      BY <2>1, <3>1 DEF Entries
  <2>3. PICK p \in Nat : Shown(list, p)
    BY DEF Entries
  <2>4. list.i \in Nat /\ list.i + 1 \in Nat /\ list.i + 1 <= p + 1 /\ DirPage \in Nat
    BY <2>2, <2>3, PageAssumption DEF ListType, Shown
  <2>5. CASE list.i + 1 >= DirPage
    <3>1. PICK d : d = Display(list, 0)
      OBVIOUS
    <3>2. d \in ListType /\ Shown(d, p + 1) /\ d.since = list.since + 1 /\ d.i = 0
      BY <2>2, <2>3, <2>4, <3>1, DisplayLemma
    <3>3. d.since = DirPage
      BY <2>2, <2>4, <2>5, <3>2
    <3>4. list' = d /\ pc' = "page" /\ p + 1 \in Nat
      BY <2>1, <2>5, <3>1
    <3>5. QED
      BY <2>1, <2>2, <3>2, <3>3, <3>4, DirectoryList
  <2>6. CASE ~(list.i + 1 >= DirPage)
    <3>1. PICK i \in Nat : i = list.i + 1
      BY <2>4
    <3>2. PICK d : d = Display(list, i)
      OBVIOUS
    <3>3. d \in ListType /\ Shown(d, p + 1) /\ d.since = list.since + 1 /\ d.i = i
      BY <2>2, <2>3, <2>4, <3>1, <3>2, DisplayLemma
    <3>4. d.i = d.since /\ d.since < DirPage /\ p + 1 \in Nat
      BY <2>2, <2>4, <2>6, <3>1, <3>3
    <3>5. NextEntry(d)
      BY <2>1, <2>6, <3>1, <3>2
    <3>6. QED
      BY <2>1, <2>2, <3>3, <3>4, <3>5, NextEntryLemma
  <2>7. QED
    BY <2>5, <2>6
<1>3. QED
  BY <1>1, <1>2 DEF DumpFileInfo

LEMMA AnswerStep ==
  ASSUME Entries, AnswerPage
  PROVE  Entries'
<1>1. CASE Return
  BY <1>1, ReturnLemma DEF Return, Listings, DirectorySteps, ModuleSteps
<1>2. CASE NextEntry([list EXCEPT !.since = 0]) /\ UNCHANGED held
  <2>1. /\ pc = "page" /\ list \in ListType /\ list.i = 0
        /\ held = {"directory", "block", "event"}
    <3>1. pc = "page" /\ Holds = {"directory", "block", "event"}
      BY DEF AnswerPage, Holds, DirectorySteps, ModuleSteps
    <3>2. QED
      BY <3>1 DEF Entries
  <2>2. PICK p \in Nat : Shown(list, p)
    BY DEF Entries
  <2>3. PICK d : d = [list EXCEPT !.since = 0]
    OBVIOUS
  <2>4. d \in ListType /\ Shown(d, p) /\ d.since = 0 /\ d.i = list.i
    BY <2>1, <2>2, <2>3, SinceLemma
  <2>5. d.i = d.since /\ d.since < DirPage
    BY <2>1, <2>4, PageAssumption
  <2>6. QED
    BY <1>2, <2>1, <2>3, <2>4, <2>5, NextEntryLemma
<1>3. QED
  BY <1>1, <1>2 DEF AnswerPage

\* A step of the module listing leaves the list l.
LEMMA ModuleList ==
  ASSUME NEW l \in ListType, NEW p \in Nat, Shown(l, p), list' = l, held' = {"block"},
         pc' \in ModuleSteps, l.since <= ModulePage, NEW q \in Nat, Indexed(l, q),
         pc' = "hold" => l.since = ModulePage /\ l.block # <<>>
  PROVE  Entries'
<1>1. Holds' = {"block"}
  BY DEF Holds, DirectorySteps, ModuleSteps
<1>2. QED
  BY <1>1 DEF Entries, Listings, DirectorySteps, ModuleSteps

\* A module more is shown of the list l.
LEMMA ShowModuleLemma ==
  ASSUME NEW l \in ListType, NEW p \in Nat, Shown(l, p), l.block # <<>>, held' = {"block"},
         l.since < ModulePage, NEW q \in Nat, l.i = (ModulePage * q) + l.since, ShowModule(l)
  PROVE  Entries'
<1>1. l.i \in Nat /\ l.since \in Nat /\ l.i + 1 \in Nat /\ l.i + 1 <= p + 1 /\ p + 1 \in Nat
      /\ ModulePage \in Nat
  BY PageAssumption, SMTT(60) DEF ListType, Shown
<1>2. PICK i \in Nat : i = l.i + 1
  BY <1>1
<1>3. PICK d : d = Display(l, i)
  OBVIOUS
<1>4. d \in ListType /\ Shown(d, p + 1) /\ d.since = l.since + 1 /\ d.i = i
  BY <1>1, <1>2, <1>3, DisplayLemma
<1>5. PICK m \in Int : m = ModulePage * q
  BY <1>1
<1>6. d.i = m + d.since /\ d.since # 0 /\ d.since <= ModulePage
  BY <1>1, <1>2, <1>4, <1>5
<1>7. list' = d /\ pc' = "modules"
  BY <1>2, <1>3 DEF ShowModule
<1>8. Indexed(d, q) /\ "modules" \in ModuleSteps /\ "modules" # "hold"
  BY <1>5, <1>6 DEF Indexed, ModuleSteps
<1>9. QED
  BY <1>1, <1>4, <1>6, <1>7, <1>8, ModuleList

LEMMA ModuleStep ==
  ASSUME Entries, ListModule \/ PressSpace
  PROVE  Entries'
<1>1. CASE Return
  BY <1>1, ReturnLemma DEF Return, Listings, DirectorySteps, ModuleSteps
<1>2. ASSUME pc \in ModuleSteps
      PROVE  /\ list \in ListType /\ held = {"block"} /\ list.since <= ModulePage
             /\ \E q \in Nat : Indexed(list, q)
  BY <1>2 DEF Entries, Holds, DirectorySteps, ModuleSteps
<1>3. PICK p \in Nat : Shown(list, p)
  BY DEF Entries
<1>4. CASE ListModule /\ ~Return
  <2>1. /\ pc = "modules" /\ pc \in ModuleSteps /\ list.block # <<>> /\ held' = held
        /\ IF list.i # 0 /\ list.i % ModulePage = 0 THEN pc' = "hold" /\ list' = list
           ELSE ShowModule(list)
    BY <1>4 DEF ListModule, ModuleSteps
  <2>2. PICK q \in Nat : Indexed(list, q)
    BY <1>2, <2>1
  <2>3. /\ list.i \in Nat /\ list.since \in Nat /\ list.since <= ModulePage
        /\ ModulePage \in Nat \ {0}
        /\ list.i = (ModulePage * q) + list.since /\ (list.since = 0 => list.i = 0)
    BY <1>2, <2>1, <2>2, PageAssumption DEF ListType, Indexed
  <2>4. CASE list.i # 0 /\ list.i % ModulePage = 0
    <3>1. list.since = ModulePage
      <4>1. SUFFICES ASSUME list.since # ModulePage
                     PROVE  FALSE
        OBVIOUS
      <4>2. list.since \in 0..(ModulePage - 1)
        BY <2>3, <4>1
      <4>3. list.i % ModulePage = list.since
        BY <2>3, <4>2, RemainderLemma
      <4>4. QED
        BY <2>3, <2>4, <4>3
    <3>2. pc' = "hold" /\ list' = list /\ pc' \in ModuleSteps
      BY <2>1, <2>4 DEF ModuleSteps
    <3>3. QED
      BY <1>2, <1>3, <2>1, <2>2, <3>1, <3>2, ModuleList
  <2>5. CASE ~(list.i # 0 /\ list.i % ModulePage = 0)
    <3>1. list.since < ModulePage
      <4>1. SUFFICES ASSUME list.since = ModulePage
                     PROVE  FALSE
        BY <2>3
      <4>2. list.i = (ModulePage * (q + 1)) + 0 /\ list.i # 0
        BY <2>3, <4>1, SMTT(30)
      <4>3. ((ModulePage * (q + 1)) + 0) % ModulePage = 0
        BY <2>3, RemainderLemma
      <4>4. QED
        BY <2>5, <4>2, <4>3
    <3>2. QED
      BY <1>2, <1>3, <2>1, <2>3, <2>5, <3>1, ShowModuleLemma
  <2>6. QED
    BY <2>4, <2>5
<1>5. CASE PressSpace
  <2>1. /\ pc = "hold" /\ pc \in ModuleSteps /\ held' = held
        /\ ShowModule([list EXCEPT !.since = 0])
    BY <1>5 DEF PressSpace, ModuleSteps
  <2>2. list.since = ModulePage /\ list.block # <<>>
    BY <2>1 DEF Entries
  <2>3. PICK q \in Nat : Indexed(list, q)
    BY <1>2, <2>1
  <2>4. PICK d : d = [list EXCEPT !.since = 0]
    OBVIOUS
  <2>5. d \in ListType /\ Shown(d, p) /\ d.since = 0 /\ d.i = list.i /\ d.block = list.block
    BY <1>2, <1>3, <2>1, <2>4, SinceLemma
  <2>6. q + 1 \in Nat /\ ModulePage \in Nat \ {0} /\ list.i = (ModulePage * q) + ModulePage
    BY <2>2, <2>3, PageAssumption DEF Indexed
  <2>7. d.i = (ModulePage * (q + 1)) + d.since
    BY <2>5, <2>6, SMTT(30)
  <2>8. d.since < ModulePage
    BY <2>5, <2>6
  <2>9. ShowModule(d) /\ held' = {"block"} /\ d.block # <<>>
    BY <1>2, <2>1, <2>2, <2>4, <2>5
  <2>10. QED
    BY <2>5, <2>6, <2>7, <2>8, <2>9, ShowModuleLemma
<1>6. QED
  BY <1>1, <1>4, <1>5

\* A step that is not about a listing.
LEMMA NoListingStep ==
  ASSUME Entries, UNCHANGED <<held, list>>,
         pc' = pc \/ (pc \notin Listings /\ pc' \notin Listings)
  PROVE  Entries'
<1>1. CASE pc' = pc
  BY <1>1 DEF Entries, Holds
<1>2. CASE pc \notin Listings /\ pc' \notin Listings
  <2>1. list' = NoList /\ held' = {}
    BY <1>2 DEF Entries, Holds, Listings, DirectorySteps, ModuleSteps
  <2>2. QED
    BY <1>2, <2>1, ReturnLemma
<1>3. QED
  BY <1>1, <1>2

LEMMA NewListStep ==
  ASSUME RtlCliListDirectory \/ RtlCliListDrivers
  PROVE  Entries'
<1>1. CASE Return \/ Fault
  BY <1>1, ReturnLemma DEF Return, Fault, Listings, DirectorySteps, ModuleSteps
<1>2. CASE RtlCliListDirectory /\ ~Return
  <2>1. PICK n \in 0..MaxEntries : list' = NewList(n, 0)
    BY <1>2 DEF RtlCliListDirectory
  <2>2. pc' = "query" /\ held' = {"directory", "block", "event"}
    BY <1>2 DEF RtlCliListDirectory
  <2>3. PICK l : l = NewList(n, 0)
    OBVIOUS
  <2>4. Upto(0) = <<>> /\ 0 \in 0..n
    BY UptoLemma, PageAssumption
  <2>5. l \in ListType /\ l.scan = 0 /\ l.block = <<>> /\ l.since = 0 /\ l.i = 0 /\ Shown(l, 0)
    BY <2>3, <2>4, NewListLemma
  <2>6. l.since < DirPage /\ l.i = l.since
    BY <2>5, PageAssumption
  <2>7. QED
    BY <2>1, <2>2, <2>3, <2>5, <2>6, DirectoryList
<1>3. CASE RtlCliListDrivers /\ ~Fault
  <2>1. PICK n \in 0..MaxEntries : list' = NewList(n, n)
    BY <1>3 DEF RtlCliListDrivers
  <2>2. pc' = "modules" /\ held' = {"block"} /\ pc' \in ModuleSteps
    BY <1>3 DEF RtlCliListDrivers, ModuleSteps
  <2>3. PICK l : l = NewList(n, n)
    OBVIOUS
  <2>4. n \in 0..n
    BY PageAssumption
  <2>5. l \in ListType /\ l.since = 0 /\ l.i = 0 /\ Shown(l, 0)
    BY <2>3, <2>4, NewListLemma
  <2>6. Indexed(l, 0) /\ l.since <= ModulePage
    BY <2>5, PageAssumption DEF Indexed
  <2>7. QED
    BY <2>1, <2>2, <2>3, <2>5, <2>6, ModuleList
<1>4. QED
  BY <1>1, <1>2, <1>3

LEMMA EntriesStep ==
  ASSUME Entries, [Next]_vars
  PROVE  Entries'
<1>1. CASE RtlCliListDirectory \/ RtlCliListDrivers
  BY <1>1, NewListStep
<1>2. CASE QueryDirectory
  BY <1>2, QueryStep
<1>3. CASE DumpFileInfo
  BY <1>3, DumpStep
<1>4. CASE AnswerPage
  BY <1>4, AnswerStep
<1>5. CASE ListModule \/ PressSpace
  BY <1>5, ModuleStep
<1>6. CASE Return \/ Fault
  BY <1>6, ReturnLemma DEF Return, Fault, Listings, DirectorySteps, ModuleSteps
<1>7. CASE UNCHANGED <<held, list>>
           /\ (pc' = pc \/ (pc \notin Listings /\ pc' \notin Listings))
  BY <1>7, NoListingStep
<1>8. CASE RunProgram \/ CreateNativeProcess \/ WaitForChild \/ ChildEnds
  BY <1>8, <1>7 DEF RunProgram, CreateNativeProcess, WaitForChild, ChildEnds,
                    Listings, DirectorySteps, ModuleSteps
<1>9. CASE DumpHardwareTree \/ DevtreeStep \/ PlayBadApple \/ InstallStep \/ UNCHANGED vars
  BY <1>9, <1>7 DEF DumpHardwareTree, DevtreeStep, PlayBadApple, InstallStep, vars, shellVars,
                    Listings, DirectorySteps, ModuleSteps
<1>10. CASE RtlCliOpenInputDevice \/ RtlCliListProcesses \/ DevtreeReturns \/ InstallReturns
            \/ Reboot
  BY <1>10, <1>6 DEF RtlCliOpenInputDevice, RtlCliListProcesses, DevtreeReturns,
                     InstallReturns, Reboot
<1>11. QED
  BY <1>1, <1>2, <1>3, <1>4, <1>5, <1>8, <1>9, <1>10
     DEF Next, Start, Command, User, PowerLoss, RtlCliShutdown
--------------------------------------------------------------------------------
LEMMA SubNodesStep ==
  ASSUME Tree, last \in Trees, RtlCliListSubNodes
  PROVE  /\ frames' \in Seq(FrameType) /\ UNCHANGED <<last, allowed>>
         /\ Level' = IF frames' = <<>> THEN 0 ELSE Len(frames') - 1
<1>1. /\ frames # <<>> /\ frames \in Seq(FrameType) /\ Level = Len(frames) - 1
      /\ UNCHANGED <<last, allowed>>
  BY DEF Tree, RtlCliListSubNodes, GetSibling, RtlCliPrintDeviceName, ListSubNodes, NextSibling,
         At
<1>2. /\ Frame \in FrameType /\ Len(frames) \in Nat \ {0}
      /\ Tail(frames) \in Seq(FrameType) /\ Len(Tail(frames)) = Len(frames) - 1
  BY <1>1, FrameLemma DEF Frame
<1>3. ASSUME NEW f \in FrameType, Go(f), UNCHANGED Level
      PROVE  /\ frames' \in Seq(FrameType) /\ frames' # <<>>
             /\ Level' = Len(frames') - 1
  BY <1>1, <1>3, GoLemma DEF Go
<1>4. CASE GetSibling
  <2>1. Answer(Current, "sibling") \in Names
    BY AnswerLemma
  <2>2. [Frame EXCEPT !.at = "print", !.FoundSibling = Answer(Current, "sibling")] \in FrameType
    BY <1>2, <2>1 DEF FrameType
  <2>3. QED
    BY <1>1, <1>3, <1>4, <2>2 DEF GetSibling
<1>5. CASE RtlCliPrintDeviceName
  <2>1. [Frame EXCEPT !.at = "child"] \in FrameType
    BY <1>2 DEF FrameType
  <2>2. QED
    BY <1>1, <1>3, <1>5, <2>1 DEF RtlCliPrintDeviceName
<1>6. CASE ListSubNodes
  <2> DEFINE f == [Frame EXCEPT !.at = "next"]
             c == Call(Answer(Current, "child"))
  <2>1. f \in FrameType
    BY <1>2 DEF FrameType
  <2>2. Answer(Current, "child") \in Names /\ Empty \in Names
    BY AnswerLemma DEF Names
  <2>3. c \in FrameType
    BY <2>2 DEF Call, FrameType
  <2>4. \/ Go(f) /\ UNCHANGED Level
        \/ frames' = <<c, f>> \o Tail(frames) /\ Level' = Level + 1
    BY <1>6 DEF ListSubNodes
  <2> HIDE DEF f, c
  <2>5. CASE Go(f) /\ UNCHANGED Level
    BY <1>1, <1>3, <2>1, <2>5
  <2>6. CASE frames' = <<c, f>> \o Tail(frames) /\ Level' = Level + 1
    <3>1. <<c, f>> \in Seq(FrameType) /\ Len(<<c, f>>) = 2
      BY <2>1, <2>3
    <3>2. frames' \in Seq(FrameType) /\ Len(frames') = 2 + Len(Tail(frames))
      BY <1>2, <2>6, <3>1, ConcatProperties
    <3>3. frames' # <<>>
      BY <1>2, <3>2
    <3>4. QED
      BY <1>1, <1>2, <2>6, <3>2, <3>3
  <2>7. QED
    BY <2>4, <2>5, <2>6
<1>7. CASE NextSibling
  <2>1. [Frame EXCEPT !.at = "sibling", !.Current = "FoundSibling"] \in FrameType
    BY <1>2 DEF FrameType
  <2>2. CASE Frame.FoundSibling # Empty
    BY <1>1, <1>3, <1>7, <2>1, <2>2 DEF NextSibling
  <2>3. CASE Frame.FoundSibling = Empty
    <3>1. frames' = Tail(frames) /\ Level' = IF Len(frames) > 1 THEN Level - 1 ELSE Level
      BY <1>7, <2>3 DEF NextSibling
    <3>2. frames' = <<>> <=> Len(frames') = 0
      BY <1>2, <3>1, EmptySeq
    <3>3. QED
      BY <1>1, <1>2, <3>1, <3>2
  <2>4. QED
    BY <2>2, <2>3
<1>8. QED
  BY <1>1, <1>4, <1>5, <1>6, <1>7 DEF RtlCliListSubNodes

LEMMA NoTreeLemma == NoTree \notin Trees
<1> SUFFICES ASSUME NoTree \in Trees
             PROVE  FALSE
  OBVIOUS
<1>1. DOMAIN NoTree = 1..N /\ 1 \in 1..N
  BY NAssumption DEF Trees, Devices
<1>2. DOMAIN NoTree = {}
  BY DEF NoTree
<1>3. QED
  BY <1>1, <1>2

LEMMA ForgetLemma ==
  ASSUME Tree, ForgetTree, pc' # "devtree"
  PROVE  Tree'
<1>1. <<>> \in Seq(FrameType)
  BY EmptySeq
<1>2. QED
  BY <1>1, WalkForgotten DEF ForgetTree, Tree, Listing

LEMMA TreeStep ==
  ASSUME Tree, [Next]_vars
  PROVE  Tree'
<1>1. CASE DumpHardwareTree
  <2>1. PICK d \in Names : frames' = <<Call(d)>>
    BY <1>1 DEF DumpHardwareTree, RtlCliListHardwareTree
  <2>2. last' \in Trees /\ allowed' \in BOOLEAN /\ pc' = "devtree" /\ UNCHANGED Level
        /\ last = NoTree
    BY <1>1 DEF DumpHardwareTree, RtlCliListHardwareTree
  <2>3. Call(d) \in FrameType
    BY DEF Call, FrameType, Names
  <2>4. frames' \in Seq(FrameType) /\ frames' # <<>> /\ Len(frames') = 1
    BY <2>1, <2>3
  <2>5. frames = <<>> /\ Level = 0 /\ listed = <<>>
    BY <2>2 DEF Tree, Listing
  <2>6. Walk'
    BY <1>1, <2>5, WalkStarts DEF DumpHardwareTree
  <2>7. QED
    BY <2>2, <2>4, <2>5, <2>6, NoTreeLemma DEF Tree, Listing
<1>2. CASE DevtreeStep
  <2>1. RtlCliListSubNodes /\ pc = "devtree" /\ pc' = pc
    BY <1>2 DEF DevtreeStep, shellVars
  <2>2. last \in Trees
    BY <2>1 DEF Tree, Listing
  <2>3. /\ frames' \in Seq(FrameType) /\ UNCHANGED <<last, allowed>>
        /\ Level' = IF frames' = <<>> THEN 0 ELSE Len(frames') - 1
    BY <2>1, <2>2, SubNodesStep
  <2>4. Walk'
    BY <2>1, <2>2, WalkStep DEF Tree
  <2>5. QED
    BY <2>1, <2>2, <2>3, <2>4 DEF Tree, Listing
<1>3. CASE DevtreeReturns \/ Reboot
  BY <1>3, ForgetLemma DEF DevtreeReturns, Reboot, Return
<1>4. CASE UNCHANGED treeVars /\ (pc' = "devtree" <=> pc = "devtree")
  BY <1>4, WalkStays DEF treeVars, Tree, Listing
<1>5. CASE RunProgram \/ CreateNativeProcess \/ WaitForChild \/ RtlCliOpenInputDevice
           \/ ChildEnds \/ RtlCliListDirectory
  BY <1>5, <1>4 DEF RunProgram, CreateNativeProcess, WaitForChild, RtlCliOpenInputDevice,
                    ChildEnds, RtlCliListDirectory, Return
<1>6. CASE QueryDirectory \/ DumpFileInfo \/ AnswerPage \/ RtlCliListDrivers
  BY <1>6, <1>4 DEF QueryDirectory, DumpFileInfo, AnswerPage, RtlCliListDrivers, NextEntry,
                    Return, Fault
<1>7. CASE ListModule \/ PressSpace \/ RtlCliListProcesses
  BY <1>7, <1>4 DEF ListModule, PressSpace, RtlCliListProcesses, ShowModule, Return, Fault
<1>8. CASE PlayBadApple \/ InstallStep \/ InstallReturns \/ UNCHANGED vars
  BY <1>8, <1>4 DEF PlayBadApple, InstallStep, InstallReturns, Return, vars, shellVars
<1>9. QED
  BY <1>1, <1>2, <1>3, <1>5, <1>6, <1>7, <1>8
     DEF Next, Start, Command, User, PowerLoss, RtlCliShutdown
--------------------------------------------------------------------------------
LEMMA ReturnInit ==
  ASSUME list = NoList, held = {}, pc = "prompt"
  PROVE  Entries
  BY NoListLemma DEF Entries, Holds, Listings, DirectorySteps, ModuleSteps

LEMMA InitLemma ==
  ASSUME Init
  PROVE  IInv
<1>1. Keys
  BY DEF Init, Keys, Working, Reading, Running
<1>2. Entries
  BY ReturnInit DEF Init
<1>3. Installing
  BY DEF Init, InstallInit, Installing, InstallTypeOK
<1>4. Tree
  <2>1. <<>> \in Seq(FrameType)
    BY EmptySeq
  <2>2. Walk
    BY WalkIdle DEF Init, TreeInit
  <2>3. QED
    BY <2>1, <2>2 DEF Init, TreeInit, Tree, Listing
<1>5. QED
  BY <1>1, <1>2, <1>3, <1>4 DEF IInv

LEMMA Invariant == Spec => []IInv
<1>1. IInv /\ [Next]_vars => IInv'
  BY KeysStep, EntriesStep, InstallingStep, TreeStep DEF IInv
<1>2. QED
  BY <1>1, InitLemma, PTL DEF Spec

\* The entries and the counters are those of the listing.
LEMMA ListTypeLemma ==
  ASSUME Entries
  PROVE  /\ list.entries \in 0..MaxEntries /\ list.scan \in 0..list.entries
         /\ list.block \in Seq(1..list.entries) /\ list.shown \in Seq(1..list.entries)
         /\ list.since \in 0..Len(list.shown) /\ list.i \in 0..Len(list.shown)
         /\ list.FirstQuery \in BOOLEAN
         /\ list.shown \o list.block = Upto(list.scan)
<1>1. PICK p \in Nat : Shown(list, p)
  BY DEF Entries
<1>2. PICK n, m : n = list.scan /\ m = list.entries
  OBVIOUS
<1>3. /\ m \in 0..MaxEntries /\ n \in Nat /\ list.since \in Nat /\ list.i \in Nat
      /\ list.FirstQuery \in BOOLEAN
  BY <1>2 DEF Entries, ListType
<1>4. m \in Nat /\ p <= n /\ n <= m /\ list.since <= p /\ list.i <= p
      /\ list.shown = Upto(p) /\ list.block = Rest(p, n)
  BY <1>1, <1>2, <1>3, PageAssumption DEF Shown
<1>5. PICK u, r : u = Upto(p) /\ r = Rest(p, n)
  OBVIOUS
<1>6. u \in Seq(1..n) /\ r \in Seq(1..n) /\ Len(u) = p /\ u \o r = Upto(n)
  BY <1>3, <1>4, <1>5, SplitLemma
<1>7. 1..n \subseteq 1..m
  BY <1>3, <1>4
<1>8. u \in Seq(1..m) /\ r \in Seq(1..m)
  BY <1>6, <1>7, SeqMonotonic
<1>9. QED
  BY <1>2, <1>3, <1>4, <1>5, <1>6, <1>8

LEMMA FramesLemma ==
  ASSUME frames \in Seq(FrameType)
  PROVE  \A i \in 1..Len(frames) :
           /\ frames[i].at \in {"sibling", "print", "child", "next"}
           /\ frames[i].argument \in Names /\ frames[i].FoundSibling \in Names
<1> TAKE i \in 1..Len(frames)
<1>1. frames[i] \in FrameType
  BY ElementOfSeq
<1>2. QED
  BY <1>1 DEF FrameType

(***************************************************************************)
(* Whatever the user runs, lists and installs, and whenever power is lost, *)
(* every variable of the shell, the tree listing and the self-install      *)
(* keeps its type, a listing's entries and counters are those of the       *)
(* directory or the modules it is about, and Level is the depth of the     *)
(* recursion.                                                              *)
(***************************************************************************)
THEOREM TypeCorrect == Spec => []TypeOK
<1>1. IInv => TypeOK
  <2> SUFFICES ASSUME IInv
               PROVE  TypeOK
    OBVIOUS
  <2>1. TreeTypeOK
    BY FramesLemma DEF IInv, Tree, TreeTypeOK
  <2>2. InstallTypeOK /\ (at # "idle" => pc = "install")
    BY DEF IInv, Installing
  <2>3. QED
    BY <2>1, <2>2, ListTypeLemma DEF IInv, Keys, Entries, Tree, TypeOK
<1>2. QED
  BY <1>1, Invariant, PTL

(***************************************************************************)
(* The shell never reads from a keyboard it has closed for a program       *)
(* (RtlCliOpenInputDevice follows CreateNativeProcess on every path), and  *)
(* while a program runs it waits.                                          *)
(***************************************************************************)
THEOREM KeyboardSafe == Spec => []KeyboardHandedOver
<1>1. IInv => KeyboardHandedOver
  BY DEF IInv, Keys, Running, Reading, KeyboardHandedOver
<1>2. QED
  BY <1>1, Invariant, PTL

(***************************************************************************)
(* RtlCliListDirectory and RtlCliListDrivers display the entries that the  *)
(* system has returned from the first on, each once and in order, and ask  *)
(* the user after every full page and at no other time, however many       *)
(* entries there are, however ZwQueryDirectoryFile spreads them and        *)
(* whatever a page holds.                                                  *)
(***************************************************************************)
THEOREM EntriesOnce == Spec => []EntriesShownOnce
<1>1. IInv => EntriesShownOnce
  <2> SUFFICES ASSUME Entries, pc \in Listings
               PROVE  LET page == IF pc \in DirectorySteps THEN DirPage ELSE ModulePage
                      IN  /\ list.shown \o list.block = [k \in 1..list.scan |-> k]
                          /\ list.since <= page
                          /\ pc \in {"page", "hold"} => list.since = page
    BY DEF IInv, EntriesShownOnce
  <2>1. list.shown \o list.block = [k \in 1..list.scan |-> k]
    BY ListTypeLemma DEF Upto
  <2>2. list.since \in Nat /\ DirPage \in Nat /\ ModulePage \in Nat
    BY PageAssumption DEF Entries, ListType
  <2>3. CASE pc \in DirectorySteps
    BY <2>1, <2>2, <2>3 DEF Entries, DirectorySteps
  <2>4. CASE pc \in ModuleSteps
    BY <2>1, <2>2, <2>4 DEF Entries, DirectorySteps, ModuleSteps
  <2>5. QED
    BY <2>3, <2>4 DEF Listings
<1>2. QED
  BY <1>1, Invariant, PTL

(***************************************************************************)
(* The service key is created only for a driver that is whole, whatever    *)
(* AudioWriteDriverToFile found on the disk and wherever it was stopped    *)
(* the times before.                                                       *)
(***************************************************************************)
THEOREM KeyFollowsDriver == Spec => KeyAfterDriver
<1>1. IInv /\ [Next]_vars =>
        [at = "key" /\ at' = "idle" /\ told' = "installed"
           => service' /\ file' = "whole"]_vars
  <2> SUFFICES ASSUME Installing, [Next]_vars, at = "key", at' = "idle", told' = "installed"
               PROVE  service' /\ file' = "whole"
    BY DEF IInv
  <2>1. CASE InstallStep
    BY <2>1 DEF InstallStep, AudioWriteDriverToFile, OpenExisting, CreateFile, WriteFile,
                AudioCreateServiceKey, End, Installing
  <2>2. CASE UNCHANGED at \/ at = "idle" \/ told' = "nothing"
    BY <2>2
  <2>3. CASE Reboot \/ PlayBadApple \/ InstallReturns \/ UNCHANGED vars
    BY <2>3, <2>2 DEF Reboot, Restart, End, PlayBadApple, AudioInit, InstallReturns,
                      vars, installVars
  <2>4. QED
    BY <2>1, <2>2, <2>3
       DEF Next, Start, Command, User, PowerLoss, RtlCliShutdown, RunProgram,
           CreateNativeProcess, WaitForChild, RtlCliOpenInputDevice, ChildEnds,
           RtlCliListDirectory, QueryDirectory, DumpFileInfo, AnswerPage, RtlCliListDrivers,
           ListModule, PressSpace, RtlCliListProcesses, DumpHardwareTree, DevtreeStep,
           DevtreeReturns, installVars
<1>2. QED
  BY <1>1, Invariant, PTL DEF Spec, KeyAfterDriver

(***************************************************************************)
(* RtlCliListSubNodes displays devices in the order of the tree and no     *)
(* device twice, each indented by its depth, for any tree, although the    *)
(* calls share Level and a call's buffer is the argument of its own next   *)
(* query.                                                                  *)
(***************************************************************************)
THEOREM TreeInOrder == Spec => []TreeShown
<1>1. IInv => TreeShown
  BY DEF IInv, Tree, Walk, TreeShown
<1>2. QED
  BY <1>1, Invariant, PTL
================================================================================
