------------------------------- MODULE Files_proofs -------------------------------
(***************************************************************************)
(* Proofs about Files, for any names, contents and buffer size.            *)
(***************************************************************************)
EXTENDS Files, SequenceTheorems, TLAPS

Kind == [kind : {"absent", "directory", "file"}, data : Seq(Nat)]

\* The command under way is the one whose calls are made.
OpMatches == /\ pc \in Loop \cup {"copy", "overwrite"} => cmd.op = "copy"
             /\ pc \in {"move", "rename"} => cmd.op = "move"

\* How far the copy has come: what is written is the beginning of the source,
\* what is in the buffer comes next.
Progress ==
  pc \in Loop =>
    /\ cmd.src # cmd.dst
    /\ total \in 0..Len(Src.data)
    /\ Dst.data = SubSeq(Src.data, 1, total)
    /\ pc # "size" => size = Len(Src.data)
    /\ pc \in {"size", "read"} => pos = total
    /\ pc = "write" => /\ pos \in total..Len(Src.data)
                       /\ data = SubSeq(Src.data, total + 1, pos)
    /\ pc = "close" => total = size

\* A copy that has not opened its destination has counted nothing.
Fresh == pc \in {"copy", "overwrite"} => total = 0 /\ pos = 0

IInv == TypeOK /\ OpMatches /\ Fresh /\ Progress

-----------------------------------------------------------------------------------
LEMMA AnythingLemma == Anything \subseteq Kind
<1>1. Absent \in Kind /\ Directory \in Kind
  BY EmptySeq DEF Absent, Directory, Kind
<1>2. \A d \in Contents : File(d) \in Kind
  BY ContentsAssumption DEF File, Kind
<1>3. QED
  BY <1>1, <1>2 DEF Anything

LEMMA DataLemma ==
  ASSUME TypeOK
  PROVE  /\ disk \in [Names -> Kind] /\ cmd.src \in Names /\ cmd.dst \in Names
         /\ Src.data \in Seq(Nat) /\ Len(Src.data) \in Nat
         /\ Dst.data \in Seq(Nat) /\ Len(Dst.data) \in Nat
<1>1. disk \in [Names -> Kind] /\ cmd.src \in Names /\ cmd.dst \in Names
  BY DEF TypeOK, Kind
<1>2. Src.data \in Seq(Nat) /\ Dst.data \in Seq(Nat)
  BY <1>1 DEF Src, Dst, Kind
<1>3. QED
  BY <1>1, <1>2, LenProperties

LEMMA PrefixLemma ==
  ASSUME NEW s \in Seq(Nat), NEW n \in 0..Len(s)
  PROVE  SubSeq(s, 1, n) \in Seq(Nat) /\ Len(SubSeq(s, 1, n)) = n
<1>1. \A i \in 1..n : s[i] \in Nat
  BY ElementOfSeq, LenProperties
<1>2. QED
  BY <1>1, SubSeqProperties, LenProperties

\* CopyFaithful is what Progress says of the destination.
LEMMA FaithfulLemma == IInv => CopyFaithful
<1> SUFFICES ASSUME IInv, pc \in Loop
             PROVE  /\ total = Len(Dst.data)
                    /\ Dst.data = SubSeq(Src.data, 1, total)
                    /\ pc = "close" => Dst.data = Src.data
  BY DEF CopyFaithful
<1>1. /\ total \in 0..Len(Src.data)
      /\ Dst.data = SubSeq(Src.data, 1, total)
      /\ pc = "close" => total = Len(Src.data)
  BY DEF IInv, Progress, Loop
<1>2. Src.data \in Seq(Nat)
  BY DataLemma DEF IInv
<1>3. total = Len(Dst.data)
  BY <1>1, <1>2, PrefixLemma
<1>4. pc = "close" => Dst.data = Src.data
  BY <1>1, <1>2, SubSeqFull
<1>5. QED
  BY <1>1, <1>3, <1>4

LEMMA InitIInv == Init => IInv
<1> SUFFICES ASSUME Init PROVE IInv
  OBVIOUS
<1>1. TypeOK
  <2>1. disk \in [Names -> [kind : {"absent", "directory", "file"}, data : Seq(Nat)]]
    BY AnythingLemma DEF Init, Kind
  <2>2. data \in Seq(Nat)
    BY EmptySeq DEF Init
  <2>3. cmd \in [op : {"copy", "move", "del", "md"}, src : Names, dst : Names]
    BY DEF Init
  <2>4. QED
    BY <2>1, <2>2, <2>3 DEF Init, TypeOK, Loop
<1>2. OpMatches /\ Fresh /\ Progress
  BY DEF Init, OpMatches, Fresh, Progress, Loop
<1>3. QED
  BY <1>1, <1>2 DEF IInv

\* The way back to the prompt re-establishes everything but the types.
LEMMA ReturnStep ==
  ASSUME TypeOK, NEW closed, NEW result \in {"missing", "failed", "done"},
         Return(closed, result), open \subseteq closed,
         disk' \in [Names -> Kind],
         cmd' \in [op : {"copy", "move", "del", "md"}, src : Names, dst : Names],
         size' \in Nat, pos' \in Nat, total' \in Nat, data' \in Seq(Nat)
  PROVE  IInv'
<1>1. pc' = "prompt" /\ open' = {} /\ said' = result
  BY DEF Return
<1>2. TypeOK'
  BY <1>1 DEF TypeOK, Loop, Kind
<1>3. OpMatches' /\ Fresh' /\ Progress'
  BY <1>1 DEF OpMatches, Fresh, Progress, Loop
<1>4. QED
  BY <1>2, <1>3 DEF IInv

\* A refused call: nothing changes but the handles.
LEMMA FailStep ==
  ASSUME IInv, NEW closed, NEW result \in {"missing", "failed", "done"},
         Return(closed, result), open \subseteq closed, UNCHANGED <<disk, cmd, loopVars>>
  PROVE  IInv'
<1>1. /\ disk' \in [Names -> Kind]
      /\ cmd' \in [op : {"copy", "move", "del", "md"}, src : Names, dst : Names]
      /\ size' \in Nat /\ pos' \in Nat /\ total' \in Nat /\ data' \in Seq(Nat)
  BY DEF IInv, TypeOK, Kind, loopVars
<1>2. QED
  BY <1>1, ReturnStep DEF IInv

-----------------------------------------------------------------------------------
LEMMA CommandStep == IInv /\ RtlClipProcessMessage => IInv'
<1> SUFFICES ASSUME IInv, RtlClipProcessMessage PROVE IInv'
  OBVIOUS
<1>1. PICK op \in {"copy", "move", "del", "md"}, x \in Names, y \in Names :
        /\ cmd' = [op |-> op, src |-> x, dst |-> y]
        /\ IF op # "md" /\ ~FileExists(x)
           THEN Return({}, "missing")
           ELSE pc' = op /\ said' = "nothing" /\ UNCHANGED open
  BY DEF RtlClipProcessMessage
<1>2. /\ open = {} /\ disk' \in [Names -> Kind]
      /\ size' = 0 /\ pos' = 0 /\ data' = <<>> /\ total' = 0
  BY DEF RtlClipProcessMessage, IInv, TypeOK, Kind, Loop
<1>3. <<>> \in Seq(Nat)
  BY EmptySeq
<1>4. CASE Return({}, "missing")
  BY <1>1, <1>2, <1>3, <1>4, ReturnStep DEF IInv
<1>5. CASE pc' = op /\ said' = "nothing" /\ UNCHANGED open
  <2>1. TypeOK'
    BY <1>1, <1>2, <1>3, <1>5 DEF TypeOK, Kind, Loop
  <2>2. OpMatches' /\ Fresh' /\ Progress'
    BY <1>1, <1>2, <1>5 DEF OpMatches, Fresh, Progress, Loop
  <2>3. QED
    BY <2>1, <2>2 DEF IInv
<1>6. QED
  BY <1>1, <1>4, <1>5

LEMMA OpenSourceStep == IInv /\ OpenSource => IInv'
<1> SUFFICES ASSUME IInv, OpenSource PROVE IInv'
  OBVIOUS
<1>1. pc = "copy" /\ open = {} /\ UNCHANGED <<disk, cmd, loopVars>>
  BY DEF OpenSource, IInv, TypeOK, Loop
<1>2. CASE Return({}, "failed")
  BY <1>1, <1>2, FailStep
<1>3. CASE open' = {"src"} /\ pc' = "overwrite" /\ UNCHANGED said
  <2>1. TypeOK'
    BY <1>1, <1>3 DEF IInv, TypeOK, Loop, loopVars
  <2>2. OpMatches' /\ Fresh' /\ Progress'
    BY <1>1, <1>3 DEF IInv, OpMatches, Fresh, Progress, Loop, loopVars
  <2>3. QED
    BY <2>1, <2>2 DEF IInv
<1>4. QED
  BY <1>2, <1>3 DEF OpenSource

LEMMA OpenDestinationStep == IInv /\ OpenDestination => IInv'
<1> SUFFICES ASSUME IInv, OpenDestination PROVE IInv'
  OBVIOUS
<1>1. pc = "overwrite" /\ open = {"src"} /\ UNCHANGED <<cmd, loopVars>>
  BY DEF OpenDestination, IInv, TypeOK, Loop
<1>2. CASE Return({"src"}, "failed") /\ UNCHANGED disk
  BY <1>1, <1>2, FailStep
<1>3. CASE /\ cmd.dst # cmd.src /\ Dst # Directory
           /\ disk' = [disk EXCEPT ![cmd.dst] = File(<<>>)]
           /\ open' = open \cup {"dst"} /\ pc' = "size" /\ UNCHANGED said
  <2>1. /\ disk \in [Names -> Kind] /\ cmd.src \in Names /\ cmd.dst \in Names
        /\ Src.data \in Seq(Nat) /\ Len(Src.data) \in Nat
    BY DataLemma DEF IInv
  <2>2. File(<<>>) \in Kind /\ File(<<>>).data = <<>>
    BY EmptySeq DEF File, Kind
  <2>3. /\ disk' \in [Names -> Kind] /\ Dst'.data = <<>> /\ Src' = Src
        /\ cmd' = cmd /\ total' = 0 /\ pos' = 0
    BY <1>1, <1>3, <2>1, <2>2 DEF Src, Dst, loopVars, IInv, Fresh
  <2>4. TypeOK'
    BY <1>1, <1>3, <2>3 DEF IInv, TypeOK, Kind, Loop, loopVars
  <2>5. SubSeq(Src.data, 1, 0) = <<>>
    BY <2>1, SubSeqEmpty
  <2>6. Progress'
    BY <1>3, <2>1, <2>3, <2>5 DEF Progress, Loop
  <2>7. OpMatches' /\ Fresh'
    BY <1>1, <1>3 DEF IInv, OpMatches, Fresh, Loop
  <2>8. QED
    BY <2>4, <2>6, <2>7 DEF IInv
<1>4. QED
  BY <1>2, <1>3 DEF OpenDestination

LEMMA GetSizeStep == IInv /\ NtFileGetFileSize => IInv'
<1> SUFFICES ASSUME IInv, NtFileGetFileSize PROVE IInv'
  OBVIOUS
<1>1. pc = "size" /\ open = {"src", "dst"} /\ UNCHANGED <<disk, cmd, pos, data, total>>
  BY DEF NtFileGetFileSize, IInv, TypeOK, Loop
<1>2. CASE Return({"src", "dst"}, "failed") /\ UNCHANGED size
  BY <1>1, <1>2, FailStep DEF loopVars
<1>3. CASE size' = Len(Src.data) /\ pc' = "read" /\ UNCHANGED <<open, said>>
  <2>1. Len(Src.data) \in Nat
    BY DataLemma DEF IInv
  <2>2. TypeOK'
    BY <1>1, <1>3, <2>1 DEF IInv, TypeOK, Loop
  <2>3. Progress'
    BY <1>1, <1>3 DEF IInv, Progress, Loop, Src, Dst
  <2>4. OpMatches' /\ Fresh'
    BY <1>1, <1>3 DEF IInv, OpMatches, Fresh, Loop
  <2>5. QED
    BY <2>2, <2>3, <2>4 DEF IInv
<1>4. QED
  BY <1>2, <1>3 DEF NtFileGetFileSize

LEMMA ReadStep == IInv /\ NtFileReadFile => IInv'
<1> SUFFICES ASSUME IInv, NtFileReadFile PROVE IInv'
  OBVIOUS
<1>1. pc = "read" /\ open = {"src", "dst"} /\ UNCHANGED <<disk, cmd, size, total>>
  BY DEF NtFileReadFile, IInv, TypeOK, Loop
<1>2. CASE Return({"src", "dst"}, "failed") /\ UNCHANGED <<data, pos>>
  BY <1>1, <1>2, FailStep DEF loopVars
<1> DEFINE end == IF pos + Chunk < Len(Src.data) THEN pos + Chunk ELSE Len(Src.data)
<1>3. CASE /\ pos < Len(Src.data) /\ data' = SubSeq(Src.data, pos + 1, end) /\ pos' = end
           /\ pc' = "write" /\ UNCHANGED <<open, said>>
  <2>1. Src.data \in Seq(Nat) /\ Len(Src.data) \in Nat /\ pos \in Nat /\ pos = total
    BY <1>1, DataLemma DEF IInv, TypeOK, Progress, Loop
  <2>2. end \in pos..Len(Src.data) /\ end \in Nat
    BY <1>3, <2>1, ChunkAssumption
  <2>3. \A i \in (pos + 1)..end : Src.data[i] \in Nat
    BY <2>1, <2>2, ElementOfSeq
  <2>4. data' \in Seq(Nat)
    BY <1>3, <2>1, <2>2, <2>3, SubSeqProperties
  <2>5. TypeOK'
    BY <1>1, <1>3, <2>2, <2>4 DEF IInv, TypeOK, Loop
  <2>6. Progress'
    BY <1>1, <1>3, <2>1, <2>2 DEF IInv, Progress, Loop, Src, Dst
  <2>7. OpMatches' /\ Fresh'
    BY <1>1, <1>3 DEF IInv, OpMatches, Fresh, Loop
  <2>8. QED
    BY <2>5, <2>6, <2>7 DEF IInv
<1>4. QED
  BY <1>2, <1>3 DEF NtFileReadFile

LEMMA WriteStep == IInv /\ NtFileWriteFile => IInv'
<1> SUFFICES ASSUME IInv, NtFileWriteFile PROVE IInv'
  OBVIOUS
<1>1. /\ pc = "write" /\ open = {"src", "dst"} /\ UNCHANGED <<cmd, size, pos, data>>
  BY DEF NtFileWriteFile, IInv, TypeOK, Loop
<1>2. PICK n \in 0..Len(data) :
        /\ Written(n)
        /\ IF n = Len(data)
           THEN /\ total' = total + n
                /\ pc' = IF total' = size THEN "close" ELSE "read"
                /\ UNCHANGED <<open, said>>
           ELSE Return({"src", "dst"}, "failed") /\ UNCHANGED total
  BY DEF NtFileWriteFile
<1>3. /\ disk \in [Names -> Kind] /\ cmd.src \in Names /\ cmd.dst \in Names
      /\ Src.data \in Seq(Nat) /\ Len(Src.data) \in Nat
      /\ Dst.data \in Seq(Nat) /\ data \in Seq(Nat) /\ Len(data) \in Nat
  BY DataLemma, LenProperties DEF IInv, TypeOK
<1>4. SubSeq(data, 1, n) \in Seq(Nat)
  BY <1>3, PrefixLemma
<1>5. Dst.data \o SubSeq(data, 1, n) \in Seq(Nat)
  BY <1>3, <1>4, ConcatProperties
<1>6. /\ disk' = [disk EXCEPT ![cmd.dst] = File(Dst.data \o SubSeq(data, 1, n))]
      /\ File(Dst.data \o SubSeq(data, 1, n)) \in Kind
  BY <1>2, <1>3, <1>5 DEF Written, Dst, File, Kind
<1>7. disk' \in [Names -> Kind]
  BY <1>3, <1>6
<1>8. CASE n # Len(data)
  <2>1. Return({"src", "dst"}, "failed") /\ total' = total
    BY <1>2, <1>8
  <2>2. /\ cmd' \in [op : {"copy", "move", "del", "md"}, src : Names, dst : Names]
        /\ size' \in Nat /\ pos' \in Nat /\ total' \in Nat /\ data' \in Seq(Nat)
    BY <1>1, <2>1 DEF IInv, TypeOK
  <2>3. QED
    BY <1>1, <1>7, <2>1, <2>2, ReturnStep DEF IInv
<1>9. CASE n = Len(data)
  <2>1. /\ total' = total + Len(data) /\ pc' = IF total' = size THEN "close" ELSE "read"
        /\ UNCHANGED <<open, said>>
    BY <1>2, <1>9
  <2>2. /\ cmd.src # cmd.dst /\ total \in 0..Len(Src.data)
        /\ Dst.data = SubSeq(Src.data, 1, total) /\ size = Len(Src.data)
        /\ pos \in total..Len(Src.data) /\ data = SubSeq(Src.data, total + 1, pos)
    BY <1>1 DEF IInv, Progress, Loop
  <2>3. Len(data) = pos - total
    <3>1. \A i \in (total + 1)..pos : Src.data[i] \in Nat
      BY <1>3, <2>2, ElementOfSeq
    <3>2. QED
      BY <1>3, <2>2, <3>1, SubSeqProperties
  <2>4. total' = pos
    BY <1>3, <2>1, <2>2, <2>3
  <2>5. Dst.data \o SubSeq(data, 1, n) = SubSeq(Src.data, 1, pos)
    <3>1. SubSeq(data, 1, n) = data
      BY <1>3, <1>9, SubSeqFull
    <3>2. 1 \in 1..Len(Src.data) + 1 /\ total \in 1 - 1..Len(Src.data)
      BY <1>3, <2>2
    <3>3. SubSeq(Src.data, 1, total) \o SubSeq(Src.data, total + 1, pos)
            = SubSeq(Src.data, 1, pos)
      BY <1>3, <2>2, <3>2, ConcatAdjacentSubSeq
    <3>4. QED
      BY <2>2, <3>1, <3>3
  <2>6. Dst'.data = SubSeq(Src.data, 1, pos) /\ Src' = Src
    BY <1>1, <1>3, <1>6, <2>2, <2>5 DEF Src, Dst, File
  <2>7. TypeOK'
    <3>1. total' \in Nat
      BY <1>3, <2>2, <2>4
    <3>2. QED
      BY <1>1, <1>7, <2>1, <3>1 DEF IInv, TypeOK, Kind, Loop
  <2>8. Progress'
    BY <1>1, <1>3, <2>1, <2>2, <2>4, <2>6 DEF Progress, Loop
  <2>9. OpMatches' /\ Fresh'
    BY <1>1, <2>1 DEF IInv, OpMatches, Fresh, Loop
  <2>10. QED
    BY <2>7, <2>8, <2>9 DEF IInv
<1>10. QED
  BY <1>8, <1>9

LEMMA EndCopyStep == IInv /\ EndCopy => IInv'
<1> SUFFICES ASSUME IInv, EndCopy PROVE IInv'
  OBVIOUS
<1>1. open = {"src", "dst"} /\ UNCHANGED <<disk, cmd, loopVars>>
      /\ Return({"src", "dst"}, "done")
  BY DEF EndCopy, IInv, TypeOK, Loop
<1>2. QED
  BY <1>1, FailStep

LEMMA CopyStep == IInv /\ NtFileCopyFile => IInv'
BY OpenSourceStep, OpenDestinationStep, GetSizeStep, ReadStep, WriteStep, EndCopyStep
   DEF NtFileCopyFile

-----------------------------------------------------------------------------------
LEMMA MoveStep == IInv /\ NtFileMoveFile => IInv'
<1> SUFFICES ASSUME IInv, NtFileMoveFile PROVE IInv'
  OBVIOUS
<1>1. CASE OpenToMove
  <2>1. pc = "move" /\ open = {} /\ UNCHANGED <<disk, cmd, loopVars>>
    BY <1>1 DEF OpenToMove, IInv, TypeOK, Loop
  <2>2. CASE Return({}, "failed")
    BY <2>1, <2>2, FailStep
  <2>3. CASE open' = {"src"} /\ pc' = "rename" /\ UNCHANGED said
    <3>1. TypeOK'
      BY <2>1, <2>3 DEF IInv, TypeOK, Loop, loopVars
    <3>2. OpMatches' /\ Fresh' /\ Progress'
      BY <2>1, <2>3 DEF IInv, OpMatches, Fresh, Progress, Loop, loopVars
    <3>3. QED
      BY <3>1, <3>2 DEF IInv
  <2>4. QED
    BY <1>1, <2>2, <2>3 DEF OpenToMove
<1>2. CASE Rename
  <2>1. /\ open = {"src"} /\ UNCHANGED <<cmd, loopVars>>
        /\ Return({"src"}, "done")
    BY <1>2 DEF Rename, IInv, TypeOK, Loop
  <2>2. /\ disk \in [Names -> Kind] /\ cmd.src \in Names /\ cmd.dst \in Names
        /\ Src \in Kind
    BY DataLemma DEF IInv, Src
  <2>3. Absent \in Kind
    BY EmptySeq DEF Absent, Kind
  <2>4. disk' \in [Names -> Kind]
    BY <1>2, <2>2, <2>3 DEF Rename
  <2>5. /\ cmd' \in [op : {"copy", "move", "del", "md"}, src : Names, dst : Names]
        /\ size' \in Nat /\ pos' \in Nat /\ total' \in Nat /\ data' \in Seq(Nat)
    BY <2>1 DEF IInv, TypeOK, loopVars
  <2>6. QED
    BY <2>1, <2>4, <2>5, ReturnStep DEF IInv
<1>3. QED
  BY <1>1, <1>2 DEF NtFileMoveFile

\* del and md are one call each and return to the prompt.
LEMMA OneCallStep == IInv /\ (NtFileDeleteFile \/ NtFileCreateDirectory) => IInv'
<1> SUFFICES ASSUME IInv, NtFileDeleteFile \/ NtFileCreateDirectory PROVE IInv'
  OBVIOUS
<1>1. /\ open = {} /\ UNCHANGED <<cmd, loopVars>>
      /\ Return({}, "done") \/ Return({}, "failed")
  BY DEF NtFileDeleteFile, NtFileCreateDirectory, IInv, TypeOK, Loop
<1>2. disk \in [Names -> Kind] /\ cmd.src \in Names
  BY DataLemma DEF IInv
<1>3. Absent \in Kind /\ Directory \in Kind
  BY EmptySeq DEF Absent, Directory, Kind
<1>4. disk' \in [Names -> Kind]
  BY <1>2, <1>3 DEF NtFileDeleteFile, NtFileCreateDirectory
<1>5. /\ cmd' \in [op : {"copy", "move", "del", "md"}, src : Names, dst : Names]
      /\ size' \in Nat /\ pos' \in Nat /\ total' \in Nat /\ data' \in Seq(Nat)
  BY <1>1 DEF IInv, TypeOK, loopVars
<1>6. QED
  BY <1>1, <1>4, <1>5, ReturnStep DEF IInv

\* The share mode: in the loop no other program reaches the copy's two files.
LEMMA OtherProgramStep == IInv /\ OtherProgram => IInv'
<1> SUFFICES ASSUME IInv, OtherProgram PROVE IInv'
  OBVIOUS
<1>1. PICK n \in Names \ Exclusive, v \in Anything : disk' = [disk EXCEPT ![n] = v]
  BY DEF OtherProgram
<1>2. UNCHANGED <<pc, cmd, open, size, pos, data, total, said>>
  BY DEF OtherProgram, loopVars
<1>3. disk \in [Names -> Kind] /\ cmd.src \in Names /\ cmd.dst \in Names
  BY DataLemma DEF IInv
<1>4. disk' \in [Names -> Kind]
  BY <1>1, <1>3, AnythingLemma
<1>5. TypeOK'
  BY <1>2, <1>4 DEF IInv, TypeOK, Kind, Loop
<1>6. OpMatches' /\ Fresh'
  BY <1>2 DEF IInv, OpMatches, Fresh, Loop
<1>7. Progress'
  <2> SUFFICES ASSUME pc \in Loop PROVE Progress'
    BY <1>2 DEF Progress
  <2>1. cmd.op = "copy" /\ open = {"src", "dst"}
    BY DEF IInv, OpMatches, TypeOK, Loop
  <2>2. n # cmd.src /\ n # cmd.dst
    BY <2>1 DEF Exclusive
  <2>3. Src' = Src /\ Dst' = Dst
    BY <1>1, <1>2, <1>3, <2>2 DEF Src, Dst
  <2>4. QED
    BY <1>2, <2>3 DEF IInv, Progress
<1>8. QED
  BY <1>5, <1>6, <1>7 DEF IInv

LEMMA StutterStep == IInv /\ UNCHANGED vars => IInv'
BY DEF vars, IInv, TypeOK, OpMatches, Fresh, Progress, Loop, Src, Dst

LEMMA NextIInv == IInv /\ [Next]_vars => IInv'
BY CommandStep, CopyStep, MoveStep, OneCallStep, OtherProgramStep, StutterStep
   DEF Next, Shell

-----------------------------------------------------------------------------------
(***************************************************************************)
(* Wherever the shell is in a command, and whatever other programs did,    *)
(* the copy is as far as its variables say.                                *)
(***************************************************************************)
THEOREM Invariance == Spec => []IInv
BY InitIInv, NextIInv, PTL DEF Spec

(***************************************************************************)
(* Every variable has its type, and the handles held are those of the call *)
(* the shell is at: every way out of a command closes what it opened.      *)
(***************************************************************************)
THEOREM TypeCorrect == Spec => []TypeOK
<1>1. IInv => TypeOK
  BY DEF IInv
<1>2. QED
  BY <1>1, Invariance, PTL

(***************************************************************************)
(* A copy that ends well is its source, for contents of any length and a   *)
(* buffer of any size, whatever other programs do meanwhile.               *)
(***************************************************************************)
THEOREM CopyIsFaithful == Spec => []CopyFaithful
BY FaithfulLemma, Invariance, PTL

(***************************************************************************)
(* No step of a copy changes its source.                                   *)
(***************************************************************************)
THEOREM SourceSafe == Spec => SourceKept
<1>1. IInv /\ NtFileCopyFile => disk'[cmd.src] = Src
  <2> SUFFICES ASSUME IInv, NtFileCopyFile PROVE disk'[cmd.src] = Src
    OBVIOUS
  <2>1. disk \in [Names -> Kind] /\ cmd.src \in Names /\ cmd.dst \in Names
    BY DataLemma DEF IInv
  <2>2. CASE disk' = disk
    BY <2>2 DEF Src
  <2>3. CASE OpenDestination
    BY <2>1, <2>2, <2>3 DEF OpenDestination, Src
  <2>4. CASE NtFileWriteFile
    <3>1. cmd.src # cmd.dst
      BY <2>4 DEF NtFileWriteFile, IInv, Progress, Loop
    <3>2. QED
      BY <2>1, <2>4, <3>1 DEF NtFileWriteFile, Written, Src
  <2>5. QED
    BY <2>2, <2>3, <2>4
       DEF NtFileCopyFile, OpenSource, NtFileGetFileSize, NtFileReadFile, EndCopy
<1>2. QED
  BY <1>1, Invariance, PTL DEF Spec, SourceKept, Next, Shell

(***************************************************************************)
(* A move destroys no file, its own or another.                            *)
(***************************************************************************)
THEOREM MoveSafe == Spec => MoveLosesNothing
<1> DEFINE Kept == \A n \in Names : disk[n] # Absent =>
                     disk'[n] = disk[n] \/ (n = cmd.src /\ disk'[cmd.dst] = disk[n])
<1>1. IInv /\ NtFileMoveFile => Kept
  <2> SUFFICES ASSUME IInv, NtFileMoveFile PROVE Kept
    OBVIOUS
  <2>1. disk \in [Names -> Kind] /\ cmd.src \in Names /\ cmd.dst \in Names
    BY DataLemma DEF IInv
  <2>2. CASE disk' = disk
    BY <2>2
  <2>3. CASE Dst = Absent /\ disk' = [disk EXCEPT ![cmd.src] = Absent, ![cmd.dst] = Src]
    BY <2>1, <2>3 DEF Src, Dst
  <2>4. QED
    BY <2>2, <2>3 DEF NtFileMoveFile, OpenToMove, Rename
<1>2. QED
  BY <1>1, Invariance, PTL DEF Spec, MoveLosesNothing

===================================================================================
