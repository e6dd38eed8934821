---------------------------------- MODULE Files ----------------------------------
(***************************************************************************)
(* The shell's commands on files: copy, move, del and md                   *)
(* (RtlClipProcessMessage in main.c, ntfile.c).  Each system call is a     *)
(* step.  Started by the launcher the shell runs beside Windows, so other  *)
(* programs use the same disk between any two calls; NtFileOpenFile opens  *)
(* without sharing, NtFileMoveFile shares reading and writing.             *)
(*                                                                         *)
(* External: the file system, which may refuse any call, and the other     *)
(* programs.                                                               *)
(***************************************************************************)
EXTENDS Integers, Sequences

CONSTANTS Names,     \* the files the commands can name
          Contents,  \* what a file may hold, in units of a part of a buffer
          Chunk      \* what one NtFileReadFile of NtFileCopyFile asks for

ASSUME ContentsAssumption == Contents \subseteq Seq(Nat) /\ <<>> \in Contents
ASSUME ChunkAssumption == Chunk \in Nat \ {0}

VARIABLES disk,   \* what each name is
          pc,     \* the call the shell makes next
          cmd,    \* the command and its arguments
          open,   \* the handles it holds: hSrc (or FileHandle), hDst
          size,   \* lFileSize
          pos,    \* the position of hSrc
          data,   \* byData, as far as it was read
          total,  \* lWrittenSizeTotal
          said    \* how the last command ended

vars == <<disk, pc, cmd, open, size, pos, data, total, said>>
loopVars == <<size, pos, data, total>>

Absent == [kind |-> "absent", data |-> <<>>]
Directory == [kind |-> "directory", data |-> <<>>]
File(d) == [kind |-> "file", data |-> d]

Anything == {Absent, Directory} \cup {File(d) : d \in Contents}

Src == disk[cmd.src]
Dst == disk[cmd.dst]

Init == /\ disk \in [Names -> Anything]
        /\ pc = "prompt"
        /\ cmd \in [op : {"copy"}, src : Names, dst : Names]
        /\ open = {}
        /\ size = 0 /\ pos = 0 /\ data = <<>> /\ total = 0
        /\ said = "nothing"

\* The way back to the prompt: the handles closed on it, what is reported.
Return(closed, result) == /\ pc' = "prompt"
                          /\ open' = open \ closed
                          /\ said' = result

\* A directory is a file too.
FileExists(name) == disk[name] # Absent

\* A command with its arguments; all but md look for the file first.
RtlClipProcessMessage ==
  /\ pc = "prompt"
  /\ \E op \in {"copy", "move", "del", "md"}, x, y \in Names :
       /\ cmd' = [op |-> op, src |-> x, dst |-> y]
       /\ IF op # "md" /\ ~FileExists(x)
          THEN Return({}, "missing")
          ELSE pc' = op /\ said' = "nothing" /\ UNCHANGED open
  /\ size' = 0 /\ pos' = 0 /\ data' = <<>> /\ total' = 0
  /\ UNCHANGED disk
---------------------------------------------------------------------------------
\* NtFileOpenFile(&hSrc).
OpenSource ==
  /\ pc = "copy"
  /\ \/ Src # Absent /\ open' = {"src"} /\ pc' = "overwrite" /\ UNCHANGED said
     \/ Return({}, "failed")
  /\ UNCHANGED <<disk, cmd, loopVars>>

\* Mutant of OpenDestination: the source is shared.
OpenDestination_Shared ==
  /\ pc = "overwrite"
  /\ Dst # Directory
  /\ disk' = [disk EXCEPT ![cmd.dst] = File(<<>>)]
  /\ open' = open \cup {"dst"} /\ pc' = "size" /\ UNCHANGED said
  /\ UNCHANGED <<cmd, loopVars>>

\* NtFileOpenFile(&hDst): FILE_OVERWRITE_IF empties the destination before
\* anything is known of the source.  The source itself cannot be opened.
OpenDestination ==
  /\ pc = "overwrite"
  /\ \/ /\ cmd.dst # cmd.src /\ Dst # Directory
        /\ disk' = [disk EXCEPT ![cmd.dst] = File(<<>>)]
        /\ open' = open \cup {"dst"} /\ pc' = "size" /\ UNCHANGED said
     \/ Return({"src"}, "failed") /\ UNCHANGED disk
  /\ UNCHANGED <<cmd, loopVars>>

NtFileGetFileSize ==
  /\ pc = "size"
  /\ \/ size' = Len(Src.data) /\ pc' = "read" /\ UNCHANGED <<open, said>>
     \/ Return({"src", "dst"}, "failed") /\ UNCHANGED size
  /\ UNCHANGED <<disk, cmd, pos, data, total>>

\* Mutant of NtFileReadFile: a failure closes the source only.
NtFileReadFile_KeepsDst ==
  /\ pc = "read"
  /\ Return({"src"}, "failed")
  /\ UNCHANGED <<disk, cmd, loopVars>>

\* At the end of the file, and on a directory, a read fails.
NtFileReadFile ==
  /\ pc = "read"
  /\ \/ /\ pos < Len(Src.data)
        /\ LET end == IF pos + Chunk < Len(Src.data) THEN pos + Chunk ELSE Len(Src.data)
           IN  data' = SubSeq(Src.data, pos + 1, end) /\ pos' = end
        /\ pc' = "write"
        /\ UNCHANGED <<open, said>>
     \/ Return({"src", "dst"}, "failed") /\ UNCHANGED <<data, pos>>
  /\ UNCHANGED <<disk, cmd, size, total>>

\* Appends the first n units of the buffer to the destination.
Written(n) == disk' = [disk EXCEPT ![cmd.dst] = File(@.data \o SubSeq(data, 1, n))]

\* Mutant of NtFileWriteFile: what was read is counted, not what was written.
NtFileWriteFile_CountsRead ==
  /\ pc = "write"
  /\ \E n \in 0..Len(data) : Written(n)
  /\ total' = total + Len(data)
  /\ pc' = IF total' = size THEN "close" ELSE "read"
  /\ UNCHANGED <<cmd, open, said, size, pos, data>>

\* The write may stop short, or fail; only the exact size ends the loop.
NtFileWriteFile ==
  /\ pc = "write"
  /\ \E n \in 0..Len(data) :
       /\ Written(n)
       /\ IF n = Len(data)
          THEN /\ total' = total + n
               /\ pc' = IF total' = size THEN "close" ELSE "read"
               /\ UNCHANGED <<open, said>>
          ELSE Return({"src", "dst"}, "failed") /\ UNCHANGED total
  /\ UNCHANGED <<cmd, size, pos, data>>

EndCopy == /\ pc = "close"
           /\ Return({"src", "dst"}, "done")
           /\ UNCHANGED <<disk, cmd, loopVars>>

NtFileCopyFile == \/ OpenSource \/ OpenDestination \/ NtFileGetFileSize
                  \/ NtFileReadFile \/ NtFileWriteFile \/ EndCopy
---------------------------------------------------------------------------------
\* The open of NtFileMoveFile, and the allocation of the rename information.
OpenToMove ==
  /\ pc = "move"
  /\ \/ Src # Absent /\ open' = {"src"} /\ pc' = "rename" /\ UNCHANGED said
     \/ Return({}, "failed")
  /\ UNCHANGED <<disk, cmd, loopVars>>

\* Mutant of Rename: ReplaceIfExists is TRUE.
Rename_Replaces ==
  /\ pc = "rename"
  /\ disk' = [disk EXCEPT ![cmd.src] = Absent, ![cmd.dst] = Src]
  /\ Return({"src"}, "done")
  /\ UNCHANGED <<cmd, loopVars>>

\* ReplaceIfExists is FALSE.  Whatever NtSetInformationFile returns,
\* NtFileMoveFile returns TRUE.
Rename ==
  /\ pc = "rename"
  /\ \/ /\ Dst = Absent
        /\ disk' = [disk EXCEPT ![cmd.src] = Absent, ![cmd.dst] = Src]
     \/ UNCHANGED disk
  /\ Return({"src"}, "done")
  /\ UNCHANGED <<cmd, loopVars>>

NtFileMoveFile == OpenToMove \/ Rename

NtFileDeleteFile ==
  /\ pc = "del"
  /\ \/ Src # Absent /\ disk' = [disk EXCEPT ![cmd.src] = Absent] /\ Return({}, "done")
     \/ UNCHANGED disk /\ Return({}, "failed")
  /\ UNCHANGED <<cmd, loopVars>>

\* A name collision is a success, with a file as well as with a directory.
NtFileCreateDirectory ==
  /\ pc = "md"
  /\ \/ Src = Absent /\ disk' = [disk EXCEPT ![cmd.src] = Directory] /\ Return({}, "done")
     \/ Src # Absent /\ UNCHANGED disk /\ Return({}, "done")
     \/ UNCHANGED disk /\ Return({}, "failed")
  /\ UNCHANGED <<cmd, loopVars>>

Shell == \/ RtlClipProcessMessage \/ NtFileCopyFile \/ NtFileMoveFile
         \/ NtFileDeleteFile \/ NtFileCreateDirectory
---------------------------------------------------------------------------------
\* hSrc and hDst of a copy keep every other program out.
Exclusive == IF cmd.op # "copy" THEN {}
             ELSE (IF "src" \in open THEN {cmd.src} ELSE {}) \cup
                  (IF "dst" \in open THEN {cmd.dst} ELSE {})

\* A file open for a move can be written, but not removed or renamed.
OtherProgram ==
  /\ \E n \in Names \ Exclusive, v \in Anything :
       /\ cmd.op = "move" /\ "src" \in open /\ n = cmd.src => v.kind = disk[n].kind
       /\ disk' = [disk EXCEPT ![n] = v]
  /\ UNCHANGED <<pc, cmd, open, loopVars, said>>

Next == Shell \/ OtherProgram

Spec == Init /\ [][Next]_vars
---------------------------------------------------------------------------------
Loop == {"size", "read", "write", "close"}

(***************************************************************************)
(* Every variable has its type, and the shell holds exactly the handles    *)
(* the call it is at needs: none is left over at the prompt, on any way    *)
(* out of a command.                                                       *)
(***************************************************************************)
TypeOK ==
  /\ disk \in [Names -> [kind : {"absent", "directory", "file"}, data : Seq(Nat)]]
  /\ pc \in {"prompt", "copy", "overwrite", "move", "rename", "del", "md"} \cup Loop
  /\ cmd \in [op : {"copy", "move", "del", "md"}, src : Names, dst : Names]
  /\ open = CASE pc \in Loop -> {"src", "dst"}
              [] pc \in {"overwrite", "rename"} -> {"src"}
              [] OTHER -> {}
  /\ size \in Nat /\ pos \in Nat /\ total \in Nat
  /\ data \in Seq(Nat)
  /\ said \in {"nothing", "missing", "failed", "done"}

(***************************************************************************)
(* The destination of a copy holds what was counted as written, and that   *)
(* is the beginning of the source; when the copy ends without an error it  *)
(* is the whole source, although the loop never looks at the end of file   *)
(* and any write may stop short.                                           *)
(***************************************************************************)
CopyFaithful ==
  pc \in Loop =>
    /\ total = Len(Dst.data)
    /\ Dst.data = SubSeq(Src.data, 1, total)
    /\ pc = "close" => Dst.data = Src.data

(***************************************************************************)
(* No step of a copy changes its source, not even when it is copied onto   *)
(* itself.                                                                 *)
(***************************************************************************)
SourceKept == [][NtFileCopyFile => disk'[cmd.src] = Src]_vars

(***************************************************************************)
(* A move loses nothing: what the shell renames replaces no file, and what *)
(* was there under the old name is there under one of the two.             *)
(***************************************************************************)
MoveLosesNothing ==
  [][NtFileMoveFile =>
       \A n \in Names : disk[n] # Absent =>
         disk'[n] = disk[n] \/ (n = cmd.src /\ disk'[cmd.dst] = disk[n])]_vars
==================================================================================
