--------------------------------- MODULE Player ---------------------------------
(***************************************************************************)
(* native.exe from its menu (main.c) through a playback: the video reader  *)
(* (video.c), the audio client (audio.c) and, below it, the dispatch       *)
(* routines of Ac97Driver, which every call on the device runs.  The shell *)
(* process has one thread; the PnP manager and the user act between any    *)
(* two of its steps.                                                       *)
(*                                                                         *)
(* External: the user, the files and the video data, the handle rundown of *)
(* a process that ends.                                                    *)
(***************************************************************************)
EXTENDS Naturals

CONSTANTS Handles,     \* as in Ac97Driver
          Blocks,      \* as in Ac97Driver
          Null,        \* as in Ac97Driver
          Files,       \* what a badapple.dat in the current directory may hold
          Embedded,    \* the video linked into native.exe
          FrameBuffer, \* sizeof(frame), 2400
          FrameBytes,  \* AUDIO_FRAME_BYTES, 1470
          AudioSize,   \* binary_badapple_audio_dat_size
          Wrap         \* 2^32: audioOffset is a ULONG

Video == [magic : BOOLEAN, frameCount : Nat, frameSize : Nat, size : Nat]

ASSUME VideoAssumption ==
         /\ Files \subseteq Video
         /\ Embedded \in Video /\ Embedded.magic
ASSUME AudioAssumption ==
         /\ FrameBuffer \in Nat /\ FrameBytes \in Nat \ {0}
         /\ AudioSize \in Nat /\ Wrap \in Nat \ {0}
ASSUME HandleAssumption == Null \notin Handles /\ Null \notin Blocks

VARIABLES loaded, link, pnp, ext, handles, codec, pool, last,  \* Ac97Driver's
          pc,               \* where the shell's thread is
          caller,           \* who called RtlCliPlayBadApple
          video,            \* VIDEO_CONTEXT
          hAudioDevice,     \* audio.c's handle
          bAudioAvailable,  \* audio.c's flag
          audioActive,      \* RtlCliPlayBadApple's flag
          chunk,            \* what the last AudioWrite of this frame sent
          held,             \* the key that is down
          leaked,           \* history: handles that hAudioDevice lost
          interrupted       \* history: PnP stopped the device after CONFIGURE

driverVars == <<loaded, link, pnp, ext, handles, codec, pool, last>>
historyVars == <<leaked, interrupted>>
audioVars == <<hAudioDevice, bAudioAvailable, audioActive>>
vars == <<driverVars, pc, caller, video, audioVars, chunk, held, historyVars>>

AudioFormat == [SampleRate |-> 22050, Channels |-> 1, BitsPerSample |-> 16]

Driver == INSTANCE Ac97Driver WITH Requests <- {AudioFormat}, Sizes <- 1..FrameBytes
--------------------------------------------------------------------------------
Keys == {"1", "2", "3", "4", "Enter", "Esc"}

\* RtlCliGetChar reads one event; a press may repeat while the key is held.
\* A release makes it return -1.
RtlCliGetChar(k, down) ==
  IF down THEN held \in {Null, k} /\ held' = k
          ELSE held = k /\ held' = Null

\* VideoClose, and the context before the first VideoOpen.
Closed == [from |-> "nothing", frameCount |-> 0, currentFrame |-> 0,
           frameSize |-> 0, cursor |-> 0, size |-> 0]

Opened(v, from) == [from |-> from, frameCount |-> v.frameCount, currentFrame |-> 0,
                    frameSize |-> v.frameSize, cursor |-> 0, size |-> v.size]

NoChunk == [offset |-> 0, size |-> 0]

Init == /\ Driver!Init
        /\ pc = "menu" /\ caller = "menu"
        /\ video = Closed
        /\ hAudioDevice = Null /\ bAudioAvailable = FALSE /\ audioActive = FALSE
        /\ chunk = NoChunk
        /\ held = Null
        /\ leaked = {} /\ interrupted = FALSE

Exit == /\ pc' = "exited"
        /\ hAudioDevice' = Null /\ bAudioAvailable' = FALSE /\ audioActive' = FALSE
        /\ UNCHANGED caller

\* Calls RtlCliPlayBadApple.
Play(from) == pc' = "open" /\ caller' = from /\ UNCHANGED audioVars

RtlCliShowMenu ==
  /\ pc = "menu"
  /\ \E k \in Keys, down \in BOOLEAN :
       /\ RtlCliGetChar(k, down)
       /\ \/ down /\ k = "1" /\ Play("menu")
          \/ down /\ k = "2" /\ pc' = "about" /\ UNCHANGED <<caller, audioVars>>
          \/ down /\ k = "3" /\ pc' = "shell" /\ UNCHANGED <<caller, audioVars>>
          \/ down /\ k = "4" /\ Exit
          \/ ~(down /\ k \in {"1", "2", "3", "4"}) /\ UNCHANGED <<pc, caller, audioVars>>
  /\ UNCHANGED <<driverVars, video, chunk, historyVars>>

\* Any event that GetChar returns from, whatever it returns.
RtlCliShowAbout ==
  /\ pc = "about"
  /\ \E k \in Keys, down \in BOOLEAN : RtlCliGetChar(k, down)
  /\ pc' = "menu"
  /\ UNCHANGED <<driverVars, caller, video, audioVars, chunk, historyVars>>

\* RtlCliShellLoop: Enter completes a line; of the commands only "exit" and
\* "badapple" matter here.
RtlCliShellLoop ==
  /\ pc = "shell"
  /\ \E k \in Keys, down \in BOOLEAN :
       /\ RtlCliGetChar(k, down)
       /\ \/ down /\ k = "Enter" /\ Play("shell")
          \/ down /\ k = "Enter" /\ pc' = "menu" /\ UNCHANGED <<caller, audioVars>>
          \/ UNCHANGED <<pc, caller, audioVars>>
  /\ UNCHANGED <<driverVars, video, chunk, historyVars>>
--------------------------------------------------------------------------------
\* The file when its header can be read, else the embedded video.  A bad
\* magic ends the playback; there is no second try.
VideoOpen ==
  /\ pc = "open"
  /\ \/ \E v \in Files : /\ video' = IF v.magic THEN Opened(v, "file") ELSE Closed
                         /\ pc' = IF v.magic THEN "init" ELSE caller
     \/ video' = Opened(Embedded, "memory") /\ pc' = "init"
  /\ chunk' = NoChunk
  /\ interrupted' = FALSE
  /\ audioActive' = FALSE
  /\ UNCHANGED <<driverVars, caller, hAudioDevice, bAudioAvailable, held, leaked>>

\* AudioInit forgets the handle it has before it opens another.
Forget == leaked' = leaked \cup ({hAudioDevice} \ {Null})

AudioInitOpens ==
  /\ pc = "init"
  /\ \E h \in Handles : Driver!Ac97DispatchCreate(h) /\ hAudioDevice' = h
  /\ bAudioAvailable' = TRUE
  /\ Forget
  /\ pc' = "configure"
  /\ UNCHANGED <<caller, video, audioActive, chunk, held, interrupted>>

\* The open failed.  If AudioWriteDriverToFile fails, as it does where no DOS
\* device "dows" is defined (SelfInstall), or AudioCreateServiceKey does, the
\* status says so.  When both succeed the function ends without a return: its
\* caller sees any status.
AudioInitSelfInstalls ==
  /\ pc = "init"
  /\ hAudioDevice' = Null /\ bAudioAvailable' = FALSE
  /\ Forget
  /\ pc' \in {"configure", "loop"}
  /\ UNCHANGED <<driverVars, caller, video, audioActive, chunk, held, interrupted>>

\* Mutant of AudioConfigure: its status is not looked at.
AudioConfigure_Unchecked ==
  /\ pc = "configure"
  /\ IF bAudioAvailable
     THEN \/ Driver!ConfigureAndPlay(hAudioDevice, AudioFormat)
          \/ Driver!ConfigureNoPool(hAudioDevice, AudioFormat)
     ELSE UNCHANGED driverVars
  /\ audioActive' = TRUE
  /\ pc' = "loop"
  /\ UNCHANGED <<caller, video, hAudioDevice, bAudioAvailable, chunk, held, historyVars>>

\* A refused CONFIGURE leaves the handle open and audioActive FALSE.
AudioConfigure ==
  /\ pc = "configure"
  /\ \/ /\ bAudioAvailable
        /\ Driver!ConfigureAndPlay(hAudioDevice, AudioFormat)
        /\ audioActive' = TRUE /\ interrupted' = FALSE
     \/ /\ bAudioAvailable
        /\ Driver!ConfigureNoPool(hAudioDevice, AudioFormat)
        /\ UNCHANGED <<audioActive, interrupted>>
     \/ /\ ~bAudioAvailable
        /\ UNCHANGED <<driverVars, audioActive, interrupted>>
  /\ pc' = "loop"
  /\ UNCHANGED <<caller, video, hAudioDevice, bAudioAvailable, chunk, held, leaked>>
--------------------------------------------------------------------------------
\* Mutant of Enough: the end of the frame is not compared.
Enough_Start == video.cursor <= video.size

\* Bytes for one more frame are there.
Enough == video.cursor + video.frameSize <= video.size

\* Mutant of NextFrame: neither the cursor nor the count moves.
NextFrame_NoAdvance ==
  /\ pc = "loop"
  /\ video.currentFrame < video.frameCount /\ video.frameSize <= FrameBuffer /\ Enough
  /\ chunk' = NoChunk
  /\ pc' = IF audioActive THEN "write" ELSE "loop"
  /\ UNCHANGED <<driverVars, caller, video, audioVars, held, leaked, interrupted>>

\* VideoNextFrame returns TRUE and the frame is displayed.
NextFrame ==
  /\ pc = "loop"
  /\ video.currentFrame < video.frameCount
  /\ video.frameSize <= FrameBuffer
  /\ Enough
  /\ video' = [video EXCEPT !.cursor = @ + video.frameSize, !.currentFrame = @ + 1]
  /\ chunk' = NoChunk
  /\ pc' = IF audioActive THEN "write" ELSE "loop"
  /\ UNCHANGED <<driverVars, caller, audioVars, held, leaked, interrupted>>

\* Mutant of EndOfVideo: the audio cleanup is skipped.
EndOfVideo_NoStop ==
  /\ pc = "loop"
  /\ video.currentFrame >= video.frameCount \/ video.frameSize > FrameBuffer
     \/ ~Enough \/ video.from = "file"
  /\ pc' = "videoclose"
  /\ UNCHANGED <<driverVars, caller, video, audioVars, chunk, held, historyVars>>

\* VideoNextFrame returns FALSE: no frame left, or the file read failed.
EndOfVideo ==
  /\ pc = "loop"
  /\ \/ video.currentFrame >= video.frameCount
     \/ video.frameSize > FrameBuffer
     \/ ~Enough
     \/ video.from = "file"
  /\ pc' = IF audioActive THEN "stop" ELSE "videoclose"
  /\ UNCHANGED <<driverVars, caller, video, audioVars, chunk, held, historyVars>>

\* Mutant of ChunkSize: the last chunk is not cut to what remains.
ChunkSize_Whole(offset) == FrameBytes

ChunkSize(offset) ==
  IF FrameBytes > AudioSize - offset THEN AudioSize - offset ELSE FrameBytes

\* currentFrame already counts the frame on the screen.
AudioWrite ==
  /\ pc = "write"
  /\ LET offset == (video.currentFrame * FrameBytes) % Wrap
     IN  \/ /\ offset < AudioSize
            /\ Driver!Ac97HandleWrite(hAudioDevice, ChunkSize(offset))
            /\ chunk' = [offset |-> offset, size |-> ChunkSize(offset)]
         \/ /\ offset >= AudioSize
            /\ UNCHANGED <<driverVars, chunk>>
  /\ pc' = "loop"
  /\ UNCHANGED <<caller, video, audioVars, held, historyVars>>
--------------------------------------------------------------------------------
\* AudioStop, and once more from AudioDeinit.
AudioStop ==
  /\ pc \in {"stop", "deinit"}
  /\ Driver!StopIoctl(hAudioDevice)
  /\ pc' = IF pc = "stop" THEN "deinit" ELSE "close"
  /\ UNCHANGED <<caller, video, audioVars, chunk, held, historyVars>>

\* Mutant of AudioDeinit: the handle is forgotten, not closed.
AudioDeinit_NoClose ==
  /\ pc = "close"
  /\ hAudioDevice' = Null /\ bAudioAvailable' = FALSE
  /\ pc' = "videoclose"
  /\ UNCHANGED <<driverVars, caller, video, audioActive, chunk, held, historyVars>>

AudioDeinit ==
  /\ pc = "close"
  /\ Driver!Ac97DispatchClose(hAudioDevice)
  /\ hAudioDevice' = Null /\ bAudioAvailable' = FALSE
  /\ pc' = "videoclose"
  /\ UNCHANGED <<caller, video, audioActive, chunk, held, historyVars>>

VideoClose ==
  /\ pc = "videoclose"
  /\ video' = Closed
  /\ audioActive' = FALSE                      \* the local goes out of scope
  /\ chunk' = NoChunk
  /\ pc' = caller
  /\ UNCHANGED <<driverVars, caller, hAudioDevice, bAudioAvailable, held, historyVars>>

Playback == \/ VideoOpen \/ AudioInitOpens \/ AudioInitSelfInstalls \/ AudioConfigure
            \/ NextFrame \/ EndOfVideo \/ AudioWrite
            \/ AudioStop \/ AudioDeinit \/ VideoClose
--------------------------------------------------------------------------------
Playing == {"open", "init", "configure", "loop", "write", "stop", "deinit",
            "close", "videoclose"}

\* The kernel closes what a process leaves open.
ProcessRundown ==
  /\ pc = "exited"
  /\ \E h \in handles : Driver!Ac97DispatchClose(h)
  /\ leaked' = leaked \cap handles'
  /\ UNCHANGED <<pc, caller, video, audioVars, chunk, held, interrupted>>

Pnp ==
  /\ Driver!DriverEntry \/ Driver!Ac97Unload \/ Driver!Ac97AddDevice \/ Driver!Ac97DispatchPnp
  /\ interrupted' = (interrupted \/ (pnp = "started" /\ pnp' = "stopped"))
  /\ UNCHANGED <<pc, caller, video, audioVars, chunk, held, leaked>>

Next == \/ RtlCliShowMenu \/ RtlCliShowAbout \/ RtlCliShellLoop
        \/ Playback \/ ProcessRundown \/ Pnp

\* The thread of a playback and the rundown go on; the user and the PnP
\* manager need not.
Fairness == WF_vars(Playback) /\ WF_vars(ProcessRundown)

Spec == Init /\ [][Next]_vars /\ Fairness
--------------------------------------------------------------------------------
VideoType == [from : {"nothing", "file", "memory"}, frameCount : Nat,
              currentFrame : Nat, frameSize : Nat, cursor : Nat, size : Nat]

(***************************************************************************)
(* Every variable of native.exe has its type, and audio.c's two globals    *)
(* and the player's flag agree: an available device has a handle, and      *)
(* audio is active only on an available device -- although AudioInit may   *)
(* return any status after a self-install.                                 *)
(***************************************************************************)
TypeOK ==
  /\ pc \in Playing \cup {"menu", "about", "shell", "exited"}
  /\ caller \in {"menu", "shell"}
  /\ video \in VideoType
  /\ hAudioDevice \in Handles \cup {Null}
  /\ bAudioAvailable \in BOOLEAN
  /\ bAudioAvailable <=> hAudioDevice # Null
  /\ audioActive \in BOOLEAN
  /\ audioActive /\ pc # "videoclose" => bAudioAvailable
  /\ chunk \in [offset : Nat, size : Nat]
  /\ held \in Keys \cup {Null}
  /\ leaked \subseteq Handles
  /\ interrupted \in BOOLEAN

(***************************************************************************)
(* No handle of the device is lost but by an AudioInit that finds one left *)
(* by a refused CONFIGURE, and hAudioDevice is never a closed handle.      *)
(***************************************************************************)
HandlesAccounted ==
  /\ pc # "exited" => handles = leaked \cup ({hAudioDevice} \ {Null})
  /\ hAudioDevice \notin leaked

(***************************************************************************)
(* While the player believes audio is active the driver plays the stream   *)
(* the player configured, unless the PnP manager stopped the device: every *)
(* chunk written is accepted.                                              *)
(***************************************************************************)
ActiveMeansPlaying ==
  audioActive /\ pc \in {"loop", "write", "stop"} /\ ~interrupted =>
    /\ ext.Configured /\ ext.Playing
    /\ Driver!Format(ext) = AudioFormat

(***************************************************************************)
(* Back at the menu or the prompt, and after the process has ended, the    *)
(* driver plays nothing, however the playback ended.                       *)
(***************************************************************************)
SilentAfterPlayback ==
  pc \in {"menu", "about", "shell", "exited"} => ~ext.Playing

(***************************************************************************)
(* The bytes sent with a frame lie within the embedded audio, even when    *)
(* the offset has wrapped around in its 32 bits.                           *)
(***************************************************************************)
ChunkWithinAudio == chunk.offset + chunk.size <= AudioSize

(***************************************************************************)
(* The frame on the screen is the one the header's count says: the cursor  *)
(* is currentFrame frames into the video and never past its end, for files *)
(* and for the embedded video, truncated or not.                           *)
(***************************************************************************)
FramesInOrder ==
  /\ video.cursor = video.currentFrame * video.frameSize
  /\ video.cursor <= video.size
  /\ video.currentFrame <= video.frameCount

(***************************************************************************)
(* A playback ends and returns to the menu or prompt it was started from,  *)
(* whatever its video, with or without audio.                              *)
(***************************************************************************)
PlaybackEnds == \A c \in {"menu", "shell"} : pc \in Playing /\ caller = c ~> pc = c

(***************************************************************************)
(* When the process ends the device comes to rest: no handle, no pool.     *)
(***************************************************************************)
ExitReleases == pc = "exited" ~> handles = {} /\ pool = {}

(***************************************************************************)
(* main.c:159 says of the write in the loop "Play audio chunk for this     *)
(* frame".                                                                 *)
(***************************************************************************)
ChunkMatchesFrame ==
  pc = "loop" /\ chunk.size > 0 => chunk.offset = (video.currentFrame - 1) * FrameBytes
================================================================================
