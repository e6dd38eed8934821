------------------------------ MODULE Player_proofs ------------------------------
(***************************************************************************)
(* Proofs about Player, for any handles, blocks, videos and sizes.         *)
(***************************************************************************)
EXTENDS Player, TLAPS

\* The fields of the driver's extension that a playback depends on.
Fields == {"Playing", "Configured", "SampleRate", "Channels", "BitsPerSample"}

(***************************************************************************)
(* What the driver below looks like from here: handles are open only on a  *)
(* device that was started.                                                *)
(***************************************************************************)
DriverPlaced == /\ Fields \subseteq DOMAIN ext
                /\ ext.Playing \in BOOLEAN
                /\ handles \subseteq Handles
                /\ handles # {} => pnp \in {"started", "stopped"}

\* audioActive is TRUE from the accepted CONFIGURE to the cleanup, and the
\* device plays no longer than until the first STOP.
Phases ==
  /\ audioActive => pc \in {"loop", "write", "stop", "deinit", "close", "videoclose"}
  /\ audioActive /\ pc = "videoclose" => ~bAudioAvailable
  /\ pc \in {"write", "stop", "deinit", "close"} => audioActive
  /\ pc = "exited" => hAudioDevice = Null
  /\ ext.Playing => audioActive /\ pc \in {"loop", "write", "stop"}

IInv == /\ TypeOK /\ DriverPlaced /\ Phases
        /\ HandlesAccounted /\ ActiveMeansPlaying
        /\ ChunkWithinAudio /\ FramesInOrder

--------------------------------------------------------------------------------
\* What each call on the device leaves behind, for the client to see.
LEMMA CreateLemma ==
  ASSUME DriverPlaced, NEW h \in Handles, Driver!Ac97DispatchCreate(h)
  PROVE  /\ handles' = handles \cup {h} /\ h \notin handles
         /\ DriverPlaced' /\ ext'.Playing = FALSE
<1>1. /\ handles' = handles \cup {h} /\ h \notin handles /\ pnp' = pnp
      /\ pnp \in {"started", "stopped"}
      /\ ext' = [ext EXCEPT !.Playing = FALSE, !.Configured = FALSE]
  BY DEF Driver!Ac97DispatchCreate
<1>2. Fields \subseteq DOMAIN ext' /\ ext'.Playing = FALSE
  BY <1>1 DEF DriverPlaced, Fields
<1>3. QED
  BY <1>1, <1>2 DEF DriverPlaced

LEMMA CloseLemma ==
  ASSUME DriverPlaced, NEW h, Driver!Ac97DispatchClose(h)
  PROVE  /\ handles' = handles \ {h} /\ h \in handles
         /\ DriverPlaced' /\ ext'.Playing = FALSE
<1>1. /\ handles' = handles \ {h} /\ h \in handles /\ pnp' = pnp
      /\ ext' = [ext EXCEPT !.Playing = FALSE, !.Configured = FALSE, !.WriteBuffer = Null]
  BY DEF Driver!Ac97DispatchClose
<1>2. Fields \subseteq DOMAIN ext' /\ ext'.Playing = FALSE
  BY <1>1 DEF DriverPlaced, Fields
<1>3. QED
  BY <1>1, <1>2 DEF DriverPlaced

LEMMA ConfigureLemma ==
  ASSUME DriverPlaced, NEW h, Driver!ConfigureAndPlay(h, AudioFormat)
  PROVE  /\ handles' = handles /\ DriverPlaced'
         /\ ext'.Playing = TRUE /\ ext'.Configured = TRUE
         /\ Driver!Format(ext') = AudioFormat
<1>1. /\ handles' = handles /\ pnp' = pnp
      /\ \E b : ext' = [Driver!Reformatted(AudioFormat) EXCEPT
                          !.WriteBuffer = b,
                          !.WriteBufferSize = Driver!BufferSize(AudioFormat),
                          !.Configured = TRUE, !.Playing = TRUE]
  BY DEF Driver!ConfigureAndPlay
<1>2. /\ Fields \subseteq DOMAIN ext' /\ ext'.Playing = TRUE /\ ext'.Configured = TRUE
      /\ ext'.SampleRate = AudioFormat.SampleRate /\ ext'.Channels = AudioFormat.Channels
      /\ ext'.BitsPerSample = AudioFormat.BitsPerSample
  BY <1>1 DEF DriverPlaced, Fields, Driver!Reformatted
<1>3. Driver!Format(ext') = AudioFormat
  BY <1>2 DEF Driver!Format, AudioFormat
<1>4. QED
  BY <1>1, <1>2, <1>3 DEF DriverPlaced

LEMMA NoPoolLemma ==
  ASSUME DriverPlaced, NEW h, Driver!ConfigureNoPool(h, AudioFormat)
  PROVE  handles' = handles /\ DriverPlaced' /\ ext'.Playing = FALSE
<1>1. /\ handles' = handles /\ pnp' = pnp
      /\ ext' = [Driver!Reformatted(AudioFormat) EXCEPT !.WriteBuffer = Null,
                                                        !.WriteBufferSize = 0]
  BY DEF Driver!ConfigureNoPool
<1>2. Fields \subseteq DOMAIN ext' /\ ext'.Playing = FALSE
  BY <1>1 DEF DriverPlaced, Fields, Driver!Reformatted
<1>3. QED
  BY <1>1, <1>2 DEF DriverPlaced

LEMMA StopLemma ==
  ASSUME DriverPlaced, NEW h, Driver!StopIoctl(h)
  PROVE  handles' = handles /\ DriverPlaced' /\ ext'.Playing = FALSE
<1>1. handles' = handles /\ pnp' = pnp /\ ext' = [ext EXCEPT !.Playing = FALSE]
  BY DEF Driver!StopIoctl
<1>2. Fields \subseteq DOMAIN ext' /\ ext'.Playing = FALSE
  BY <1>1 DEF DriverPlaced, Fields
<1>3. QED
  BY <1>1, <1>2 DEF DriverPlaced

\* The stream of e is the stream of the extension.
Same(e) == /\ e.Playing = ext.Playing /\ e.Configured = ext.Configured
           /\ Driver!Format(e) = Driver!Format(ext)

\* The PnP manager changes the stream of an open device only by stopping it.
LEMMA PnpLemma ==
  ASSUME DriverPlaced, Pnp
  PROVE  /\ handles' = handles /\ DriverPlaced'
         /\ ext'.Playing => ext.Playing
         /\ handles # {} => Same(ext') \/ (pnp = "started" /\ pnp' = "stopped")
<1>1. CASE Driver!DriverEntry \/ Driver!Ac97Unload
  BY <1>1 DEF Driver!DriverEntry, Driver!Ac97Unload, Same, DriverPlaced
<1>2. CASE Driver!Ac97AddDevice
  <2>1. handles' = handles /\ pnp = "none" /\ handles = {}
    BY <1>2 DEF Driver!Ac97AddDevice, DriverPlaced
  <2>2. ext' = ext \/ ext' = Driver!ZeroedExt
    BY <1>2 DEF Driver!Ac97AddDevice
  <2>3. Fields \subseteq DOMAIN Driver!ZeroedExt /\ Driver!ZeroedExt.Playing = FALSE
    BY DEF Fields, Driver!ZeroedExt
  <2>4. QED
    BY <2>1, <2>2, <2>3 DEF DriverPlaced
<1>3. CASE Driver!StartDevice
  <2>1. /\ handles' = handles /\ pnp' = "started"
        /\ \E b : ext' = [ext EXCEPT !.IoBase = b, !.DeviceStarted = TRUE]
    BY <1>3 DEF Driver!StartDevice
  <2>2. /\ Fields \subseteq DOMAIN ext'
        /\ \A f \in Fields : ext'[f] = ext[f]
    BY <2>1 DEF Fields, DriverPlaced
  <2>3. Same(ext')
    BY <2>2 DEF Fields, Same, Driver!Format
  <2>4. ext'.Playing = ext.Playing
    BY <2>2 DEF Fields
  <2>5. QED
    BY <2>1, <2>2, <2>3, <2>4 DEF DriverPlaced
<1>4. CASE Driver!StopDevice
  <2>1. /\ handles' = handles /\ pnp = "started" /\ pnp' = "stopped"
        /\ ext' = [ext EXCEPT !.Playing = FALSE, !.DeviceStarted = FALSE]
    BY <1>4 DEF Driver!StopDevice
  <2>2. Fields \subseteq DOMAIN ext' /\ ext'.Playing = FALSE
    BY <2>1 DEF DriverPlaced, Fields
  <2>3. QED
    BY <2>1, <2>2 DEF DriverPlaced
<1>5. CASE Driver!RemoveDevice
  <2>1. handles' = handles /\ handles = {} /\ ext' = Driver!ZeroedExt
    BY <1>5 DEF Driver!RemoveDevice
  <2>2. Fields \subseteq DOMAIN Driver!ZeroedExt /\ Driver!ZeroedExt.Playing = FALSE
    BY DEF Fields, Driver!ZeroedExt
  <2>3. QED
    BY <2>1, <2>2 DEF DriverPlaced
<1>6. QED
  BY <1>1, <1>2, <1>3, <1>4, <1>5 DEF Pnp, Driver!Ac97DispatchPnp

--------------------------------------------------------------------------------
LEMMA InitIInv == Init => IInv
<1> SUFFICES ASSUME Init PROVE IInv
  OBVIOUS
<1>1. /\ ext = Driver!ZeroedExt /\ handles = {} /\ pnp = "none"
  BY DEF Init, Driver!Init
<1>2. DriverPlaced /\ ext.Playing = FALSE
  BY <1>1 DEF DriverPlaced, Fields, Driver!ZeroedExt
<1>3. TypeOK
  <2>1. video \in VideoType /\ chunk \in [offset : Nat, size : Nat]
    BY DEF Init, VideoType, Closed, NoChunk
  <2>2. bAudioAvailable <=> hAudioDevice # Null
    BY DEF Init
  <2>3. QED
    BY <2>1, <2>2 DEF Init, TypeOK
<1>4. Phases
  BY <1>2 DEF Init, Phases
<1>5. HandlesAccounted /\ ActiveMeansPlaying
  BY <1>1 DEF Init, HandlesAccounted, ActiveMeansPlaying
<1>6. ChunkWithinAudio /\ FramesInOrder
  BY AudioAssumption DEF Init, ChunkWithinAudio, FramesInOrder, NoChunk, Closed
<1>7. QED
  BY <1>2, <1>3, <1>4, <1>5, <1>6 DEF IInv

LEMMA GetCharLemma ==
  ASSUME TypeOK, NEW k \in Keys, NEW down \in BOOLEAN, RtlCliGetChar(k, down)
  PROVE  held' \in Keys \cup {Null}
  BY DEF RtlCliGetChar

\* A step of the keyboard loops: it leaves the device and the video alone and
\* goes to one of the places outside a playback, or to its start.
LEMMA KeyboardStep ==
  ASSUME IInv, ~audioActive,
         pc' \in {"menu", "about", "shell", "open", "exited"},
         caller' \in {"menu", "shell"},
         held' \in Keys \cup {Null},
         \/ UNCHANGED audioVars /\ pc # "exited" /\ pc' # "exited"
         \/ Exit,
         UNCHANGED <<driverVars, video, chunk, historyVars>>
  PROVE  IInv'
<1>1. /\ UNCHANGED <<ext, handles, pnp, video, chunk, leaked, interrupted>>
      /\ audioActive' = FALSE
  BY DEF driverVars, audioVars, historyVars, Exit, IInv, TypeOK
<1>2. ~ext.Playing
  BY DEF IInv, Phases
<1>3. DriverPlaced' /\ FramesInOrder' /\ ChunkWithinAudio' /\ ActiveMeansPlaying'
  BY <1>1 DEF IInv, DriverPlaced, FramesInOrder, ChunkWithinAudio, ActiveMeansPlaying
<1>4. /\ hAudioDevice' \in {hAudioDevice, Null} /\ bAudioAvailable' \in BOOLEAN
      /\ bAudioAvailable' <=> hAudioDevice' # Null
  <2>1. CASE UNCHANGED audioVars
    BY <2>1 DEF audioVars, IInv, TypeOK
  <2>2. CASE Exit
    BY <2>2 DEF Exit
  <2>3. QED
    BY <2>1, <2>2
<1>5. TypeOK'
  BY <1>1, <1>4 DEF IInv, TypeOK, Playing
<1>6. Phases'
  BY <1>1, <1>2 DEF Phases, Exit
<1>7. HandlesAccounted'
  <2>1. CASE UNCHANGED audioVars /\ pc # "exited" /\ pc' # "exited"
    BY <1>1, <2>1 DEF audioVars, IInv, HandlesAccounted
  <2>2. CASE Exit
    BY <1>1, <2>2, HandleAssumption DEF Exit, IInv, HandlesAccounted, TypeOK
  <2>3. QED
    BY <2>1, <2>2
<1>8. QED
  BY <1>3, <1>5, <1>6, <1>7 DEF IInv

LEMMA MenuStep == IInv /\ RtlCliShowMenu => IInv'
<1> SUFFICES ASSUME IInv, RtlCliShowMenu PROVE IInv'
  OBVIOUS
<1>1. pc = "menu" /\ ~audioActive
  BY DEF RtlCliShowMenu, IInv, Phases
<1>2. held' \in Keys \cup {Null}
  BY GetCharLemma DEF RtlCliShowMenu, IInv
<1>3. /\ pc' \in {"menu", "about", "shell", "open", "exited"} /\ caller' \in {"menu", "shell"}
      /\ (UNCHANGED audioVars /\ pc' # "exited") \/ Exit
  BY <1>1 DEF RtlCliShowMenu, Play, Exit, IInv, TypeOK
<1>4. UNCHANGED <<driverVars, video, chunk, historyVars>>
  BY DEF RtlCliShowMenu
<1>5. QED
  BY <1>1, <1>2, <1>3, <1>4, KeyboardStep

LEMMA AboutStep == IInv /\ RtlCliShowAbout => IInv'
<1> SUFFICES ASSUME IInv, RtlCliShowAbout PROVE IInv'
  OBVIOUS
<1>1. pc = "about" /\ ~audioActive
  BY DEF RtlCliShowAbout, IInv, Phases
<1>2. held' \in Keys \cup {Null}
  BY GetCharLemma DEF RtlCliShowAbout, IInv
<1>3. pc' = "menu" /\ caller' \in {"menu", "shell"} /\ UNCHANGED audioVars
  BY DEF RtlCliShowAbout, IInv, TypeOK
<1>4. UNCHANGED <<driverVars, video, chunk, historyVars>>
  BY DEF RtlCliShowAbout
<1>5. QED
  BY <1>1, <1>2, <1>3, <1>4, KeyboardStep

LEMMA ShellStep == IInv /\ RtlCliShellLoop => IInv'
<1> SUFFICES ASSUME IInv, RtlCliShellLoop PROVE IInv'
  OBVIOUS
<1>1. pc = "shell" /\ ~audioActive
  BY DEF RtlCliShellLoop, IInv, Phases
<1>2. held' \in Keys \cup {Null}
  BY GetCharLemma DEF RtlCliShellLoop, IInv
<1>3. /\ pc' \in {"menu", "shell", "open"} /\ caller' \in {"menu", "shell"}
      /\ UNCHANGED audioVars
  BY <1>1 DEF RtlCliShellLoop, Play, IInv, TypeOK
<1>4. UNCHANGED <<driverVars, video, chunk, historyVars>>
  BY DEF RtlCliShellLoop
<1>5. QED
  BY <1>1, <1>2, <1>3, <1>4, KeyboardStep

--------------------------------------------------------------------------------
LEMMA VideoOpenStep == IInv /\ VideoOpen => IInv'
<1> SUFFICES ASSUME IInv, VideoOpen PROVE IInv'
  OBVIOUS
<1>1. /\ pc = "open" /\ pc' \in {"init", caller} /\ audioActive' = FALSE /\ chunk' = NoChunk
      /\ UNCHANGED <<ext, handles, pnp, caller, hAudioDevice, bAudioAvailable, held,
                     leaked>>
      /\ interrupted' = FALSE
  BY DEF VideoOpen, driverVars
<1>2. ~ext.Playing /\ caller \in {"menu", "shell"}
  BY <1>1 DEF IInv, Phases, TypeOK
<1> DEFINE Rewound == video' \in VideoType /\ video'.cursor = 0 /\ video'.currentFrame = 0
<1>3. Rewound
  <2>1. video' = Closed \/ \E v \in Video, f \in {"file", "memory"} : video' = Opened(v, f)
    BY VideoAssumption DEF VideoOpen
  <2>2. CASE video' = Closed
    BY <2>2 DEF Closed, VideoType
  <2>3. ASSUME NEW v \in Video, NEW f \in {"file", "memory"}, video' = Opened(v, f)
        PROVE  Rewound
    BY <2>3 DEF Opened, Video, VideoType
  <2>4. QED
    BY <2>1, <2>2, <2>3
<1>4. TypeOK'
  BY <1>1, <1>2, <1>3 DEF IInv, TypeOK, Playing, NoChunk
<1>5. DriverPlaced' /\ Phases' /\ HandlesAccounted' /\ ActiveMeansPlaying'
  BY <1>1, <1>2 DEF IInv, DriverPlaced, Phases, HandlesAccounted, ActiveMeansPlaying
<1>6. ChunkWithinAudio' /\ FramesInOrder'
  BY <1>1, <1>3, AudioAssumption DEF ChunkWithinAudio, FramesInOrder, NoChunk, VideoType
<1>7. QED
  BY <1>4, <1>5, <1>6 DEF IInv

LEMMA InitOpensStep == IInv /\ AudioInitOpens => IInv'
<1> SUFFICES ASSUME IInv, AudioInitOpens PROVE IInv'
  OBVIOUS
<1>1. PICK h \in Handles : Driver!Ac97DispatchCreate(h) /\ hAudioDevice' = h
  BY DEF AudioInitOpens
<1>2. /\ handles' = handles \cup {h} /\ h \notin handles
      /\ DriverPlaced' /\ ext'.Playing = FALSE
  BY <1>1, CreateLemma DEF IInv
<1>3. /\ pc = "init" /\ pc' = "configure" /\ bAudioAvailable' = TRUE
      /\ leaked' = leaked \cup ({hAudioDevice} \ {Null})
      /\ UNCHANGED <<caller, video, audioActive, chunk, held, interrupted>>
  BY DEF AudioInitOpens, Forget
<1>4. ~audioActive /\ h # Null /\ leaked' = handles
  BY <1>3, HandleAssumption DEF IInv, Phases, HandlesAccounted
<1>5. TypeOK'
  <2>1. bAudioAvailable' <=> hAudioDevice' # Null
    BY <1>1, <1>3, <1>4
  <2>2. leaked' \subseteq Handles
    BY <1>4 DEF IInv, DriverPlaced
  <2>3. QED
    BY <1>1, <1>3, <1>4, <2>1, <2>2 DEF IInv, TypeOK, Playing
<1>6. Phases' /\ HandlesAccounted' /\ ActiveMeansPlaying'
  BY <1>1, <1>2, <1>3, <1>4 DEF Phases, HandlesAccounted, ActiveMeansPlaying
<1>7. ChunkWithinAudio' /\ FramesInOrder'
  BY <1>3 DEF IInv, ChunkWithinAudio, FramesInOrder
<1>8. QED
  BY <1>2, <1>5, <1>6, <1>7 DEF IInv

LEMMA InitSelfInstallsStep == IInv /\ AudioInitSelfInstalls => IInv'
<1> SUFFICES ASSUME IInv, AudioInitSelfInstalls PROVE IInv'
  OBVIOUS
<1>1. /\ pc = "init" /\ pc' \in {"configure", "loop"} /\ bAudioAvailable' = FALSE
      /\ hAudioDevice' = Null
      /\ leaked' = leaked \cup ({hAudioDevice} \ {Null})
      /\ UNCHANGED <<ext, handles, pnp, caller, video, audioActive, chunk, held, interrupted>>
  BY DEF AudioInitSelfInstalls, Forget, driverVars
<1>2. ~audioActive /\ leaked' = handles /\ ~ext.Playing
  BY <1>1 DEF IInv, Phases, HandlesAccounted
<1>3. Null \notin leaked' /\ leaked' \subseteq Handles
  BY <1>2, HandleAssumption DEF IInv, DriverPlaced
<1>4. TypeOK'
  BY <1>1, <1>2, <1>3 DEF IInv, TypeOK, Playing
<1>5. DriverPlaced' /\ Phases' /\ HandlesAccounted' /\ ActiveMeansPlaying'
  BY <1>1, <1>2, <1>3 DEF IInv, DriverPlaced, Phases, HandlesAccounted, ActiveMeansPlaying
<1>6. ChunkWithinAudio' /\ FramesInOrder'
  BY <1>1 DEF IInv, ChunkWithinAudio, FramesInOrder
<1>7. QED
  BY <1>4, <1>5, <1>6 DEF IInv

LEMMA ConfigureStep == IInv /\ AudioConfigure => IInv'
<1> SUFFICES ASSUME IInv, AudioConfigure PROVE IInv'
  OBVIOUS
<1>1. /\ pc = "configure" /\ pc' = "loop"
      /\ UNCHANGED <<caller, video, hAudioDevice, bAudioAvailable, chunk, held, leaked>>
  BY DEF AudioConfigure
<1>2. ~audioActive /\ ~ext.Playing
  BY <1>1 DEF IInv, Phases
<1>3. /\ handles' = handles /\ DriverPlaced' /\ audioActive' \in BOOLEAN
      /\ interrupted' \in BOOLEAN
      /\ audioActive' => /\ bAudioAvailable /\ ext'.Playing /\ ext'.Configured
                         /\ Driver!Format(ext') = AudioFormat
      /\ ext'.Playing => audioActive'
  <2>1. CASE /\ bAudioAvailable
             /\ Driver!ConfigureAndPlay(hAudioDevice, AudioFormat)
             /\ audioActive' = TRUE /\ interrupted' = FALSE
    <3>1. /\ handles' = handles /\ DriverPlaced'
          /\ ext'.Playing = TRUE /\ ext'.Configured = TRUE
          /\ Driver!Format(ext') = AudioFormat
      BY <2>1, ConfigureLemma DEF IInv
    <3>2. QED
      BY <2>1, <3>1
  <2>2. CASE /\ bAudioAvailable
             /\ Driver!ConfigureNoPool(hAudioDevice, AudioFormat)
             /\ UNCHANGED <<audioActive, interrupted>>
    <3>1. handles' = handles /\ DriverPlaced' /\ ext'.Playing = FALSE
      BY <2>2, NoPoolLemma DEF IInv
    <3>2. QED
      BY <1>2, <2>2, <3>1 DEF IInv, TypeOK
  <2>3. CASE ~bAudioAvailable /\ UNCHANGED <<driverVars, audioActive, interrupted>>
    BY <1>2, <2>3 DEF driverVars, IInv, TypeOK, DriverPlaced
  <2>4. QED
    BY <2>1, <2>2, <2>3 DEF AudioConfigure
<1>4. TypeOK'
  BY <1>1, <1>3 DEF IInv, TypeOK, Playing
<1>5. Phases' /\ HandlesAccounted' /\ ActiveMeansPlaying'
  BY <1>1, <1>3 DEF IInv, Phases, HandlesAccounted, ActiveMeansPlaying
<1>6. ChunkWithinAudio' /\ FramesInOrder'
  BY <1>1 DEF IInv, ChunkWithinAudio, FramesInOrder
<1>7. QED
  BY <1>3, <1>4, <1>5, <1>6 DEF IInv

--------------------------------------------------------------------------------
\* A step of the frame loop that leaves the device alone.
LEMMA LoopStep ==
  ASSUME IInv, pc = "loop",
         \/ pc' = "loop"
         \/ pc' \in {"write", "stop"} /\ audioActive
         \/ pc' = "videoclose" /\ ~audioActive,
         UNCHANGED <<driverVars, caller, audioVars, held, historyVars>>
  PROVE  DriverPlaced' /\ Phases' /\ HandlesAccounted' /\ ActiveMeansPlaying'
<1>1. UNCHANGED <<ext, handles, pnp, hAudioDevice, bAudioAvailable, audioActive,
                  leaked, interrupted>>
  BY DEF driverVars, audioVars, historyVars
<1>2. QED
  BY <1>1 DEF IInv, DriverPlaced, Phases, HandlesAccounted, ActiveMeansPlaying

LEMMA NextFrameStep == IInv /\ NextFrame => IInv'
<1> SUFFICES ASSUME IInv, NextFrame PROVE IInv'
  OBVIOUS
<1>1. /\ pc = "loop" /\ pc' = IF audioActive THEN "write" ELSE "loop"
      /\ UNCHANGED <<driverVars, caller, audioVars, held, historyVars>>
      /\ chunk' = NoChunk
  BY DEF NextFrame, historyVars
<1>2. /\ video \in VideoType /\ video.currentFrame < video.frameCount
      /\ video.cursor + video.frameSize <= video.size
      /\ video' = [video EXCEPT !.cursor = @ + video.frameSize, !.currentFrame = @ + 1]
  BY DEF NextFrame, Enough, IInv, TypeOK
<1>3. /\ video' \in VideoType
      /\ video'.cursor = video.cursor + video.frameSize
      /\ video'.currentFrame = video.currentFrame + 1
      /\ video'.frameSize = video.frameSize /\ video'.size = video.size
      /\ video'.frameCount = video.frameCount
  <2>1. video.cursor + video.frameSize \in Nat /\ video.currentFrame + 1 \in Nat
    BY <1>2 DEF VideoType
  <2>2. video' \in VideoType
    BY <1>2, <2>1 DEF VideoType
  <2>3. QED
    BY <1>2, <2>2 DEF VideoType
<1>4. FramesInOrder'
  <2>1. \A m, n \in Nat : m * n + n = (m + 1) * n
    OBVIOUS
  <2>2. video'.cursor = video'.currentFrame * video'.frameSize
    BY <1>2, <1>3, <2>1 DEF VideoType, IInv, FramesInOrder
  <2>3. QED
    BY <1>2, <1>3, <2>2 DEF VideoType, FramesInOrder
<1>5. ChunkWithinAudio' /\ chunk' \in [offset : Nat, size : Nat]
  BY <1>1, AudioAssumption DEF ChunkWithinAudio, NoChunk
<1>6. TypeOK'
  BY <1>1, <1>3, <1>5 DEF IInv, TypeOK, Playing, audioVars, historyVars
<1>7. QED
  BY <1>1, <1>4, <1>5, <1>6, LoopStep DEF IInv

LEMMA EndOfVideoStep == IInv /\ EndOfVideo => IInv'
<1> SUFFICES ASSUME IInv, EndOfVideo PROVE IInv'
  OBVIOUS
<1>1. /\ pc = "loop" /\ pc' = IF audioActive THEN "stop" ELSE "videoclose"
      /\ UNCHANGED <<driverVars, caller, video, chunk, audioVars, held, historyVars>>
  BY DEF EndOfVideo
<1>2. pc' = "videoclose" => ~bAudioAvailable \/ ~audioActive
  BY <1>1
<1>3. TypeOK'
  BY <1>1 DEF IInv, TypeOK, Playing, audioVars, historyVars
<1>4. FramesInOrder' /\ ChunkWithinAudio'
  BY <1>1 DEF IInv, FramesInOrder, ChunkWithinAudio
<1>5. QED
  BY <1>1, <1>3, <1>4, LoopStep DEF IInv

LEMMA AudioWriteStep == IInv /\ AudioWrite => IInv'
<1> SUFFICES ASSUME IInv, AudioWrite PROVE IInv'
  OBVIOUS
<1> DEFINE offset == (video.currentFrame * FrameBytes) % Wrap
<1>1. /\ pc = "write" /\ pc' = "loop"
      /\ UNCHANGED <<caller, video, audioVars, held, historyVars>>
      /\ UNCHANGED <<ext, handles, pnp>>
      /\ \/ chunk' = chunk
         \/ offset < AudioSize /\ chunk' = [offset |-> offset, size |-> ChunkSize(offset)]
  BY DEF AudioWrite, Driver!Ac97HandleWrite, driverVars
<1>2. offset \in Nat
  <2>1. video.currentFrame \in Nat /\ FrameBytes \in Nat /\ Wrap \in Nat \ {0}
    BY AudioAssumption DEF IInv, TypeOK, VideoType
  <2>2. \A a, b \in Nat : a * b \in Nat
    OBVIOUS
  <2>3. \A a \in Nat, b \in Nat \ {0} : a % b \in Nat
    OBVIOUS
  <2>4. video.currentFrame * FrameBytes \in Nat
    BY <2>1, <2>2
  <2>5. QED
    BY <2>1, <2>3, <2>4
<1> HIDE DEF offset
<1>3. chunk' \in [offset : Nat, size : Nat] /\ ChunkWithinAudio'
  <2>1. CASE chunk' = chunk
    BY <2>1 DEF IInv, TypeOK, ChunkWithinAudio
  <2>2. CASE offset < AudioSize /\ chunk' = [offset |-> offset, size |-> ChunkSize(offset)]
    <3>1. ChunkSize(offset) \in Nat /\ offset + ChunkSize(offset) <= AudioSize
      BY <1>2, <2>2, AudioAssumption DEF ChunkSize
    <3>2. QED
      BY <1>2, <2>2, <3>1 DEF ChunkWithinAudio
  <2>3. QED
    BY <1>1, <2>1, <2>2
<1>4. TypeOK'
  BY <1>1, <1>3 DEF IInv, TypeOK, Playing, audioVars, historyVars
<1>5. DriverPlaced' /\ FramesInOrder'
  BY <1>1 DEF IInv, DriverPlaced, FramesInOrder
<1>6. Phases' /\ HandlesAccounted' /\ ActiveMeansPlaying'
  BY <1>1 DEF IInv, Phases, HandlesAccounted, ActiveMeansPlaying, audioVars, historyVars
<1>7. QED
  BY <1>3, <1>4, <1>5, <1>6 DEF IInv
--------------------------------------------------------------------------------
LEMMA StopStep == IInv /\ AudioStop => IInv'
<1> SUFFICES ASSUME IInv, AudioStop PROVE IInv'
  OBVIOUS
<1>1. /\ \/ pc = "stop" /\ pc' = "deinit"
         \/ pc = "deinit" /\ pc' = "close"
      /\ UNCHANGED <<caller, video, audioVars, chunk, held, historyVars>>
  BY DEF AudioStop
<1>2. handles' = handles /\ DriverPlaced' /\ ext'.Playing = FALSE
  BY StopLemma DEF AudioStop, IInv
<1>3. TypeOK'
  BY <1>1 DEF IInv, TypeOK, Playing, audioVars, historyVars
<1>4. FramesInOrder' /\ ChunkWithinAudio'
  BY <1>1 DEF IInv, FramesInOrder, ChunkWithinAudio
<1>5. Phases' /\ HandlesAccounted' /\ ActiveMeansPlaying'
  BY <1>1, <1>2 DEF IInv, Phases, HandlesAccounted, ActiveMeansPlaying, audioVars,
                    historyVars
<1>6. QED
  BY <1>2, <1>3, <1>4, <1>5 DEF IInv

LEMMA DeinitStep == IInv /\ AudioDeinit => IInv'
<1> SUFFICES ASSUME IInv, AudioDeinit PROVE IInv'
  OBVIOUS
<1>1. /\ pc = "close" /\ pc' = "videoclose"
      /\ hAudioDevice' = Null /\ bAudioAvailable' = FALSE
      /\ UNCHANGED <<caller, video, audioActive, chunk, held, leaked, interrupted>>
  BY DEF AudioDeinit, historyVars
<1>2. /\ handles' = handles \ {hAudioDevice} /\ hAudioDevice \in handles
      /\ DriverPlaced' /\ ext'.Playing = FALSE
  BY CloseLemma DEF AudioDeinit, IInv
<1>3. TypeOK'
  BY <1>1 DEF IInv, TypeOK, Playing
<1>4. FramesInOrder' /\ ChunkWithinAudio'
  BY <1>1 DEF IInv, FramesInOrder, ChunkWithinAudio
<1>5. HandlesAccounted'
  <2>1. leaked \subseteq Handles /\ hAudioDevice \notin leaked
        /\ handles = leaked \cup ({hAudioDevice} \ {Null})
    BY <1>1 DEF IInv, TypeOK, HandlesAccounted
  <2>2. Null \notin leaked
    BY <2>1, HandleAssumption
  <2>3. handles' = leaked
    BY <1>2, <2>1
  <2>4. QED
    BY <1>1, <2>2, <2>3 DEF HandlesAccounted
<1>6. Phases' /\ ActiveMeansPlaying'
  BY <1>1, <1>2 DEF Phases, ActiveMeansPlaying
<1>7. QED
  BY <1>2, <1>3, <1>4, <1>5, <1>6 DEF IInv

LEMMA VideoCloseStep == IInv /\ VideoClose => IInv'
<1> SUFFICES ASSUME IInv, VideoClose PROVE IInv'
  OBVIOUS
<1>1. /\ pc = "videoclose" /\ pc' = caller /\ caller' = caller
      /\ video' = Closed /\ chunk' = NoChunk /\ audioActive' = FALSE
      /\ UNCHANGED <<ext, handles, pnp, hAudioDevice, bAudioAvailable, held, historyVars>>
  BY DEF VideoClose, driverVars
<1>2. ~ext.Playing /\ caller \in {"menu", "shell"}
  BY <1>1 DEF IInv, Phases, TypeOK
<1>3. video' \in VideoType /\ FramesInOrder'
  BY <1>1 DEF Closed, VideoType, FramesInOrder
<1>4. chunk' \in [offset : Nat, size : Nat] /\ ChunkWithinAudio'
  BY <1>1, AudioAssumption DEF NoChunk, ChunkWithinAudio
<1>5. TypeOK'
  BY <1>1, <1>2, <1>3, <1>4 DEF IInv, TypeOK, historyVars
<1>6. DriverPlaced' /\ Phases' /\ HandlesAccounted' /\ ActiveMeansPlaying'
  BY <1>1, <1>2 DEF IInv, DriverPlaced, Phases, HandlesAccounted, ActiveMeansPlaying,
                    historyVars
<1>7. QED
  BY <1>3, <1>4, <1>5, <1>6 DEF IInv
--------------------------------------------------------------------------------
LEMMA RundownStep == IInv /\ ProcessRundown => IInv'
<1> SUFFICES ASSUME IInv, ProcessRundown PROVE IInv'
  OBVIOUS
<1>1. PICK h \in handles : Driver!Ac97DispatchClose(h)
  BY DEF ProcessRundown
<1>2. handles' = handles \ {h} /\ DriverPlaced' /\ ext'.Playing = FALSE
  BY <1>1, CloseLemma DEF IInv
<1>3. /\ pc = "exited" /\ pc' = pc /\ leaked' = leaked \cap handles'
      /\ UNCHANGED <<caller, video, audioVars, chunk, held, interrupted>>
  BY DEF ProcessRundown
<1>4. hAudioDevice = Null /\ ~audioActive
  BY <1>3 DEF IInv, Phases
<1>5. TypeOK'
  BY <1>3 DEF IInv, TypeOK, audioVars
<1>6. FramesInOrder' /\ ChunkWithinAudio'
  BY <1>3 DEF IInv, FramesInOrder, ChunkWithinAudio
<1>7. Phases' /\ HandlesAccounted' /\ ActiveMeansPlaying'
  BY <1>2, <1>3, <1>4 DEF IInv, Phases, HandlesAccounted, ActiveMeansPlaying, audioVars
<1>8. QED
  BY <1>2, <1>5, <1>6, <1>7 DEF IInv

LEMMA PnpStep == IInv /\ Pnp => IInv'
<1> SUFFICES ASSUME IInv, Pnp PROVE IInv'
  OBVIOUS
<1>1. /\ handles' = handles /\ DriverPlaced'
      /\ ext'.Playing => ext.Playing
      /\ handles # {} => Same(ext') \/ (pnp = "started" /\ pnp' = "stopped")
  BY PnpLemma DEF IInv
<1>2. /\ (interrupted' <=> interrupted \/ (pnp = "started" /\ pnp' = "stopped"))
      /\ interrupted' \in BOOLEAN
      /\ UNCHANGED <<pc, caller, video, audioVars, chunk, held, leaked>>
  BY DEF Pnp, IInv, TypeOK
<1>3. TypeOK'
  BY <1>2 DEF IInv, TypeOK, audioVars
<1>4. FramesInOrder' /\ ChunkWithinAudio'
  BY <1>2 DEF IInv, FramesInOrder, ChunkWithinAudio
<1>5. Phases' /\ HandlesAccounted'
  BY <1>1, <1>2 DEF IInv, Phases, HandlesAccounted, audioVars
<1>6. ActiveMeansPlaying'
  <2> SUFFICES ASSUME audioActive', pc' \in {"loop", "write", "stop"}, ~interrupted'
               PROVE  /\ ext'.Configured /\ ext'.Playing
                      /\ Driver!Format(ext') = AudioFormat
    BY DEF ActiveMeansPlaying
  <2>1. audioActive /\ pc \in {"loop", "write", "stop"} /\ ~interrupted
    BY <1>2 DEF audioVars
  <2>2. /\ ext.Configured /\ ext.Playing /\ Driver!Format(ext) = AudioFormat
    BY <2>1 DEF IInv, ActiveMeansPlaying
  <2>3. handles # {}
    BY <2>1 DEF IInv, TypeOK, HandlesAccounted
  <2>4. Same(ext')
    BY <1>1, <1>2, <2>3
  <2>5. QED
    BY <2>2, <2>4 DEF Same
<1>7. QED
  BY <1>1, <1>3, <1>4, <1>5, <1>6 DEF IInv

LEMMA StutterStep == IInv /\ UNCHANGED vars => IInv'
<1> SUFFICES ASSUME IInv, UNCHANGED vars PROVE IInv'
  OBVIOUS
<1>1. UNCHANGED <<ext, handles, pnp, pc, caller, video, hAudioDevice, bAudioAvailable,
                  audioActive, chunk, held, leaked, interrupted>>
  BY DEF vars, driverVars, audioVars, historyVars
<1>2. TypeOK'
  BY <1>1 DEF IInv, TypeOK
<1>3. QED
  BY <1>1, <1>2 DEF IInv, DriverPlaced, Phases, HandlesAccounted, ActiveMeansPlaying,
                    ChunkWithinAudio, FramesInOrder

LEMMA StepIInv == IInv /\ [Next]_vars => IInv'
<1>1. IInv /\ Playback => IInv'
  BY VideoOpenStep, InitOpensStep, InitSelfInstallsStep, ConfigureStep, NextFrameStep,
     EndOfVideoStep, AudioWriteStep, StopStep, DeinitStep, VideoCloseStep DEF Playback
<1>2. QED
  BY <1>1, MenuStep, AboutStep, ShellStep, RundownStep, PnpStep, StutterStep DEF Next

(***************************************************************************)
(* The inductive invariant holds in every reachable state.                 *)
(***************************************************************************)
THEOREM Invariance == Spec => []IInv
<1>1. Init => IInv
  BY InitIInv
<1>2. IInv /\ [Next]_vars => IInv'
  BY StepIInv
<1>3. QED
  BY <1>1, <1>2, PTL DEF Spec

(***************************************************************************)
(* The player's globals have their types, and audio is active only on a    *)
(* device that is open, whatever AudioInit's missing return gives.         *)
(***************************************************************************)
THEOREM TypeCorrect == Spec => []TypeOK
<1>1. IInv => TypeOK
  BY DEF IInv
<1>2. QED
  BY <1>1, Invariance, PTL

(***************************************************************************)
(* Every open handle is the player's or one AudioInit lost, and the        *)
(* player's handle is never a closed one.                                  *)
(***************************************************************************)
THEOREM HandlesSafe == Spec => []HandlesAccounted
<1>1. IInv => HandlesAccounted
  BY DEF IInv
<1>2. QED
  BY <1>1, Invariance, PTL

(***************************************************************************)
(* While the player writes chunks the driver plays the player's stream,    *)
(* until the PnP manager stops the device.                                 *)
(***************************************************************************)
THEOREM ActivePlays == Spec => []ActiveMeansPlaying
<1>1. IInv => ActiveMeansPlaying
  BY DEF IInv
<1>2. QED
  BY <1>1, Invariance, PTL

(***************************************************************************)
(* Outside a playback the driver plays nothing, however it ended.          *)
(***************************************************************************)
THEOREM Silent == Spec => []SilentAfterPlayback
<1>1. IInv => SilentAfterPlayback
  BY DEF IInv, Phases, SilentAfterPlayback
<1>2. QED
  BY <1>1, Invariance, PTL

(***************************************************************************)
(* No chunk reads outside the embedded audio, for any length of audio and  *)
(* wherever the offset wraps.                                              *)
(***************************************************************************)
THEOREM ChunkSafe == Spec => []ChunkWithinAudio
<1>1. IInv => ChunkWithinAudio
  BY DEF IInv
<1>2. QED
  BY <1>1, Invariance, PTL

(***************************************************************************)
(* The cursor is currentFrame frames into the video and within it, for any *)
(* header.                                                                 *)
(***************************************************************************)
THEOREM FramesSafe == Spec => []FramesInOrder
<1>1. IInv => FramesInOrder
  BY DEF IInv
<1>2. QED
  BY <1>1, Invariance, PTL
===============================================================================
