------------------------------ MODULE Ac97Driver ------------------------------
(***************************************************************************)
(* BadAppleAudio.sys (ac97drv.c): the device extension, the codec it       *)
(* drives through two I/O ports, the pool block it keeps and the IRPs the  *)
(* I/O manager and the PnP manager send it.  Every dispatch routine is one *)
(* action that runs to its IoCompleteRequest; the routines of two threads  *)
(* do not overlap here.                                                    *)
(*                                                                         *)
(* External: the codec (what a register write does to it), the pool        *)
(* allocator, the I/O manager (handles are opened only on a device that    *)
(* was started) and the PnP manager (order of its minor functions, REMOVE  *)
(* only when no handle is open).                                           *)
(***************************************************************************)
EXTENDS Naturals

CONSTANTS Handles,   \* file objects a client may open on \Device\BadAppleAudio
          Requests,  \* the BAPA_CONFIGURE structures clients send
          Sizes,     \* input buffer lengths of BAPA_IOCTL_WRITE
          Blocks,    \* pool blocks ExAllocatePoolWithTag can return
          Null       \* the NULL pointer

ASSUME RequestsAssumption ==
         Requests \subseteq [SampleRate : Nat, Channels : Nat, BitsPerSample : Nat]
ASSUME SizesAssumption == Sizes \subseteq Nat
ASSUME BlocksAssumption == Null \notin Blocks

VARIABLES loaded,   \* DriverEntry has run and Ac97Unload has not
          link,     \* the symbolic link exists
          pnp,      \* the PnP manager's view of the device
          ext,      \* DEVICE_EXTENSION
          handles,  \* the open handles
          codec,    \* the codec behind the default I/O base
          pool,     \* blocks allocated with TAG_BAPA
          last      \* the last request, its status, and the words it fed

vars == <<loaded, link, pnp, ext, handles, codec, pool, last>>
-------------------------------------------------------------------------------
DefaultIoBase == 24576                         \* AC97_DEFAULT_IO_BASE, 0x6000

\* Mutant of ZeroedExt: the extension is not zeroed.
ZeroedExt_Garbage ==
  [IoBase |-> 48879, Playing |-> FALSE, Configured |-> FALSE, DeviceStarted |-> FALSE,
   SampleRate |-> 0, Channels |-> 0, BitsPerSample |-> 0, WriteBuffer |-> Null,
   WriteBufferSize |-> 0]

\* RtlZeroMemory(ext): the extension of a device that was just added.
ZeroedExt == [IoBase |-> 0, Playing |-> FALSE, Configured |-> FALSE,
              DeviceStarted |-> FALSE, SampleRate |-> 0, Channels |-> 0,
              BitsPerSample |-> 0, WriteBuffer |-> Null, WriteBufferSize |-> 0]

\* The codec as power-on leaves it.  ready is FALSE after a reset that did
\* not come back within the driver's poll.
PoweredOnCodec(p) == [present |-> p, ready |-> TRUE, dac |-> "on",
                      vra |-> FALSE, rate |-> 48000]

Word(n) == n % 65536                                            \* (USHORT)n

\* What a write through the ports of e leaves of codec c: new, unless no
\* codec answers there; a codec that is not ready may take it or lose it.
Poke(e, c, new) ==
  CASE ~(c.present /\ e.IoBase = DefaultIoBase) -> {c}
    [] c.present /\ e.IoBase = DefaultIoBase /\ c.ready -> {new}
    [] OTHER -> {c, new}

SetDacPower(e, c, power) == Poke(e, c, [c EXCEPT !.dac = power])

EnableVra(e, c) == Poke(e, c, [c EXCEPT !.vra = TRUE])

\* Without variable rate audio the DAC rate register may be read-only.
Ac97SetSampleRate(e, c, r) ==
  Poke(e, c, [c EXCEPT !.rate = Word(r)]) \cup (IF c.vra THEN {} ELSE {c})

\* The poll of the powerdown register gives up after 5000 reads and the
\* routine returns STATUS_SUCCESS all the same.
Ac97Reset(e, c) ==
  IF c.present /\ e.IoBase = DefaultIoBase
  THEN {PoweredOnCodec(TRUE), [PoweredOnCodec(TRUE) EXCEPT !.ready = FALSE]}
  ELSE {c}

Ac97StopPlayback(e, c) == SetDacPower(e, c, "off")

\* Mutant of Ac97StartPlayback: the rate is not written again after VRA is on.
Ac97StartPlayback_NoRate(e, c, d) ==
  \E c1 \in SetDacPower(e, c, "on") : d \in EnableVra(e, c1)

\* Powers the DAC up, enables VRA, and only then sets the rate: d is the
\* codec this leaves.
Ac97StartPlayback(e, c, d) ==
  \E c1 \in SetDacPower(e, c, "on") :
    \E c2 \in EnableVra(e, c1) : d \in Ac97SetSampleRate(e, c2, e.SampleRate)

\* The words Ac97FeedSamples sends to the left and to the right data port.
Ac97FeedSamples(e, size) ==
  LET n == IF e.BitsPerSample = 16 THEN size \div 2 ELSE size
  IN  [left |-> n, right |-> IF e.Channels = 1 THEN n ELSE 0]

Nothing == [left |-> 0, right |-> 0]

Complete(op, status, fed) == last' = [op |-> op, status |-> status, fed |-> fed]

ValidRequest(cfg) == /\ cfg.SampleRate >= 4000 /\ cfg.SampleRate <= 96000
                     /\ cfg.Channels >= 1 /\ cfg.Channels <= 2
                     /\ cfg.BitsPerSample \in {8, 16}

BufferSize(cfg) == cfg.SampleRate * cfg.Channels * (cfg.BitsPerSample \div 8)

\* Mutant of Freed: the old block is not freed.
Freed_Leaked(e) == pool

\* ExFreePoolWithTag(WriteBuffer) when there is one.
Freed(e) == pool \ {e.WriteBuffer}
-------------------------------------------------------------------------------
Init == /\ loaded = FALSE
        /\ link = FALSE
        /\ pnp = "none"
        /\ ext = ZeroedExt
        /\ handles = {}
        /\ \E p \in BOOLEAN : codec = PoweredOnCodec(p)
        /\ pool = {}
        /\ last = [op |-> "OTHER", status |-> "SUCCESS", fed |-> Nothing]

DriverEntry == /\ ~loaded
               /\ loaded' = TRUE
               /\ UNCHANGED <<link, pnp, ext, handles, codec, pool, last>>

\* The driver unloads once it has no device object left.
Ac97Unload == /\ loaded /\ pnp = "none"
              /\ loaded' = FALSE
              /\ link' = FALSE
              /\ UNCHANGED <<pnp, ext, handles, codec, pool, last>>

\* Fails when IoCreateDevice does, or when the link of a device removed
\* earlier still exists (only Ac97Unload deletes it).
Ac97AddDevice ==
  /\ loaded /\ pnp = "none"
  /\ \/ /\ ~link
        /\ link' = TRUE
        /\ pnp' = "added"
        /\ ext' = ZeroedExt
     \/ UNCHANGED <<link, pnp, ext>>
  /\ UNCHANGED <<loaded, handles, codec, pool, last>>

\* IRP_MN_START_DEVICE: probe the default base; no answer means base 0.
StartDevice ==
  /\ pnp \in {"added", "stopped"}
  /\ pnp' = "started"
  /\ ext' = [ext EXCEPT !.IoBase = IF codec.present THEN DefaultIoBase ELSE 0,
                        !.DeviceStarted = TRUE]
  /\ Complete("OTHER", "SUCCESS", Nothing)
  /\ UNCHANGED <<loaded, link, handles, codec, pool>>

StopDevice ==
  /\ pnp = "started"
  /\ pnp' = "stopped"
  /\ codec' \in Ac97StopPlayback(ext, codec)
  /\ ext' = [ext EXCEPT !.Playing = FALSE, !.DeviceStarted = FALSE]
  /\ Complete("PNP", "SUCCESS", Nothing)
  /\ UNCHANGED <<loaded, link, handles, pool>>

\* The extension goes with the device object; the symbolic link stays.
RemoveDevice ==
  /\ pnp # "none" /\ handles = {}
  /\ pnp' = "none"
  /\ codec' \in Ac97StopPlayback(ext, codec)
  /\ pool' = Freed(ext)
  /\ ext' = ZeroedExt
  /\ Complete("PNP", "SUCCESS", Nothing)
  /\ UNCHANGED <<loaded, link, handles>>

\* Other PnP minors and power IRPs succeed without doing anything, any other
\* major function is STATUS_NOT_SUPPORTED.
OtherIrp ==
  /\ pnp # "none"
  /\ \E status \in {"SUCCESS", "NOT_SUPPORTED"} : Complete("OTHER", status, Nothing)
  /\ UNCHANGED <<loaded, link, pnp, ext, handles, codec, pool>>
-------------------------------------------------------------------------------
\* IRP_MJ_CREATE of a second handle ends the stream of the first one too.
Ac97DispatchCreate(h) ==
  /\ pnp \in {"started", "stopped"} /\ h \notin handles
  /\ handles' = handles \cup {h}
  /\ ext' = [ext EXCEPT !.Playing = FALSE, !.Configured = FALSE]
  /\ Complete("CREATE", "SUCCESS", Nothing)
  /\ UNCHANGED <<loaded, link, pnp, codec, pool>>

Ac97DispatchClose(h) ==
  /\ h \in handles
  /\ handles' = handles \ {h}
  /\ codec' \in Ac97StopPlayback(ext, codec)
  /\ pool' = Freed(ext)
  /\ ext' = [ext EXCEPT !.Playing = FALSE, !.Configured = FALSE, !.WriteBuffer = Null]
  /\ Complete("CLOSE", "SUCCESS", Nothing)
  /\ UNCHANGED <<loaded, link, pnp>>

\* An IOCTL whose input buffer is too short, or whose code is not known.
RejectIoctl(h) ==
  /\ h \in handles
  /\ \/ \E op \in {"CONFIGURE", "WRITE"} : Complete(op, "BUFFER_TOO_SMALL", Nothing)
     \/ Complete("OTHER", "INVALID_DEVICE_REQUEST", Nothing)
  /\ UNCHANGED <<loaded, link, pnp, ext, handles, codec, pool>>

\* Mutant of ConfigureInvalid: the request is validated before the stop.
ConfigureInvalid_NoStop(h, cfg) ==
  /\ h \in handles /\ ~ValidRequest(cfg)
  /\ Complete("CONFIGURE", "INVALID_PARAMETER", Nothing)
  /\ UNCHANGED <<loaded, link, pnp, ext, handles, codec, pool>>

\* Ac97ConfigureAndPlay when the request is out of range: playback has been
\* stopped already.
ConfigureInvalid(h, cfg) ==
  /\ h \in handles /\ ~ValidRequest(cfg)
  /\ codec' \in Ac97StopPlayback(ext, codec)
  /\ ext' = [ext EXCEPT !.Playing = FALSE]
  /\ Complete("CONFIGURE", "INVALID_PARAMETER", Nothing)
  /\ UNCHANGED <<loaded, link, pnp, handles, pool>>

\* The extension once the request is accepted and the old block freed.
Reformatted(cfg) ==
  [ext EXCEPT !.Playing = FALSE,
              !.SampleRate = cfg.SampleRate,
              !.Channels = cfg.Channels,
              !.BitsPerSample = cfg.BitsPerSample]

\* No pool for the write buffer: Configured keeps its old value.
ConfigureNoPool(h, cfg) ==
  /\ h \in handles /\ ValidRequest(cfg)
  /\ \E c1 \in Ac97StopPlayback(ext, codec) :
       \E c2 \in Ac97Reset(ext, c1) : codec' \in Ac97SetSampleRate(ext, c2, cfg.SampleRate)
  /\ pool' = Freed(ext)
  /\ ext' = [Reformatted(cfg) EXCEPT !.WriteBuffer = Null, !.WriteBufferSize = 0]
  /\ Complete("CONFIGURE", "INSUFFICIENT_RESOURCES", Nothing)
  /\ UNCHANGED <<loaded, link, pnp, handles>>

ConfigureAndPlay(h, cfg) ==
  /\ h \in handles /\ ValidRequest(cfg)
  /\ \E b \in Blocks \ Freed(ext) :
       /\ pool' = Freed(ext) \cup {b}
       /\ ext' = [Reformatted(cfg) EXCEPT !.WriteBuffer = b,
                                          !.WriteBufferSize = BufferSize(cfg),
                                          !.Configured = TRUE,
                                          !.Playing = TRUE]
  /\ \E c1 \in Ac97StopPlayback(ext, codec) :
       \E c2 \in Ac97Reset(ext, c1) :
         \E c3 \in Ac97SetSampleRate(ext, c2, cfg.SampleRate) :
           Ac97StartPlayback(Reformatted(cfg), c3, codec')
  /\ Complete("CONFIGURE", "SUCCESS", Nothing)
  /\ UNCHANGED <<loaded, link, pnp, handles>>

Ac97HandleWrite(h, size) ==
  /\ h \in handles /\ size > 0
  /\ IF ext.Configured /\ ext.Playing
     THEN Complete("WRITE", "SUCCESS", Ac97FeedSamples(ext, size))
     ELSE Complete("WRITE", "INVALID_DEVICE_STATE", Nothing)
  /\ UNCHANGED <<loaded, link, pnp, ext, handles, codec, pool>>

StopIoctl(h) ==
  /\ h \in handles
  /\ codec' \in Ac97StopPlayback(ext, codec)
  /\ ext' = [ext EXCEPT !.Playing = FALSE]
  /\ Complete("STOP", "SUCCESS", Nothing)
  /\ UNCHANGED <<loaded, link, pnp, handles, pool>>

Ac97DispatchDeviceControl(h) ==
  \/ RejectIoctl(h)
  \/ \E cfg \in Requests : \/ ConfigureInvalid(h, cfg)
                           \/ ConfigureNoPool(h, cfg)
                           \/ ConfigureAndPlay(h, cfg)
  \/ \E size \in Sizes : Ac97HandleWrite(h, size)
  \/ StopIoctl(h)

Ac97DispatchPnp == StartDevice \/ StopDevice \/ RemoveDevice

Next == \/ DriverEntry \/ Ac97Unload \/ Ac97AddDevice
        \/ Ac97DispatchPnp \/ OtherIrp
        \/ \E h \in Handles : \/ Ac97DispatchCreate(h)
                              \/ Ac97DispatchClose(h)
                              \/ Ac97DispatchDeviceControl(h)

Spec == Init /\ [][Next]_vars
-------------------------------------------------------------------------------
Statuses == {"SUCCESS", "NOT_SUPPORTED", "BUFFER_TOO_SMALL", "INVALID_PARAMETER",
             "INVALID_DEVICE_STATE", "INVALID_DEVICE_REQUEST",
             "INSUFFICIENT_RESOURCES"}

Ops == {"OTHER", "PNP", "CREATE", "CLOSE", "CONFIGURE", "WRITE", "STOP"}

ExtType == [IoBase : {0, DefaultIoBase}, Playing : BOOLEAN, Configured : BOOLEAN,
            DeviceStarted : BOOLEAN, SampleRate : Nat, Channels : Nat,
            BitsPerSample : Nat, WriteBuffer : Blocks \cup {Null},
            WriteBufferSize : Nat]

CodecType == [present : BOOLEAN, ready : BOOLEAN, dac : {"on", "off"},
              vra : BOOLEAN, rate : Nat]

(***************************************************************************)
(* Every variable has its type: the fields of DEVICE_EXTENSION, the codec, *)
(* and the answer to the last IRP.                                         *)
(***************************************************************************)
TypeOK == /\ loaded \in BOOLEAN
          /\ link \in BOOLEAN
          /\ pnp \in {"none", "added", "started", "stopped"}
          /\ ext \in ExtType
          /\ handles \subseteq Handles
          /\ codec \in CodecType
          /\ pool \subseteq Blocks
          /\ last \in [op : Ops, status : Statuses, fed : [left : Nat, right : Nat]]

(***************************************************************************)
(* The pool block is owned by exactly one pointer: WriteBuffer is NULL or  *)
(* the one block allocated with TAG_BAPA.  So none of the four places that *)
(* free it frees a block twice, and no path of CONFIGURE, of the close of  *)
(* any handle or of the removal leaks one.                                 *)
(***************************************************************************)
BufferOwned == pool = {ext.WriteBuffer} \ {Null}

(***************************************************************************)
(* Whenever the driver takes samples (Playing), some CONFIGURE has been    *)
(* accepted and, on a codec that came out of its last reset in time, the   *)
(* DAC is powered, VRA is on and the rate register holds the low word of   *)
(* the configured rate, whatever other handles, PnP stops and failed       *)
(* CONFIGUREs came in between.                                             *)
(***************************************************************************)
PlayingIsAudible ==
  ext.Playing => /\ ext.Configured
                 /\ ext.WriteBuffer # Null
                 /\ codec.present /\ codec.ready =>
                      /\ codec.dac = "on"
                      /\ codec.vra
                      /\ codec.rate = Word(ext.SampleRate)

(***************************************************************************)
(* The driver implements the abstract sink: its stream is what it accepts  *)
(* samples for, and its answers are the statuses it completes IRPs with.   *)
(***************************************************************************)
Format(e) == [SampleRate |-> e.SampleRate, Channels |-> e.Channels,
              BitsPerSample |-> e.BitsPerSample]

Stream == IF ext.Configured /\ ext.Playing THEN {Format(ext)} ELSE {}

Result(status) == CASE status = "SUCCESS" -> "accepted"
                    [] status = "BUFFER_TOO_SMALL" -> "malformed"
                    [] OTHER -> "refused"

Answer == [op |-> last.op, result |-> Result(last.status)]

Accepted == {cfg \in Requests : ValidRequest(cfg)}

Sink == INSTANCE PcmSink WITH Formats <- Accepted, stream <- Stream, answer <- Answer

ImplementsSink == Sink!Spec
===============================================================================
