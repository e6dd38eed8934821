--------------------------- MODULE Ac97Driver_proofs ---------------------------
(***************************************************************************)
(* Proofs about Ac97Driver, for any handles, requests, sizes and blocks.   *)
(***************************************************************************)
EXTENDS Ac97Driver, TLAPS

(***************************************************************************)
(* Where the extension and the handles can be, given what the PnP manager  *)
(* has done: handles exist only on a started device, whose I/O base tells  *)
(* whether a codec answered.                                               *)
(***************************************************************************)
Placed == /\ pnp = "none" => ext = ZeroedExt
          /\ handles # {} => pnp \in {"started", "stopped"}
          /\ pnp \in {"started", "stopped"} /\ codec.present => ext.IoBase = DefaultIoBase

IInv == TypeOK /\ BufferOwned /\ PlayingIsAudible /\ Placed

\* A port write leaves the codec as it was or as asked, and as asked when a
\* ready codec is behind the port.
LEMMA PokeLemma ==
  ASSUME NEW e, NEW c, NEW new, NEW d \in Poke(e, c, new)
  PROVE  /\ d = c \/ d = new
         /\ c.present /\ c.ready /\ e.IoBase = DefaultIoBase => d = new
  BY DEF Poke

\* Powering the DAC down or up changes nothing else of the codec.
LEMMA DacPowerLemma ==
  ASSUME NEW e \in ExtType, NEW c \in CodecType, NEW power \in {"on", "off"},
         NEW d \in SetDacPower(e, c, power)
  PROVE  /\ d \in CodecType
         /\ d.present = c.present /\ d.ready = c.ready
         /\ d.vra = c.vra /\ d.rate = c.rate
         /\ c.present /\ c.ready /\ e.IoBase = DefaultIoBase => d.dac = power
<1> DEFINE new == [c EXCEPT !.dac = power]
<1>1. d = c \/ d = new
  BY PokeLemma DEF SetDacPower
<1>2. c.present /\ c.ready /\ e.IoBase = DefaultIoBase => d = new
  BY PokeLemma DEF SetDacPower
<1>3. QED
  BY <1>1, <1>2 DEF CodecType

LEMMA VraLemma ==
  ASSUME NEW e \in ExtType, NEW c \in CodecType, NEW d \in EnableVra(e, c)
  PROVE  /\ d \in CodecType
         /\ d.present = c.present /\ d.ready = c.ready /\ d.dac = c.dac
         /\ c.present /\ c.ready /\ e.IoBase = DefaultIoBase => d.vra
<1> DEFINE new == [c EXCEPT !.vra = TRUE]
<1>1. d = c \/ d = new
  BY PokeLemma DEF EnableVra
<1>2. c.present /\ c.ready /\ e.IoBase = DefaultIoBase => d = new
  BY PokeLemma DEF EnableVra
<1>3. QED
  BY <1>1, <1>2 DEF CodecType

LEMMA RateLemma ==
  ASSUME NEW e \in ExtType, NEW c \in CodecType, NEW r \in Nat,
         NEW d \in Ac97SetSampleRate(e, c, r)
  PROVE  /\ d \in CodecType
         /\ d.present = c.present /\ d.ready = c.ready /\ d.dac = c.dac
         /\ d.vra = c.vra
         /\ c.present /\ c.ready /\ c.vra /\ e.IoBase = DefaultIoBase => d.rate = Word(r)
<1> DEFINE new == [c EXCEPT !.rate = Word(r)]
<1>0. Word(r) \in Nat
  BY DEF Word
<1>1. d = c \/ d \in Poke(e, c, new)
  BY DEF Ac97SetSampleRate
<1>2. c.vra => d \in Poke(e, c, new)
  BY DEF Ac97SetSampleRate
<1>3. d = c \/ d = new
  BY <1>1, PokeLemma
<1>4. c.present /\ c.ready /\ c.vra /\ e.IoBase = DefaultIoBase => d = new
  BY <1>2, PokeLemma
<1>5. QED
  BY <1>0, <1>3, <1>4 DEF CodecType

LEMMA PoweredOnLemma ==
  ASSUME NEW p \in BOOLEAN
  PROVE  PoweredOnCodec(p) \in CodecType /\ PoweredOnCodec(p).present = p
  BY DEF PoweredOnCodec, CodecType

\* A reset never makes a codec appear or vanish.
LEMMA ResetLemma ==
  ASSUME NEW e \in ExtType, NEW c \in CodecType, NEW d \in Ac97Reset(e, c)
  PROVE  d \in CodecType /\ d.present = c.present
<1> DEFINE on == PoweredOnCodec(TRUE)
<1>1. on \in CodecType /\ on.present = TRUE
  BY PoweredOnLemma
<1> HIDE DEF on
<1>2. /\ [on EXCEPT !.ready = FALSE] \in CodecType
      /\ [on EXCEPT !.ready = FALSE].present = TRUE
  BY <1>1 DEF CodecType
<1>3. CASE c.present /\ e.IoBase = DefaultIoBase
  <2>1. c.present = TRUE
    BY <1>3 DEF CodecType
  <2>2. d \in {on, [on EXCEPT !.ready = FALSE]}
    BY <1>3 DEF Ac97Reset, on
  <2>3. QED
    BY <1>1, <1>2, <2>1, <2>2
<1>4. CASE ~(c.present /\ e.IoBase = DefaultIoBase)
  BY <1>4 DEF Ac97Reset
<1>5. QED
  BY <1>3, <1>4

\* After Ac97StartPlayback a ready codec is powered, at variable rate, and
\* its rate register was written after VRA was enabled.
LEMMA StartLemma ==
  ASSUME NEW e \in ExtType, NEW c \in CodecType, NEW d,
         Ac97StartPlayback(e, c, d)
  PROVE  /\ d \in CodecType
         /\ d.present = c.present /\ d.ready = c.ready
         /\ c.present /\ c.ready /\ e.IoBase = DefaultIoBase =>
              d.dac = "on" /\ d.vra /\ d.rate = Word(e.SampleRate)
<1>1. PICK c1 \in SetDacPower(e, c, "on") :
        \E c2 \in EnableVra(e, c1) : d \in Ac97SetSampleRate(e, c2, e.SampleRate)
  BY DEF Ac97StartPlayback
<1>2. PICK c2 \in EnableVra(e, c1) : d \in Ac97SetSampleRate(e, c2, e.SampleRate)
  BY <1>1
<1>3. /\ c1 \in CodecType /\ c1.present = c.present /\ c1.ready = c.ready
      /\ c.present /\ c.ready /\ e.IoBase = DefaultIoBase => c1.dac = "on"
  BY <1>1, DacPowerLemma
<1>4. /\ c2 \in CodecType /\ c2.present = c1.present /\ c2.ready = c1.ready
      /\ c2.dac = c1.dac
      /\ c1.present /\ c1.ready /\ e.IoBase = DefaultIoBase => c2.vra
  BY <1>2, <1>3, VraLemma
<1>5. e.SampleRate \in Nat
  BY DEF ExtType
<1>6. QED
  BY <1>2, <1>3, <1>4, <1>5, RateLemma

\* What a stop leaves of the codec.
LEMMA StopLemma ==
  ASSUME NEW e \in ExtType, NEW c \in CodecType, NEW d \in Ac97StopPlayback(e, c)
  PROVE  d \in CodecType /\ d.present = c.present
  BY DacPowerLemma DEF Ac97StopPlayback


LEMMA StopTyped ==
  ASSUME TypeOK, NEW d \in Ac97StopPlayback(ext, codec)
  PROVE  d \in CodecType /\ d.present = codec.present
  BY StopLemma DEF TypeOK

\* The codec after the stop, the reset and the first write of the rate.
LEMMA ReratedLemma ==
  ASSUME TypeOK, NEW cfg \in Requests,
         NEW c1 \in Ac97StopPlayback(ext, codec), NEW c2 \in Ac97Reset(ext, c1),
         NEW d \in Ac97SetSampleRate(ext, c2, cfg.SampleRate)
  PROVE  d \in CodecType /\ d.present = codec.present
<1>1. ext \in ExtType /\ codec \in CodecType
  BY DEF TypeOK
<1>2. c1 \in CodecType /\ c1.present = codec.present
  BY <1>1, StopLemma
<1>3. c2 \in CodecType /\ c2.present = c1.present
  BY <1>1, <1>2, ResetLemma
<1>4. cfg.SampleRate \in Nat
  BY RequestsAssumption
<1>5. QED
  BY <1>1, <1>2, <1>3, <1>4, RateLemma

\* The extension CONFIGURE builds from an accepted request.
LEMMA ReformattedLemma ==
  ASSUME TypeOK, NEW cfg \in Requests
  PROVE  /\ Reformatted(cfg) \in ExtType
         /\ Reformatted(cfg).IoBase = ext.IoBase
         /\ Reformatted(cfg).SampleRate = cfg.SampleRate
  BY RequestsAssumption DEF Reformatted, TypeOK, ExtType

LEMMA BufferSizeLemma ==
  ASSUME NEW cfg \in Requests, ValidRequest(cfg)
  PROVE  BufferSize(cfg) \in Nat
<1>1. cfg.SampleRate \in Nat /\ cfg.Channels \in Nat
  BY RequestsAssumption
<1>2. cfg.BitsPerSample \div 8 \in Nat
  <2>1. 8 \div 8 = 1 /\ 16 \div 8 = 2
    OBVIOUS
  <2>2. cfg.BitsPerSample = 8 \/ cfg.BitsPerSample = 16
    BY DEF ValidRequest
  <2>3. QED
    BY <2>1, <2>2
<1>3. \A i, j, k \in Nat : i * j * k \in Nat
  OBVIOUS
<1>4. QED
  BY <1>1, <1>2, <1>3 DEF BufferSize

LEMMA FeedLemma ==
  ASSUME NEW e \in ExtType, NEW size \in Sizes
  PROVE  Ac97FeedSamples(e, size) \in [left : Nat, right : Nat]
  BY SizesAssumption DEF Ac97FeedSamples, ExtType

LEMMA InitIInv == Init => IInv
<1> SUFFICES ASSUME Init PROVE IInv
  OBVIOUS
<1>1. ext \in ExtType /\ ext.WriteBuffer = Null /\ ext.Playing = FALSE
  BY DEF Init, ZeroedExt, ExtType
<1>2. codec \in CodecType
  BY PoweredOnLemma DEF Init
<1>3. last \in [op : Ops, status : Statuses, fed : [left : Nat, right : Nat]]
  BY DEF Init, Nothing, Ops, Statuses
<1>4. TypeOK
  BY <1>1, <1>2, <1>3 DEF Init, TypeOK
<1>5. BufferOwned /\ PlayingIsAudible /\ Placed
  BY <1>1 DEF Init, BufferOwned, PlayingIsAudible, Placed
<1>6. QED
  BY <1>4, <1>5 DEF IInv

\* A request that leaves the stream alone, or that ends it on the way:
\* Playing is FALSE afterwards and the block is the one before or none.
LEMMA QuietStep ==
  ASSUME IInv, ext' \in ExtType, codec' \in CodecType, codec'.present = codec.present,
         ext'.Playing = FALSE, BufferOwned', pool' \subseteq Blocks,
         loaded' \in BOOLEAN, link' \in BOOLEAN,
         pnp' \in {"none", "added", "started", "stopped"}, handles' \subseteq Handles,
         last' \in [op : Ops, status : Statuses, fed : [left : Nat, right : Nat]],
         Placed'
  PROVE  IInv'
  BY DEF IInv, TypeOK, PlayingIsAudible

LEMMA CompleteLemma ==
  ASSUME NEW op \in Ops, NEW status \in Statuses,
         NEW fed \in [left : Nat, right : Nat], Complete(op, status, fed)
  PROVE  last' \in [op : Ops, status : Statuses, fed : [left : Nat, right : Nat]]
  BY DEF Complete

LEMMA NothingLemma == Nothing \in [left : Nat, right : Nat]
  BY DEF Nothing

\* The pool after the owned block was freed.
LEMMA FreedLemma == ASSUME TypeOK, BufferOwned PROVE Freed(ext) = {}
  BY DEF TypeOK, BufferOwned, Freed

LEMMA ZeroedLemma ==
  ZeroedExt \in ExtType /\ ZeroedExt.Playing = FALSE /\ ZeroedExt.WriteBuffer = Null
  BY DEF ZeroedExt, ExtType

\* Steps that change neither the device nor the codec.
LEMMA IdleStep ==
  ASSUME IInv, UNCHANGED <<pnp, ext, handles, codec, pool>>,
         loaded' \in BOOLEAN, link' \in BOOLEAN,
         last' \in [op : Ops, status : Statuses, fed : [left : Nat, right : Nat]]
  PROVE  IInv'
  BY DEF IInv, TypeOK, BufferOwned, PlayingIsAudible, Placed

LEMMA DriverEntryStep == IInv /\ DriverEntry => IInv'
  BY IdleStep DEF DriverEntry, IInv, TypeOK

LEMMA UnloadStep == IInv /\ Ac97Unload => IInv'
  BY IdleStep DEF Ac97Unload, IInv, TypeOK

LEMMA OtherIrpStep == IInv /\ OtherIrp => IInv'
<1> SUFFICES ASSUME IInv, OtherIrp PROVE IInv'
  OBVIOUS
<1>1. last' \in [op : Ops, status : Statuses, fed : [left : Nat, right : Nat]]
  BY CompleteLemma, NothingLemma DEF OtherIrp, Ops, Statuses
<1>2. QED
  BY <1>1, IdleStep DEF OtherIrp, IInv, TypeOK

LEMMA AddDeviceStep == IInv /\ Ac97AddDevice => IInv'
<1> SUFFICES ASSUME IInv, Ac97AddDevice PROVE IInv'
  OBVIOUS
<1>1. CASE UNCHANGED <<link, pnp, ext>>
  BY <1>1, IdleStep DEF Ac97AddDevice, IInv, TypeOK
<1>2. CASE /\ ~link /\ link' = TRUE /\ pnp' = "added" /\ ext' = ZeroedExt
  <2>1. ext = ZeroedExt
    BY DEF Ac97AddDevice, IInv, Placed
  <2>2. Placed'
    BY <1>2 DEF Ac97AddDevice, IInv, Placed
  <2>3. QED
    BY <1>2, <2>1, <2>2, QuietStep, ZeroedLemma DEF Ac97AddDevice, IInv, TypeOK, BufferOwned
<1>3. QED
  BY <1>1, <1>2 DEF Ac97AddDevice

LEMMA StartDeviceStep == IInv /\ StartDevice => IInv'
<1> SUFFICES ASSUME IInv, StartDevice PROVE IInv'
  OBVIOUS
<1>1. /\ ext' \in ExtType /\ ext'.Playing = ext.Playing
      /\ ext'.Configured = ext.Configured
      /\ ext'.WriteBuffer = ext.WriteBuffer /\ ext'.SampleRate = ext.SampleRate
      /\ codec.present => ext'.IoBase = DefaultIoBase
  BY DEF StartDevice, IInv, TypeOK, ExtType
<1>2. last' \in [op : Ops, status : Statuses, fed : [left : Nat, right : Nat]]
  BY CompleteLemma, NothingLemma DEF StartDevice, Ops, Statuses
<1>3. TypeOK' /\ BufferOwned'
  BY <1>1, <1>2 DEF StartDevice, IInv, TypeOK, BufferOwned
<1>4. PlayingIsAudible' /\ Placed'
  BY <1>1 DEF StartDevice, IInv, PlayingIsAudible, Placed
<1>5. QED
  BY <1>3, <1>4 DEF IInv

LEMMA StopDeviceStep == IInv /\ StopDevice => IInv'
<1> SUFFICES ASSUME IInv, StopDevice PROVE IInv'
  OBVIOUS
<1>1. /\ ext' \in ExtType /\ ext'.Playing = FALSE
      /\ ext'.WriteBuffer = ext.WriteBuffer /\ ext'.IoBase = ext.IoBase
  BY DEF StopDevice, IInv, TypeOK, ExtType
<1>2. codec' \in CodecType /\ codec'.present = codec.present
  BY StopTyped DEF StopDevice, IInv
<1>3. last' \in [op : Ops, status : Statuses, fed : [left : Nat, right : Nat]]
  BY CompleteLemma, NothingLemma DEF StopDevice, Ops, Statuses
<1>4. BufferOwned' /\ Placed'
  BY <1>1, <1>2 DEF StopDevice, IInv, BufferOwned, Placed
<1>5. QED
  BY <1>1, <1>2, <1>3, <1>4, QuietStep DEF StopDevice, IInv, TypeOK

LEMMA RemoveDeviceStep == IInv /\ RemoveDevice => IInv'
<1> SUFFICES ASSUME IInv, RemoveDevice PROVE IInv'
  OBVIOUS
<1>1. codec' \in CodecType /\ codec'.present = codec.present
  BY StopTyped DEF RemoveDevice, IInv
<1>2. last' \in [op : Ops, status : Statuses, fed : [left : Nat, right : Nat]]
  BY CompleteLemma, NothingLemma DEF RemoveDevice, Ops, Statuses
<1>3. pool' = {} /\ ext' = ZeroedExt
  BY FreedLemma DEF RemoveDevice, IInv
<1>4. BufferOwned' /\ Placed'
  BY <1>1, <1>3, ZeroedLemma DEF RemoveDevice, IInv, BufferOwned, Placed
<1>5. QED
  BY <1>1, <1>2, <1>3, <1>4, QuietStep, ZeroedLemma DEF RemoveDevice, IInv, TypeOK

\* A device with a handle on it has been started.
LEMMA OpenMeansStarted ==
  ASSUME IInv, NEW h \in handles PROVE pnp \in {"started", "stopped"}
  BY DEF IInv, Placed

LEMMA CreateStep == ASSUME NEW h \in Handles PROVE IInv /\ Ac97DispatchCreate(h) => IInv'
<1> SUFFICES ASSUME IInv, Ac97DispatchCreate(h) PROVE IInv'
  OBVIOUS
<1>1. /\ ext' \in ExtType /\ ext'.Playing = FALSE
      /\ ext'.WriteBuffer = ext.WriteBuffer /\ ext'.IoBase = ext.IoBase
  BY DEF Ac97DispatchCreate, IInv, TypeOK, ExtType
<1>2. last' \in [op : Ops, status : Statuses, fed : [left : Nat, right : Nat]]
  BY CompleteLemma, NothingLemma DEF Ac97DispatchCreate, Ops, Statuses
<1>3. BufferOwned' /\ Placed'
  BY <1>1 DEF Ac97DispatchCreate, IInv, BufferOwned, Placed
<1>4. QED
  BY <1>1, <1>2, <1>3, QuietStep DEF Ac97DispatchCreate, IInv, TypeOK

LEMMA CloseStep == ASSUME NEW h \in Handles PROVE IInv /\ Ac97DispatchClose(h) => IInv'
<1> SUFFICES ASSUME IInv, Ac97DispatchClose(h) PROVE IInv'
  OBVIOUS
<1>1. /\ ext' \in ExtType /\ ext'.Playing = FALSE
      /\ ext'.WriteBuffer = Null /\ ext'.IoBase = ext.IoBase
  BY DEF Ac97DispatchClose, IInv, TypeOK, ExtType
<1>2. codec' \in CodecType /\ codec'.present = codec.present
  BY StopTyped DEF Ac97DispatchClose, IInv
<1>3. last' \in [op : Ops, status : Statuses, fed : [left : Nat, right : Nat]]
  BY CompleteLemma, NothingLemma DEF Ac97DispatchClose, Ops, Statuses
<1>4. pool' = {} /\ BufferOwned'
  BY <1>1, FreedLemma DEF Ac97DispatchClose, IInv, BufferOwned
<1>5. Placed'
  BY <1>1, <1>2, OpenMeansStarted DEF Ac97DispatchClose, IInv, Placed
<1>6. QED
  BY <1>1, <1>2, <1>3, <1>4, <1>5, QuietStep DEF Ac97DispatchClose, IInv, TypeOK

LEMMA RejectStep == ASSUME NEW h \in Handles PROVE IInv /\ RejectIoctl(h) => IInv'
<1> SUFFICES ASSUME IInv, RejectIoctl(h) PROVE IInv'
  OBVIOUS
<1>1. last' \in [op : Ops, status : Statuses, fed : [left : Nat, right : Nat]]
  BY CompleteLemma, NothingLemma DEF RejectIoctl, Ops, Statuses
<1>2. QED
  BY <1>1, IdleStep DEF RejectIoctl, IInv, TypeOK

LEMMA WriteStep ==
  ASSUME NEW h \in Handles, NEW size \in Sizes PROVE IInv /\ Ac97HandleWrite(h, size) => IInv'
<1> SUFFICES ASSUME IInv, Ac97HandleWrite(h, size) PROVE IInv'
  OBVIOUS
<1>1. Ac97FeedSamples(ext, size) \in [left : Nat, right : Nat]
  BY FeedLemma DEF IInv, TypeOK
<1>2. last' \in [op : Ops, status : Statuses, fed : [left : Nat, right : Nat]]
  BY <1>1, CompleteLemma, NothingLemma DEF Ac97HandleWrite, Ops, Statuses
<1>3. QED
  BY <1>2, IdleStep DEF Ac97HandleWrite, IInv, TypeOK

LEMMA StopIoctlStep == ASSUME NEW h \in Handles PROVE IInv /\ StopIoctl(h) => IInv'
<1> SUFFICES ASSUME IInv, StopIoctl(h) PROVE IInv'
  OBVIOUS
<1>1. /\ ext' \in ExtType /\ ext'.Playing = FALSE
      /\ ext'.WriteBuffer = ext.WriteBuffer /\ ext'.IoBase = ext.IoBase
  BY DEF StopIoctl, IInv, TypeOK, ExtType
<1>2. codec' \in CodecType /\ codec'.present = codec.present
  BY StopTyped DEF StopIoctl, IInv
<1>3. last' \in [op : Ops, status : Statuses, fed : [left : Nat, right : Nat]]
  BY CompleteLemma, NothingLemma DEF StopIoctl, Ops, Statuses
<1>4. BufferOwned' /\ Placed'
  BY <1>1, <1>2, OpenMeansStarted DEF StopIoctl, IInv, BufferOwned, Placed
<1>5. QED
  BY <1>1, <1>2, <1>3, <1>4, QuietStep DEF StopIoctl, IInv, TypeOK

LEMMA ConfigureInvalidStep ==
  ASSUME NEW h \in Handles, NEW cfg \in Requests PROVE IInv /\ ConfigureInvalid(h, cfg) => IInv'
<1> SUFFICES ASSUME IInv, ConfigureInvalid(h, cfg) PROVE IInv'
  OBVIOUS
<1>1. /\ ext' \in ExtType /\ ext'.Playing = FALSE
      /\ ext'.WriteBuffer = ext.WriteBuffer /\ ext'.IoBase = ext.IoBase
  BY DEF ConfigureInvalid, IInv, TypeOK, ExtType
<1>2. codec' \in CodecType /\ codec'.present = codec.present
  BY StopTyped DEF ConfigureInvalid, IInv
<1>3. last' \in [op : Ops, status : Statuses, fed : [left : Nat, right : Nat]]
  BY CompleteLemma, NothingLemma DEF ConfigureInvalid, Ops, Statuses
<1>4. BufferOwned' /\ Placed'
  BY <1>1, <1>2, OpenMeansStarted DEF ConfigureInvalid, IInv, BufferOwned, Placed
<1>5. QED
  BY <1>1, <1>2, <1>3, <1>4, QuietStep DEF ConfigureInvalid, IInv, TypeOK

LEMMA ConfigureNoPoolStep ==
  ASSUME NEW h \in Handles, NEW cfg \in Requests PROVE IInv /\ ConfigureNoPool(h, cfg) => IInv'
<1> SUFFICES ASSUME IInv, ConfigureNoPool(h, cfg) PROVE IInv'
  OBVIOUS
<1>1. /\ ext' \in ExtType /\ ext'.Playing = FALSE
      /\ ext'.WriteBuffer = Null /\ ext'.IoBase = ext.IoBase
  BY RequestsAssumption DEF ConfigureNoPool, Reformatted, IInv, TypeOK, ExtType
<1>2. codec' \in CodecType /\ codec'.present = codec.present
  BY ReratedLemma DEF ConfigureNoPool, IInv
<1>3. last' \in [op : Ops, status : Statuses, fed : [left : Nat, right : Nat]]
  BY CompleteLemma, NothingLemma DEF ConfigureNoPool, Ops, Statuses
<1>4. pool' = {} /\ BufferOwned'
  BY <1>1, FreedLemma DEF ConfigureNoPool, IInv, BufferOwned
<1>5. Placed'
  BY <1>1, <1>2, OpenMeansStarted DEF ConfigureNoPool, IInv, Placed
<1>6. QED
  BY <1>1, <1>2, <1>3, <1>4, <1>5, QuietStep DEF ConfigureNoPool, IInv, TypeOK

\* The accepting path of CONFIGURE: a new block, a running stream, and a
\* codec that plays it when it is ready.
LEMMA ConfigureAndPlayStep ==
  ASSUME NEW h \in Handles, NEW cfg \in Requests PROVE IInv /\ ConfigureAndPlay(h, cfg) => IInv'
<1> SUFFICES ASSUME IInv, ConfigureAndPlay(h, cfg) PROVE IInv'
  OBVIOUS
<1>1. PICK b \in Blocks \ Freed(ext) :
        /\ pool' = Freed(ext) \cup {b}
        /\ ext' = [Reformatted(cfg) EXCEPT !.WriteBuffer = b,
                                           !.WriteBufferSize = BufferSize(cfg),
                                           !.Configured = TRUE,
                                           !.Playing = TRUE]
  BY DEF ConfigureAndPlay
<1>2. /\ Reformatted(cfg) \in ExtType
      /\ Reformatted(cfg).IoBase = ext.IoBase
      /\ Reformatted(cfg).SampleRate = cfg.SampleRate
  BY ReformattedLemma DEF IInv
<1>3. BufferSize(cfg) \in Nat
  BY BufferSizeLemma DEF ConfigureAndPlay
<1>4. /\ ext' \in ExtType /\ ext'.WriteBuffer = b /\ ext'.IoBase = ext.IoBase
      /\ ext'.SampleRate = Reformatted(cfg).SampleRate
      /\ ext'.Configured
  BY <1>1, <1>2, <1>3 DEF ExtType
<1>5. /\ codec' \in CodecType /\ codec'.present = codec.present
      /\ codec'.present /\ codec'.ready /\ ext.IoBase = DefaultIoBase =>
           codec'.dac = "on" /\ codec'.vra /\ codec'.rate = Word(cfg.SampleRate)
  <2>1. PICK c1 \in Ac97StopPlayback(ext, codec) :
          \E c2 \in Ac97Reset(ext, c1) :
            \E c3 \in Ac97SetSampleRate(ext, c2, cfg.SampleRate) :
              Ac97StartPlayback(Reformatted(cfg), c3, codec')
    BY DEF ConfigureAndPlay
  <2>2. PICK c2 \in Ac97Reset(ext, c1) :
          \E c3 \in Ac97SetSampleRate(ext, c2, cfg.SampleRate) :
            Ac97StartPlayback(Reformatted(cfg), c3, codec')
    BY <2>1
  <2>3. PICK c3 \in Ac97SetSampleRate(ext, c2, cfg.SampleRate) :
          Ac97StartPlayback(Reformatted(cfg), c3, codec')
    BY <2>2
  <2>4. c3 \in CodecType /\ c3.present = codec.present
    BY ReratedLemma DEF IInv
  <2>5. QED
    BY <1>2, <2>3, <2>4, StartLemma
<1>6. last' \in [op : Ops, status : Statuses, fed : [left : Nat, right : Nat]]
  BY CompleteLemma, NothingLemma DEF ConfigureAndPlay, Ops, Statuses
<1>7. pool' = {b} /\ b # Null /\ pool' \subseteq Blocks
  BY <1>1, FreedLemma, BlocksAssumption DEF IInv
<1>8. TypeOK' /\ BufferOwned'
  BY <1>4, <1>5, <1>6, <1>7 DEF ConfigureAndPlay, IInv, TypeOK, BufferOwned
<1>9. codec.present => ext.IoBase = DefaultIoBase
  BY OpenMeansStarted DEF ConfigureAndPlay, IInv, Placed
<1>10. PlayingIsAudible'
  BY <1>2, <1>4, <1>5, <1>7, <1>9 DEF PlayingIsAudible
<1>11. Placed'
  BY <1>4, <1>5, <1>9, OpenMeansStarted DEF ConfigureAndPlay, IInv, Placed
<1>12. QED
  BY <1>8, <1>10, <1>11 DEF IInv

LEMMA StepIInv == IInv /\ [Next]_vars => IInv'
<1> SUFFICES ASSUME IInv, [Next]_vars PROVE IInv'
  OBVIOUS
<1>1. CASE DriverEntry \/ Ac97Unload \/ Ac97AddDevice \/ OtherIrp
  BY <1>1, DriverEntryStep, UnloadStep, AddDeviceStep, OtherIrpStep
<1>2. CASE Ac97DispatchPnp
  BY <1>2, StartDeviceStep, StopDeviceStep, RemoveDeviceStep DEF Ac97DispatchPnp
<1>3. ASSUME NEW h \in Handles, Ac97DispatchCreate(h) \/ Ac97DispatchClose(h) PROVE IInv'
  BY <1>3, CreateStep, CloseStep
<1>4. ASSUME NEW h \in Handles, Ac97DispatchDeviceControl(h) PROVE IInv'
  BY <1>4, RejectStep, ConfigureInvalidStep, ConfigureNoPoolStep, ConfigureAndPlayStep,
     WriteStep, StopIoctlStep DEF Ac97DispatchDeviceControl
<1>5. CASE UNCHANGED vars
  BY <1>5, IdleStep DEF vars, IInv, TypeOK
<1>6. QED
  BY <1>1, <1>2, <1>3, <1>4, <1>5 DEF Next

(***************************************************************************)
(* The inductive invariant holds of every behavior of the driver.          *)
(***************************************************************************)
THEOREM Invariance == Spec => []IInv
<1>1. QED
  BY InitIInv, StepIInv, PTL DEF Spec

(***************************************************************************)
(* Type correctness of the device extension, the codec and the answers.    *)
(***************************************************************************)
THEOREM TypeCorrect == Spec => []TypeOK
<1>1. IInv => TypeOK
  BY DEF IInv
<1>2. QED
  BY <1>1, Invariance, PTL

(***************************************************************************)
(* No path of the driver leaks its pool block or frees it twice while its  *)
(* dispatch routines do not overlap, however many handles are open.        *)
(***************************************************************************)
THEOREM BufferSafe == Spec => []BufferOwned
<1>1. IInv => BufferOwned
  BY DEF IInv
<1>2. QED
  BY <1>1, Invariance, PTL

(***************************************************************************)
(* While the driver takes samples, a codec that is ready plays them at the *)
(* low word of the configured rate.                                        *)
(***************************************************************************)
THEOREM PlayingAudible == Spec => []PlayingIsAudible
<1>1. IInv => PlayingIsAudible
  BY DEF IInv
<1>2. QED
  BY <1>1, Invariance, PTL
--------------------------------------------------------------------------------
\* The abstract steps, from what a concrete step does to Stream and last.
LEMMA HaltMapped ==
  ASSUME NEW op \in {"STOP", "CREATE", "CLOSE", "PNP"}, NEW fed,
         ext'.Playing = FALSE, Complete(op, "SUCCESS", fed)
  PROVE  Sink!Next
<1>1. Stream' = {} /\ Answer' = [op |-> op, result |-> "accepted"]
  BY DEF Stream, Answer, Result, Complete
<1>2. Sink!Halt(op)
  BY <1>1 DEF Sink!Halt, Sink!Answered
<1>3. QED
  BY <1>2 DEF Sink!Next

LEMMA RefuseMapped ==
  ASSUME NEW status, status \notin {"SUCCESS", "BUFFER_TOO_SMALL"}, NEW fed,
         ext'.Playing = FALSE, Complete("CONFIGURE", status, fed)
  PROVE  Sink!Next
<1>1. Stream' = {} /\ Answer' = [op |-> "CONFIGURE", result |-> "refused"]
  BY DEF Stream, Answer, Result, Complete
<1>2. QED
  BY <1>1 DEF Sink!Next, Sink!Refuse, Sink!Answered

LEMMA OtherMapped ==
  ASSUME NEW status, NEW fed, Stream' = Stream, Complete("OTHER", status, fed)
  PROVE  Sink!Next
<1>1. Answer' = [op |-> "OTHER", result |-> Result(status)]
  BY DEF Answer, Complete
<1>2. Sink!Other(Result(status))
  BY <1>1 DEF Sink!Other, Sink!Answered
<1>3. Result(status) \in Sink!Results
  BY DEF Result, Sink!Results
<1>4. QED
  BY <1>2, <1>3 DEF Sink!Next

LEMMA ConfigureMapped ==
  ASSUME IInv, NEW h \in Handles, NEW cfg \in Requests, ConfigureAndPlay(h, cfg)
  PROVE  Sink!Next
<1>1. /\ ext'.Configured /\ ext'.Playing
      /\ ext'.SampleRate = cfg.SampleRate /\ ext'.Channels = cfg.Channels
      /\ ext'.BitsPerSample = cfg.BitsPerSample
  BY DEF ConfigureAndPlay, Reformatted, IInv, TypeOK, ExtType
<1>2. cfg \in [SampleRate : Nat, Channels : Nat, BitsPerSample : Nat]
  BY RequestsAssumption
<1>3. Format(ext') = cfg
  BY <1>1, <1>2 DEF Format
<1>4. Stream' = {cfg}
  BY <1>1, <1>3 DEF Stream
<1>5. Answer' = [op |-> "CONFIGURE", result |-> "accepted"]
  BY DEF ConfigureAndPlay, Complete, Answer, Result
<1>6. cfg \in Accepted
  BY DEF ConfigureAndPlay, Accepted
<1>7. Sink!Start(cfg)
  BY <1>4, <1>5 DEF Sink!Start, Sink!Answered
<1>8. QED
  BY <1>6, <1>7 DEF Sink!Next

LEMMA WriteMapped ==
  ASSUME NEW h \in Handles, NEW size \in Sizes, Ac97HandleWrite(h, size)
  PROVE  Sink!Next
<1>1. Stream' = Stream
  BY DEF Ac97HandleWrite, Stream
<1>2. Answer' = [op |-> "WRITE", result |-> IF Stream # {} THEN "accepted" ELSE "refused"]
  <2>1. CASE ext.Configured /\ ext.Playing
    BY <2>1 DEF Ac97HandleWrite, Complete, Answer, Result, Stream
  <2>2. CASE ~(ext.Configured /\ ext.Playing)
    BY <2>2 DEF Ac97HandleWrite, Complete, Answer, Result, Stream
  <2>3. QED
    BY <2>1, <2>2
<1>3. QED
  BY <1>1, <1>2 DEF Sink!Next, Sink!Write, Sink!Answered

LEMMA RejectMapped ==
  ASSUME NEW h \in Handles, RejectIoctl(h) PROVE Sink!Next
<1>1. Stream' = Stream
  BY DEF RejectIoctl, Stream
<1>2. ASSUME NEW op \in {"CONFIGURE", "WRITE"}, Complete(op, "BUFFER_TOO_SMALL", Nothing)
      PROVE  Sink!Next
  <2>1. Sink!Reject(op)
    BY <1>1, <1>2 DEF Complete, Answer, Result, Sink!Reject, Sink!Answered
  <2>2. QED
    BY <2>1 DEF Sink!Next
<1>3. CASE Complete("OTHER", "INVALID_DEVICE_REQUEST", Nothing)
  BY <1>1, <1>3, OtherMapped
<1>4. QED
  BY <1>2, <1>3 DEF RejectIoctl

LEMMA StepMapped == IInv /\ [Next]_vars => [Sink!Next]_(Sink!vars)
<1> SUFFICES ASSUME IInv, [Next]_vars PROVE [Sink!Next]_(Sink!vars)
  OBVIOUS
<1>1. CASE DriverEntry \/ Ac97Unload
  BY <1>1 DEF DriverEntry, Ac97Unload, Sink!vars, Stream, Answer
<1>2. CASE Ac97AddDevice
  <2>1. ext = ZeroedExt
    BY <1>2 DEF Ac97AddDevice, IInv, Placed
  <2>2. QED
    BY <1>2, <2>1 DEF Ac97AddDevice, Sink!vars, Stream, Answer
<1>3. CASE OtherIrp
  BY <1>3, OtherMapped DEF OtherIrp, Stream
<1>4. CASE StartDevice
  <2>1. Format(ext') = Format(ext) /\ ext'.Configured = ext.Configured
        /\ ext'.Playing = ext.Playing
    BY <1>4 DEF StartDevice, IInv, TypeOK, ExtType, Format
  <2>2. Stream' = Stream
    BY <2>1 DEF Stream
  <2>3. QED
    BY <1>4, <2>2, OtherMapped DEF StartDevice
<1>5. CASE StopDevice
  <2>1. ext'.Playing = FALSE
    BY <1>5 DEF StopDevice, IInv, TypeOK, ExtType
  <2>2. QED
    BY <1>5, <2>1, HaltMapped DEF StopDevice
<1>6. CASE RemoveDevice
  BY <1>6, ZeroedLemma, HaltMapped DEF RemoveDevice
<1>7. ASSUME NEW h \in Handles, Ac97DispatchCreate(h) PROVE Sink!Next
  <2>1. ext'.Playing = FALSE
    BY <1>7 DEF Ac97DispatchCreate, IInv, TypeOK, ExtType
  <2>2. QED
    BY <1>7, <2>1, HaltMapped DEF Ac97DispatchCreate
<1>8. ASSUME NEW h \in Handles, Ac97DispatchClose(h) PROVE Sink!Next
  <2>1. ext'.Playing = FALSE
    BY <1>8 DEF Ac97DispatchClose, IInv, TypeOK, ExtType
  <2>2. QED
    BY <1>8, <2>1, HaltMapped DEF Ac97DispatchClose
<1>9. ASSUME NEW h \in Handles, StopIoctl(h) PROVE Sink!Next
  <2>1. ext'.Playing = FALSE
    BY <1>9 DEF StopIoctl, IInv, TypeOK, ExtType
  <2>2. QED
    BY <1>9, <2>1, HaltMapped DEF StopIoctl
<1>10. ASSUME NEW h \in Handles, NEW cfg \in Requests, ConfigureInvalid(h, cfg)
       PROVE  Sink!Next
  <2>1. ext'.Playing = FALSE
    BY <1>10 DEF ConfigureInvalid, IInv, TypeOK, ExtType
  <2>2. QED
    BY <1>10, <2>1, RefuseMapped DEF ConfigureInvalid
<1>11. ASSUME NEW h \in Handles, NEW cfg \in Requests, ConfigureNoPool(h, cfg)
       PROVE  Sink!Next
  <2>1. ext'.Playing = FALSE
    BY <1>11 DEF ConfigureNoPool, Reformatted, IInv, TypeOK, ExtType
  <2>2. QED
    BY <1>11, <2>1, RefuseMapped DEF ConfigureNoPool
<1>12. ASSUME NEW h \in Handles, Ac97DispatchDeviceControl(h) PROVE Sink!Next
  BY <1>9, <1>10, <1>11, <1>12, RejectMapped, ConfigureMapped, WriteMapped
     DEF Ac97DispatchDeviceControl
<1>13. CASE UNCHANGED vars
  BY <1>13 DEF vars, Sink!vars, Stream, Answer
<1>14. QED
  BY <1>1, <1>2, <1>3, <1>4, <1>5, <1>6, <1>7, <1>8, <1>12, <1>13
     DEF Next, Ac97DispatchPnp

(***************************************************************************)
(* The driver implements the abstract sink: one stream, started only by an *)
(* accepted CONFIGURE, and answers that tell the truth about it.           *)
(***************************************************************************)
THEOREM Implements == Spec => ImplementsSink
<1>1. Init => Sink!Init
  <2> SUFFICES ASSUME Init PROVE Sink!Init
    OBVIOUS
  <2>1. Stream = {}
    BY ZeroedLemma DEF Init, Stream
  <2>2. Answer = [op |-> "OTHER", result |-> "accepted"]
    BY DEF Init, Answer, Result
  <2>3. QED
    BY <2>1, <2>2 DEF Sink!Init
<1>2. IInv /\ [Next]_vars => [Sink!Next]_(Sink!vars)
  BY StepMapped
<1>3. QED
  BY <1>1, <1>2, Invariance, PTL DEF Spec, ImplementsSink, Sink!Spec

================================================================================
