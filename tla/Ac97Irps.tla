------------------------------- MODULE Ac97Irps -------------------------------
(***************************************************************************)
(* The dispatch routines of BadAppleAudio.sys (ac97drv.c) while they run:  *)
(* one step per access to a port of the codec, to DEVICE_EXTENSION or to   *)
(* the pool.  Ext->Lock is initialised and never taken, so the IRPs of two *)
(* handles, and those of the PnP manager, interleave at any access.        *)
(* Ac97Driver has each routine as a single step; here is what of that is   *)
(* true.  Reading a field and what the routine does with its value are one *)
(* step at the pool (the test of WriteBuffer and the free, the allocation  *)
(* and its pointer's store) and in CheckState: two handles could overlap   *)
(* inside of these too, but once they overlap nothing is claimed, and the  *)
(* PnP manager's routines, which may, touch neither pool nor WriteBuffer.  *)
(* The device stays added: DriverEntry, AddDevice, REMOVE_DEVICE and       *)
(* unload find no open handle, so nothing overlaps them.                   *)
(*                                                                         *)
(* External: the codec (an index port, a data port and its registers), the *)
(* pool allocator, the I/O manager (one IRP at a time of each handle), the *)
(* PnP manager (one IRP at a time).                                        *)
(***************************************************************************)
EXTENDS Naturals, Sequences

CONSTANTS Handles,   \* file objects opened on the device
          PnP,       \* the PnP manager's thread
          Requests,  \* the BAPA_CONFIGURE structures clients send
          Sizes,     \* input buffer lengths of BAPA_IOCTL_WRITE
          Blocks,    \* pool blocks ExAllocatePoolWithTag can return
          Null,      \* the NULL pointer
          MaxIrps    \* bound: IRPs sent in all

ASSUME PnPAssumption == PnP \notin Handles
ASSUME RequestsAssumption ==
         Requests \subseteq [SampleRate : Nat, Channels : Nat, BitsPerSample : Nat]
ASSUME SizesAssumption == Sizes \subseteq Nat
ASSUME MaxIrpsAssumption == MaxIrps \in Nat
ASSUME NullAssumption == Null \notin Blocks

Threads == Handles \cup {PnP}

VARIABLES ext,      \* DEVICE_EXTENSION
          chip,     \* the codec: the register its index port selects, the rest
          pool,     \* blocks allocated with TAG_BAPA
          handles,  \* the open handles
          pnp,      \* "started" or "stopped"
          irp,      \* per thread, the IRP in progress
          last,     \* the last request that completed (as in Ac97Driver)
          sent,     \* how many IRPs have been sent
          overlap,  \* history: IRPs overlapped since nothing was in progress
          raced,    \* history: IRPs of two handles have overlapped
          fault,    \* history: a block was freed that was not allocated
          rest      \* history: the state when last nothing was in progress

vars == <<ext, chip, pool, handles, pnp, irp, last, sent, overlap, raced, fault, rest>>
-------------------------------------------------------------------------------
\* The registers a routine selects: "volume" is each of the three volumes.
Registers == {"reset", "volume", "rate", "status", "power", "vendor"}

\* The registers that keep what is written, as a reset leaves them.
ResetRegs == [rate |-> 48000, status |-> 0, power |-> 0]
VendorId == 16708

Dac == 512                                   \* 0x0200 of AC97_POWERDOWN_CTRL
Vra == 128                                   \* 0x0080 of AC97_EXTENDED_STATUS
Bit(n, b) == (n \div b) % 2 = 1
Ready == 15                                  \* the status bits of powerdown

Codec(c) == [present |-> c.present, ready |-> c.ready,
             dac |-> IF Bit(c.regs["power"], Dac) THEN "off" ELSE "on",
             vra |-> Bit(c.regs["status"], Vra), rate |-> c.regs["rate"]]

\* Ac97Driver, over the state when last nothing was in progress.
Atomic == INSTANCE Ac97Driver WITH
            loaded <- TRUE, link <- TRUE, pnp <- rest.pnp, ext <- rest.ext,
            handles <- rest.handles, codec <- Codec(rest.chip),
            pool <- rest.pool, last <- rest.last

ValidRequest(cfg) == Atomic!ValidRequest(cfg)
DefaultIoBase == Atomic!DefaultIoBase

\* What InPortWord reads from a codec that answers.
Contents(c) == CASE c.index = "power" -> c.regs["power"] + IF c.ready THEN Ready ELSE 0
                 [] c.index \in {"rate", "status"} -> c.regs[c.index]
                 [] c.index = "vendor" -> VendorId
                 [] OTHER -> 0

\* What OutPortWord of n can leave of a codec that answers.
Stored(c, n) ==
  CASE c.index = "reset"  -> {[c EXCEPT !.regs = ResetRegs, !.ready = r] : r \in BOOLEAN}
    [] c.index \in {"vendor", "volume"} -> {c}
    [] OTHER -> {[c EXCEPT !.regs[c.index] =
                    IF c.index = "power" THEN n - (n % 16) ELSE n]} \cup
                {d \in {c} : ~c.ready \/ (c.index = "rate" /\ ~Bit(c.regs["status"], Vra))}
-------------------------------------------------------------------------------
(***************************************************************************)
(* The routines, as the sequences of accesses they make.                   *)
(***************************************************************************)
Ac97ReadRegister(r, change) == << <<"select", r>>, <<"in", change>> >>

\* Mutant of Ac97WriteRegister: the data port is written first.
Ac97WriteRegister_DataFirst(r, n) == << <<"out", n>>, <<"select", r>> >>

Ac97WriteRegister(r, n) == << <<"select", r>>, <<"out", n>> >>

\* Ac97WriteRegister of the value that was read, or loaded, before.
WriteBack(r) == << <<"select", r>>, <<"out back">> >>

Store(field, value) == << <<"store", field, value>> >>
Return(status) == << <<"return", status>> >>

Ac97Reset == Ac97WriteRegister("reset", 0) \o << <<"select", "power">>, <<"poll">> >>
             \o Ac97WriteRegister("volume", 0) \o Ac97WriteRegister("volume", 0)
             \o Ac97WriteRegister("volume", 0)

Ac97SetSampleRate(rate) == Ac97WriteRegister("rate", Atomic!Word(rate))

Ac97StopPlayback == Ac97ReadRegister("power", "set DAC")
                    \o WriteBack("power") \o Store("Playing", FALSE)

Ac97StartPlayback == Ac97ReadRegister("power", "clear DAC")
                     \o WriteBack("power")
                     \o Ac97ReadRegister("status", "set VRA")
                     \o WriteBack("status")
                     \o << <<"load">> >> \o WriteBack("rate")
                     \o Store("Playing", TRUE)

Ac97ConfigureAndPlay(cfg) ==
  Ac97StopPlayback \o
  IF ~ValidRequest(cfg) THEN Return("INVALID_PARAMETER")
  ELSE Store("Channels", cfg.Channels) \o Store("BitsPerSample", cfg.BitsPerSample)
       \o Ac97Reset \o Ac97SetSampleRate(cfg.SampleRate)
       \o Store("SampleRate", cfg.SampleRate)
       \o << <<"free">> >> \o Store("WriteBufferSize", Atomic!BufferSize(cfg))
       \o << <<"allocate">> >>
       \o Store("Configured", TRUE)
       \o Ac97StartPlayback \o Return("SUCCESS")

\* Mutant of Ac97DispatchClose: the pointer is not cleared.
Ac97DispatchClose_Dangling == Ac97StopPlayback \o << <<"free">> >>
                              \o Store("Configured", FALSE) \o Return("SUCCESS")

Ac97DispatchClose == Ac97StopPlayback \o << <<"free">> >> \o Store("WriteBuffer", Null)
                     \o Store("Configured", FALSE) \o Return("SUCCESS")

\* Mutant of Ac97DispatchCreate: the two stores change places.
Ac97DispatchCreate_Swapped == Store("Configured", FALSE) \o Store("Playing", FALSE)
                              \o Return("SUCCESS")

Ac97DispatchCreate == Store("Playing", FALSE) \o Store("Configured", FALSE)
                      \o Return("SUCCESS")

Ac97HandleWrite == << <<"check">>, <<"feed">> >> \o Return("SUCCESS")

StopIoctl == Ac97StopPlayback \o Return("SUCCESS")

StopDevice == Ac97StopPlayback \o Store("DeviceStarted", FALSE) \o Return("SUCCESS")

StartDevice == Store("IoBase", DefaultIoBase) \o << <<"select", "vendor">>, <<"probe">> >>
               \o Store("DeviceStarted", TRUE) \o Return("SUCCESS")
-------------------------------------------------------------------------------
Idle == [op |-> "none", size |-> 0, port |-> 0, value |-> 0,
         fed |-> [left |-> 0, right |-> 0], todo |-> <<>>]

Running == {t \in Threads : irp[t].op # "none"}

Snapshot == [ext |-> ext, chip |-> chip, pool |-> pool, handles |-> handles,
             pnp |-> pnp, last |-> last]

\* Stands for the state at rest once that is no longer looked at.
Unknown == [ext |-> Atomic!ZeroedExt, pool |-> {}, handles |-> {}, pnp |-> "started",
            chip |-> [present |-> FALSE, ready |-> TRUE, index |-> "vendor",
                      regs |-> ResetRegs],
            last |-> [op |-> "OTHER", status |-> "SUCCESS", fed |-> Atomic!Nothing]]

Init == /\ \E p \in BOOLEAN : chip = [present |-> p, ready |-> TRUE, index |-> "vendor",
                                      regs |-> ResetRegs]
        /\ ext = [Atomic!ZeroedExt EXCEPT
                    !.IoBase = IF chip.present THEN DefaultIoBase ELSE 0,
                    !.DeviceStarted = TRUE]
        /\ handles = {} /\ pool = {} /\ pnp = "started"
        /\ irp = [t \in Threads |-> Idle]
        /\ last = Unknown.last
        /\ sent = 0
        /\ overlap = FALSE /\ raced = FALSE /\ fault = FALSE
        /\ rest = Snapshot

\* The I/O manager hands thread t an IRP.
Dispatch(t, op, size, todo) ==
  /\ irp[t].op = "none"
  /\ irp' = [irp EXCEPT ![t] = [Idle EXCEPT !.op = op, !.size = size, !.todo = todo]]
  /\ overlap' = (Running # {})
  /\ raced' = (raced \/ (t \in Handles /\ Running \cap Handles # {}))
  /\ sent < MaxIrps
  /\ sent' = sent + 1
  /\ rest' = IF Running = {} THEN rest ELSE Unknown
  /\ UNCHANGED <<ext, chip, pool, handles, pnp, last, fault>>

SendIrp(h) ==
  \/ h \notin handles /\ Dispatch(h, "CREATE", 0, Ac97DispatchCreate)
  \/ /\ h \in handles
     /\ \/ Dispatch(h, "CLOSE", 0, Ac97DispatchClose)
        \/ \E cfg \in Requests : Dispatch(h, "CONFIGURE", 0, Ac97ConfigureAndPlay(cfg))
        \/ \E size \in Sizes \ {0} : Dispatch(h, "WRITE", size, Ac97HandleWrite)
        \/ Dispatch(h, "STOP", 0, StopIoctl)

SendPnp == \/ pnp = "started" /\ Dispatch(PnP, "PNP", 0, StopDevice)
           \/ pnp = "stopped" /\ Dispatch(PnP, "OTHER", 0, StartDevice)
-------------------------------------------------------------------------------
Access(t) == irp[t].todo[1]
At(t, kind) == irp[t].op # "none" /\ Access(t)[1] = kind

\* Thread t goes on with record r, its access done.
Advance(t, r) == irp' = [irp EXCEPT ![t] = [r EXCEPT !.todo = Tail(irp[t].todo)]]

\* A register access is over, and with it its local Port.
Returned(t) == [irp[t] EXCEPT !.port = 0]

Answers(t) == chip.present /\ irp[t].port = DefaultIoBase

\* OutPortByte to the index port; the port is computed from IoBase first.
SelectRegister(t) ==
  /\ At(t, "select")
  /\ chip' = IF chip.present /\ ext.IoBase = DefaultIoBase
             THEN [chip EXCEPT !.index = Access(t)[2]] ELSE chip
  /\ Advance(t, [irp[t] EXCEPT !.port = ext.IoBase])
  /\ UNCHANGED <<ext, pool>>

InPortWord(t) == IF Answers(t) THEN Contents(chip) ELSE 65535

\* Mutant of SetBit: the bit is added, set or not.
SetBit_Adds(n, b) == n + b

\* reg |= b and reg &= ~b of a single bit.
SetBit(n, b) == IF Bit(n, b) THEN n ELSE n + b
ClearBit(n, b) == IF Bit(n, b) THEN n - b ELSE n

ReadValue(t) ==
  /\ At(t, "in")
  /\ Advance(t, [Returned(t) EXCEPT !.value =
                   LET n == InPortWord(t) IN
                   CASE Access(t)[2] = "set DAC" -> SetBit(n, Dac)
                     [] Access(t)[2] = "clear DAC" -> ClearBit(n, Dac)
                     [] Access(t)[2] = "set VRA" -> SetBit(n, Vra)])
  /\ UNCHANGED <<ext, chip, pool>>

WriteValue(t) ==
  /\ At(t, "out") \/ At(t, "out back")
  /\ LET n == IF At(t, "out") THEN Access(t)[2] ELSE irp[t].value
     IN  chip' \in IF Answers(t) THEN Stored(chip, n) ELSE {chip}
  /\ Advance(t, [Returned(t) EXCEPT !.value = 0])
  /\ UNCHANGED <<ext, pool>>

\* The register is selected again before every read; after 5000 reads the
\* loop gives up on a codec that is not ready.
PollReady(t) ==
  /\ At(t, "poll")
  /\ \/ Advance(t, Returned(t))
     \/ /\ InPortWord(t) % 16 # Ready
        /\ irp' = [irp EXCEPT ![t].todo = << <<"select", "power">> >> \o @]
  /\ UNCHANGED <<ext, chip, pool>>

\* The vendor ID decides whether a codec answers at the default base.
Probe(t) ==
  /\ At(t, "probe")
  /\ ext' = IF InPortWord(t) \in {0, 65535} THEN [ext EXCEPT !.IoBase = 0] ELSE ext
  /\ Advance(t, Returned(t))
  /\ UNCHANGED <<chip, pool>>

StoreField(t) ==
  /\ At(t, "store")
  /\ ext' = [ext EXCEPT ![Access(t)[2]] = Access(t)[3]]
  /\ Advance(t, irp[t])
  /\ UNCHANGED <<chip, pool>>

LoadRate(t) ==
  /\ At(t, "load")
  /\ Advance(t, [irp[t] EXCEPT !.value = Atomic!Word(ext.SampleRate)])
  /\ UNCHANGED <<ext, chip, pool>>

\* ExAllocatePoolWithTag straight into the extension.  No pool: the size goes
\* back to 0 and the routine returns.
Allocate(t) ==
  /\ At(t, "allocate")
  /\ \/ /\ \E b \in Blocks \ pool : /\ pool' = pool \cup {b}
                                    /\ ext' = [ext EXCEPT !.WriteBuffer = b]
        /\ Advance(t, irp[t])
     \/ /\ ext' = [ext EXCEPT !.WriteBuffer = Null]
        /\ irp' = [irp EXCEPT ![t].todo = Store("WriteBufferSize", 0)
                                          \o Return("INSUFFICIENT_RESOURCES")]
        /\ UNCHANGED pool
  /\ UNCHANGED chip

CheckState(t) ==
  /\ At(t, "check")
  /\ IF ext.Configured /\ ext.Playing
     THEN Advance(t, irp[t])
     ELSE irp' = [irp EXCEPT ![t].todo = Return("INVALID_DEVICE_STATE")]
  /\ UNCHANGED <<ext, chip, pool>>

Ac97FeedSamples(t) ==
  /\ At(t, "feed")
  /\ Advance(t, [irp[t] EXCEPT !.fed = Atomic!Ac97FeedSamples(ext, irp[t].size)])
  /\ UNCHANGED <<ext, chip, pool>>

\* if (WriteBuffer) ExFreePoolWithTag(WriteBuffer): the pointer stays.  Test
\* and free are one step; only the IRP of another handle could come between.
FreeBuffer(t) ==
  /\ At(t, "free")
  /\ pool' = pool \ {ext.WriteBuffer}
  /\ fault' = (fault \/ ext.WriteBuffer \notin pool \cup {Null})
  /\ Advance(t, irp[t])
  /\ UNCHANGED <<ext, chip>>

\* IoCompleteRequest; the last one out leaves the state at rest.
Complete(t) ==
  /\ At(t, "return")
  /\ irp' = [irp EXCEPT ![t] = Idle]
  /\ last' = [op |-> irp[t].op, status |-> Access(t)[2], fed |-> irp[t].fed]
  /\ handles' = CASE irp[t].op = "CREATE" -> handles \cup {t}
                  [] irp[t].op = "CLOSE" -> handles \ {t}
                  [] OTHER -> handles
  /\ pnp' = CASE irp[t].op = "PNP" -> "stopped"
              [] irp[t].op = "OTHER" -> "started"
              [] OTHER -> pnp
  /\ UNCHANGED <<ext, chip, pool, sent, overlap, raced, fault>>
  /\ rest' = IF Running = {t} THEN Snapshot' ELSE rest

AccessPort(t) == SelectRegister(t) \/ ReadValue(t) \/ WriteValue(t) \/ PollReady(t) \/ Probe(t)

AccessExtension(t) == \/ StoreField(t) \/ LoadRate(t) \/ Allocate(t)
                      \/ CheckState(t) \/ Ac97FeedSamples(t)

Step(t) == \/ /\ AccessPort(t) \/ AccessExtension(t)
              /\ UNCHANGED <<handles, pnp, last, sent, overlap, raced, fault, rest>>
           \/ /\ FreeBuffer(t)
              /\ UNCHANGED <<handles, pnp, last, sent, overlap, raced, rest>>
           \/ Complete(t)

Next == (\E h \in Handles : SendIrp(h)) \/ SendPnp \/ (\E t \in Threads : Step(t))

Spec == Init /\ [][Next]_vars
-------------------------------------------------------------------------------
Words == 0..65535

(***************************************************************************)
(* Every variable has its type.                                            *)
(***************************************************************************)
TypeOK ==
  /\ ext \in Atomic!ExtType
  /\ chip \in [present : BOOLEAN, ready : BOOLEAN, index : Registers,
              regs : [DOMAIN ResetRegs -> Words]]
  /\ pool \subseteq Blocks /\ handles \subseteq Handles
  /\ pnp \in {"started", "stopped"}
  /\ \A t \in Threads :
       /\ irp[t].op \in Atomic!Ops \cup {"none"}
       /\ irp[t].port \in {0, DefaultIoBase} /\ irp[t].value \in Words
       /\ irp[t].op = "none" <=> irp[t].todo = <<>>
  /\ sent \in 0..MaxIrps
  /\ overlap \in BOOLEAN /\ raced \in BOOLEAN /\ fault \in BOOLEAN

(***************************************************************************)
(* As long as the IRPs of two handles have not overlapped, no block is     *)
(* freed twice and none is lost, at every access and whatever the PnP      *)
(* manager does meanwhile: the only block allocated is the one WriteBuffer *)
(* points to, and when no IRP is in progress it does not dangle.           *)
(***************************************************************************)
OneOwner == ~raced => /\ ~fault
                      /\ pool \subseteq {ext.WriteBuffer}
                      /\ Running = {} => pool = {ext.WriteBuffer} \ {Null}

(***************************************************************************)
(* As long as the IRPs of two handles have not overlapped, Playing is set  *)
(* only while Configured is, between any two accesses: the order of the    *)
(* stores in CREATE, CLOSE and CONFIGURE is what WRITE relies on when it   *)
(* tests both without the lock.                                            *)
(***************************************************************************)
PlayingIsConfigured == ~raced /\ ext.Playing => ext.Configured

(***************************************************************************)
(* An IRP that overlaps no other is a step of Ac97Driver: whatever earlier *)
(* overlapping IRPs left behind, the sequence of port, extension and pool  *)
(* accesses amounts to the single step Ac97Driver makes of the routine.    *)
(***************************************************************************)
AloneIsAtomic == [][overlap' \/ Atomic!Next]_<<Atomic!vars>>
===============================================================================
