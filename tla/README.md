# BadAppleNative in TLA+

BadAppleNative is a Windows program that runs before Windows does: an installer
puts `native.exe` into the `BootExecute` value, the native shell shows a menu,
plays a video with sound through its own AC'97 kernel driver, and offers a small
command line.  This directory models the parts of it whose correctness depends
on order, failure and shared state, checks the models with TLC and proves part
of what TLC finds with TLAPS.

Run inside this directory:

    tlc -config Ac97Driver.cfg MCAc97Driver      # any run of PROJECT.json
    tlapm Ac97Driver_proofs.tla

## The system

| Component | Code | State | Operations | What is hard |
|---|---|---|---|---|
| Audio driver | `ac97drv/ac97drv.c` | device extension, one pool block, the codec's registers | create, close, CONFIGURE, WRITE, STOP, PnP start/stop/remove, add, unload | one stream shared by every handle; a lock that is initialised and never taken; a codec that may be absent or late |
| Player | `main.c` (menu, `RtlCliPlayBadApple`), `audio.c`, `video.c` | audio handle and flags, video context, frame counter | open, self-install, configure, frame loop, cleanup | every call may fail and the cleanup depends on which did; PnP acts between any two calls; keys are events of press and release |
| Line input, display | `input.c`, `keytrans.c`, `display.c` | line, position, shift bit, display buffer | key events, backspace, echo | three buffers kept in step by hand; an 8-bit signed index |
| Installer | `installer.c` | files, `BootExecute`, service key, boot settings | install, uninstall | a crash or a failing call between any two; errors that are not looked at |
| Shell commands | `main.c` `RtlClipProcessMessage`, `shell.c`, `process.c` | line buffer and its copy, current directory, keyboard handle | dispatch, argument splitting, run a program | tokens are cut off in place; the keyboard handle changes hands; paths are put together from the current directory |
| File operations | `ntfile.c`, `file.c` | file handles | copy, move, delete, list | handle accounting on error paths, end of the copy loop, entries spread over blocks and pages |
| Registry helpers | `ntreg.c` | none | open, read, write values | no code of the program calls them |
| Hardware tree, system information | `hardware.c`, `sysinfo.c` | indentation of the tree, pages | devtree, lm, lp, shutdown, queries | recursion over shared buffers and one global; pages that wait for keys |
| Graphics buffer | `gfx.c` | back buffer | put, present, scroll | nothing that lasts between two calls the program makes |
| C runtime, start-up | `nativertl.c`, `precomp.h` | none | `vsnprintf`, string searches, command line | a printf that knows some conversions, and callers that use others; the end of the block |
| Launcher | `launcher.c` | none | start `native.exe` once | sequential |
| Tools, build | `tools/convert.py`, `setup_vm.sh`, makefiles, `NativeShell/ndk` | none | | not part of the running system; the NDK is third-party |

How they interact: the installer leaves files and registry values that the boot
sequence reads; the boot loads the driver and starts the shell; the shell's menu
calls the player; the player calls the driver through `NtCreateFile`,
`NtDeviceIoControlFile` and `NtClose`, and when the driver is missing writes the
same driver file and service key the installer writes.  The shell is one thread.
The driver runs in the caller's thread and in the PnP manager's.

What makes each part correct: the driver frees its block once and plays only
what it was configured for; the player's flags agree with the driver, it is
silent when it is not playing, and it ends; the line editor returns what was
typed and shows what it will return; the installer never leaves a boot without
its program.

## Modules

### `PcmSink` and `Ac97Driver`

`PcmSink` is what the driver promises its clients: one stream for the whole
device, started by an accepted CONFIGURE and ended by everything else that
touches the stream, refused or not, and answers that tell the truth.

`Ac97Driver` has the fields of `DEVICE_EXTENSION` in `ext` (`DeviceObject`,
`LowerDevice`, `IoLength`, `ChipSelect`, `WriteBufferPos` and `Lock` are left
out: they are constant or never read), the codec's registers that playback
depends on, the set of allocated pool blocks, and the PnP manager's view of the
device.  One action is one dispatch routine from entry to `IoCompleteRequest`,
including the register sequences it runs; `last` is the status it completed
with.  `Poke` is a write through the two I/O ports: it does nothing when
`IoBase` is not where the codec answers, and a codec that did not come back from
its reset within the poll may take the write or lose it.  The codec takes the
write of line 166 as enabling variable rate audio, as line 163 says it does.

External: the I/O manager opens handles only on a started device and completes
a close for each; the PnP manager removes only a device without handles; the
pool may refuse any allocation.

### `Ac97Irps`

`Ac97Driver` takes a dispatch routine for a single step.  `ac97drv.c` initialises
`Ext->Lock` and never takes it, so `Ac97Irps` has the same routines as sequences of
accesses (`todo`), one step each: the index port, the data port, a field of the
extension, the pool (where the test and the free of `WriteBuffer` are one step, and so
are the allocation and the store of its pointer: only an IRP of another handle could
come between, and after such an overlap nothing is claimed).  `chip` is a codec behind two ports; `irp[t].value` is the
`reg` a routine has read and not yet written back.  The IRPs of two handles and
the PnP manager's start and stop interleave at any access.  The device stays
added: loading, adding, removing and unloading find no open handle and overlap
nothing.

Two history variables say what the properties are about.  `raced` is set when
IRPs of two handles overlap, after which blocks are freed twice and leaked and
the device plays unconfigured: nothing is promised then, and `OneOwner` and
`PlayingIsConfigured` say what holds before.  `overlap` is set when a routine
starts while another runs.  `AloneIsAtomic` says that a routine for which it was
not is exactly one `Ac97Driver!Next`, over the state when last nothing ran
(`rest`), whatever earlier overlapping routines left: it ties the two models
together and justifies the single steps of `Ac97Driver` for a client that sends
one request at a time, as the shell does.  Things that do happen in the model:
a START_DEVICE that runs while a handle's IRP selects a register may take
the device for one without codec (`IoBase` 0 with a codec present), and a STOP
that overlaps a CONFIGURE may leave the DAC powered.

### `Player`

`Player` composes the client with the driver: `Driver == INSTANCE Ac97Driver`
over the same variables, and every call on the device is the driver's action
conjoined with the client's.  `pc` is where the shell's thread is, `caller`
whether the menu or the command line started the playback.  A read of the
keyboard returns one event, a press or a release, as `RtlCliGetChar` does; in
the shell loop a line is completed by Enter and is any of the commands.
`AudioInit` has two outcomes: the device opens, or the self-install fails or
succeeds, after which the function ends without a return statement, which is any
status (it can only succeed where `SelfInstall` can open its file).  A read of a
video file may fail at any time.  Offsets are ULONGs (`Wrap`).  History variables
remember what the properties compare: handles lost by `AudioInit`, whether this
playback installed the driver, whether PnP stopped the device.  No step of a
playback reads the keyboard, although line 118 of `main.c` says "Press Escape to
stop...": a key pressed then is read by the menu afterwards.

### `LineInput`

One action per keyboard event, running `RtlCliGetChar`, the translation and one
turn of the loop in `RtlCliGetLine`.  `Line` has an entry for every index a CHAR
can have, negative ones included.  `display` is `DisplayBuffer` up to `LinePos`
with the screen row the cursor is in, its column, and whether the line begins in this
row or in one above (`begins`): the screen has `Columns` columns, text goes on in the
next row, and '\r' returns to the first column of the row it is in.  `text` is what the
keys amount to when edited ideally.  The prompt is the current directory, whose
characters (`PathKeys`) may be ones the line cannot hold.

Between two lines a command runs.  One of the shell's own may read keys itself
(`AwaitKey`); a program gets the keyboard (`RunProgram`), which the shell closes, so that
any key may be down or up afterwards without the shell having read it, while
`dwControlKeyState` is a static that keeps its value.  `stale` remembers that, until the
next event of a shift key.

### `CommandLine`

What becomes of the characters of a line.  `Line` keeps what is behind a shorter
line, as in `input.c`; `CommandBuf` is the copy `StringToArguments` cuts tokens off
in place, one turn of its loop a step; `argv` are indices into it, and
`Arguments` the strings there when the command is chosen.  `RtlClipProcessMessage`
is the choice: a command word matches any longer name that begins with it
(`Is`, `_strnicmp` with the word's length: "cdrom" is `cd`); four commands stand for
all, one for each way of taking arguments.  `request` is what the command asks of
the system, with its paths.  `cd` takes what is behind the third character of the
line, so that a bare `cd` takes the rest of an earlier line; `dir` puts the current
directory before any argument, absolute ones too; " exit" matches the word and does nothing, while "exit"
is compared with the line.  `DriverDosPath` is the path `AudioWriteDriverToFile` puts together: the
search for the root of the drive finds the backslash `\??\` begins with, so the current
directory is replaced altogether, and what is left after four characters are taken off
is `dows\System32\drivers\BadAppleAudio.sys`.  `NtFileOpenFile` puts `\??\` in front of
it, and Windows defines no DOS device `dows`: neither open succeeds, in no directory.
The 256 arguments `xargv` holds cannot be reached by a line of 128 characters
(`NUM_ARGS` is 3 in the run, so the limit is taken).

### `HardwareTree`, `SelfInstall` and `Shell`

`HardwareTree` is the devtree listing: `frames` is the stack of
`RtlCliListSubNodes` calls, and `Current` of a frame says which buffer it points
to, the caller's `FoundChild` or its own `FoundSibling`.  Devices are numbered in
depth-first order and `last` is any tree over them.

`SelfInstall` is `AudioInit` when the device cannot be opened: open the file for its
size, create it, write it, create the service key, each refused at will, with a
restart between any two.  The file is always `\??\dows\System32\drivers\...` (see
`CommandLine`), which can only be opened where something has defined a DOS device of
that name: `dows` says whether, and without it the self-install gets no further than
the second open.  `file` is absent, partial or whole; what is partial is not taken for
the driver, since its size is compared.  A write is on the disk when it returns.  The
key is created only after that; a later attempt may still overwrite the file and be
cut short, so `KeyAfterDriver` is about the step that creates the key.  The key's
`ImagePath` names another file, in `\SystemRoot`, which the self-install does not write.

`Shell` composes both with the commands that hold handles, wait or page: running
a native program, `dir`, `lm`, `lp`, `devtree`, `badapple` and `shutdown`.  `pc` is the call the
shell makes next, `held` what the command has open and loses when it returns (an
event always; the directory and the block too when the listing is left with 'n';
the block of `lp`); at each step of a listing it is exactly what the step uses
(`TypeOK`).  `list` numbers the entries of a listing: `block` are those returned and not
yet displayed, `shown` those displayed, `since` how many of them since the user was last
asked.  `runtime` is the printf the program is linked with: with the
native one the first entry of `dir` and the second process of `lp` fault, since
their formats have flags and `%lx`.  The reopening of the keyboard after a
child ignores its failure and leaves a handle nobody initialised (`garbage`); a
program that is not for the native subsystem stays suspended.  Every device is
assumed to have a description in the registry.

### `Format`

`RtlCliDisplayString` with `native_vsnprintf`: one turn of its loop over the format is a
step, an item of the format a character or a conversion.  `buf` is the block,
`garbage` where nobody wrote.  A conversion that is not supported takes no
argument, and a word taken for a string that is no address faults (`dead`).
`TextDisplayed` compares with a reference that computes the whole text (`Whole`, with
`Numeral` the shortest row of digits of a value).  A caller passes an argument for each
conversion (`CallsAssumption`), of whatever type.  The definitions of its specification
are named apart from those of `LineInput` (`FormatSpec`, `stage`), so that one module
can prove things about both halves of the console.  Text that needs the last byte but
one of the block is displayed with a byte nobody wrote there, since the loop
stops storing one byte early; a text as long as the block or longer is terminated
behind it (`Terminate`), wherever the count of its characters has got to: `buf` then
has an index past the block and the heap is `damaged`.  On a damaged heap every
following allocation or free may fault (`HeapCall`), the first of which is the next
thing `RtlCliDisplayString` does.

### `Installer`

One action per call of `installer.c` that changes the machine, in program
order, each with its failure: the copy is two steps, since `CopyFileA` truncates
its destination first.  The files are numbered in the order they are copied,
`native.exe` first and `System32\drivers\BadAppleAudio.sys` last (`DriversSys`);
0 is `installer.exe`.  The machine may lose power between any two steps, and
boots from what is on the disk.  `hurt` remembers the failures the code went on
after, so that a property can say what holds without them.  They are those of the
attempt at hand: of earlier ones `WinMain` keeps only what still matters
(`Outstanding`), an armed boot over overwritten or deleted files and a bcdedit command
that is still running.

### `Files`

The commands copy, move, del and md.  `pc` is the system call the shell makes
next; a command with its arguments is one step (`RtlClipProcessMessage`, with
`FileExists`, which takes a directory for a file), and each call of `ntfile.c`
is one, with its refusal.  `open` is the handles held; closing them is part of
the step that returns.  A file's contents are a sequence of units, of which a
read returns at most `Chunk` and a write may take fewer than it was given.
`launcher.c` starts the shell beside a running Windows, so `OtherProgram` may
change any name between two calls, except those a copy holds: `NtFileOpenFile`
asks for no sharing (`Exclusive`).  `NtFileMoveFile` shares reading and writing,
so a file that is about to be renamed can still be written.

External: the file system and the other programs.

## Runs

| Run | Shows |
|---|---|
| `ac97driver` | every order of PnP events, opens, closes and IOCTLs of two handles keeps one owner of the block (`BufferOwned`), a playing device is set up for its stream (`PlayingIsAudible`), and the driver implements `PcmSink` (`ImplementsSink`) |
| `installer` | a boot that runs `native.exe` finds it whole (`BootSafe`), and what is reported done is done, each part of it unless this attempt's own call at it failed (`UninstallRestores`, `InstallComplete`), whatever failures and crashes came before |
| `player` | the player's flags, handles and the driver agree (`TypeOK`, `HandlesAccounted`, `ActiveMeansPlaying`), nothing plays afterwards (`SilentAfterPlayback`), data accesses stay inside (`ChunkWithinAudio`, `FramesInOrder`); a playback ends and returns to its caller (`PlaybackEnds`), and the device comes to rest after the shell's exit (`ExitReleases`) |
| `line_input` | `DisplayBuffer`, `Line` and the typed text agree, and the screen with them while the line is in its first row; shift does not stick, unless its release was lost to a program, and then not past the next event of a shift key |
| `files` | handles are closed on every way out (`TypeOK`), a copy that ends well is its source (`CopyFaithful`), no copy harms its source (`SourceKept`) and no move loses a file (`MoveLosesNothing`), with any call refused and other programs on the same disk |
| `ac97irps` | routines interleaved access by access: one owner of the block (`OneOwner`) and no playing device that is not configured (`PlayingIsConfigured`) while the IRPs of two handles do not overlap, and a routine that runs alone is a step of `Ac97Driver` (`AloneIsAtomic`) |
| `command_line` | whatever line, the arguments are the line's (`ArgvIsTokens`), and the line outlives its splitting, so that `cd` finds in it the argument `argv` has (`LineKept`) |
| `shell` | the keyboard is handed over and back (`KeyboardHandedOver`), listings show each entry once, in order, and ask at each full page and only there (`EntriesShownOnce`), and each listed device in order at its depth (`TreeShown`), the service key follows a whole driver (`KeyAfterDriver`), and every command returns (`CommandReturns`) |
| `display_string` | conversions that are supported and fit their arguments display the text they stand for up to the end of the block, and fault only on a heap that a text longer than the block has damaged (`TextDisplayed`, `MessageTypeOK`) |

Three runs each show one disagreement between the code and what it says of
itself; PROJECT.json quotes the lines.

| Run | Disagreement |
|---|---|
| `player_chunk` | every frame is sent with the next frame's audio |
| `command_line_driver` | the self-install opens `\??\dows\System32\drivers\...`, not the file in `System32\drivers`: no driver is written |
| `shell_devtree` | the device tree listing skips every second sibling |

Disagreements of the same kind that the models contain but no run is spent on:

* driver: rates between 65536 and 96000 pass CONFIGURE and are cut to 16 bits for
  the register (`Word`); a stereo stream feeds the left port only
  (`Ac97FeedSamples`); without a codec the IOCTLs succeed on ports based at 0,
  although line 386 says that they will fail gracefully;
* installer: the exit codes of bcdedit are dropped before it reports signature
  enforcement disabled; a failure to restore the boot value is ignored before a
  normal boot is promised; `installer.exe`, which RUN.txt:48 has the user run from
  the install directory, is copied by nothing; the uninstallation leaves
  `System32\drivers\BadAppleAudio.sys` and its service key;
* player: a self-install neither loads nor opens the driver, as `audio.c` line 9
  says it does; About closes on the release of the key that opened it;
* line input: at 128 characters the position leaves the line, and backspace with
  it (`wrapped`); `input.c` line 216 says of the backspace that it redisplays the text,
  but in a line that has reached a second row of the screen it leaves the longer one
  above and shows the shorter one again below it (`begins`);
* files: a rename that was refused is reported as done; a copy of an empty file
  fails, since the loop reads before it compares, and leaves an emptied
  destination;
* shell: with the native printf `dir` faults at its first entry.

### Bounds

* Driver: two handles, since the code has one extension for any number and the
  interesting case is a second one; two blocks, since a block is allocated after
  the old one is freed; requests on both sides of each range check and one that
  does not fit 16 bits; write sizes one, odd and even.  Handles and blocks are
  symmetric.  No counter is bounded: the state space is finite.
* Installer: three files (the program, one data file, the driver) stand for the
  five, since all but the first and last are treated alike; both settings.
* Player: two handles, so that one can be lost while another plays; one block; a
  video whose audio offset wraps (`Wrap` 8, chunks of 2, 5 frames), audio with a
  partial last chunk, files that are truncated, too large for the frame buffer,
  or not a video.  The user's typing between two reads of the menu is not
  queued: a read returns any event that can come next.
* Line input: CHARs of `HalfChar` 3, so that lines pass the wrap within
  `MaxTyped` 6 characters; a screen of 5 columns, so that a line of that length is in
  its second row; one letter with two cases.  No key
  of the run is without a character (such a one does to the line what a shift key does).
* Files: three names, so that a bystander exists beside source and destination
  (symmetric); a file is empty, shorter than one read, or a whole read and a
  short one (`Chunk` 2), which takes the loop through a full, a partial and a
  failing read, and every write through every shorter length.
* Driver by access: two handles and the PnP manager, one valid and one refused
  request, `MaxIrps` 4: an IRP that leaves the state behind, two that
  overlap, and one that runs alone afterwards.  Clients may stop, so the run does not check deadlock.
* Command line: lines of every content up to `MaxLine` 5 characters over a
  space, both quotes, a colon and two letters, of which the words are made, typed one
  after another into the same buffer; three current directories on two drives.
* Shell: pages of 2 and directories of up to 5 entries, so that a page ends with,
  before and behind a block; trees of 4 devices, all of them.  A fault ends the shell, so deadlock is not checked.
* Display: a block of 9 bytes, words of 6 bits, messages of up to three items and
  two arguments, so that text ends before, at and behind the end of the block,
  and numbers have one and two digits and a sign.  A fault ends the program.

### Fairness

`player` assumes weak fairness of the playback's steps (the shell's thread is
runnable and nothing in a playback waits for another thread: the driver completes
every IRP in its dispatch routine) and of the handle rundown (the kernel's).  The
user and the PnP manager are never required to act.

`shell` assumes weak fairness of the steps of a command, for the same reason, and
of the user's answers to a listing, as long as the keyboard is open: a listing
waits for them by design.  Nothing makes a child process end, and `CommandReturns`
says so.

## Proofs

`Ac97Driver_proofs` proves for any handles, requests, write sizes and blocks that
the type invariant, `BufferOwned` and `PlayingIsAudible` hold, from the named
assumptions on the constants.  None of the last two is inductive alone: the
inductive invariant adds (`Placed`) that a device that does not exist has a zeroed
extension, that handles are open only on a device that was started, and that its
`IoBase` is then where the codec answers when there is one.  The proof has one step
per dispatch routine; the register sequences are lemmas about what a list of
`Poke`s leaves.  `Implements` maps each action to a step of `PcmSink` or a stutter.

`Ac97Irps_proofs` proves `OneOwner` and `PlayingIsConfigured` at every access, for
any handles, requests, blocks and number of IRPs.  A routine is a sequence of
accesses of which only a few matter, its marks: the pool, `WriteBuffer`, `Playing`,
`Configured` and the return.  The first lemmas say what concatenation and taking
the first access do to the marks and which marks each routine has, the poll loop
included; what may be left of a routine is then one of 13 lists of marks.  The
invariant (`IInv`) gives each list its condition: no block is allocated between the
free and the next store to `WriteBuffer`, and otherwise the pointer owns the only
block; playback is off while `Configured` is still to be cleared, and the device is
configured when only `Playing` is still to be set.  A step of the PnP manager
preserves a handle's condition because all it does to the flags is clear `Playing`.

The type invariant of `Ac97Irps` needs the shape of what a thread has left (`Typed`):
a routine, that is accesses followed by one return.  That the ports keep to sixteen
bits is then arithmetic of the two bits the driver sets and clears (`BitLemma`), and of
the powerdown register, which keeps a multiple of 16 beside its status bits.

That `AloneIsAtomic` holds for any constants is the argument that a routine of some
thirty accesses, with a loop and two early returns, is one step of `Ac97Driver`.  It is
made as in a logic of programs: `Goes` is one access of a thread that runs alone,
`Safe(D, size)` the largest set of states of a routine that no access leaves and whose
returns all lie in `D`, and `Triple(D, size, P, s, R)` says that the accesses `s` lead
from `P` to `R`.  Triples of single accesses compose (`TripleConcat`) to triples of the
register routines and of `Ac97Reset`, whose poll loop needs a set closed under another
round, and these to one lemma per routine (`CreateSafe` to `ConfigureSafe`): begun at
rest, it can only return where the action of `Ac97Driver` ends.  The invariant (`Alone`)
says that as long as nothing has overlapped, the one thread that runs is in
`Safe` of what its action allows from the state at rest; `EndsNext` then turns the
return into that action.

`Installer_proofs` proves every property of the run `installer` for any
number of files and any settings, and that an installation that ends in an error
has left the boot value alone (`FailedInstallKeepsBoot`).  The invariant says how much of the
installation is on the disk at each `pc` (`InstallProgress`), that past the first
steps of an uninstallation the boot is restored or known to be hurt
(`UninstallProgress`), and that no message is shown while a run is under way
(`RunProgress`).  `UninstallRestores` and `InstallComplete` need a second invariant
(`Settled`): what a call of this attempt leaves, unless it is known to be hurt, stays
until the run ends, and a bcdedit command that is still running is a hurt one.

`Console_proofs` proves every property of the run `line_input` for any keys, prompt,
width of the screen and of a CHAR, and number of characters.  The invariant joins the
type invariant and the screen (`ScreenShowsBuffer` is needed to see what `Erase` does)
with `AtRest` (between two lines nothing is on the row) and the properties
themselves.  The lemmas say what `Overwrite` leaves of a row, that a drawing which ends
in the first row has begun there (`DrawLemma`), and that the two redraws of `Erase` give
the buffer less its last character, on the screen only while the line is in that row
(`EraseBuffer`, `EraseLemma`).

It also proves the two properties of the run `display_string`, for any size of the
block, range of an int, characters and calls.  The digits `fmt_utoa_dec` collects from
the last one on denote the number without a zero in front (`DigitsDenote`), and a row of
digits that does so is these (`RowsOf`), so that they are the reference's numeral, and
`fmt_itoa_dec`'s negation is right for the least int (`ItoaLemma`).  The invariant
(`MessageInv`) says which items and arguments are left, and, if the format matches, that
the text of the items read is in the block as far as it is kept (`Stored`).
`ConvertLemma` relates each conversion to its text, `EndLemma` says where the text
displayed ends in a block that is too small or just large enough.  Assumed of the constants is that no
character is the Nul, that no string is at address 0, and that `MaxDigits` digits are enough for every word.

`Player_proofs` proves the player's type invariant and every safety invariant of
the run `player`, for any handles, blocks, videos, audio length and wrap of the
offset.  What makes them inductive is `Phases`: audio is active only from the
accepted CONFIGURE to the cleanup, and the device plays no longer than until the
first STOP; and `DriverPlaced`, that handles are open only on a device that was
started, so that neither a removal nor a new device can touch the stream of an
open one.  Each call on the device has a lemma saying what it leaves for the
client to see, and `PnpLemma` says that the PnP manager changes the stream of an
open device only by stopping it.

`Files_proofs` proves every property of the run `files` for any names, contents
and buffer size.  The invariant (`Progress`) says how far the copy has come: its
two files differ, what was written is the beginning of the source, and what is in
the buffer is what comes next; that no other program can disturb it is the
share mode's doing (`OtherProgramStep`).

`Shell_proofs` proves for any numbers of devices and entries, and any sizes
of a page, the type invariant and every other property of `Shell` but the liveness one.
The invariant has a part for each of
them: `Keys` says that the keyboard is closed exactly between the start of a
program and the reopening, `Entries` that the entries up to some number are
shown and the block has the others that were returned, that nothing of it is left at a
query, and how the code's counters and what the user has seen since the last answer
belong together, which for modules is arithmetic of remainders (`RemainderLemma`), `Installing` that the self-install comes to the key with a whole file,
and `Tree` that there is a frame for every level of indentation.  What `TreeShown`
needs is `Walk`: the frames on the stack are about devices
each an ancestor of all the inner ones, as deep as their place in the stack, and
everything listed is before the device a frame is about to print, and not behind the
subtree of one that waits for its recursive call.

`CommandLine_proofs` proves every property of the run `command_line` for any
characters, command words, directories, length of a line and number of arguments.
The reference (`Lexed`) reads a line a character at a time, the code a token at a
time and in place, so the invariant (`Splitting`) joins them between two tokens:
the reference has read the line up to `string`, is between two arguments there and
has found those `argv` points to; each of these is closed by a Nul before `string`,
which is why cutting the next token off cannot change it; and from `string` on the
copy is still the line.  `TokenLemma` is the induction along a token, `TokensGrow`
says that arguments found stay, which is what is needed when the 256th fills `xargv`.
`LineIsKept` then reads the arguments of a line `cd name` off the reference.
What the theorems assume of the command words holds of the four in `main.c`: they are
not empty, none begins another, and `cd` has two letters.

Inductions over data (how far a recursive function has got, the end of a loop over
an array) are made with sets: the least element of the set of counterexamples
(`Least`, from the library's `WFMin`) cannot exist (`Upwards`), as the induction
theorems of the library take an operator as a parameter and cannot be used.

Only model-checked: liveness (`PlaybackEnds`, `ExitReleases`, `CommandReturns`), which is
out of the prover's reach.  Every other property of every run is proved for all values
of the constants.

## Not modelled

Power IRPs beyond their status; the device stack below the driver; the contents of
frames and samples; time (a playback's pace, the 30 s wait is only "may be over
before the command is"); reads of the keyboard that fail; the unused code of
`installer.c`; the commands that only print (sysinfo, locale, help, vid, drawtext)
and `gfx.c`, which keep nothing; `ntreg.c`, which nothing calls; `launcher.c`, which starts one process and ends;
`DisplayBuffer`'s 1024 entries, which output without a new line could exceed; fps 0
in a header, which `convert.py` does not write and which divides by zero before the first frame; the tools.

Most lines of the repository are the NDK headers under `NativeShell/ndk`:
third-party declarations of kernel structures and calls, without code.  There
is nothing in them to model, so the share of lines the modules map stays small.

## Plan

1. `Ac97Irps` with the lock taken: which of the atomic model's invariants it
   restores, and that it implements `Ac97Driver`.
2. `System`: installer, boot, and the player's self-install on one disk.
