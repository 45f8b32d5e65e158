# A verification development for ffmedia_release

TLA+ models of the programs in this repository, checked with TLC and, for the
core, proved with TLAPS.  `PROJECT.json` lists components, runs, mutants, the
map from definitions to source lines, hazards, findings and theorems.  This file
says what the parts are, what is modelled, and what the checks and proofs show.
Paths without a directory are under `src/demo/`.

## 1. Inventory

The repository ships a binary media library (`lib/`, headers in `include/`) and
programs built on it.  Two of them, the communication service and the capture
program, run unattended on a recording device; with the player and the
inference demo they carry the repository's own logic:

| Component | State | Operations | Talks to | What must hold |
|---|---|---|---|---|
| Communication service (`demo_comm.cpp`, `netHandler.*`, `ttyHandler.*`) | two handler objects (fd, packet, `workFlag`, thread), heartbeat thread and flag, packet counters, output file and line count | start, stop, delete; frame loop of each handler; heartbeat; responses; commands (`poweroff`, `systemctl`, `nmcli`) | serial port (STM32), UDP (remote end), `messageQueue`, signals, the capture service | no thread outlives its object, stop returns, nothing is run after stop, files bounded |
| Message queue (`demo_comm.hpp`) | a queue, a mutex, a condition variable | push, pop, empty | pushed by the serial worker | what is put in is sent on (it is not: section 5) |
| Configuration of the service (`ini.c`, `demo_comm.cpp`) | section, last name, `DemoConfig` | read a line, set a value, make the handlers | both handlers | a value is set by its own lines alone |
| Serial frame reader (`ttyHandler.cpp`) | buffer, place in the frame | find the header, read by length, CRC | serial port | after a silence the reader is in step again |
| GPS time (`ttyHandler.cpp`) | system clock, `gpsFile` | step or slew the clock, rewrite one line | the clocks every other part reads | the clock stays near the GPS time |
| Network messages (`netHandler.cpp`) | message records | collect temperatures and capacities, CRC | `/sys`, `statvfs`, `smartctl` | fields fit their widths |
| Capture program (`osd.cpp`, `demo_osd.cpp`, `system_common.cpp`) | `event` bits, `work_flag`, time stamps, file name, encoder, disc | frame callback, osd thread, rotation, recycling, start, stop | rga thread, encoder, writer, file system, signals | a request is carried out exactly once, shutdown is orderly, recycling ends and takes the oldest |
| Configuration and pipeline (`osd.cpp`) | `OsdConfPara`, the modules made so far | parse a line, make a module or do without | configuration file, media library | the last line of a setting counts; no half-made module is left connected |
| Text on frames (`osd.cpp`) | `osd_text`, mtime, cached values | refresh, draw | text file, `smartctl` | never draws what is not there |
| Capture script (`ffmedia_capture.sh`) | child pid, GPIO level, duration | launch, watch GPIO, SIGTERM with retries, poweroff | capture program, systemd | the recording is closed before the power goes |
| Inference demo (`rknn/src/demo_rknn1.cpp`) | `pts`, result buffers, two condition variables | two callbacks | inference and rga threads of the library | boxes are drawn on their own frame |
| Post-processing (`rknn/src/postprocess.cc`) | pure | threshold, sort, suppress, clamp | inference demos | no detection twice, none lost without a reason |
| Player (`demo.cpp`, `utils.cpp`) | options, instances with their modules, window grid, files | parse, build, start, save, stop, close | library | windows do not overlap, the output is what was asked for, saved pictures are whole |
| Multi-window and small examples | pipelines | set-up, teardown | library | - |

How they meet: a UDP frame makes the communication service start or stop the
capture service with `systemctl`; systemd sends SIGTERM to the capture script,
which sends it to the capture program.  GPS frames set the clock that names the
recordings and orders them for deletion.  Inside each program the parts share
objects between threads: flags without a lock, one mutex and condition variable
per program, and the media library's callbacks.  The configuration is read once,
before the threads exist: `CommConfig` ends where `TtyReader` and `CommService`
begin, `OsdPipeline` where `OsdRecorder` and `OsdText` do.

What is hard: every program creates its threads before it blocks the signals;
objects are deleted by one thread and used by another; flags are tested once per
turn of a loop and acted on later; waits have a timeout and no predicate; the
file system fails at the moments nobody tries.  In the sequential parts it is
streams that stay failed, keywords left over from an earlier line, modules that
fail half-way through a set-up, and sizes that are rounded, turned and padded.
The list with lines is under `hazards`.

## 2. Modules

| Module | Models |
|---|---|
| `CommService` | `main`, both workers, the heartbeat thread, signals, queue, output files |
| `CommServiceProof` | its invariants, for all parameters |
| `FileRotation` | abstract: what a recorder promises about its files |
| `OsdRecorder` | `main`, `ModuleOsd::start/stop`, `osdProcess`, the request of `osdHandlerCallback`, the free-space functions; refines `FileRotation` |
| `OsdRecorderProof` | its invariants and the refinement |
| `OsdText` | `handletEtcText`, `readFileLines`, the drawing of `osd_text`, and who edits the file |
| `OsdTextProof` | its invariants |
| `StreamRead` | what `stream >> field` does to a sequence of fields |
| `OsdConfig` | `parseConfFileInfo` and the parsers of `osd_parsers` |
| `OsdPipeline` | `ModuleOsd::init` after it; extends `OsdConfig` |
| `OsdPipelineProof` | its invariants: the graph, the rectangle, the last line of a setting |
| `CommConfig` | `ini_parse_stream`, `handler`, the setters, and the handlers `main` makes |
| `TtyReader` | `TtyHandler::process` as a reader, `processGpsInfo`, `writeStringToLine`; extends `CommConfig` |
| `TtyReaderProof` | its invariants: the frame after a silence, the clock, the settings |
| `FrameDump` | `dump_videobuffer_to_file` |
| `FrameDumpProof` | what it writes is the picture, for all sizes and strides |
| `Player` | `main` and `start_instance` of `demo.cpp`; extends `FrameDump` |
| `PlayerProof` | its invariants |
| `PostProcess` | `process`, `quick_sort_indice_inverse`, `nms`, `post_process` |
| `RknnSync` | `callback_inf` and `callback_rga`; extends `PostProcess` |
| `RknnSyncProof` | its invariants; that the results of `post_process` are sound, for every picture |
| `MC...` | instances for TLC |

### CommService

`mainPc` is the place in `main`: start the serial handler, start the network
handler, return if there is neither, block the signals, wait, then stop, join
and delete, network first.  For each handler `worker` is the place of its thread
in `process()`, `workFlag` and `handler` the flag and the object.  The network
worker owns `hb`, the heartbeat thread, with its own flag.  A step ends wherever
another thread can look: the test of `workFlag`, the read of a frame, the save,
the dispatch, the push and the count (two steps), the response, clearing the
heartbeat flag, the join.  A handler that is disabled, or whose `init()` failed
and which was deleted at once, is `"null"` in either case.

`SignalDelivered` is the kernel: a signal sent to the process goes to `main` in
`sigwait`, else to any thread that does not block it, whose default action ends
the process; else it stays pending.  Workers inherit the mask of the time they
were created, before `sigprocmask`.

Frames arrive whole and checked; a rejected or partial frame is `ReadNothing`.
The contents are one of a few kinds, those the dispatch tells apart.  Opening
the output file may fail, and the write after it may fail unnoticed, because
`writeStringToFile` tests one stream and writes to another.  A rotation takes any
of `Names` (`TakeName`): `ptsToTimeStr` makes it of the time with milliseconds, so two
rotations in one millisecond, or after the clock has been set back, take the same
name, of one handler or of both when their patterns agree, and the file is appended
to (`AppendLine`).  `begun` counts how often a name was taken, `fileLines` the lines in
its file, and `FilesBounded` is about the two.

### OsdRecorder and FileRotation

`osd` is the place in `osdProcess`.  A critical section of `event_mtx` is one
step; the wait is left by a notification, by the timeout, or for no reason
(`WaitTimesOut`), and the bits are evaluated once afterwards, as in the code.
The rotation is four steps with the encoder stopped in between; the recycling is
a loop of `TestFreeSize` and `RemoveOldest`.  `Frame` is the end of the frame
callback, which sets the bit of a rotation under the mutex.  `stop()` is six steps
of `main`.

The disc is a set of recordings with their modification second.  `Free` counts
files: a removed file the writer has open keeps its room.  `SystemFree` is what
`getSystemFreeSize` returns, 0 when the directory does not exist.  `Write`
(external) is the writer storing a packet.  `fMaxDuration` is computed in 32
bits with wrap-around.

`FileRotation` knows a number of requests owed, a number of files, and whether
the recorder is closing.  The mapping counts as owed the bit in `event` and a
rotation under way (`Owed`); the fairness version adds that a request is
carried out unless the recorder closes.

### OsdText

`at` is the place in `handletEtcText`, called once by `init()` (`started` is
false) and then in each turn of the osd thread: compare the time and store it,
open and read, replace `osd_text` under `text_mtx`.  `DrawText` is the drawing of
a frame under the same mutex, by the rga thread.  A text is its number and its
length, so a line tells which text it is from and a mixture would show.  The
configuration (`hasDev`, `hasEtc`) is chosen in `Init`, so each run covers all
four.  `EditFile`, `RemoveFile` and `Tick` (external) are the world; truncating
is an edit to no lines.  `stat` and the opening may fail with the file there; a file
that cannot be opened after its time was stored is `lost`, a history variable, until
the time is stored again.  Reading element 0 of an empty `osd_text` is a read
through a null pointer, because an `osd_text` that was ever filled is never
emptied: the process ends (`"crashed"`).  The reading is one step, as it is for
a file that fits the stream's buffer.

### RknnSync

`pts` and `memFrame` are the published time stamp and the frame whose result is
in `output_mems` (-1 while the model overwrites it).  Frames are numbered; either
side takes any later frame, since the library may drop frames between modules.
Either wait may end by itself, after 3000 ms or for no reason; the history
variable `timedOut` remembers that one of the inference's has.
`PicturesOf(n)` are the contents `output_mems` may have when it holds the result of
frame `n`, and those it may have while it is overwritten: `DetectionsSound` asks of
all of them what `post_process` makes of them.

### StreamRead, OsdConfig and OsdPipeline

A word of a configuration line is a number or `NaN`.  `ReadNumbers` has the two
rules that matter: an extraction with no word left leaves its field, one that
meets something else than a number stores 0, and after either nothing more is
stored.  `Micros` is `*= 1000000` in an `int`.

`OsdConfig` reads the file line by line: `strFail` is the failbit `getline` leaves
after a line of 512 characters, after which the loop never sees the end of the
file (`SpinOnFailure`); `temp` keeps the last keyword, which a line of blanks
uses again.  `para` has the fields of each key.

`OsdPipeline` then makes the modules one after the other.  `Required` is a module
whose failure ends `init()`, `Optional` one the program does without, with its
`removeConsumer`.  `consumers` are the edges the library knows, `members` what the
class keeps.  Whether a module fails, whether the camera needs a decoder, and
the sizes of plane and picture are chosen.  The text that `init()` sets is in
`OsdText`, the recording that follows in `OsdRecorder`.

### CommConfig and TtyReader

A line of the ini file is its kind, its indentation, a name and words.  An
indented line goes on with the last value, and then the whole line is the
value (`Continuation`).  `MakeTty` and `MakeNet` succeed or not where the
configuration lets them.

The serial line is a sequence of bytes and gaps; a gap is a silence longer than
`readn`'s timeout.  `rd` is which of the reads of `process()` is next.  A byte that
fails the header test is gone, a length that cannot be right drops the frame,
and a frame with the wrong check sum is read to its end and dropped.  The CRC is
an operator parameter.  A GPS frame (`ProcessGpsInfo`) writes its position to one
line of the GPS file and sets the clock: above `timeDiff` it is stepped, unless
`settimeofday` fails and leaves it where it was (`refused`, a history variable); above
half of it `adjtime` is called with the absolute time, which it refuses, so
nothing happens.  `mktime` takes the time for local time and the program adds
28800 s; `Zone` is how far local time is ahead, and the property supposes UTC+8.
`taken` is a history variable: where in the stream accepted frames began.

### Player and FrameDump

`Player` goes through the options, makes the instances, builds each one module
by module (`Stage` passes its pictures on, `Sink` ends the line; either may fail
and lead to `EXIT`), starts the sources, and on `q` or a failure stops those that
exist and closes their files.  `para` of an instance is what it passes on, `from`
what the source gives.  `Frame` is the callback in a source's thread, at any
moment between `start()` and `stop()`.  An exit from within `start_instance`
(`stat` fails) is `"gone"` at once.  `Window` is the place of an instance in the
grid.  The indices of the file names are not modelled.

`FrameDump!Dumped` is the sequence of places in the buffer whose bytes are
written, per format, with strides.  The reference is `PictureBytes`, the bytes
that are picture in the V4L2 layout.

### PostProcess

Operators on a picture, without state of their own: the cells that pass, their
order by the quick sort with its moving hole, the suppression per class, and the
results, clipped to the model's input and scaled to the frame (`Place`).  A loop is a function from the number of its turns to what is
there after them, and the sort one from the depth of the calls, so that all of it
can be proved about.  Confidences and positions are integers, and the
division by `scale_w` and `scale_h` is that by the quotient of `CropSize` and
`FrameSize`, without the rounding of `float`.  The product of two
confidences stands for that of their sigmoids; the proofs use only that it is a
number.  The sort moves the probabilities and `indexArray` but
not `classId`, and `nms` looks the class up by place: so it also suppresses across
classes.  Likewise `post_process` takes the probability of a result by place and its
box and class by index; that the two belong together is part of `ResultsSound`,
with what is left of a correct suppression.

## 3. Runs

Each property of a passing run has a mutant in `PROJECT.json`: a plausible bug
in a mapped definition, written in the module as a variant beside it, that
breaks the property.

| Run | Question | Bounds |
|---|---|---|
| `comm_safety` | Do threads, objects, files, counters and commands stay in order, whatever the interleaving? | unlimited frames but GPS and device packets, 1 signal, 2 lines per file, 2 names for both handlers, frames to save are read until 2 rotations (a frame the other handler has by then may make a third) |
| `comm_liveness` | Does the stop end? Does `poweroff` end the program? | 1 GPS and 1 device packet, unlimited other frames, 1 signal, no files saved |
| `osd_recorder` | Wake-ups, requests, teardown, recycling order, refinement of `FileRotation`; is every request served, does `stop()` return, does recycling end, does it remove only for room? | 7 frames, a rotation asked for at every second one, disc of 4 files, 2 old ones, 2 wanted free, 3 seconds, 1 signal, the directory may fail |
| `osd_text` | Is what is drawn a whole text, never an older one, the device string always there, and the last text drawn in the end? | texts of up to 2 lines, 3 texts, 3 seconds, all configurations; `stat` and opening may fail |
| `rknn_sync` | Can both sides sleep? Same frame, result kept, inference sent on; are the detections drawn sound? | 7 frames, with timeouts; all pictures of 1 to 4 of 7 cells (of up to 2 where `output_mems` is incomplete), 2 classes, at most 3 results; input 8 by 8, of which 8 by 5 are the frame, and frames of 12 by 7 |
| `osd_setup` | Does the last line of a setting count? Is the graph of modules sound, the picture inside the plane? Does `init()` return? | all choices of 9 optional lines, 6 display files, all files of up to 3 of 21 lines; any module may fail; 2 planes |
| `comm_input` | Are settings kept apart? Is a whole frame taken? Is the clock near the GPS time? | all files of up to 3 of 14 lines; streams of up to 3 noise symbols, a frame, a gap or none, a GPS or torn frame; 4 configurations, 2 clocks; `settimeofday` may fail |
| `player` | Are windows apart, outputs as asked, saved pictures whole? | 1 to 7 and 10 instances, every option, rotation and format, sizes around multiples of 8, padded strides, modules that fail anywhere |

Why the bounds are enough.  `comm_safety`: the threads share booleans and
files.  Two lines per file reach an empty, a partly filled and a full file; with
two names and two rotations or more the handlers have files of their own, share
one, and one takes the name it has again, at every place of the other.  GPS and
device packets, which only count, come in `comm_liveness`, one of each.  One signal
reaches every place of `main` (a second one adds only the death of the process,
which `comm_signal_mask` shows).  `osd_recorder`: the 7 frames ask for rotations often
enough for one to be under way, one pending, and one merged with the pending
one; the disc fills, is recycled and fills again; three seconds give the files
equal and different times.  `osd_text`: the reader holds at most one text while
another is drawn and a third is in the file, and three seconds let each be as
old as the time seen last or newer.  `rknn_sync`: the state depends on the order
of the frames of the two sides only; 7 frames let either side skip ahead more
than once; the crop is the whole of the input in one direction and less than
it in the other, and boxes end inside it, in the padding and outside the input.
`osd_setup`: a setting depends on the lines of its own key and on the
keyword and the stream left over, so three lines hold two of one key with any
third between, before or after them; the features are checked in all
combinations because each depends on what was made before.  `comm_input`: three
lines hold a header, a value and its continuation, or two headers and a value;
three symbols in front of a frame hold every way to begin a header, a length or
a gap, and the frame after it shows whether the reader is in step again.
`player`: up to seven and ten windows give full grids, rows that are not full,
and both ways the numbers of columns and rows may differ.

Deadlock is checked in all runs but the `rknn_*` ones, whose streams end: both
threads stop for want of frames.

Some properties name a condition under which they hold; without it the code does
something else, described in section 5.  For three of them a violation run shows what:
`RemovedForRoom` (the directory could be made) and `osd_statvfs`,
`FreshTextDrawn` (no two changes in a second) and `osd_text_stale`,
`SameFrameInTime` (no wait of the inference ended by itself) and `rknn_timeout`.
The other conditions are the code's own failures and limits: `FreshTextDrawn` also
supposes that the file could be opened after its time was stored, `ClockNearGps` that
`settimeofday` does not fail, and `DetectionsSound` puts a box on the frame only when it
ends in the crop.  `LastLineWins` and `InitReturns` leave out lines without a number,
values that overflow, lines of blanks and lines too long for `getline`: of the
hazards there they show how far they reach, not that the code survives them.

### Fairness

`CommService`: weak fairness for each thread: the scheduler runs a thread that
can run, `poll` returns within its timeout, `system()` returns.  No signal or
frame has to come, with one exception: after `poweroff` has been run the system
sends SIGTERM to `main` in `sigwait`.  `OsdRecorder`: weak fairness for `main`
and the osd thread; frames, writes and signals need not come.  `OsdText`: weak
fairness for the osd thread, and strong fairness of `StatFile`: while the time has
changed, `stat` does not fail for ever; frames and edits need not come.  `RknnSync`: the
rga thread runs while it has frames.  `OsdPipeline`: `main` runs, and no call of the
library blocks for ever.  Liveness of `StopCompletes` holds in both
programs when no second signal arrives during the stop (bounded by
`MaxSignals = 1`): a second one may end the process first.

## 4. Proofs

Everything is proved for all values of the constants, from the named assumptions
on them.  The assumptions say what the code or the library gives:

- `BoundsAssumption` (`CommService`), `ConfigAssumption` (`OsdRecorder`),
  `TextAssumption` (`OsdText`), `StreamAssumption` (`RknnSync`): bounds and sizes are
  natural numbers, the place of a name before the first rotation is none of the names,
  and the disc holds the files it begins with.
- `ThresholdAssumption` (`PostProcess`), `PictureAssumption` (`RknnSync`): the thresholds
  and limits are numbers, the crop has a width and a height, there is a class, and a
  picture is a sequence of cells.
  Their boxes have no negative size, because `process` makes it of a square and an
  anchor (`postprocess.cc:196-197`); where they lie is free.
- `FileAssumption` (`OsdConfig`): a file is a sequence of lines, nothing follows
  a word of blanks, and the numbers of `iImgPara`, `oImgPara` and `displayCorp` are
  not negative: the fields of `ImagePara` and `ImageCrop` are `uint32_t`
  (`include/base/pixel_fmt.hpp:11-41`), and their number is what the extraction
  makes of the word.
- `SizeAssumption` (`OsdPipeline`): planes and pictures have a width and a height.
- `ReaderAssumption`, `InputAssumption` (`TtyReader`): `GpsInfo` is longer than its
  first byte, the line brings bytes and gaps.
- `OptionAssumption`, `SizeAssumption` (`Player`): where the program parses a number
  there is one, and the library's frames fit in their strides; NV16 has an even
  width, because the format has one colour for two pixels of a row.

### The threads and the disc

`CommServiceProof`: `IInv` is `TypeOK` with three parts.  `Lifecycle` ties `main`'s
place, the object and the worker together (an object exists from start to
delete, its worker is joined before the delete).  `HbInside` puts the heartbeat
thread inside the network worker's `process()`.  `FilesCounted` says that the lines of
a file, with those each handler that has its name may still put there (`Left`), are
no more than dataFileMaxLines for each time the name was taken: the bound is
shared by handlers that do not know of each other.  None of the safety properties is
inductive without them: `NoUseAfterDelete` says nothing of a worker that
is `"done"` and an object that exists, so it could not be carried over a
`JoinWorker` and `DeleteHandler`.  From `IInv` follow `NoUseAfterDelete`, `CleanExit`,
`FilesBounded` and the action property `NoCommandAfterStop`.

`StopEndsInSteps` is how the stop ends.  `StopLeft` adds up the steps `main` has before
it and those that each worker and the heartbeat have at most from the moment they
are told to end, wherever that meets them.  It is at most 30, and every step of the
stop makes it less except those of threads not told yet and the coming of a
signal, which leave it as it is.  `WaitedForTold` adds that `main` and the network
worker join no thread that has not been told.

`OsdRecorderProof`: `IInv` has the life cycle of `main`, thread and source,
`EncoderFollows` (the encoder runs exactly when the source does, except in a
rotation), `Fresh` (nothing asked for before the source runs), `NoLostWakeUp`
and `RotationsRequested`.  One lemma (`RequestStep`) classifies each step of the
program as accepting a request, carrying one out, closing, or neither; from it
follow both `RotationsRequested` and `ImplementsRotation`.

A second invariant, `DInv`, is about the disc.  `FilesKnown`: a number names one
recording, none is newer than the clock, and the file the writer was last given
has the highest number.  `WriterKnown`: that file, once created, has the time
of the last packet.  `RoomShort`: between `TestFreeSize` and the removal room
stays short, because nothing else gives room back.  `RecordingRemovedLast` alone
says nothing of which file the writer will create, so it could not be carried
over `Write` or `ChangeFile`; with it `RemoveOldest` can give up the file being
recorded only when no other is older.  `RemovedForRoom` is an action property:
the proof goes through every step that takes a file from the disc (`RemoveOldest`
and, for a file that is written to again, `Write`).

`RecyclingEndsInSteps` bounds making room: `StepsLeft` is two steps for each recording
and the test.  The encoder goes on writing meanwhile, so the recording that the
writer has yet to create is counted from the start; `WriteCounts` is the lemma that
it adds none that was not.  `StopCompletesInSteps` uses `Rank`, the places of the osd
thread from one test of `work_flag` to the next: once `stop()` has cleared the flag
the thread only goes down, except in the recycling.

`OsdTextProof`: `IInv` adds to the properties that the lines just read are a
text of the file not older than `osd_text` (`ReadIsWhole`), that `osd_text` is
one not older than the last frame's (`OsdTextIsWhole`), and that the device
string comes first (`DeviceFirst`).  Without the chain drawn, stored, read, in
file, `NeverOlder` could not be carried over `SetText`.

`NoTextMissed` says that when the thread would not read the file if it looked now
(`Settled`), `osd_text` is what the file holds, unless it changed twice within a
second or could not be opened after its time was stored.  `FreshInv` needs two facts more: the time taken is not later than the
file's, nor that than the clock; and lines that are still to be stored are the
file's, or the time taken before them is older than the file's and it will be read
again (`ReadIsFresh`).  The second is why the code may take the time before it reads.

### The inference demo

`RknnSyncProof`: `NoMutualWait` is inductive by itself.  `SameFrameInTime` and
`ResultKept` follow from `HandOver`, which says that an inference that is not
waiting has a result the rga side is done with, until `timedOut`;
`rknn_timeout` shows that it fails afterwards.  `InferenceSentOnInSteps`: while the
inference waits every step makes `TurnsLeft` less, three for each frame the rga side
is behind; it does not sleep meanwhile, by `NoMutualWait`.

`DetectionsSound` needs nothing of the state: `PostProcessSound` is about every
picture.  Its parts, in the order of the code:

- A function of the turns of a loop, or of the depth of calls, exists and obeys
  its equations (`Counting` and `Recursion`, by a least counterexample).
- The sort: after each turn of the partition the segment with the key put in the
  hole is a rearrangement of what it was (`Shuffled`), nothing to the left of the hole
  is less than the key and nothing to the right of it more (`Split`).  The two
  calls work on what is on either side, so the segment comes out falling, calls of
  any depth being as right as those one deeper (`CallsSort`, `SortedToSorts`).
  `SortSorts`: each index occurs once, with its own candidate's probability.
- The suppression: from one turn to the next, places are only cleared (`Later`),
  what is cleared overlaps one at an earlier place (`Explained`), and places passed overlap nothing that is left behind them
  (`Clear`).  `nms` runs class by class, but the class it looks up at a place is some
  class, so each place has its turn: no two that are left overlap at all,
  whatever their classes (`RemainingApart`).  That is more than `ResultsSound` asks.
- The results: the loop that takes places keeps them in order and stops only at
  the limit (`Keeps`), and clipping and scaling never fall (`ScaledRises`, `PlacesRise`), so a box of no
  negative size stays in order, and one that ends in the crop on the frame.

### The configuration and the pipeline

`OsdPipelineProof`: `RectInside` is the arithmetic of the crop, for every plane,
picture and crop; that its differences are natural numbers is also why they do
not wrap around in `uint32_t`.  `IInv` describes the graph half-way through `init()`:
`Place` numbers the modules in the order in which they are made, `Feeder` gives
the one each is made behind.  Every module made is of an earlier stage (`MadeInOrder`),
its feeder is there, also that of the stage at hand (`FeederMade`), and the edges
are exactly those from feeders to modules (`EdgesOfMade`): a module that failed
has left none behind.  `GraphSound` speaks of the finished graph only; it follows
because a module has one feeder and is less than six modules away from its
source (`AllReached`).

`LastLine` needs the types only: `LastLineWins` is inductive over the lines of the
file (`LastLineStep`).  The line just read is the last one of its key and none
of another; for each kind of parser, what it leaves of the old fields is what
the earlier lines say (`FieldStep`, then `NumberStep`, `WordStep`, `DefaultStep`,
`DurationStep`).  The conditions of the property are those the last two need: no
line of blanks has run the parser again, each duration has a number, and
`Micros` does not overflow.  A negative duration stays as it is, because the
code multiplies only what is above 0.

`InitReturnsInSteps`: every step of `init()` is one less of `Rest`, which begins at the
number of lines of the file and seventeen; the one step that changes nothing is
`SpinOnFailure`, and it is possible only in a file with a line too long for
`getline` (`SpinsOnLongLine`).

### The serial reader and its settings

`TtyReaderProof`: `Segment` says that the buffer holds what came last over the
line, `Phase` how much of a frame there is at each of the reads of `process()`,
and `NoneMissed` that a whole frame behind a silence has been taken or is the one
being read.  `FrameAfterSilence` says nothing about a frame half read, so it could
not be carried over the four reads; with `Segment` what is read of such a frame
passes each test (`FirstStep` to `CheckStep`).  `ClockNearGps` is an action property
of the step that handles a GPS frame, with the failure of `settimeofday` told from the
rest by `refused`.

`SettingsAreApart` compares `config` with `Setting`, a function over the lines
that is defined by recursion; that it exists and obeys its equations is shown by
a least counterexample (`SettingUpTo`, `SettingEquations`), since the induction
theorems of the library cannot be instantiated.  Then one lemma per step of
`ini_parse_stream`: section and last name are those of the lines before
(`HeaderMoves`, `PairsMove`), and a line changes a setting exactly when it
concerns it (`LineConcerns`).

### The player

`PlayerProof`: for any number of instances, any command line and any sizes.  The
arithmetic comes first: the integer root exists (`RootExists`, by a least
counterexample), the grid has a cell for each instance (`GridFits`), a window is
inside its cell and the cell inside the plane (`WindowInside`), and two different
cells are apart in their column or their row (`WindowsOfGridApart`).  Then `IInv`:
the types of what decides; all instances made at once, each with no window or
one of its own index in the grid of `Count` (`Made`); and what the place in
`start_instance` says of the output (`Complete`): the instances before the one at
hand are as asked, the one at hand still has its source's sizes before the
conversion and the sizes and format asked for after it, and the encoder only
changes the format.  `WindowsApart` and `OutputAsAsked` say nothing of how a window
or an output came about, so neither could be carried over a step.

`LInv` adds the lives of the instances: a source runs only between `start` and
`stop`, a file is closed only after the sources (`Running`), and while they are
being stopped those before the one at hand do not run (`Stopping`).  That no
file is closed under a callback is this order: the loop that closes the files
begins when the loop that stops the sources has gone through all of them.

`FrameDumpProof`: the bytes of a plane are numbered by row and column
(`PlaneByCells`), `Rows` writes each cell of a plane once (`RowsRight`), also when
the two colours of a plane are written one after the other (`Interleaved`,
`ColourByColour`), and parts in different places can be joined (`Joined`).  So
`DumpIsPicture` holds for every size and stride, not only for the few of the run;
`AlwaysSavedWhole` follows with `LInv`.

### What is only model-checked

The liveness properties (`StopCompletes` of both programs, `PoweroffEnds`,
`RotationServed`, `RecyclingEnds`, `InferenceSentOn`, `FreshTextDrawn`, `InitReturns`):
fairness and `ENABLED` are beyond the proof system.  What is proved is their safety
part, for all values of the constants: that the steps there are lead to the end
and are bounded, or that nothing is forgotten on the way.

| Liveness, model-checked | Safety part, proved |
|---|---|
| `StopCompletes` of `CommService` | `StopEndsInSteps` |
| `StopCompletes` of `OsdRecorder` | `StopCompletesInSteps` |
| `RotationServed` | `ImplementsRotation` |
| `RecyclingEnds` | `RecyclingEndsInSteps` |
| `InferenceSentOn` | `InferenceSentOnInSteps` |
| `FreshTextDrawn` | `NoTextMissed` |
| `InitReturns` | `InitReturnsInSteps` |

What is left to TLC in each is that a thread with a step before it takes it.
`PoweroffEnds` is the shutdown of the system, which sends the signal, followed by
`StopCompletes`.  Every invariant and action property of the runs is a theorem.

## 5. Disagreements met

- `comm_signal_mask`: the comment says the process blocks SIGINT and SIGTERM;
  only `main` does, the threads were created before.
- `osd_statvfs`: when the directory of a new file cannot be made, the free space
  reads 0 and all recordings are removed, although the disc has room.
- `osd_text_stale`: the text file is compared by whole seconds; a second change
  within one is never read.
- `rknn_timeout`: when the inference's wait times out, rga reads a result that is
  being overwritten and draws it on the earlier frame.

Known besides, and in the models as the code has it, without a run of its own
unless named:

- `netHandler.cpp:747`: the Readme (line 68) says device data is sent on; the call is
  commented out and the queue only grows.
- `osd.cpp:366`: `fileMaxDuration` (in seconds, `osd.conf:36`) overflows from 2148 s on;
  at an hour each frame asks for a new file (`Micros`, `fMaxDuration`; a condition of
  `LastLineWins`).
- `osd.cpp:1130`: with neither a device string nor a text the first frame reads
  element 0 of an empty vector (`DrawEmpty`).
- `osd.cpp:605`: a line of 512 characters makes `init()` spin (`SpinOnFailure`; the
  condition of `InitReturns`).
- `osd.cpp:614`: a line of blanks runs the last parser again: `oRotate`, `encType` and
  `fileMaxDuration` then change (the condition of `LastLineWins`).
- `system_common.cpp:350`: the name of an output file has milliseconds and the file is
  appended to, so a rotation may go on with an older file (the form of `FilesBounded`).
- `system_common.cpp:314`: the time is stored before the file is opened; a file that
  cannot be opened then is not read until it changes again (`lost`).
- `ttyHandler.cpp:397`: when `settimeofday` fails the clock stays where it is, which is
  only printed (`refused`).
- `postprocess.cc:305`: the results are scaled as if the frame filled the model's input
  from the corner; a box that ends in the padding lies outside the frame
  (`EndsInCrop`).
- `ttyHandler.cpp:399`: `adjtime` takes a difference and is given a time (`SetClock`).
- `utils.cpp`: the V plane of YUV420 is looked for behind `height / 2` rows instead of
  `vstride / 2`, wrong when rows are padded (excepted in `SavedWhole`).
- `postprocess.cc:98`: the suppression takes in other classes.
- `demo.cpp:253-270`: the index is put before the first dot of a file name, so
  `./out.mp4` becomes `_00./out.mp4` (not modelled).

## 6. Plan

What could be modelled next, in this order:

1. The rest of the overlay: the cached values of `updateOSDData` and the frame
   rate's division by the difference of two time stamps (`osd.cpp:1046-1281`).
2. `CaptureService`: `ffmedia_capture.sh` with its retried SIGTERM and its clock,
   composed with the shutdown of `OsdRecorder`.
3. `NetMessages`: the lengths of the messages and the prefix of an IP mask
   (`netHandler.cpp:372-425`).
4. `H264Split`, the reader of `demo_memory_read.cpp`.

## 7. Not modelled

The media library is a binary; what the programs rely on is an external step
(`Write`, `InfTake`, `InfRun`) or a choice (whether a module's `init()` fails, what
pictures a source gives).  The other inference demos, `demo_multi_window.cpp` and
the small examples are straight-line set-up of the library.  `tty_process.cpp` and
`demo_tty.cpp` are an earlier version that no target builds.  The service scripts
are outside the programs.  The words of the configuration are numbers or names,
not characters; layout of messages, fonts, drawing and logging are left out, as
are the label file and the quantisation of the inference.
