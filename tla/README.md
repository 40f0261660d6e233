# The GMC-300 Radioactive@home application in TLA+

A BOINC application that reads a GMC Geiger counter over a serial line, writes one line of `data.bin`
per sample and sends the samples to the project in trickles. The program (`src/recovered/`) has one
thread; what is hard about it is that the BOINC client may kill and restart it between any two effects
and asks it to stop or to wait at any second, that trickles, files and the serial line may fail at each use, that
the byte stream from the device has no frames, that the clock it measures with may jump, and that its
settings are texts a user wrote. Neither its tests (there are none) nor a run on the desk meets these.

## Inventory

| Part | State it keeps | Operations | What makes it correct |
|---|---|---|---|
| Main loop (`main_app.cpp` 154-343, 495-592) | quota, lines found, samples read, turn, retries, fraction | start, resume, almost-done exit, open with retries, turn, quit, finish | the quota holds over restarts, progress counts the lines, the port has one owner, the job ends |
| Trickles (`main_app.cpp` 269-286, 347-358, 395-493) | buffer, its count and length, `trickle_sent`, `trickle_checkpoint.dat`, `data.bin` | append, send (three paths), drop, persist, restore | nothing is uploaded before it is recorded, nothing is lost or repeated without a crash or a refusal, the buffer never overflows |
| Times (`main_app.cpp` 90-98, 222-260, 379-434, 517-545) | start, last sample and last trickle times, counter, previous timer | open, read, write, reopen, resume | each second is counted once, gaps and fresh files are marked, trickles keep their distance |
| Detector protocol (`com_port.cpp`, `detector.cpp`) | bytes of the version, attempts | GETVER, GETCPM | a value is the answer to its own request, every exchange ends, a lost sensor is noticed |
| Serial port (`serial_port.cpp`) | one Boost.Asio port per handle | open, close, read, write | a handle is closed once; reads time out; the options are those asked for |
| Configuration (`config.cpp`) | a table of shared pointers, of which a handle is an index; `gmc.xml` | preferences, COM settings | a lookup finds what it asks for, the document is let go; missing settings end the job |
| BOINC runtime (`boinc_wrapper.cpp`) | the client's requests, the critical section | quit and heartbeat polls, suspension, finish, clock, sleep | a request is heard in bounded time, no sample is cut off from its line, a job lasts what its quota says |
| Entry (`main.cpp`, `init_data.h`) | the init-data buffer | start the library, copy the preferences | what the client has is what is read, in every form it may have |

The parts call each other in one direction: `main.cpp` calls `main_app`, which calls the configuration
once, the protocol at each opening and sample, and the BOINC runtime throughout. They share
`state.com_handle` (main loop and protocol) and the two files in the slot directory, the only state
that outlives a process besides what the client was handed.

## Modules

| Module | Models |
|---|---|
| `MainApp` | the life of a work unit, with crashes and restarts; its safety properties and the inductive invariant |
| `JobLedger` | the abstract promise of a work unit: `data.bin` grows by newer samples up to the quota, trickles carry recorded samples in order, nothing changes after the end. `MainApp` implements it |
| `TrickleDelivery` | which samples reach the server and how often, over `MainApp` |
| `GmcLink` | the conversation with the device, byte by byte, and the count that decides that the sensor is lost |
| `DetectorUse` | the abstract detector, where main loop and conversation meet. `MainApp` and `GmcLink` both implement it |
| `TrickleUse` | the abstract trickle buffer, where main loop and clock meet: how much is pending, sent and saved. `MainApp` and `SampleClock` both implement it |
| `SampleClock` | timer, counter, type and send interval |
| `BoincRuntime` | polls, waits, suspensions and the critical section, second by second |
| `Preferences` | what texts become: numbers, the quota, the port settings (operators, no state) |
| `Startup` | `main()`, the handle table under every call that reads the preferences, `gmc.xml` |
| `MCMainApp`, `MCGmcLink`, `MCSampleClock`, `MCBoincRuntime`, `MCStartup` | the modules TLC runs, with the devices, counts and texts of the runs |
| `MainAppProofs`, `MainLedgerProofs`, `TrickleDeliveryProofs`, `GmcLinkProofs`, `SampleClockProofs`, `BoincRuntimeProofs`, `StartupProofs` | the theorems |

`Startup` ends where `MainApp` and `BoincRuntime` begin: with a quota of at least 1, a debug flag, retries and
port settings. `MainApp` has the effects of the loop and leaves out how long they take, `BoincRuntime` how long
they take and what the client asks meanwhile, `SampleClock` what the clock says, `GmcLink` what the line carries.
Where one module makes a free choice another decides it: an opening or a reading that fails in `MainApp` is
`DetectorUse` and `GmcLink`, the trickle interval is `TrickleUse` and `SampleClock`, the quit is `BoincRuntime`.

### MainApp

`pc` is where the thread stands. A step ends where the program has an effect that outlives the process,
or polls the client: so `write_data_bin_and_trickle` is `OpenDataBin` (the file is created), `BufferOrSend`
(the trickle is handed over) and `FlushLine` (the destructor of the stream writes the line), and
`persist_trickle_checkpoint` is `TruncateCheckpoint` and `PersistTrickleCheckpoint`. `Crash` may come
between any two, throws the memory away and starts the process again with another quota, debug flag and
buffer limit. A sample is its number in the order of reading; a formatted `<sample>` is its length; the
buffer is the sequence of samples in it. `data.bin` is the samples on its lines. The reads of a turn are
one step, which succeeds or fails. What the client may refuse, or a file that cannot be opened, is a choice
too, and noted in `faults` or `misreads`, so that a property can say what it depends on. The turn number is `sample_index`:
a failed read and a failed reopening use up a turn, as in the code.

A start that cannot open an existing `data.bin` for reading takes it for none (`main_app.cpp:224`, `ResumeFresh`): it counts
no line, leaves the checkpoint where it is, and its turns begin at 0, so that it appends a second whole quota. `misreads`
counts such starts, up to `MaxMisreads`. The bounds on lines and `JobLedger` (`Misread`) allow one quota more for each of
them, and what counts the lines exactly (`ProgressMatchesDisk`, `FirstLineIsFresh`) is for jobs without one.

A quit noticed at a poll finishes the job for good, as `boinc_finish` does; being stopped without a poll
is a `Crash`. The flush of a line is taken to succeed once the file is open, as the code takes it (it does not
look at the stream again): a disk that is full only when the destructor writes is not modelled, and there a
sample would be sent without its line. The restored `last_trickle_send_time` and the range check of the restored
`pending` count are not in `MainApp`: the file is only written by the program.

### GmcLink and DetectorUse

A byte is the answer it belongs to and its place in it. `Device` is the set of habits the other end may
have: a two-byte preamble before the version, another make, silence, answers split in two chunks, chunks that
meet in the driver's buffer, answers after the time allowed, heartbeats, and reads that fail with data
waiting. A read takes what is there, at most what was asked for; with a device that is not late it comes
after the answer, which is what the waits of 2 and 10 seconds are for. Nothing waits before an opening: a port whose
GETVER failed may be opened again at once, with chunks of the last answer still to come. Reads time out, as
`set_native_timeouts` asks; that Boost.Asio honours it on every platform is not examined here. The version
has 5 bytes for 14 and needs `GMC` in it, which still leaves room for a preamble before it.

`ReadingIsAnswer` is for a device that is in time (`InTime`). A `Prompt` one has all of its answer there when the wait is over,
whether it came in one chunk or two that met. A `Greeter` sends its preamble and says the version when that has
been read. A greeting that is there together with the version, as the 2 seconds before the first read make likely, is not
among them: the code counts it into its 14 bytes and takes what is left of the version for the first count, which the run
`doc_VersionReadInFull` shows. Nor are late answers, answers in parts over several reads, and heartbeats, after
which the code does take other bytes for counts; the other properties of the link hold with all of them.

`DetectorUse` has a link that is closed, ready or lost and the number of samples missed in a row. For `GmcLink`
the link is read off `pc`; for `MainApp` it is the open port and the turn in which the sensor was found lost. That both
implement it says that the two are about the same detector: a loss in the main loop is a loss on the line, after
the same number of samples, and the port is closed before it is opened again.

### SampleClock

Times are in seconds, `ReadSample`, `WriteDataBinAndTrickle`, `PersistCheckpoint`, `TryComReopen` and the
start of a process are actions. `Tick` moves the clock on wherever the program waits and `SetBack`, one
of the mishaps, moves it back. Each sample adds the whole number nearest to its minutes times the CPM (`Nearest`, `std::round` in
`main_app.cpp:527`; of a tie either, since the product is floating point), and an interval that is not positive counts as one second.
So the counter may be half a count off for each sample since the port was opened, and `CounterCoversTime` allows that and no more. Each line
carries when it was taken, by which process, over which connection and as which sample of it; these are not in the file and serve the properties only.
A start may fail to open `data.bin`, as in `MainApp` (`FailToResume`).
The unsigned 32-bit arithmetic wraps at `WordMod`. The almost-done exit and the quota's end are `MainApp`'s.

### BoincRuntime

A step is a poll (`gmc_boinc_should_exit`), a look at the suspension (`gmc_boinc_wait_if_suspended`), a second of
sleep, or a move from one place of the code to the next. Four loops poll: the opening with its retries, the delay
between them, the top of a turn, and the wait between samples. Three stretches do not: an opening, the exchanges of a sample, and
the wait of a turn whose port cannot be opened. A suspended task looks at nothing but the resume. The client asks to quit, goes silent (a lost heartbeat),
suspends and resumes at any second; the library may end the process once a quit is asked, outside a critical section.
`deaf` and `busy` count the seconds worked against a request, `rest` those since the device was last asked, `elapsed`
those of the main loop; the last two saturate at the value they are compared with. `misses` is `read_error_count`: the port is
given up after more failed samples in a row than `ReadErrorThreshold`, and a failed sample before that costs a turn only.

### Preferences and Startup

A text is a number, a word, empty or missing, the number as large as a user likes; `int` and `long` have the
widths `IntHalf` and `LongHalf`, so that a long cut to an int and a product that overflows are met. An overflow of
signed integers is undefined in the code: `QuotasOf` allows the wrapped sum, the exact one and the least quota.
A word's number stands for the first letter `parse_parity` looks at.

`Startup` has one action per call of the handle API that `init_prefs_from_init_data` makes, in the order of the code. The
table holds what each handle refers to, the empty element at 0, and an entry that was let go is null. The
slot `runtime_node` is an uninitialized `int`, so it starts with any of `StackWords`, and the first store through it lets
go whatever that is the handle of.

## Runs

| Run | Question | Bounds |
|---|---|---|
| `app_crash` | Does a work unit killed twice implement `JobLedger`, lose a sample at most for each kill, redeliver only what a checkpoint held, keep `IInv`, and end? | quota 2, 2 crashes, a start that cannot read `data.bin`, sensor lost at the first miss |
| `app_restart` | Do quota, progress, port, buffer and the fate of samples hold when a restart changes the quota, the debug flag and the limit; is `DetectorUse` implemented, and is a retry or a turn used up on every way back? | quotas 2 and 3, lengths 2 and 3, 1 crash, a start that cannot read `data.bin`, sensor lost at the second miss |
| `link` | Is each value of a device in time the answer to its own request; with every habit at once, is a lost sensor recognised exactly, does every exchange end and is `DetectorUse` implemented? | 2 openings, 2 requests, a heartbeat |
| `clock` | Are counters, types and timers of the lines right, and trickles as far apart as the interval asks, whatever was sent before? | 3 samples at 1 or 2 counts a minute of 2 seconds, interval 2, 3 seconds, a buffer of one sample, 2 mishaps, each a restart, a reopening or a clock set back |
| `boinc` | How late is a request obeyed, what does the critical section cover, how far apart are samples, what does a job last, does it end? | quota 4, interval 3, delay 2, 2 retries, openings and samples of up to 2 seconds, sensor lost at the second miss |
| `startup` | Are flag and quota those asked for, the document let go and the port settings those written? | texts at the edges of each range, 16-bit int, 20-bit long, stack words -1 to 6 |
| `doc_*` | Six statements of the documents that the code does not keep, see below | as the run above them |

The bounds are small but the cases happen. In `app_restart` a `TrickleContent` of 7, or 5 in debug mode, and samples of 2 or 3 bytes fill
the buffer at the third sample or the second, a threshold of 1 loses the sensor in the second failed turn and leaves a third to open the port again, and
the quotas 2 and 3 with a margin of 1 lead to both sides of the almost-done test. In `app_crash` two crashes let
the second process restore what the first saved and the third what the second left, and one of them may take `data.bin` for none.
In `link` the devices are a `Prompt` one, a `Greeter` and one with every habit.
In `clock` a minute has 2 seconds, so that each odd interval at 1 count a minute is a tie and rounds either way, and the mishaps
include every pair. A gap of 2 seconds is long, with 3 to spend, and there are three samples, so that a line may be the second of its process or connection.
With no minimum pending a single sample may be due and one fills the buffer: one sample suffices for a trickle when the sensor is lost, whose checkpoint a
restart still finds, and the next ones for a full buffer or the interval of 2 seconds after it.
In `BoincRuntime` an opening with its sample is one second longer than the interval, so that the
bound on requests is not the interval's alone, and four turns suffice to lose the sensor and read it again. In `Startup` a runtime of 546 minutes is the largest that does not
overflow, 2194 wraps round to a positive sum, 600000 exceeds the long, and the stack words reach every handle.

TLC checks for deadlock in every run but the two of `BoincRuntime`, where the process is over in the end.

### Fairness

`FairSpec` of `MainApp` is weak fairness of the program's steps: the process has one thread, nothing in it
waits for another, and suspension by the client ends. It does not ask that reads succeed, ports open or
trickles are accepted. `JobFinishes` rests on the quota of turns and retries alone, with at most
`MaxCrashes` crashes. `FairSpec` of `GmcLink` adds that bytes sent arrive, and leaves out the steps in which a
read ends by an I/O error: an exchange has to end without one. `FairSpec` of `BoincRuntime` is weak fairness
of the thread, whose sleeps end by the system and whose exchanges end by `ExchangesEnd`; `Resumes` itself assumes
that the client leaves the task running in the end, and the client's own steps have no fairness at all.

## What is proved

All theorems hold for every value of the constants that the named assumptions of the modules allow; further premises are given here.

**`MainAppProofs`** (every quota set, margin, threshold, retry count, buffer limit, sample length
and number of crashes and misreads): `TypeOK`, the inductive invariant `IInv`, and from it `LinesWithinQuota`, `FractionWithinOne`,
`ProgressMatchesDisk`, `PortOwned`, `BufferFits` and `UploadedIsRecorded`; `CrashCostsOneSample`; `StepsLeadOn`; `ImplementsDetector` and `ImplementsTrickleUse`.
The quota is not inductive as stated, since the loop compares the turn, not the lines.
`ProgressInv` ties them: lines (and the one about to be written) are at most lines found plus samples read plus
those a process may not have counted (`Uncounted`, a quota for each misread); lines found and samples read
are at most the turns begun, which are at most the quota; with no failed append and no misread the first is an
equality, which is why progress counts the lines exactly. `FractionInv` follows in the same places.
`PortInv` says that the handle and `com_open_ok` agree and where in a turn the port is open. `BufferInv`
needs the checkpoint's count right, since it comes back. `RecordInv` carries the ordering of the send
and the line: everything buffered is recorded, except, while the line is being flushed, the newest sample;
and everything in the checkpoint is, since it is written after the flush. For the detector, `MissedInv` bounds the misses where the port is open.
`CrashCostsOneSample` follows from `LossInv`, the count of lines and crashes against all samples ever read.
For `TrickleUse`, `UseInv` says that a process restores into an empty buffer, writes the checkpoint only if it has sent nothing, and
counts no length for an empty buffer, so that a trickle sent always has a sample.

**`MainLedgerProofs`**: `Spec => ImplementsLedger`, the ledger's `allowed` being the quota and `Uncounted`. The ledger wants lines and trickles in the order of reading;
`OrderInv` says so of `data.bin`, of the buffer and of the checkpoint, each before the newest sample taken, which is
what makes an append, a restore and a send after a restart keep the order.

**`TrickleDeliveryProofs`**: `BoundedRedelivery`, from `RedeliveryInv`: what is buffered has been delivered at
most once for each crash so far, and only if it was saved; and `NoSilentDrop`, from `ContentInv`: a buffer with samples has a length,
so the send that precedes each clearing is not skipped as empty. `OnceWithoutCrash` and `EverythingDelivered`, which are stated
between pairs of places so that they need no sequence of all deliveries, rest on two more: `DeliveryInv`, that before the first crash
what was delivered, what is buffered and what is being written follow each other in the order of reading; and `AccountInv`, that
while nothing has failed the samples delivered and buffered are those on lines, with the one about to be written, and that after the last send nothing is buffered.

**`GmcLinkProofs`** (every device): `TypeOK`; `LossIsExact`, from `CountInv`: failed exchanges are
`read_error_count` times the attempts of a sample plus those of the present one, and the threshold is on the
former; `ImplementsDetector`; and `ReadingIsAnswer`, from `InTimeInv`: with a device in time the line is quiet between two commands, and while one
is answered holds nothing but that answer, in one of the few places it can be, or, for a greeter, what is left of preamble and version.

**`SampleClockProofs`**: `TypeOK` with the count of lines (`CountInv`), from which `FirstLineIsFresh` (while every start could read the file); `SendsSpaced`
(`SpacedInv`: the last trickle is no later than the time kept, whether restored, overwritten or reset); `GapsMarked`
(`GapInv`: the previous timer is that of the last line of this process and connection) for a job shorter
than the wrap of the 32-bit timer, 49.7 days (`WordMod > MaxTime`); `CounterCoversTime` (`CounterInv`) for such a job
whose counts, with half a count for each sample, do not wrap either; `NoLeap` (`LeapInv`) without a premise; `ImplementsTrickleUse`.
That `SampleClock` and `MainApp` both implement `TrickleUse` ties them: what one leaves out, the times or the samples, the other has, and both
hold, send, save and restore by the same rules. `CounterCoversTime` and `NoLeap` are for whatever the detector answers: the rates come in
as the lowest and the highest of them, so that the proof needs the products monotone and additive
(`CountsAdded`, `CountsKept`), and what rounding may add to each (`NearestBounds`).

**`BoincRuntimeProofs`** (every interval, delay, retry count, quota and length of an exchange): `TypeOK`
(`PlaceInv`), `PromptExit` and `SuspendRespected` (`DeafInv`, `BusyInv`: in each place without polls the seconds
worked and those left stay in the bound, and a poll ends or holds the task), `CleanStop` (`CriticalInv`),
`SamplesSpaced` (`RestInv`: away from a sample the device has rested an interval) and `TurnsTakeTime` (`TimeInv`: the turns begun and not
stalled have each taken theirs).

**`StartupProofs`** (every text, width and stack word): `TypeOK` (`SettingsInv`), `DocumentFreed` (`TableInv`: only the entries of slots in use refer to the
document, and no handle is copied onto itself), `PrefsMatch` (`ContentInv`, `FlagInv`, `QuotaInv`: each lookup finds
the preference it asks for), `QuotaFitsRuntime` and `SettingsReachPort`. The stack word does no harm because all it can let go before the
runtime is looked up is an entry that is not needed again: the section, when it is still needed, is looked up before the store.

Only model-checked: the liveness properties `JobFinishes`, `ExchangesEnd` and `Resumes`, which are out of the
prover's reach. What is proved is the variant each of them rests on, that no loop goes round without using something up:
`StepsLeadOn` for the job (a step goes on in the order of the code or costs a retry or a turn, and both are bounded below because of
`TypeInv` and `ProgressInv`), `ExchangeLeadsOn` for an exchange (heartbeats, then reads, then chunks under way) and `RunningLeadsOn` for a task
that is not suspended (turns and retries, then places, then seconds, then looks). Each is lexicographic over natural numbers, so
the thread takes finitely many steps between two crashes, within one exchange, and once it is left running; that it takes them is what
fairness says and TLC checks.
`ExchangeLeadsOn` and `RunningLeadsOn` are definitions of their proof modules; no run repeats them, nor `ImplementsTrickleUse`.

## Where code and documents part

Checked by a run that finds the statement violated:

- `BufferedAreUnsent` (`main_app.cpp:531`): once a process has sent a trickle it writes no checkpoint, but
  leaves the one that holds samples now sent. A restart restores and sends them again.
- `SavedSurvive` (`main_app.cpp:285`, `465`): the checkpoint is removed when read and truncated before it is
  written; a crash then loses its samples.
- `PrevTimerRestored` (`main_app.cpp:225`): the loop that counts the lines empties the buffer the last line is parsed from.
- `VersionReadInFull` (`com_port.cpp:44`): a preamble that comes with the version counts into its 14 bytes.
- `InvalidPortRefused` (`config.cpp:306`): a portnumber that is no number is port 0, and one beyond an int is cut to
  one that may be in range, where `docs/phase2-config.md:39` has both end the application.
- `RuntimeMatches` (`main_app.cpp:388`, `568`): a device that opens and does not answer uses up turns without their
  interval, so that a job may be over early, where `constants.h:36` has the task's runtime match the project's.

Seen while reading, not checked: a start that cannot open an existing `data.bin` takes it for none and
samples a second whole quota (`main_app.cpp:224`; what it may cost is in the bounds above); a refused trickle on the write path is dropped (`main_app.cpp:449`), against
"one data.bin line and one trickle per sample" (`docs/phase4-server.md:77`); the almost-done exit sends no
pending trickle and reports less than 1.0; `last_trickle_send_time` is restored and then overwritten
(`main_app.cpp:544`); a gap in which the port was reopened is marked `n` (`main_app.cpp:385`), where
`docs/original-program-behaviour.md:50` knows no such exception; a trickle needs more than the threshold pending, where `constants.h:62` says at least;
the documents say intervals of 20 and 10 minutes, a sample interval of 30 seconds and ports from 1, the code
10 and 5 minutes, 240 seconds and ports from 0; an answer of one byte makes every later value swap its bytes
(`detector.cpp:45`); `state.read_error_threshold` is set to 10 (`main_app.cpp:578`) and `data_bin_resumed` is set, and
neither is looked at.

## Plan

Done: the survey; `MainApp`, `JobLedger` and `TrickleDelivery`; `GmcLink` and `DetectorUse`, the point where main loop and
protocol are composed; `SampleClock` and `TrickleUse`, where it meets the main loop; `Preferences` and `Startup`; `BoincRuntime`; the theorems above.

Left:

1. One state for `MainApp` and `SampleClock`. `TrickleUse` has what they share; that a trickle carries the very samples that
   were due is not said by either.
2. Time in `MainApp`: `TurnsTakeTime` and `SamplesSpaced` over restarts.

Not modelled, and why: the standalone stubs (no-ops in place of the BOINC API, a special case of `BoincRuntime` and `MainApp` in which
nothing is ever asked), TinyXML2 and Boost.Asio (third party: an element or none, an
operation that succeeds or fails), the formatting of lines and messages (no property is about it),
the debug stream, the dose rate, which is computed and never used, and `build_project_preferences_document`, `get_com_port_number`,
`get_com_baud_rate` and `send_heartbeat0`, which nothing calls.
