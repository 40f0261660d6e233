------------------------------- MODULE MainApp -------------------------------
(***************************************************************************)
(* The life of one Radioactive@home work unit in recovered/main_app.cpp:   *)
(* start, resume from the slot directory, open the detector's port, sample *)
(* until the quota is reached, and finish, with the process killed at any  *)
(* point in between and started again by the BOINC client.                 *)
(*                                                                         *)
(* A step of the model ends where the program has an effect that outlives  *)
(* the process (a file, a trickle handed to the client, boinc_finish) or   *)
(* polls the client, so that a crash between two steps is a crash between  *)
(* two such effects.  A sample is its number in the order of reading; the  *)
(* clock is in module SampleClock and the serial bytes in GmcLink.         *)
(***************************************************************************)
EXTENDS Integers, Sequences, Functions

CONSTANTS
    NumSamples,          \* quotas the runtime preference may give a process
    MaxNumSamples,       \* the largest of them
    AlmostDoneMargin,    \* gmc::ALMOST_DONE_MARGIN
    ReadErrorThreshold,  \* gmc::READ_ERROR_THRESHOLD
    RetryCount, RetryCountDebug,        \* state.retry_count_max
    TrickleMinPending, TrickleMinPendingDebug,
    TrickleContent, TrickleContentDebug,  \* buffer limit before the clip, bytes
    MaxTrickleContentBytes,               \* kMaxTrickleContentBytes
    XmlLens,             \* lengths a formatted <sample> may have
    MaxCrashes,          \* bound: kills of the process in one behaviour
    MaxMisreads          \* bound: starts that cannot open an existing data.bin

ASSUME QuotaAssumption ==
    /\ MaxNumSamples \in Nat
    /\ NumSamples \subseteq 1..MaxNumSamples
    /\ AlmostDoneMargin \in Nat
ASSUME RetryAssumption ==
    /\ RetryCount \in Nat /\ RetryCountDebug \in Nat
    /\ ReadErrorThreshold \in Nat
ASSUME TrickleAssumption ==
    /\ TrickleMinPending \in Nat /\ TrickleMinPendingDebug \in Nat
    /\ TrickleContent \in Nat \ {0} /\ TrickleContentDebug \in Nat \ {0}
    /\ MaxTrickleContentBytes \in Nat \ {0}
    /\ XmlLens \subseteq Nat \ {0}
ASSUME CrashAssumption == MaxCrashes \in Nat /\ MaxMisreads \in Nat

VARIABLES
    pc,                   \* where the single thread of the process is
    exit,                 \* why it finished the job, "none" while it has not
    num_samples, debug_enabled,
    data_bin_line_count,  \* lines found in data.bin when the process started
    total_samples_done,   \* samples read by this process
    sample_index,         \* local of run_main_loop
    fraction_done,        \* in units of 1/num_samples
    reported,             \* the last boinc_fraction_done of this process
    retries_left, read_error_count, com_open_ok,
    com_handle,           \* TRUE when state.com_handle is not null
    open_ports,           \* serial_impl objects alive in this process
    trickle_buf,          \* the samples in trickle_msg_buf
    trickle_pending, trickle_msg_len, trickle_sent,
    data_bin_exists, data_bin,    \* the file and the samples on its lines
    misreads,             \* starts that could not open an existing data.bin
    ckpt_state, ckpt,     \* trickle_checkpoint.dat and what it holds
    trickles,             \* trickles the client accepted, in order
    taken,                \* samples read from the detector in all processes
    saved,                \* samples some complete checkpoint has held
    faults,               \* kinds of fault that have happened
    crashes

progVars  == <<data_bin_line_count, total_samples_done, sample_index>>
confVars  == <<num_samples, debug_enabled>>
fracVars  == <<fraction_done, reported>>
portVars  == <<com_open_ok, com_handle, open_ports>>
comVars   == <<retries_left, read_error_count, portVars>>
bufVars   == <<trickle_buf, trickle_pending, trickle_msg_len>>
trickVars == <<bufVars, trickle_sent>>
binVars   == <<data_bin_exists, data_bin, misreads>>
ckptVars  == <<ckpt_state, ckpt, saved>>
memVars   == <<confVars, progVars, fracVars, comVars, trickVars>>
vars == <<pc, exit, memVars, binVars, ckptVars, trickles, taken, faults, crashes>>

NoCkpt  == [pending |-> 0, ids |-> <<>>, len |-> 0]

Uploaded == UNION {Range(trickles[i]) : i \in DOMAIN trickles}

FlagsOK ==
    /\ pc \in {"boot", "resume", "restore", "open", "delay", "enter", "loop",
               "reopen", "read", "append", "trickle", "flush", "ckpt",
               "persist", "lost", "report", "wait", "finish", "close", "done"}
    /\ exit \in {"none", "badConfig", "noDetector", "almostDone", "quit", "complete"}
    /\ debug_enabled \in BOOLEAN /\ com_open_ok \in BOOLEAN /\ com_handle \in BOOLEAN
    /\ trickle_sent \in BOOLEAN /\ data_bin_exists \in BOOLEAN
    /\ ckpt_state \in {"absent", "truncated", "written"}
CountersOK ==
    /\ num_samples \in 0..MaxNumSamples
    /\ data_bin_line_count \in Nat /\ total_samples_done \in Nat /\ sample_index \in Nat
    /\ fraction_done \in Nat /\ reported \in Nat
    /\ retries_left \in Nat /\ read_error_count \in Nat /\ open_ports \in Int
    /\ trickle_pending \in Nat /\ trickle_msg_len \in Nat
    /\ taken \in Nat /\ crashes \in Nat /\ misreads \in Nat
SamplesOK ==
    /\ trickle_buf \in Seq(Nat) /\ data_bin \in Seq(Nat)
    /\ ckpt \in [pending : Nat, ids : Seq(Nat), len : Nat]
    /\ trickles \in Seq(Seq(Nat)) /\ saved \subseteq Nat
    /\ faults \subseteq {"crash", "send", "append"}
TypeOK == FlagsOK /\ CountersOK /\ SamplesOK

(* main_app_state{}: what a process has in memory before it has done anything. *)
FreshMemory ==
    /\ num_samples = 0 /\ debug_enabled = FALSE
    /\ data_bin_line_count = 0 /\ total_samples_done = 0 /\ sample_index = 0
    /\ fraction_done = 0 /\ reported = 0
    /\ retries_left = 0 /\ read_error_count = 0
    /\ com_open_ok = FALSE /\ com_handle = FALSE /\ open_ports = 0
    /\ trickle_buf = <<>> /\ trickle_pending = 0 /\ trickle_msg_len = 0
    /\ trickle_sent = FALSE

Init ==
    /\ pc = "boot" /\ exit = "none"
    /\ FreshMemory
    /\ data_bin_exists = FALSE /\ data_bin = <<>> /\ misreads = 0
    /\ ckpt_state = "absent" /\ ckpt = NoCkpt /\ saved = {}
    /\ trickles = <<>> /\ taken = 0 /\ faults = {}
    /\ crashes = 0

(* boinc_finish_and_exit: the job is over, whatever is still in memory.     *)
FinishJob(why) == pc' = "done" /\ exit' = why

-----------------------------------------------------------------------------
(* Start-up: preferences, port settings, the slot directory.               *)

Boot ==
    /\ pc = "boot"
    /\ \E n \in NumSamples, d \in BOOLEAN :
          /\ num_samples' = n /\ debug_enabled' = d
          /\ retries_left' = IF d THEN RetryCountDebug ELSE RetryCount
    /\ pc' = "resume"
    /\ UNCHANGED <<exit, progVars, fracVars, read_error_count, portVars, trickVars,
                   binVars, ckptVars, trickles, taken, faults, crashes>>

(* get_gmc_com_settings finds no usable gmc.xml: finish with status 1.     *)
BadConfig ==
    /\ pc = "boot" /\ FinishJob("badConfig")
    /\ UNCHANGED <<memVars, binVars, ckptVars, trickles, taken, faults, crashes>>

(* A data.bin that cannot be opened for reading, because there is none or  *)
(* for another reason, makes a new job: no line is counted, and the trickle *)
(* checkpoint is neither restored nor removed.                             *)
ResumeFresh ==
    /\ pc = "resume" /\ pc' = "open"
    /\ IF data_bin_exists
          THEN misreads < MaxMisreads /\ misreads' = misreads + 1
          ELSE UNCHANGED misreads
    /\ UNCHANGED <<exit, memVars, data_bin_exists, data_bin, ckptVars, trickles, taken,
                   faults, crashes>>

AlmostDone == num_samples - AlmostDoneMargin < Len(data_bin)

TryAlmostDoneExit ==
    /\ pc = "resume" /\ data_bin_exists /\ AlmostDone
    /\ data_bin_line_count' = Len(data_bin)
    /\ fraction_done' = Len(data_bin) /\ reported' = Len(data_bin)
    /\ FinishJob("almostDone")
    /\ UNCHANGED <<confVars, total_samples_done, sample_index, comVars, trickVars,
                   binVars, ckptVars, trickles, taken, faults, crashes>>

ResumeDataBin ==
    /\ pc = "resume" /\ data_bin_exists /\ ~AlmostDone
    /\ data_bin_line_count' = Len(data_bin)
    /\ IF data_bin # <<>>
          THEN fraction_done' = Len(data_bin) /\ reported' = Len(data_bin)
          ELSE UNCHANGED fracVars
    /\ pc' = "restore"
    /\ UNCHANGED <<exit, confVars, total_samples_done, sample_index, comVars,
                   trickVars, binVars, ckptVars, trickles, taken, faults, crashes>>

Clip(len, limit) == IF len > limit THEN limit ELSE len

(* The header lines of a truncated file cannot be read: nothing is restored, *)
(* and the file is removed all the same.                                     *)
RestoreTrickleCheckpoint ==
    /\ pc = "restore" /\ pc' = "open"
    /\ IF ckpt_state = "written"
          THEN /\ trickle_buf' = ckpt.ids /\ trickle_pending' = ckpt.pending
               /\ trickle_msg_len' = Clip(ckpt.len, MaxTrickleContentBytes)
          ELSE UNCHANGED bufVars
    /\ ckpt_state' = "absent" /\ ckpt' = NoCkpt
    /\ UNCHANGED <<exit, confVars, progVars, fracVars, comVars, trickle_sent,
                   binVars, saved, trickles, taken, faults, crashes>>

-----------------------------------------------------------------------------
(* Opening the detector's port.  An attempt finds no port, finds a port    *)
(* whose device does not answer <GETVER>> (it is closed again), or succeeds.*)

OpenResults == {"noPort", "noDevice", "ready"}
PortsLeftOpen(r) == IF r = "noPort" THEN open_ports ELSE open_ports + 1
PortsAfterOpen(r) == IF r = "ready" THEN open_ports + 1 ELSE open_ports

OpenAttempt(r) ==
    /\ com_handle' = (r = "ready") /\ com_open_ok' = (r = "ready")
    /\ open_ports' = PortsAfterOpen(r)

RetryOnceMore == retries_left >= 0
MayRetry == retries_left > 0

TryOneComOpen ==
    /\ pc = "open" /\ MayRetry
    /\ \E r \in OpenResults :
          /\ OpenAttempt(r)
          /\ pc' = IF r = "ready" THEN "enter" ELSE "delay"
    /\ UNCHANGED <<exit, confVars, progVars, fracVars, retries_left, read_error_count,
                   trickVars, binVars, ckptVars, trickles, taken, faults, crashes>>

SleepRetryDelay ==
    /\ pc = "delay" /\ pc' = "open"
    /\ retries_left' = retries_left - 1
    /\ UNCHANGED <<exit, confVars, progVars, fracVars, read_error_count, portVars,
                   trickVars, binVars, ckptVars, trickles, taken, faults, crashes>>

NoDetector ==
    /\ pc = "open" /\ ~MayRetry /\ FinishJob("noDetector")
    /\ UNCHANGED <<memVars, binVars, ckptVars, trickles, taken, faults, crashes>>

-----------------------------------------------------------------------------
(* The main loop.                                                          *)

FirstIndexFromZero == 0
FirstIndex == data_bin_line_count

EnterMainLoop ==
    /\ pc = "enter" /\ pc' = "loop"
    /\ sample_index' = FirstIndex
    /\ UNCHANGED <<exit, confVars, data_bin_line_count, total_samples_done, fracVars,
                   comVars, trickVars, binVars, ckptVars, trickles, taken, faults, crashes>>

QuotaPassed == num_samples < sample_index
QuotaReached == num_samples <= sample_index

LoopTop ==
    /\ pc = "loop"
    /\ IF QuotaReached
          THEN pc' = "finish" /\ UNCHANGED fraction_done
          ELSE /\ fraction_done' = sample_index
               /\ pc' = IF com_open_ok THEN "read" ELSE "reopen"
    /\ UNCHANGED <<exit, confVars, progVars, reported, comVars, trickVars,
                   binVars, ckptVars, trickles, taken, faults, crashes>>

(* gmc_boinc_should_exit: the client may have asked the process to quit at *)
(* any poll, which finishes the job, whatever is pending.                  *)
QuitPolled ==
    /\ pc \in {"open", "delay", "loop", "wait"}
    /\ (pc = "open" => MayRetry)
    /\ FinishJob("quit")
    /\ UNCHANGED <<memVars, binVars, ckptVars, trickles, taken, faults, crashes>>

(* A failed attempt still uses up the sample's turn.                       *)
SameTurn == sample_index
NextTurn == sample_index + 1

TryComReopen ==
    /\ pc = "reopen"
    /\ \E r \in OpenResults :
          /\ OpenAttempt(r)
          /\ IF r = "ready"
                THEN pc' = "read" /\ read_error_count' = 0 /\ UNCHANGED sample_index
                ELSE /\ pc' = "loop" /\ sample_index' = NextTurn
                     /\ UNCHANGED read_error_count
    /\ UNCHANGED <<exit, confVars, data_bin_line_count, total_samples_done, fracVars,
                   retries_left, trickVars, binVars, ckptVars, trickles, taken,
                   faults, crashes>>

SamplesOfThisProcess == total_samples_done + 1
SamplesOfTheJob == data_bin_line_count + total_samples_done + 1

(* READ_ATTEMPTS_PER_SAMPLE exchanges, one of which was answered.          *)
ReadSample ==
    /\ pc = "read" /\ pc' = "append"
    /\ read_error_count' = 0
    /\ total_samples_done' = total_samples_done + 1
    /\ fraction_done' = SamplesOfTheJob
    /\ taken' = taken + 1
    /\ UNCHANGED <<exit, confVars, data_bin_line_count, sample_index, reported,
                   retries_left, portVars, trickVars, binVars, ckptVars, trickles,
                   faults, crashes>>

LosesSooner(errors) == errors < ReadErrorThreshold
StillPatient(errors) == errors <= ReadErrorThreshold

ReadFailed ==
    /\ pc = "read"
    /\ read_error_count' = read_error_count + 1
    /\ pc' = IF StillPatient(read_error_count + 1) THEN "report" ELSE "lost"
    /\ UNCHANGED <<exit, confVars, progVars, fracVars, retries_left, portVars, trickVars,
                   binVars, ckptVars, trickles, taken, faults, crashes>>

(* boinc_send_trickle_up of the whole buffer, which the client may refuse. *)
PayloadWithNewest == IF pc = "trickle" THEN Append(trickle_buf, taken) ELSE trickle_buf
Payload == trickle_buf

SendTrickle(accepted) ==
    IF accepted
       THEN trickles' = Append(trickles, Payload) /\ UNCHANGED faults
       ELSE faults' = faults \cup {"send"} /\ UNCHANGED trickles

KeepBuffer == UNCHANGED bufVars
ClearBuffer == trickle_buf' = <<>> /\ trickle_pending' = 0 /\ trickle_msg_len' = 0

(* The send shared by the lost-sensor and the exit path: keep on failure.  *)
AlwaysPending == TRUE
HasMorePending == trickle_pending > 1 /\ trickle_msg_len > 0
HasPending == trickle_pending > 0 /\ trickle_msg_len > 0

SendPending ==
    IF HasPending
       THEN \E accepted \in BOOLEAN :
               /\ SendTrickle(accepted)
               /\ IF accepted THEN ClearBuffer ELSE KeepBuffer
       ELSE KeepBuffer /\ UNCHANGED <<trickles, faults>>

ClosePort == open_ports' = IF com_handle THEN open_ports - 1 ELSE open_ports

LostSensor ==
    /\ pc = "lost" /\ pc' = "report"
    /\ SendPending
    /\ ClosePort /\ com_open_ok' = FALSE /\ com_handle' = FALSE
    /\ UNCHANGED <<exit, confVars, progVars, fracVars, retries_left, read_error_count,
                   trickle_sent, binVars, ckptVars, taken, crashes>>

-----------------------------------------------------------------------------
(* write_data_bin_and_trickle: open data.bin, decide about the trickle,    *)
(* and let the stream's destructor write the line.                         *)

OpenDataBin ==
    /\ pc = "append"
    /\ \/ /\ pc' = "trickle" /\ data_bin_exists' = TRUE
          /\ UNCHANGED faults
       \/ /\ pc' = "ckpt" /\ faults' = faults \cup {"append"}
          /\ UNCHANGED data_bin_exists
    /\ UNCHANGED <<exit, memVars, data_bin, misreads, ckptVars, trickles, taken, crashes>>

MinPending == IF debug_enabled THEN TrickleMinPendingDebug ELSE TrickleMinPending
TrickleMaxContent ==
    Clip(IF debug_enabled THEN TrickleContentDebug ELSE TrickleContent,
         MaxTrickleContentBytes)

IntervalOk(elapsed) == trickle_pending > MinPending /\ elapsed
BufferAlreadyFull(xml) == trickle_msg_len >= TrickleMaxContent
BufferFull(xml) == trickle_msg_len + xml > TrickleMaxContent

(* The sample just read is kept out of the payload that is sent now.       *)
KeepAll(xml) ==
    /\ trickle_buf' = Append(trickle_buf, taken) /\ trickle_pending' = trickle_pending + 1
    /\ trickle_msg_len' = Clip(xml, TrickleMaxContent)
KeepAlone(xml) ==
    /\ trickle_buf' = <<taken>> /\ trickle_pending' = 1
    /\ trickle_msg_len' = Clip(xml, TrickleMaxContent)
AppendToBuffer(xml) ==
    /\ trickle_buf' = Append(trickle_buf, taken)
    /\ trickle_pending' = trickle_pending + 1
    /\ trickle_msg_len' = trickle_msg_len + xml

SeveralToSend == trickle_pending > 1
SomethingToSend == trickle_msg_len > 0

(* elapsed: the trickle interval has passed (SampleClock has the clock).   *)
BufferOrSend ==
    /\ pc = "trickle" /\ pc' = "flush"
    /\ \E xml \in XmlLens, elapsed \in BOOLEAN :
          IF IntervalOk(elapsed) \/ BufferFull(xml)
             THEN /\ IF SomethingToSend
                        THEN \E accepted \in BOOLEAN :
                                /\ SendTrickle(accepted)
                                /\ trickle_sent' = (trickle_sent \/ accepted)
                        ELSE UNCHANGED <<trickles, trickle_sent, faults>>
                  /\ KeepAlone(xml)
             ELSE /\ AppendToBuffer(xml)
                  /\ UNCHANGED <<trickles, trickle_sent, faults>>
    /\ UNCHANGED <<exit, confVars, progVars, fracVars, comVars, binVars, ckptVars,
                   taken, crashes>>

FlushTruncated ==  \* had the file been opened to write, not to append
    /\ pc = "flush" /\ pc' = "ckpt" /\ data_bin' = <<taken>>
    /\ UNCHANGED <<exit, memVars, data_bin_exists, misreads, ckptVars, trickles, taken,
                   faults, crashes>>
FlushLine ==
    /\ pc = "flush" /\ pc' = "ckpt"
    /\ data_bin' = Append(data_bin, taken)
    /\ UNCHANGED <<exit, memVars, data_bin_exists, misreads, ckptVars, trickles, taken,
                   faults, crashes>>

-----------------------------------------------------------------------------
(* The trickle checkpoint: written only when the client has time for one   *)
(* and this process has not sent a trickle from the write path.            *)

SkipCheckpoint ==
    /\ pc = "ckpt" /\ pc' = "report"
    /\ UNCHANGED <<exit, memVars, binVars, ckptVars, trickles, taken, faults, crashes>>

TruncateCheckpoint ==
    /\ pc = "ckpt" /\ ~trickle_sent
    /\ \/ /\ pc' = "persist" /\ ckpt_state' = "truncated" /\ ckpt' = NoCkpt
       \/ pc' = "report" /\ UNCHANGED <<ckpt_state, ckpt>>
    /\ UNCHANGED <<exit, memVars, binVars, saved, trickles, taken, faults, crashes>>

PersistTrickleCheckpoint ==
    /\ pc = "persist" /\ pc' = "report"
    /\ ckpt_state' = "written"
    /\ ckpt' = [pending |-> trickle_pending, ids |-> trickle_buf,
                len |-> trickle_msg_len]
    /\ saved' = saved \cup Range(trickle_buf)
    /\ UNCHANGED <<exit, memVars, binVars, trickles, taken, faults, crashes>>

-----------------------------------------------------------------------------
(* The end of an iteration and of the job.                                 *)

ReportFraction ==
    /\ pc = "report" /\ pc' = "wait"
    /\ reported' = fraction_done
    /\ UNCHANGED <<exit, confVars, progVars, fraction_done, comVars, trickVars,
                   binVars, ckptVars, trickles, taken, faults, crashes>>

WaitSampleInterval ==
    /\ pc = "wait" /\ pc' = "loop"
    /\ sample_index' = NextTurn
    /\ UNCHANGED <<exit, confVars, data_bin_line_count, total_samples_done, fracVars,
                   comVars, trickVars, binVars, ckptVars, trickles, taken, faults,
                   crashes>>

FinishSend ==
    /\ pc = "finish" /\ pc' = "close"
    /\ SendPending
    /\ UNCHANGED <<exit, confVars, progVars, fracVars, comVars, trickle_sent,
                   binVars, ckptVars, taken, crashes>>

FinishClose ==
    /\ pc = "close" /\ FinishJob("complete")
    /\ ClosePort
    /\ reported' = num_samples
    /\ UNCHANGED <<confVars, progVars, fraction_done, retries_left, read_error_count,
                   com_open_ok, com_handle, trickVars, binVars, ckptVars, trickles,
                   taken, faults, crashes>>

-----------------------------------------------------------------------------
(* The client and the machine.                                             *)

(* The process dies and the client starts it again in the same slot.       *)
Crash ==
    /\ pc \notin {"boot", "done"} /\ crashes < MaxCrashes
    /\ crashes' = crashes + 1 /\ faults' = faults \cup {"crash"}
    /\ pc' = "boot"
    /\ num_samples' = 0 /\ debug_enabled' = FALSE
    /\ data_bin_line_count' = 0 /\ total_samples_done' = 0 /\ sample_index' = 0
    /\ fraction_done' = 0 /\ reported' = 0
    /\ retries_left' = 0 /\ read_error_count' = 0
    /\ com_open_ok' = FALSE /\ com_handle' = FALSE /\ open_ports' = 0
    /\ ClearBuffer /\ trickle_sent' = FALSE
    /\ UNCHANGED <<exit, binVars, ckptVars, trickles, taken>>

Terminated == pc = "done" /\ UNCHANGED vars

StartUp == Boot \/ BadConfig \/ ResumeFresh \/ TryAlmostDoneExit \/ ResumeDataBin
           \/ RestoreTrickleCheckpoint
OpenCom == TryOneComOpen \/ SleepRetryDelay \/ NoDetector
Iterate == EnterMainLoop \/ LoopTop \/ QuitPolled \/ TryComReopen \/ ReadSample
           \/ ReadFailed \/ LostSensor \/ ReportFraction \/ WaitSampleInterval
WriteOut == OpenDataBin \/ BufferOrSend \/ FlushLine \/ SkipCheckpoint
            \/ TruncateCheckpoint \/ PersistTrickleCheckpoint
Finish == FinishSend \/ FinishClose

AppStep == StartUp \/ OpenCom \/ Iterate \/ WriteOut \/ Finish
Next == AppStep \/ Crash \/ Terminated

Spec == Init /\ [][Next]_vars
(* The thread keeps running while the process lives: nothing blocks it but *)
(* suspension by the client, which ends.                                   *)
FairSpec == Spec /\ WF_vars(AppStep)

-----------------------------------------------------------------------------
(* What must hold.                                                         *)

InJob == pc \notin {"boot", "resume", "done"}
Unflushed == pc \in {"append", "trickle", "flush"}   \* a sample read, its line not written

(* Lines that a process may not have counted when it began: none while the *)
(* data.bin could be read at every start, else a quota for each misread.   *)
Uncounted == misreads * MaxNumSamples

(* data.bin never has more lines than the quota asks for, however often    *)
(* the process is restarted and whatever quota each start is given: the    *)
(* loop of run_main_loop starts at the lines already there.  A process     *)
(* that could not open the file for reading (main_app.cpp:224) writes a    *)
(* whole quota below the lines it has not seen, and no more.               *)
LinesWithinQuota ==
    /\ Len(data_bin) <= Uncounted + MaxNumSamples
    /\ InJob => Len(data_bin) <= Uncounted + num_samples

(* boinc_fraction_done is never called with more than 1.0, except by       *)
(* try_almost_done_exit when the quota has shrunk since the lines were     *)
(* written.                                                                *)
FractionWithinOne == exit # "almostDone" => reported <= num_samples

(* What is reported after a sample counts the lines of data.bin exactly,   *)
(* lines of earlier processes included, when every line could be written   *)
(* and, at each start, read.                                               *)
ProgressMatchesDisk ==
    (pc \in {"ckpt", "persist"} /\ "append" \notin faults /\ misreads = 0)
        => fraction_done = Len(data_bin)

(* The process owns one open port exactly while com_handle is not null,    *)
(* reads only from an open port, and closes it before a normal finish.     *)
PortOwned ==
    /\ pc # "done" => open_ports = (IF com_handle THEN 1 ELSE 0)
    /\ com_open_ok => com_handle
    /\ pc \in {"read", "append", "trickle", "flush", "lost"} => com_open_ok
    /\ exit = "complete" => open_ports = 0

(* trickle_msg_buf never overflows, also when its content was restored     *)
(* from a process with a larger limit, and trickle_pending counts it.      *)
BufferFits ==
    /\ trickle_msg_len <= MaxTrickleContentBytes
    /\ trickle_pending = Len(trickle_buf)

(* A trickle carries only samples that already have their line in data.bin,*)
(* so the server never knows a sample that a restart would not see.        *)
UploadedIsRecorded == Uploaded \subseteq Range(data_bin)

(* Each sample read in any process of the job has a line in data.bin, but  *)
(* for at most one for each time the process was killed and the one being  *)
(* written: while the file can be opened (main_app.cpp:415) neither a lost *)
(* sensor nor a restart costs a line.                                      *)
CrashCostsOneSample ==
    "append" \notin faults =>
       taken - Len(data_bin) \in 0..crashes + (IF Unflushed THEN 1 ELSE 0)

(* Every step of a process goes on to a later place of the code, or back   *)
(* to the head of one of its two loops with a retry or a turn less to go:  *)
(* failed openings and reads use theirs up too (main_app.cpp:340, 568), so *)
(* that only finitely many steps lie between two crashes.                  *)
Places == <<"boot", "resume", "restore", "open", "delay", "enter", "loop", "reopen", "read",
            "append", "trickle", "flush", "ckpt", "persist", "lost", "report", "wait",
            "finish", "close", "done">>
Further == \E i, j \in DOMAIN Places : i < j /\ Places[i] = pc /\ Places[j] = pc'
InTurns == pc \notin {"boot", "resume", "restore", "open", "delay", "enter"}
TurnsLeft == num_samples - sample_index
LeadsOn ==
    \/ crashes' > crashes
    \/ /\ Further
       /\ pc # "boot" => UNCHANGED retries_left
       /\ InTurns => UNCHANGED TurnsLeft
    \/ pc = "delay" /\ pc' = "open" /\ retries_left' \in 0..retries_left - 1
    \/ InTurns /\ pc' = "loop" /\ UNCHANGED retries_left /\ TurnsLeft' \in 0..TurnsLeft - 1
StepsLeadOn == [][LeadsOn]_vars

-----------------------------------------------------------------------------
(* Why it holds: the inductive invariant of the proofs.                    *)

BeforeLoop == {"restore", "open", "delay", "enter"}
Turn == {"reopen", "read", "append", "trickle", "flush", "ckpt", "persist", "lost",
         "report", "wait"}
AfterRead == {"append", "trickle", "flush", "ckpt", "persist", "report", "wait"}
MainLoop == Turn \cup {"loop", "finish", "close"}
Here(S) == IF pc \in S THEN 1 ELSE 0

(* The turns used up bound the samples read, and these the lines written.  *)
ProgressInv ==
    /\ (pc = "done") = (exit # "none")
    /\ ~data_bin_exists => Len(data_bin) = 0
    /\ pc \in {"trickle", "flush"} => data_bin_exists
    /\ Len(data_bin) <= Uncounted + MaxNumSamples
    /\ pc \in {"boot", "resume"} =>
          data_bin_line_count = 0 /\ total_samples_done = 0
    /\ pc \in BeforeLoop =>
          /\ total_samples_done = 0 /\ data_bin_line_count <= num_samples
          /\ Len(data_bin) <= Uncounted + data_bin_line_count
          /\ misreads = 0 => data_bin_line_count = Len(data_bin)
    /\ pc \in Turn => sample_index < num_samples
    /\ pc \in MainLoop =>
          /\ sample_index <= num_samples
          /\ data_bin_line_count + total_samples_done <= sample_index + Here(AfterRead)
          /\ Len(data_bin) + Here({"append", "trickle", "flush"})
                <= Uncounted + data_bin_line_count + total_samples_done
          /\ "append" \notin faults /\ misreads = 0 =>
                Len(data_bin) + Here({"append", "trickle", "flush"})
                   = data_bin_line_count + total_samples_done
FractionInv ==
    /\ pc \in {"boot", "resume"} => fraction_done = 0 /\ reported = 0
    /\ pc # "done" => fraction_done <= num_samples
    /\ exit # "almostDone" => reported <= num_samples
    /\ pc \in {"append", "trickle", "flush", "ckpt", "persist"} =>
          fraction_done = data_bin_line_count + total_samples_done

(* The port is open in the whole of a turn that reads, and nowhere before. *)
PortInv ==
    /\ pc # "done" => open_ports = (IF com_handle THEN 1 ELSE 0)
    /\ com_open_ok = com_handle
    /\ pc \in {"boot", "resume", "restore", "open", "delay", "reopen"} => ~com_open_ok
    /\ pc \in {"read", "append", "trickle", "flush", "ckpt", "persist", "lost"} =>
          com_open_ok
    /\ exit # "none" => pc = "done"
    /\ exit = "complete" => open_ports = 0

BufferInv == BufferFits /\ ckpt.pending = Len(ckpt.ids)

(* Everything buffered or checkpointed has its line, except the sample     *)
(* whose line is about to be flushed.                                      *)
RecordInv ==
    /\ Range(trickle_buf) \subseteq
          Range(data_bin) \cup (IF pc = "flush" THEN {taken} ELSE {})
    /\ Range(ckpt.ids) \subseteq Range(data_bin)
    /\ Uploaded \subseteq Range(data_bin)

IInv == TypeOK /\ ProgressInv /\ FractionInv /\ PortInv /\ BufferInv /\ RecordInv

-----------------------------------------------------------------------------
(* The detector as the main loop uses it. *)
Link == IF pc = "lost" THEN "lost" ELSE IF com_open_ok THEN "ready" ELSE "closed"
Detector == INSTANCE DetectorUse WITH
    Threshold <- ReadErrorThreshold, errors <- read_error_count, link <- Link

(* MainApp implements DetectorUse: a detector is given up only when it has *)
(* missed one sample more than the threshold in a row, and at once; a port *)
(* opened later starts a new count (handle_read_error_and_lost_sensor).    *)
ImplementsDetector == Detector!Spec

(* The trickle buffer as the clock uses it. *)
Buffer == INSTANCE TrickleUse WITH
    pending <- trickle_pending, sent <- trickle_sent, accepted <- Len(trickles),
    stored <- IF ckpt_state = "written" THEN ckpt.pending ELSE -1

(* MainApp implements TrickleUse: the count of the buffer goes down only   *)
(* with a trickle accepted, on the write path also with one refused, and a *)
(* checkpoint is written by a process that has sent nothing (main_app.cpp: *)
(* 422-472, 479-487) and restored once.                                    *)
ImplementsTrickleUse == Buffer!Spec

(* The promise of a work unit to its project. *)
Job == INSTANCE JobLedger WITH recorded <- data_bin, uploaded <- trickles,
                               finished <- exit # "none", allowed <- Uncounted + MaxNumSamples

(* MainApp implements JobLedger: data.bin grows by newer samples only, and *)
(* trickles carry recorded samples in order, through every crash and every *)
(* start that could not read the file.                                     *)
ImplementsLedger == Job!LedgerSpec

(* Every job is finished: by its quota, by having been almost done, for    *)
(* want of a detector or on request; no error path spins for ever.         *)
JobFinishes == Job!LedgerFinishes
=============================================================================
