----------------------------- MODULE SampleClock -----------------------------
(***************************************************************************)
(* The times of recovered/main_app.cpp: the timer, counter and sample_type *)
(* of each line of data.bin, and the rate limit of the trickles, over      *)
(* restarts, reopened ports and a wall clock that may be set back.  The    *)
(* quota, the buffer's content and the order of the writes are in MainApp. *)
(*                                                                         *)
(* Times are in seconds.  The counter adds the counts of each interval,    *)
(* minutes times CPM, rounded to a whole number.                           *)
(***************************************************************************)
EXTENDS Integers, Sequences

CONSTANTS
    Minute,            \* seconds of a minute: gmc::MS_PER_MINUTE
    LongGap,           \* gmc::LONG_GAP_MS, in seconds
    TrickleInterval,   \* gmc::TRICKLE_MIN_INTERVAL_MIN, in seconds
    MinPending,        \* gmc::TRICKLE_MIN_PENDING
    MaxContent,        \* samples trickle_max_content has room for
    CpmValues,         \* what the detector may answer
    WordMod,           \* where a uint32 of the unit wraps around
    MaxTime, MaxSamples,  \* bounds on one behaviour
    MaxMishaps         \* bound: crashes, reopenings and clocks set back together

ASSUME ClockAssumption ==
    /\ Minute \in Nat \ {0} /\ LongGap \in Nat /\ TrickleInterval \in Nat
    /\ MinPending \in Nat /\ MaxContent \in Nat \ {0}
    /\ CpmValues \subseteq Nat
    /\ MaxTime \in Nat \ {0} /\ WordMod \in Nat \ {0}
    /\ MaxSamples \in Nat /\ MaxMishaps \in Nat

VARIABLES
    pc, now,
    data_bin_line_count, total_samples_done,
    time_start, time_prev_sample, last_sample_time, last_trickle_send_time,
    counter,
    prev_timer,           \* prev_timer_ms
    trickle_pending, trickle_sent,
    ckpt,                 \* the times trickle_checkpoint.dat holds, or NoCkpt
    lines,                \* data.bin, each line with where it comes from
    sends,                \* trickles accepted: when and why
    opened_at,            \* when this connection was opened
    reads,                \* samples read on this connection
    crashes, reopens, set_backs,
    append_failed,        \* some line could not be written
    misread               \* some start could not open a data.bin that exists

procVars == <<data_bin_line_count, total_samples_done>>
startVars == <<time_start, opened_at>>
sampleVars == <<time_prev_sample, last_sample_time, counter, reads>>
trickleVars == <<last_trickle_send_time, trickle_pending, trickle_sent>>
boundVars == <<crashes, reopens, set_backs>>
vars == <<pc, now, procVars, startVars, sampleVars, trickleVars, prev_timer, ckpt, lines,
          sends, boundVars, append_failed, misread>>

NoCkpt == [time |-> -1, pending |-> 0]
Words == 0..WordMod - 1
Times == 0..MaxTime
Lines == [timer : Words, counter : Words, type : {"f", "r", "n"}, at : Times,
          opened : Times, reads : 0..MaxSamples, process : 0..MaxMishaps,
          connection : 0..MaxMishaps]
Sends == [at : Times, why : {"interval", "full", "lost"}]

TypeOK ==
    /\ pc \in {"start", "open", "enter", "loop", "write", "checkpoint", "reopen"}
    /\ now \in Times
    /\ data_bin_line_count \in 0..MaxSamples /\ total_samples_done \in 0..MaxSamples
    /\ time_start \in Times /\ time_prev_sample \in Times
    /\ last_sample_time \in Times /\ last_trickle_send_time \in Times /\ opened_at \in Times
    /\ counter \in Words /\ prev_timer \in Words /\ reads \in 0..MaxSamples
    /\ trickle_pending \in 0..MaxContent /\ trickle_sent \in BOOLEAN
    /\ ckpt = NoCkpt \/ ckpt \in [time : Times, pending : 0..MaxContent]
    /\ lines \in Seq(Lines) /\ sends \in Seq(Sends)
    /\ {crashes, reopens, set_backs} \subseteq 0..MaxMishaps
    /\ append_failed \in BOOLEAN /\ misread \in BOOLEAN

Init ==
    /\ pc = "start" /\ now = 0
    /\ data_bin_line_count = 0 /\ total_samples_done = 0
    /\ time_start = 0 /\ time_prev_sample = 0 /\ last_sample_time = 0 /\ opened_at = 0
    /\ last_trickle_send_time = 0
    /\ counter = 0 /\ prev_timer = 0 /\ reads = 0
    /\ trickle_pending = 0 /\ trickle_sent = FALSE
    /\ ckpt = NoCkpt /\ lines = <<>> /\ sends = <<>>
    /\ crashes = 0 /\ reopens = 0 /\ set_backs = 0
    /\ append_failed = FALSE /\ misread = FALSE

-----------------------------------------------------------------------------
(* Start, resume and the opening of the port.                              *)

(* The loop that counts the lines leaves line_buf empty when it meets the  *)
(* end of the file, so that parse_last_line_tokens finds no token.         *)
TimerParsed == 0

Resume ==
    /\ data_bin_line_count' = Len(lines)
    /\ IF lines # <<>> /\ ckpt # NoCkpt
          THEN /\ last_trickle_send_time' = ckpt.time /\ trickle_pending' = ckpt.pending
               /\ ckpt' = NoCkpt
          ELSE UNCHANGED <<last_trickle_send_time, trickle_pending, ckpt>>
    /\ UNCHANGED misread

(* A data.bin that is there but cannot be opened is taken for none: its    *)
(* lines are not counted, and the checkpoint is left alone.                *)
FailToResume ==
    /\ lines # <<>> /\ misread' = TRUE
    /\ data_bin_line_count' = 0
    /\ UNCHANGED <<last_trickle_send_time, trickle_pending, ckpt>>

StartProcess ==
    /\ pc = "start" /\ pc' = "open"
    /\ Resume \/ FailToResume
    /\ prev_timer' = TimerParsed
    /\ time_prev_sample' = now /\ last_sample_time' = now
    /\ UNCHANGED <<now, total_samples_done, startVars, counter, reads, trickle_sent, lines,
                   sends, boundVars, append_failed>>

OpenCom ==
    /\ pc = "open" /\ pc' = "enter"
    /\ last_sample_time' = now /\ counter' = 0 /\ opened_at' = now /\ reads' = 0
    /\ UNCHANGED <<now, procVars, time_start, time_prev_sample, trickleVars, prev_timer,
                   ckpt, lines, sends, boundVars, append_failed, misread>>

(* The time of the last trickle is overwritten, also a restored one. *)
LeaveInterval == UNCHANGED last_trickle_send_time
RestartInterval == last_trickle_send_time' = now

EnterMainLoop ==
    /\ pc = "enter" /\ pc' = "loop"
    /\ time_start' = now /\ RestartInterval
    /\ UNCHANGED <<now, procVars, opened_at, sampleVars, trickle_pending, trickle_sent,
                   prev_timer, ckpt, lines, sends, boundVars, append_failed, misread>>

-----------------------------------------------------------------------------
(* One sample.                                                             *)

WrappedElapsed(from, to) == (to - from) % WordMod
(* A difference of times that is not positive counts as none.              *)
Elapsed(from, to) == IF to - from <= 0 THEN 0 ELSE (to - from) % WordMod

(* An interval that is not positive counts as one second.                  *)
Counted(from, to) == IF to - from <= 0 THEN 1 ELSE Elapsed(from, to)

(* The whole numbers nearest to seconds * cpm / Minute: where two are, the *)
(* error of the floating point product decides.                            *)
Nearest(product) ==
    {counts \in {product \div Minute, product \div Minute + 1} :
        2 * Minute * counts - 2 * product \in -Minute..Minute}

KeepLastSample == last_sample_time' = last_sample_time
MoveLastSample == last_sample_time' = now

(* Reading the detector takes seconds. *)
ClockMoved == now > last_sample_time \/ set_backs > 0
(* Bound: the samples of a job, and the lines of all its processes.        *)
SamplesLeft ==
    data_bin_line_count + total_samples_done < MaxSamples /\ Len(lines) < MaxSamples

ReadSample ==
    /\ pc = "loop" /\ pc' = "write"
    /\ ClockMoved /\ SamplesLeft
    /\ total_samples_done' = total_samples_done + 1 /\ reads' = reads + 1
    /\ time_prev_sample' = now /\ MoveLastSample
    /\ \E cpm \in CpmValues : \E counts \in Nearest(Counted(last_sample_time, now) * cpm) :
          counter' = (counter + counts) % WordMod
    /\ UNCHANGED <<now, data_bin_line_count, startVars, trickleVars, prev_timer, ckpt,
                   lines, sends, boundVars, append_failed, misread>>

FreshEveryTime(timer) ==
    IF total_samples_done = 1 THEN "f"
    ELSE IF timer > prev_timer /\ timer - prev_timer > LongGap THEN "r" ELSE "n"
SampleType(timer) ==
    IF total_samples_done = 1
       THEN IF data_bin_line_count > 0 THEN "r" ELSE "f"
       ELSE IF timer > prev_timer /\ timer - prev_timer > LongGap THEN "r" ELSE "n"

LineOf(timer) ==
    [timer |-> timer, counter |-> counter, type |-> SampleType(timer),
     at |-> time_prev_sample, opened |-> opened_at, reads |-> reads, process |-> crashes,
     connection |-> reopens]

IntervalOk ==
    /\ trickle_pending > MinPending
    /\ now - last_trickle_send_time >= TrickleInterval
BufferFullAfter == trickle_pending > MaxContent
BufferFull == trickle_pending + 1 > MaxContent

Sent(why) == sends' = Append(sends, [at |-> now, why |-> why])

BufferOrSend ==
    IF IntervalOk \/ BufferFull
       THEN /\ \/ /\ trickle_pending > 0
                  /\ Sent(IF IntervalOk THEN "interval" ELSE "full")
                  /\ trickle_sent' = TRUE /\ last_trickle_send_time' = now
               \/ UNCHANGED <<sends, trickle_sent, last_trickle_send_time>>
            /\ trickle_pending' = 1
       ELSE /\ trickle_pending' = trickle_pending + 1
            /\ UNCHANGED <<sends, trickle_sent, last_trickle_send_time>>

RememberAlways(written, timer) == prev_timer' = timer
RememberWritten(written, timer) == prev_timer' = IF written THEN timer ELSE prev_timer

WriteDataBinAndTrickle ==
    /\ pc = "write" /\ pc' = "checkpoint"
    /\ LET timer == Elapsed(time_start, time_prev_sample) IN
       \/ /\ lines' = Append(lines, LineOf(timer))
          /\ RememberWritten(TRUE, timer) /\ BufferOrSend
          /\ UNCHANGED append_failed
       \/ /\ append_failed' = TRUE /\ RememberWritten(FALSE, timer)
          /\ UNCHANGED <<lines, trickleVars, sends>>
    /\ UNCHANGED <<now, procVars, startVars, sampleVars, ckpt, boundVars, misread>>

PersistCheckpoint ==
    /\ pc = "checkpoint" /\ pc' = "loop"
    /\ \/ /\ ~trickle_sent
          /\ ckpt' = [time |-> last_trickle_send_time, pending |-> trickle_pending]
       \/ UNCHANGED ckpt
    /\ UNCHANGED <<now, procVars, startVars, sampleVars, trickleVars, prev_timer, lines,
                   sends, boundVars, append_failed, misread>>

-----------------------------------------------------------------------------
(* The port is lost and opened again; the machine.                         *)

MishapLeft == crashes + reopens + set_backs < MaxMishaps

LostSensor ==
    /\ pc = "loop" /\ pc' = "reopen"
    /\ \/ trickle_pending > 0 /\ Sent("lost") /\ trickle_pending' = 0
       \/ UNCHANGED <<sends, trickle_pending>>
    /\ UNCHANGED <<now, procVars, startVars, sampleVars, last_trickle_send_time,
                   trickle_sent, prev_timer, ckpt, lines, boundVars, append_failed, misread>>

TryComReopen ==
    /\ pc = "reopen" /\ pc' = "loop" /\ MishapLeft
    /\ reopens' = reopens + 1
    /\ counter' = 0 /\ reads' = 0 /\ time_start' = now /\ RestartInterval
    /\ last_sample_time' = now /\ opened_at' = now
    /\ UNCHANGED <<now, procVars, time_prev_sample, trickle_pending, trickle_sent,
                   prev_timer, ckpt, lines, sends, crashes, set_backs, append_failed, misread>>

(* Waiting, suspension and retries, and the clock being set back.          *)
Waiting == pc \in {"start", "open", "loop", "reopen"}

Tick ==
    /\ Waiting /\ now < MaxTime /\ now' = now + 1
    /\ UNCHANGED <<pc, procVars, startVars, sampleVars, trickleVars, prev_timer, ckpt,
                   lines, sends, boundVars, append_failed, misread>>

SetBack ==
    /\ Waiting /\ MishapLeft /\ set_backs' = set_backs + 1
    /\ now > 0 /\ now' = now - 1
    /\ UNCHANGED <<pc, procVars, startVars, sampleVars, trickleVars, prev_timer, ckpt,
                   lines, sends, crashes, reopens, append_failed, misread>>

Crash ==
    /\ pc # "start" /\ MishapLeft /\ crashes' = crashes + 1
    /\ pc' = "start"
    /\ data_bin_line_count' = 0 /\ total_samples_done' = 0
    /\ time_start' = 0 /\ time_prev_sample' = 0 /\ last_sample_time' = 0
    /\ opened_at' = 0 /\ last_trickle_send_time' = 0
    /\ counter' = 0 /\ prev_timer' = 0 /\ reads' = 0
    /\ trickle_pending' = 0 /\ trickle_sent' = FALSE
    /\ UNCHANGED <<now, ckpt, lines, sends, reopens, set_backs, append_failed, misread>>

(* The wait for the next sample or attempt, a minute or less at a time.     *)
Wait == pc \in {"loop", "reopen"} /\ UNCHANGED vars

Next ==
    \/ StartProcess \/ OpenCom \/ EnterMainLoop
    \/ ReadSample \/ WriteDataBinAndTrickle \/ PersistCheckpoint
    \/ LostSensor \/ TryComReopen
    \/ Tick \/ SetBack \/ Wait \/ Crash

Spec == Init /\ [][Next]_vars

-----------------------------------------------------------------------------
(* What must hold.                                                         *)

SameProcess(i, j) == lines[i].process = lines[j].process
SameConnection(i, j) == SameProcess(i, j) /\ lines[i].connection = lines[j].connection

(* A trickle sent for the interval's sake never follows an earlier trickle *)
(* of any kind by less than the interval while the clock is never set back *)
(* (elapsed_sec of main_app.cpp:431-433): not one sent when the sensor was *)
(* lost, which is not noted in last_trickle_send_time, nor one of another  *)
(* process, whose time is forgotten.                                       *)
SendsSpaced ==
    set_backs = 0 =>
       \A j \in 2..Len(sends) :
          sends[j].why = "interval" => sends[j].at - sends[j - 1].at >= TrickleInterval

(* The counter holds the counts of the time since the port was opened, at  *)
(* rates between the lowest and the highest answered, within half a count  *)
(* for each sample: every second is counted once, those of failed reads    *)
(* and of lines that could not be written included, unless the clock was   *)
(* set back (main_app.cpp:519-527).                                        *)
CounterCoversTime ==
    set_backs = 0 =>
       \A i \in DOMAIN lines, low, high \in CpmValues :
          CpmValues \subseteq low..high =>
             LET covered == lines[i].at - lines[i].opened
                 rounding == Minute * lines[i].reads IN
             2 * Minute * lines[i].counter
                \in 2 * covered * low - rounding..2 * covered * high + rounding

(* data.bin has the type "f" on its first line and on no other, however    *)
(* often the process is restarted, when every line could be written and    *)
(* data.bin be opened at each start (get_sample_type, main_app.cpp:224).   *)
FirstLineIsFresh ==
    append_failed \/ misread \/ \A i \in DOMAIN lines : (lines[i].type = "f") = (i = 1)

(* While the port stays open and the clock is not set back, a line is      *)
(* marked "r" after a long gap since the line before, and only then: a     *)
(* line that was not written is no line.                                   *)
GapsMarked ==
    set_backs = 0 =>
       \A i \in 2..Len(lines) :
          SameConnection(i - 1, i) =>
             (lines[i].type = "r") = (lines[i].at - lines[i - 1].at > LongGap)

(* A clock that is set back makes no timer and no counter leap: negative   *)
(* differences never reach the unsigned arithmetic, and no sample adds     *)
(* more than the time there is and half a count.                           *)
NoLeap ==
    \A i \in DOMAIN lines :
       /\ lines[i].timer <= MaxTime
       /\ \A high \in CpmValues :
             CpmValues \subseteq 0..high =>
                2 * Minute * lines[i].counter <= (2 * MaxTime * high + Minute) * MaxSamples

-----------------------------------------------------------------------------
(* The trickle buffer as the main loop fills it. *)
Buffer == INSTANCE TrickleUse WITH
    pending <- trickle_pending, sent <- trickle_sent, accepted <- Len(sends),
    stored <- IF ckpt = NoCkpt THEN -1 ELSE ckpt.pending

(* SampleClock implements TrickleUse: what its clock lets be sent, kept    *)
(* and restored is what MainApp allows with any clock.                     *)
ImplementsTrickleUse == Buffer!Spec

(* docs/original-program-behaviour.md:56 "Only the first field (timer of   *)
(* the last line) is restored; it is used as the previous timer".          *)
PrevTimerRestored ==
    pc = "enter" /\ lines # <<>> /\ ~misread => prev_timer = lines[Len(lines)].timer
=============================================================================
