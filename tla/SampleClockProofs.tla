-------------------------- MODULE SampleClockProofs --------------------------
(***************************************************************************)
(* Theorems about module SampleClock, for every interval, gap, buffer and  *)
(* number of crashes, reopenings and clocks set back.  Those about times   *)
(* speak of jobs shorter than the wrap of the unsigned arithmetic.         *)
(***************************************************************************)
EXTENDS SampleClock, TLAPS

USE DEF procVars, startVars, sampleVars, trickleVars, boundVars, vars

-----------------------------------------------------------------------------
(* The unsigned arithmetic.                                                *)

(* What is reduced by the modulus is a word.                               *)
LEMMA WordOf == ASSUME NEW v \in Int PROVE v % WordMod \in Words
<1>1. ASSUME NEW m \in Nat \ {0} PROVE v % m \in 0..m - 1
  OBVIOUS
<1> QED  BY <1>1, ClockAssumption DEF Words

(* A number below the modulus is kept.                                     *)
LEMMA SmallModulo == ASSUME NEW v \in Nat, NEW m \in Nat \ {0}, v < m PROVE v % m = v
<1>1. v = m * (v \div m) + (v % m)
  OBVIOUS
<1>2. v \div m \in Int /\ v % m \in 0..m - 1
  OBVIOUS
<1>3. ASSUME NEW q \in Int, NEW r \in 0..m - 1, v = m * q + r PROVE r = v
  <2>1. CASE q >= 1
    BY <1>3, <2>1
  <2>2. CASE q <= -1
    BY <1>3, <2>2
  <2>3. CASE q = 0
    BY <1>3, <2>3
  <2> QED  BY <2>1, <2>2, <2>3
<1> QED  BY <1>1, <1>2, <1>3

(* So is a difference of times while nothing wraps.                        *)
LEMMA WordKept == ASSUME NEW v \in Nat, v < WordMod PROVE v % WordMod = v
  BY SmallModulo, ClockAssumption

(* A number is never less than what the modulus leaves of it.              *)
LEMMA ModuloShrinks == ASSUME NEW v \in Nat PROVE v % WordMod \in Nat /\ v % WordMod <= v
<1>1. CASE v < WordMod
  BY <1>1, WordKept
<1>2. CASE ~(v < WordMod)
  BY <1>2, WordOf, ClockAssumption DEF Words
<1> QED  BY <1>1, <1>2

(* A difference of times is a word.                                        *)
LEMMA ElapsedWord == ASSUME NEW a \in Times, NEW b \in Times PROVE Elapsed(a, b) \in Words
<1>1. 0 \in Words
  BY ClockAssumption DEF Words
<1>2. (b - a) % WordMod \in Words
  BY ClockAssumption, WordOf DEF Times
<1> QED  BY <1>1, <1>2 DEF Elapsed

(* While nothing wraps it is the difference, or none.                      *)
LEMMA ElapsedExact ==
  ASSUME WordMod > MaxTime, NEW a \in Times, NEW b \in Times
  PROVE  Elapsed(a, b) = IF b - a <= 0 THEN 0 ELSE b - a
<1>1. CASE b - a <= 0
  BY <1>1 DEF Elapsed
<1>2. CASE ~(b - a <= 0)
  <2>1. b - a \in Nat /\ b - a < WordMod
    BY <1>2, ClockAssumption DEF Times
  <2> QED  BY <1>2, <2>1, WordKept DEF Elapsed
<1> QED  BY <1>1, <1>2

(* A counted interval is not negative; it is no longer than the time there *)
(* is.                                                                     *)
LEMMA ElapsedBounded ==
  ASSUME NEW a \in Times, NEW b \in Times
  PROVE  Elapsed(a, b) \in Nat /\ Elapsed(a, b) <= MaxTime
<1>1. CASE b - a <= 0
  BY <1>1, ClockAssumption DEF Elapsed
<1>2. CASE ~(b - a <= 0)
  <2>1. b - a \in Nat /\ b - a <= MaxTime
    BY <1>2, ClockAssumption DEF Times
  <2>2. (b - a) % WordMod \in Nat /\ (b - a) % WordMod <= b - a
    BY <2>1, ModuloShrinks
  <2> QED  BY <1>2, <2>1, <2>2, ClockAssumption DEF Elapsed
<1> QED  BY <1>1, <1>2
LEMMA CountedBounded ==
  ASSUME NEW a \in Times, NEW b \in Times
  PROVE  Counted(a, b) \in Nat /\ Counted(a, b) <= MaxTime
  BY ElapsedBounded, ClockAssumption DEF Counted

(* What a product of times and counts is rounded to is a number, within    *)
(* half a count.                                                           *)
LEMMA NearestBounds ==
  ASSUME NEW t \in Nat, NEW cpm \in Nat, NEW counts \in Nearest(t * cpm)
  PROVE  /\ counts \in Nat
         /\ 2 * Minute * counts - 2 * (t * cpm) \in -Minute..Minute
<1>1. \A product \in Nat, m \in Nat \ {0} : product \div m \in Nat
  OBVIOUS
<1>2. t * cpm \in Nat
  OBVIOUS
<1>3. (t * cpm) \div Minute \in Nat
  BY <1>1, <1>2, ClockAssumption
<1> QED  BY <1>3 DEF Nearest

-----------------------------------------------------------------------------
(* Types, and the samples counted against the lines.                       *)

Here == IF pc = "write" THEN 1 ELSE 0

(* Lines are never more than the samples found and read while data.bin can *)
(* be opened at each start, and as many when every line could be written.  *)
CountInv ==
    /\ Len(lines) + Here <= MaxSamples /\ reads <= total_samples_done
    /\ pc = "start" => data_bin_line_count = 0 /\ total_samples_done = 0
    /\ pc \in {"open", "enter"} => total_samples_done = 0
    /\ pc \in {"write", "checkpoint"} => total_samples_done > 0
    /\ pc # "start" =>
          /\ data_bin_line_count + total_samples_done <= MaxSamples
          /\ ~misread => Len(lines) + Here <= data_bin_line_count + total_samples_done
          /\ ~misread /\ ~append_failed =>
                Len(lines) + Here = data_bin_line_count + total_samples_done

ScalarsOK ==
    /\ pc \in {"start", "open", "enter", "loop", "write", "checkpoint", "reopen"}
    /\ now \in Times
    /\ data_bin_line_count \in 0..MaxSamples /\ total_samples_done \in 0..MaxSamples
    /\ counter \in Words /\ prev_timer \in Words /\ reads \in Nat
    /\ trickle_pending \in 0..MaxContent /\ trickle_sent \in BOOLEAN
    /\ append_failed \in BOOLEAN /\ misread \in BOOLEAN
TimesOK ==
    /\ time_start \in Times /\ time_prev_sample \in Times
    /\ last_sample_time \in Times /\ last_trickle_send_time \in Times /\ opened_at \in Times
MishapsOK ==
    /\ crashes \in Nat /\ reopens \in Nat /\ set_backs \in Nat
    /\ crashes + reopens + set_backs <= MaxMishaps
RecordsOK ==
    /\ ckpt = NoCkpt \/ ckpt \in [time : Times, pending : 0..MaxContent]
    /\ lines \in Seq(Lines) /\ sends \in Seq(Sends)
TypeInv == ScalarsOK /\ TimesOK /\ MishapsOK /\ RecordsOK /\ CountInv

(* A line of a process is a line.                                          *)
LEMMA LineType ==
  ASSUME TypeInv, NEW timer \in Words PROVE LineOf(timer) \in Lines
<1>1. SampleType(timer) \in {"f", "r", "n"}
  BY DEF SampleType
<1>2. crashes \in 0..MaxMishaps /\ reopens \in 0..MaxMishaps
  BY ClockAssumption DEF TypeInv, MishapsOK
<1>3. reads \in 0..MaxSamples
  BY ClockAssumption DEF TypeInv, ScalarsOK, CountInv
<1> QED  BY <1>1, <1>2, <1>3 DEF TypeInv, ScalarsOK, TimesOK, LineOf, Lines

(* A trickle sent is recorded with its time.                               *)
LEMMA SentType ==
  ASSUME TypeInv, NEW why \in {"interval", "full", "lost"}, Sent(why)
  PROVE  sends' \in Seq(Sends)
<1>1. [at |-> now, why |-> why] \in Sends
  BY DEF TypeInv, ScalarsOK, Sends
<1> QED  BY <1>1 DEF TypeInv, RecordsOK, Sent

(* No step of the process, of the clock or of the machine leaves a type.   *)
LEMMA TypeInvariant == Spec => []TypeInv
<1> USE ClockAssumption
<1>1. Init => TypeInv
  <2> SUFFICES ASSUME Init PROVE TypeInv
    OBVIOUS
  <2>1. 0 \in Words /\ 0 \in Times
    BY DEF Words, Times
  <2>2. lines \in Seq(Lines) /\ sends \in Seq(Sends) /\ Len(lines) = 0
    BY DEF Init
  <2> QED
    <3>1. ScalarsOK /\ TimesOK
      <4>1. trickle_sent \in BOOLEAN /\ append_failed \in BOOLEAN /\ misread \in BOOLEAN
        BY DEF Init
      <4>2. pc = "start" /\ now \in Times /\ counter \in Words /\ prev_timer \in Words
            /\ reads \in Nat
        BY <2>1 DEF Init
      <4>3. data_bin_line_count \in 0..MaxSamples /\ total_samples_done \in 0..MaxSamples
            /\ trickle_pending \in 0..MaxContent
        BY DEF Init
      <4>4. TimesOK
        BY <2>1 DEF Init, TimesOK
      <4> QED  BY <4>1, <4>2, <4>3, <4>4 DEF ScalarsOK
    <3>2. MishapsOK /\ RecordsOK
      BY <2>2 DEF Init, MishapsOK, RecordsOK
    <3>3. CountInv
      BY <2>2 DEF Init, CountInv, Here
    <3> QED  BY <3>1, <3>2, <3>3 DEF TypeInv
<1>2. TypeInv /\ [Next]_vars => TypeInv'
  <2> SUFFICES ASSUME TypeInv, [Next]_vars PROVE TypeInv'
    OBVIOUS
  <2> USE DEF TypeInv
  <2>1. CASE StartProcess
    <3>1. ckpt # NoCkpt => ckpt.time \in Times /\ ckpt.pending \in 0..MaxContent
      BY DEF RecordsOK
    <3>2. 0 \in Words /\ Len(lines) \in Nat /\ Len(lines) <= MaxSamples
      <4>1. 0 \in Words /\ Len(lines) \in Nat
        BY DEF Words, RecordsOK
      <4>2. Here \in {0, 1} /\ Len(lines) + Here <= MaxSamples
        BY DEF Here, CountInv
      <4> QED  BY <4>1, <4>2
    <3>3. ScalarsOK' /\ TimesOK'
      <4>1. /\ data_bin_line_count' \in 0..MaxSamples /\ misread' \in BOOLEAN
            /\ last_trickle_send_time' \in Times /\ trickle_pending' \in 0..MaxContent
        <5>1. CASE Resume
          BY <3>1, <3>2, <5>1 DEF Resume, ScalarsOK, TimesOK, CountInv
        <5>2. CASE FailToResume
          BY <5>2 DEF FailToResume, ScalarsOK, TimesOK
        <5> QED  BY <2>1, <5>1, <5>2 DEF StartProcess
      <4> QED
        BY <2>1, <3>2, <4>1 DEF StartProcess, ScalarsOK, TimesOK, TimerParsed
    <3>4. MishapsOK' /\ RecordsOK'
      BY <2>1 DEF StartProcess, Resume, FailToResume, MishapsOK, RecordsOK
    <3>5. CountInv'
      BY <2>1, <3>2 DEF StartProcess, Resume, FailToResume, CountInv, Here
    <3> QED  BY <3>3, <3>4, <3>5
  <2>2. CASE OpenCom
    <3>1. 0 \in Words
      BY DEF Words
    <3> QED
      BY <2>2, <3>1 DEF OpenCom, ScalarsOK, TimesOK, MishapsOK, RecordsOK, CountInv, Here
  <2>3. CASE EnterMainLoop
    BY <2>3 DEF EnterMainLoop, RestartInterval, ScalarsOK, TimesOK, MishapsOK, RecordsOK, CountInv, Here
  <2>4. CASE ReadSample
    <3>1. counter' \in Words
      <4>0. PICK cpm \in CpmValues : \E counts \in Nearest(Counted(last_sample_time, now) * cpm) :
               counter' = (counter + counts) % WordMod
        BY <2>4 DEF ReadSample
      <4>1. PICK counts \in Nearest(Counted(last_sample_time, now) * cpm) :
               counter' = (counter + counts) % WordMod
        BY <4>0
      <4>2. Counted(last_sample_time, now) \in Nat /\ cpm \in Nat /\ counter \in Nat
        BY CountedBounded DEF ScalarsOK, TimesOK, Words
      <4>3. counts \in Nat
        BY <4>2, NearestBounds
      <4>4. counter + counts \in Int
        BY <4>2, <4>3
      <4> QED  BY <4>1, <4>4, WordOf
    <3>2. Len(lines) \in Nat
      BY DEF RecordsOK
    <3>3. ScalarsOK' /\ TimesOK' /\ MishapsOK' /\ RecordsOK'
      BY <2>4, <3>1
      DEF ReadSample, SamplesLeft, ScalarsOK, TimesOK, MishapsOK, RecordsOK, MoveLastSample
    <3>4. CountInv'
      BY <2>4, <3>2 DEF ReadSample, SamplesLeft, ScalarsOK, CountInv, Here
    <3> QED  BY <3>3, <3>4
  <2>5. CASE WriteDataBinAndTrickle
    <3> DEFINE timer == Elapsed(time_start, time_prev_sample)
    <3>1. timer \in Words /\ LineOf(timer) \in Lines
      BY ElapsedWord, LineType DEF TimesOK
    <3>2. \/ lines' = Append(lines, LineOf(timer)) /\ prev_timer' = timer /\ BufferOrSend
             /\ UNCHANGED append_failed
          \/ append_failed' = TRUE /\ UNCHANGED <<lines, trickleVars, sends, prev_timer>>
      BY <2>5 DEF WriteDataBinAndTrickle, RememberWritten
    <3>3. pc = "write" /\ pc' = "checkpoint"
          /\ UNCHANGED <<now, procVars, startVars, sampleVars, ckpt, boundVars, misread>>
      BY <2>5 DEF WriteDataBinAndTrickle
    <3> HIDE DEF timer
    <3>4. CASE append_failed' = TRUE /\ UNCHANGED <<lines, trickleVars, sends, prev_timer>>
      <4>1. Len(lines) \in Nat
        BY DEF RecordsOK
      <4> QED
        BY <3>3, <3>4, <4>1 DEF ScalarsOK, TimesOK, MishapsOK, RecordsOK, CountInv, Here
    <3>5. CASE /\ lines' = Append(lines, LineOf(timer)) /\ prev_timer' = timer
               /\ BufferOrSend /\ UNCHANGED append_failed
      <4>1. trickle_pending' \in 0..MaxContent /\ trickle_sent' \in BOOLEAN
        <5>1. trickle_sent' = TRUE \/ trickle_sent' = trickle_sent
          BY <3>5 DEF BufferOrSend
        <5>2. trickle_pending' = 1
              \/ (trickle_pending' = trickle_pending + 1 /\ ~(trickle_pending + 1 > MaxContent))
          BY <3>5 DEF BufferOrSend, BufferFull
        <5>3. trickle_pending' \in 0..MaxContent
          BY <5>2 DEF ScalarsOK
        <5> QED  BY <5>1, <5>3 DEF ScalarsOK
      <4>2. last_trickle_send_time' \in Times
        BY <3>5 DEF BufferOrSend, ScalarsOK, TimesOK
      <4>3. sends' \in Seq(Sends)
        <5>1. Sent("interval") \/ Sent("full") \/ UNCHANGED sends
          BY <3>5 DEF BufferOrSend
        <5> QED  BY <5>1, SentType DEF RecordsOK
      <4>4. lines' \in Seq(Lines) /\ Len(lines') = Len(lines) + 1 /\ Len(lines) \in Nat
        BY <3>1, <3>5 DEF RecordsOK
      <4>5. CountInv'
        BY <3>3, <3>5, <4>4 DEF CountInv, ScalarsOK, Here
      <4>6. RecordsOK'
        BY <3>3, <4>3, <4>4 DEF RecordsOK
      <4>7. ScalarsOK' /\ TimesOK' /\ MishapsOK'
        BY <3>1, <3>3, <3>5, <4>1, <4>2 DEF ScalarsOK, TimesOK, MishapsOK
      <4> QED  BY <4>5, <4>6, <4>7
    <3> QED  BY <3>2, <3>4, <3>5
  <2>6. CASE PersistCheckpoint
    <3>1. RecordsOK'
      <4>1. [time |-> last_trickle_send_time, pending |-> trickle_pending]
               \in [time : Times, pending : 0..MaxContent]
        BY DEF ScalarsOK, TimesOK
      <4> QED  BY <2>6, <4>1 DEF PersistCheckpoint, RecordsOK
    <3> QED
      BY <2>6, <3>1 DEF PersistCheckpoint, ScalarsOK, TimesOK, MishapsOK, CountInv, Here
  <2>7. CASE LostSensor
    <3>1. sends' \in Seq(Sends)
      BY <2>7, SentType DEF LostSensor, RecordsOK
    <3> QED
      BY <2>7, <3>1 DEF LostSensor, ScalarsOK, TimesOK, MishapsOK, RecordsOK, CountInv, Here
  <2>8. CASE TryComReopen
    <3>1. 0 \in Words
      BY DEF Words
    <3> QED
      BY <2>8, <3>1
      DEF TryComReopen, MishapLeft, RestartInterval, ScalarsOK, TimesOK, MishapsOK, RecordsOK,
          CountInv, Here
  <2>9. CASE Tick
    BY <2>9 DEF Tick, Times, ScalarsOK, TimesOK, MishapsOK, RecordsOK, CountInv, Here
  <2>10. CASE SetBack
    BY <2>10 DEF SetBack, MishapLeft, Times, ScalarsOK, TimesOK, MishapsOK, RecordsOK,
                 CountInv, Here
  <2>11. CASE Crash
    <3>1. 0 \in Words /\ 0 \in Times
      BY DEF Words, Times
    <3>2. Len(lines) \in Nat
      BY DEF RecordsOK
    <3> QED
      <4>1. ScalarsOK' /\ TimesOK'
        <5>1. trickle_sent' \in BOOLEAN /\ append_failed' \in BOOLEAN /\ misread' \in BOOLEAN
          BY <2>11 DEF Crash, ScalarsOK
        <5>2. pc' = "start" /\ now' \in Times /\ counter' \in Words /\ prev_timer' \in Words
              /\ reads' \in Nat
          BY <2>11, <3>1 DEF Crash, ScalarsOK
        <5>3. data_bin_line_count' \in 0..MaxSamples /\ total_samples_done' \in 0..MaxSamples
              /\ trickle_pending' \in 0..MaxContent
          BY <2>11 DEF Crash
        <5>4. TimesOK'
          BY <2>11, <3>1 DEF Crash, TimesOK
        <5> QED  BY <5>1, <5>2, <5>3, <5>4 DEF ScalarsOK
      <4>2. MishapsOK' /\ RecordsOK'
        BY <2>11 DEF Crash, MishapLeft, MishapsOK, RecordsOK
      <4>3. CountInv'
        BY <2>11, <3>2 DEF Crash, CountInv, Here
      <4> QED  BY <4>1, <4>2, <4>3
  <2>12. CASE Wait \/ UNCHANGED vars
    BY <2>12 DEF Wait, ScalarsOK, TimesOK, MishapsOK, RecordsOK, CountInv, Here
  <2> QED
    BY <2>1, <2>2, <2>3, <2>4, <2>5, <2>6, <2>7, <2>8, <2>9, <2>10, <2>11, <2>12 DEF Next
<1> QED  BY <1>1, <1>2, PTL DEF Spec

(* Counters and timers stay words, the buffer's count within the buffer,   *)
(* and the samples of a job within its bound.                              *)
THEOREM TypeCorrect == Spec => []TypeOK
<1>1. TypeInv => TypeOK
  BY ClockAssumption DEF TypeInv, ScalarsOK, TimesOK, MishapsOK, RecordsOK, CountInv, TypeOK
<1> QED  BY <1>1, TypeInvariant, PTL

-----------------------------------------------------------------------------
(* The first line.                                                         *)

(* A line written is the last one, and the others stay as they were.       *)
LEMMA LineAppended ==
  ASSUME TypeInv, NEW timer \in Words, lines' = Append(lines, LineOf(timer))
  PROVE  /\ Len(lines') = Len(lines) + 1 /\ Len(lines) \in Nat
         /\ DOMAIN lines = 1..Len(lines) /\ DOMAIN lines' = 1..Len(lines) + 1
         /\ lines'[Len(lines) + 1] = LineOf(timer)
         /\ \A i \in 1..Len(lines) : lines'[i] = lines[i]
<1>1. lines \in Seq(Lines) /\ LineOf(timer) \in Lines
  BY LineType DEF TypeInv, RecordsOK
<1> QED  BY <1>1

(* Writing a line appends it with the time of the process, or marks it     *)
(* lost; no other step touches the lines.                                  *)
LEMMA LinesWritten ==
  ASSUME TypeInv, [Next]_vars
  PROVE  \/ /\ UNCHANGED <<lines, append_failed>> /\ (misread => misread')
         \/ /\ append_failed' = TRUE /\ UNCHANGED lines /\ WriteDataBinAndTrickle
         \/ /\ WriteDataBinAndTrickle /\ UNCHANGED <<append_failed, misread>>
            /\ lines' = Append(lines, LineOf(Elapsed(time_start, time_prev_sample)))
            /\ prev_timer' = Elapsed(time_start, time_prev_sample)
  BY DEF Next, StartProcess, Resume, FailToResume, OpenCom, EnterMainLoop, ReadSample,
         WriteDataBinAndTrickle, RememberWritten, PersistCheckpoint, LostSensor, TryComReopen,
         Tick, SetBack, Wait, Crash

(* data.bin begins with the one line of type "f", over every restart,      *)
(* unless a line was lost or data.bin could not be opened at a start:      *)
(* samples read count the lines (get_sample_type).                         *)
THEOREM FreshIsFirst == Spec => []FirstLineIsFresh
<1>1. Init => FirstLineIsFresh
  BY DEF Init, FirstLineIsFresh
<1>2. TypeInv /\ FirstLineIsFresh /\ [Next]_vars => FirstLineIsFresh'
  <2> SUFFICES ASSUME TypeInv, FirstLineIsFresh, [Next]_vars PROVE FirstLineIsFresh'
    OBVIOUS
  <2> DEFINE timer == Elapsed(time_start, time_prev_sample)
  <2>1. CASE UNCHANGED <<lines, append_failed>> /\ (misread => misread')
    BY <2>1 DEF FirstLineIsFresh
  <2>2. CASE append_failed' = TRUE
    BY <2>2 DEF FirstLineIsFresh
  <2>3. CASE /\ WriteDataBinAndTrickle /\ UNCHANGED <<append_failed, misread>>
             /\ lines' = Append(lines, LineOf(timer)) /\ ~append_failed /\ ~misread
    <3>1. timer \in Words
      BY ElapsedWord DEF TypeInv, TimesOK
    <3> HIDE DEF timer
    <3>2. /\ Len(lines') = Len(lines) + 1 /\ Len(lines) \in Nat
          /\ DOMAIN lines = 1..Len(lines) /\ DOMAIN lines' = 1..Len(lines) + 1
          /\ lines'[Len(lines) + 1] = LineOf(timer)
          /\ \A i \in 1..Len(lines) : lines'[i] = lines[i]
      BY <2>3, <3>1, LineAppended
    <3>3. pc = "write" /\ total_samples_done > 0
          /\ Len(lines) + 1 = data_bin_line_count + total_samples_done
          /\ data_bin_line_count \in Nat /\ total_samples_done \in Nat
      BY <2>3 DEF WriteDataBinAndTrickle, TypeInv, CountInv, ScalarsOK, Here
    <3>4. (LineOf(timer).type = "f") = (Len(lines) + 1 = 1)
      BY <3>2, <3>3 DEF LineOf, SampleType
    <3>5. \A i \in 1..Len(lines) : (lines[i].type = "f") = (i = 1)
      BY <2>3, <3>2 DEF FirstLineIsFresh
    <3>6. ASSUME NEW i \in DOMAIN lines' PROVE (lines'[i].type = "f") = (i = 1)
      <4>1. CASE i \in 1..Len(lines)
        BY <3>2, <3>5, <4>1
      <4>2. CASE i = Len(lines) + 1
        BY <3>2, <3>4, <4>2
      <4> QED  BY <3>2, <4>1, <4>2
    <3> QED  BY <3>6 DEF FirstLineIsFresh
  <2>4. append_failed \in BOOLEAN /\ misread \in BOOLEAN
    BY DEF TypeInv, ScalarsOK
  <2>5. CASE append_failed \/ misread
    <3>1. append_failed' \/ misread'
      BY <2>4, <2>5, LinesWritten
    <3> QED  BY <3>1 DEF FirstLineIsFresh
  <2> QED  BY <2>1, <2>2, <2>3, <2>5, LinesWritten
<1> QED  BY <1>1, <1>2, TypeInvariant, PTL DEF Spec

-----------------------------------------------------------------------------
(* The distance of trickles.                                               *)

(* Inside the loop last_trickle_send_time is no earlier than any trickle   *)
(* but one sent for a lost sensor, and the reopening that must follow      *)
(* catches up with that one.                                               *)
SpacedInv ==
    /\ SendsSpaced
    /\ set_backs = 0 =>
          /\ \A j \in DOMAIN sends : sends[j].at <= now
          /\ pc \in {"loop", "write", "checkpoint"} =>
                \A j \in DOMAIN sends : sends[j].at <= last_trickle_send_time

(* Trickles were sent at times.                                            *)
LEMMA SendTimes == ASSUME TypeInv PROVE \A j \in DOMAIN sends : sends[j].at \in Nat
<1>1. \A j \in DOMAIN sends : sends[j] \in Sends
  BY DEF TypeInv, RecordsOK
<1>2. \A x \in Sends : x.at \in Nat
  BY ClockAssumption DEF Sends, Times
<1> QED  BY <1>1, <1>2

(* A trickle appended is the last one, and the others stay as they were.   *)
LEMMA SendAppended ==
  ASSUME TypeInv, NEW why \in {"interval", "full", "lost"}, Sent(why)
  PROVE  /\ Len(sends') = Len(sends) + 1 /\ Len(sends) \in Nat
         /\ DOMAIN sends = 1..Len(sends) /\ DOMAIN sends' = 1..Len(sends) + 1
         /\ sends'[Len(sends) + 1] = [at |-> now, why |-> why]
         /\ \A j \in 1..Len(sends) : sends'[j] = sends[j]
<1>1. sends \in Seq(Sends) /\ [at |-> now, why |-> why] \in Sends
  BY DEF TypeInv, RecordsOK, ScalarsOK, Sends
<1> QED  BY <1>1 DEF Sent

(* A trickle now, an interval after the time of the last one if it is for  *)
(* the interval's sake, keeps the distance.                                *)
LEMMA SentSpaced ==
  ASSUME TypeInv, SpacedInv, NEW why \in {"interval", "full", "lost"}, Sent(why),
         UNCHANGED <<now, set_backs>>, pc \in {"loop", "write", "checkpoint"},
         why = "interval" => now - last_trickle_send_time >= TrickleInterval,
         pc' \in {"loop", "write", "checkpoint"} => last_trickle_send_time' = now
  PROVE  SpacedInv'
<1>1. CASE set_backs # 0
  BY <1>1 DEF SpacedInv, SendsSpaced
<1>2. CASE set_backs = 0
  <2>1. /\ Len(sends') = Len(sends) + 1 /\ Len(sends) \in Nat
        /\ DOMAIN sends = 1..Len(sends) /\ DOMAIN sends' = 1..Len(sends) + 1
        /\ sends'[Len(sends) + 1] = [at |-> now, why |-> why]
        /\ \A j \in 1..Len(sends) : sends'[j] = sends[j]
    BY SendAppended
  <2>2. \A j \in 1..Len(sends) :
           sends[j].at \in Nat /\ sends[j].at <= now /\ sends[j].at <= last_trickle_send_time
    BY <1>2, <2>1, SendTimes DEF SpacedInv
  <2>3. now \in Nat /\ last_trickle_send_time \in Nat
    BY ClockAssumption DEF TypeInv, ScalarsOK, TimesOK, Times
  <2>4. \A j \in DOMAIN sends' : sends'[j].at <= now
    BY <2>1, <2>2, <2>3
  <2>5. ASSUME NEW j \in 2..Len(sends'), sends'[j].why = "interval"
        PROVE  sends'[j].at - sends'[j - 1].at >= TrickleInterval
    <3>1. CASE j = Len(sends) + 1
      <4>1. why = "interval" /\ sends'[j].at = now /\ sends'[j - 1].at \in Nat
            /\ sends'[j - 1].at <= last_trickle_send_time
        BY <2>1, <2>2, <2>5, <3>1
      <4> QED  BY <2>3, <4>1, ClockAssumption
    <3>2. CASE j # Len(sends) + 1
      <4>1. j \in 2..Len(sends) /\ sends'[j] = sends[j] /\ sends'[j - 1] = sends[j - 1]
        BY <2>1, <3>2
      <4> QED  BY <1>2, <2>5, <4>1 DEF SpacedInv, SendsSpaced
    <3> QED  BY <3>1, <3>2
  <2> QED  BY <2>4, <2>5 DEF SpacedInv, SendsSpaced
<1> QED  BY <1>1, <1>2

(* Every trickle sent for the interval's sake is an interval after the one *)
(* before, over restarts and lost sensors (main_app.cpp:431-433).          *)
LEMMA SpacedInvariant == Spec => []SpacedInv
<1>1. Init => SpacedInv
  BY DEF Init, SpacedInv, SendsSpaced
<1>2. TypeInv /\ SpacedInv /\ [Next]_vars => SpacedInv'
  <2> SUFFICES ASSUME TypeInv, SpacedInv, [Next]_vars PROVE SpacedInv'
    OBVIOUS
  <2> USE DEF SpacedInv, SendsSpaced
  <2>1. CASE StartProcess \/ OpenCom \/ ReadSample \/ PersistCheckpoint \/ Crash \/ Wait
             \/ UNCHANGED vars
    BY <2>1 DEF StartProcess, Resume, FailToResume, OpenCom, ReadSample, PersistCheckpoint,
                Crash, Wait
  <2>2. CASE EnterMainLoop \/ TryComReopen
    BY <2>2 DEF EnterMainLoop, TryComReopen, RestartInterval
  <2>3. CASE WriteDataBinAndTrickle
    <3>1. pc = "write" /\ pc' = "checkpoint" /\ UNCHANGED <<now, set_backs>>
      BY <2>3 DEF WriteDataBinAndTrickle
    <3>2. CASE UNCHANGED <<sends, last_trickle_send_time>>
      BY <3>1, <3>2
    <3>3. CASE ~UNCHANGED <<sends, last_trickle_send_time>>
      <4>1. last_trickle_send_time' = now
            /\ Sent(IF IntervalOk THEN "interval" ELSE "full")
        BY <2>3, <3>3 DEF WriteDataBinAndTrickle, BufferOrSend
      <4> DEFINE why == IF IntervalOk THEN "interval" ELSE "full"
      <4>2. why \in {"interval", "full", "lost"} /\ Sent(why)
            /\ (why = "interval" => now - last_trickle_send_time >= TrickleInterval)
        BY <4>1 DEF IntervalOk
      <4> HIDE DEF why
      <4> QED  BY <3>1, <4>1, <4>2, SentSpaced
    <3> QED  BY <3>2, <3>3
  <2>4. CASE LostSensor
    <3>1. pc = "loop" /\ pc' = "reopen" /\ UNCHANGED <<now, set_backs>>
          /\ (Sent("lost") \/ UNCHANGED sends)
      BY <2>4 DEF LostSensor
    <3>2. CASE UNCHANGED sends
      BY <3>1, <3>2
    <3>3. CASE Sent("lost")
      BY <3>1, <3>3, SentSpaced
    <3> QED  BY <3>1, <3>2, <3>3
  <2>5. CASE Tick
    <3>1. \A j \in DOMAIN sends : sends[j].at \in Nat
      BY SendTimes
    <3>2. now \in Nat
      BY DEF TypeInv, ScalarsOK, Times
    <3>3. now' = now + 1 /\ UNCHANGED <<sends, set_backs, pc, last_trickle_send_time>>
      BY <2>5 DEF Tick
    <3> QED  BY <3>1, <3>2, <3>3
  <2>6. CASE SetBack
    <3>1. set_backs' # 0
      BY <2>6 DEF SetBack, TypeInv, MishapsOK
    <3> QED  BY <3>1
  <2> QED  BY <2>1, <2>2, <2>3, <2>4, <2>5, <2>6 DEF Next
<1> QED  BY <1>1, <1>2, TypeInvariant, PTL DEF Spec

(* For every interval, buffer and number of crashes and reopenings.        *)
THEOREM SendsAreSpaced == Spec => []SendsSpaced
<1>1. SpacedInv => SendsSpaced
  BY DEF SpacedInv
<1> QED  BY <1>1, SpacedInvariant, PTL

-----------------------------------------------------------------------------
(* Counters.                                                               *)

InLoop == {"loop", "write", "checkpoint", "reopen"}
(* The counters that n samples leave after the time covered.               *)
Counts(covered, n) ==
    {c \in Nat : \A low, high \in CpmValues :
                    CpmValues \subseteq low..high =>
                       2 * Minute * c \in 2 * covered * low - Minute * n
                                         ..2 * covered * high + Minute * n}
CounterExact ==
    /\ pc \in InLoop \cup {"enter"} =>
          /\ opened_at <= last_sample_time /\ last_sample_time <= now
          /\ counter \in Counts(last_sample_time - opened_at, reads)
    /\ pc = "write" => time_prev_sample = last_sample_time
CounterInv == CounterCoversTime /\ (set_backs = 0 => CounterExact)

(* One more is one time more, fewer are less, and times add up.            *)
LEMMA OneTimeMore == ASSUME NEW t \in Nat, NEW n \in Nat PROVE t * (n + 1) = t * n + t
  OBVIOUS
LEMMA FewerTimes ==
  ASSUME NEW t \in Nat, NEW n \in Nat, NEW m \in Nat, n <= m PROVE t * n <= t * m
  OBVIOUS
LEMMA TimesAdded ==
  ASSUME NEW t \in Nat, NEW u \in Nat, NEW n \in Nat
  PROVE  (t + u) * n = t * n + u * n /\ t * n \in Nat /\ u * n \in Nat
  OBVIOUS

(* Twice the sum of two times, at one rate, is the sum of the products.    *)
LEMMA TwiceAdded ==
  ASSUME NEW t \in Nat, NEW u \in Nat, NEW n \in Nat
  PROVE  /\ 2 * (t + u) * n = 2 * t * n + 2 * u * n
         /\ 2 * t * n \in Nat /\ 2 * u * n \in Nat /\ 2 * u * n = 2 * (u * n)
<1>1. 2 * (t + u) = 2 * t + 2 * u /\ 2 * t \in Nat /\ 2 * u \in Nat
  OBVIOUS
<1>2. (2 * t + 2 * u) * n = 2 * t * n + 2 * u * n /\ 2 * t * n \in Nat /\ 2 * u * n \in Nat
  BY <1>1, TimesAdded
<1>3. 2 * u * n = 2 * (u * n)
  OBVIOUS
<1> QED  BY <1>1, <1>2, <1>3

(* One sample more, at a rate the detector answers, adds its counts and    *)
(* half a count of rounding at most.                                       *)
LEMMA CountsAdded ==
  ASSUME NEW t \in Nat, NEW u \in Nat, NEW n \in Nat, NEW cpm \in CpmValues,
         NEW c \in Counts(t, n), NEW more \in Nearest(u * cpm)
  PROVE  c + more \in Counts(t + u, n + 1)
<1>0. CpmValues \subseteq Nat /\ Minute \in Nat
  BY ClockAssumption
<1>1. c \in Nat /\ cpm \in Nat /\ more \in Nat
      /\ 2 * Minute * more - 2 * (u * cpm) \in -Minute..Minute
  BY <1>0, NearestBounds DEF Counts
<1>2. ASSUME NEW low \in CpmValues, NEW high \in CpmValues, CpmValues \subseteq low..high
      PROVE  2 * Minute * (c + more) \in 2 * (t + u) * low - Minute * (n + 1)
                                       ..2 * (t + u) * high + Minute * (n + 1)
  <2>1. low \in Nat /\ high \in Nat /\ low <= cpm /\ cpm <= high
    BY <1>0, <1>2
  <2>2. 2 * Minute * c \in 2 * t * low - Minute * n..2 * t * high + Minute * n
    BY <1>2 DEF Counts
  <2>3. u * low <= u * cpm /\ u * cpm <= u * high /\ u * cpm \in Nat
        /\ u * low \in Nat /\ u * high \in Nat
    BY <1>1, <2>1, FewerTimes
  <2>4. /\ 2 * (t + u) * low = 2 * t * low + 2 * (u * low)
        /\ 2 * (t + u) * high = 2 * t * high + 2 * (u * high)
        /\ 2 * t * low \in Nat /\ 2 * t * high \in Nat
    BY <2>1, TwiceAdded
  <2>5. /\ 2 * Minute * (c + more) = 2 * Minute * c + 2 * Minute * more
        /\ 2 * Minute * c \in Nat /\ 2 * Minute * more \in Nat
    <3>1. 2 * Minute \in Nat
      BY <1>0
    <3>2. \A m \in Nat : m * (c + more) = m * c + m * more /\ m * c \in Nat /\ m * more \in Nat
      BY <1>1
    <3> QED  BY <3>1, <3>2
  <2>6. Minute * (n + 1) = Minute * n + Minute /\ Minute * n \in Nat
    BY <1>0, OneTimeMore
  <2> DEFINE P == 2 * Minute * c
             Q == 2 * Minute * more
             L == 2 * t * low
             H == 2 * t * high
             N == Minute * n
             U == u * cpm
             UL == u * low
             UH == u * high
             X == 2 * Minute * (c + more)
             Y == 2 * (t + u) * low - Minute * (n + 1)
             Z == 2 * (t + u) * high + Minute * (n + 1)
  <2>7. P \in L - N..H + N /\ Q - 2 * U \in -Minute..Minute /\ UL <= U /\ U <= UH
        /\ P \in Nat /\ Q \in Nat /\ L \in Nat /\ H \in Nat /\ N \in Nat /\ U \in Nat
        /\ UL \in Nat /\ UH \in Nat
    BY <1>1, <2>2, <2>3, <2>4, <2>5, <2>6
  <2>8. X = P + Q /\ Y = (L + 2 * UL) - (N + Minute) /\ Z = H + 2 * UH + (N + Minute)
    BY <2>4, <2>5, <2>6, Zenon
  <2> HIDE DEF P, Q, L, H, N, U, UL, UH, X, Y, Z
  <2>9. P + Q \in (L + 2 * UL) - (N + Minute)..H + 2 * UH + (N + Minute)
    BY <1>0, <2>7
  <2>10. X \in Y..Z
    BY <2>8, <2>9
  <2> QED  BY <2>10 DEF X, Y, Z
<1> QED  BY <1>1, <1>2 DEF Counts

(* Times are numbers.                                                      *)
LEMMA TimesAreNat ==
  ASSUME TypeInv
  PROVE  /\ now \in Nat /\ time_start \in Nat /\ time_prev_sample \in Nat
         /\ last_sample_time \in Nat /\ opened_at \in Nat
  BY ClockAssumption DEF TypeInv, ScalarsOK, TimesOK, Times

(* No count of a job wraps, nor is there any before the first second.      *)
LEMMA CountsKept ==
  ASSUME \A cpm \in CpmValues : 2 * MaxTime * cpm + Minute * MaxSamples < 2 * Minute * WordMod,
         NEW t \in Times, NEW n \in 0..MaxSamples, NEW c \in Counts(t, n)
  PROVE  c % WordMod \in Counts(t, n)
<1>1. /\ c \in Nat /\ c % WordMod \in Nat /\ t \in Nat /\ t <= MaxTime /\ MaxTime \in Nat
      /\ n \in Nat /\ n <= MaxSamples /\ MaxSamples \in Nat /\ WordMod \in Nat
      /\ Minute \in Nat /\ Minute > 0
  BY ClockAssumption, ModuloShrinks DEF Counts, Times
<1>2. ASSUME NEW low \in CpmValues, NEW high \in CpmValues, CpmValues \subseteq low..high
      PROVE  2 * Minute * (c % WordMod)
                \in 2 * t * low - Minute * n..2 * t * high + Minute * n
  <2>1. /\ high \in Nat /\ 2 * Minute * c \in 2 * t * low - Minute * n..2 * t * high + Minute * n
        /\ 2 * MaxTime * high + Minute * MaxSamples < 2 * Minute * WordMod
    BY <1>2, ClockAssumption DEF Counts
  <2>2. high * (2 * t) <= high * (2 * MaxTime) /\ Minute * n <= Minute * MaxSamples
    <3>1. 2 * t \in Nat /\ 2 * MaxTime \in Nat /\ 2 * t <= 2 * MaxTime
      BY <1>1
    <3> QED  BY <1>1, <2>1, <3>1, FewerTimes
  <2>3. /\ high * (2 * t) = 2 * t * high /\ high * (2 * MaxTime) = 2 * MaxTime * high
        /\ 2 * t * high \in Nat /\ 2 * MaxTime * high \in Nat
        /\ Minute * n \in Nat /\ Minute * MaxSamples \in Nat
    BY <1>1, <2>1
  <2>4. 2 * Minute * c < 2 * Minute * WordMod
    <3>1. 2 * Minute * c \in Nat /\ 2 * Minute * WordMod \in Nat
      BY <1>1
    <3>2. 2 * Minute * c <= 2 * t * high + Minute * n
      <4>1. ASSUME NEW x \in Int, NEW y \in Int, NEW z \in x..y PROVE z <= y
        OBVIOUS
      <4>2. low \in Nat /\ 2 * t * low \in Nat
        BY <1>1, ClockAssumption
      <4> QED  BY <2>1, <2>3, <4>1, <4>2
    <3> QED  BY <2>1, <2>2, <2>3, <3>1, <3>2
  <2>5. c < WordMod
    <3>1. WordMod <= c => 2 * Minute * WordMod <= 2 * Minute * c
      BY <1>1, FewerTimes
    <3>2. 2 * Minute * c \in Nat /\ 2 * Minute * WordMod \in Nat
      BY <1>1
    <3> QED  BY <1>1, <2>4, <3>1, <3>2
  <2> QED  BY <1>1, <2>1, <2>5, WordKept
<1> QED  BY <1>1, <1>2 DEF Counts
LEMMA NothingCounted == 0 \in Counts(0, 0)
<1>1. \A c \in Nat : 2 * 0 * c = 0 /\ c * 0 = 0
  OBVIOUS
<1>2. Minute \in Nat /\ 2 * Minute \in Nat /\ CpmValues \subseteq Nat
  BY ClockAssumption
<1> QED  BY <1>1, <1>2 DEF Counts

(* Nothing is counted twice and nothing left out: while the clock is not   *)
(* set back and nothing wraps, the counter has the counts of the time      *)
(* since the port was opened, whatever was missed in between, give or take *)
(* half a count for each sample that was rounded.                          *)
THEOREM CounterIsTime ==
  ASSUME WordMod > MaxTime,
         \A cpm \in CpmValues : 2 * MaxTime * cpm + Minute * MaxSamples < 2 * Minute * WordMod
  PROVE  Spec => []CounterCoversTime
<1> USE DEF InLoop
<1>1. Init => CounterInv
  BY DEF Init, CounterInv, CounterCoversTime, CounterExact
<1>2. TypeInv /\ CounterInv /\ [Next]_vars => CounterInv'
  <2> SUFFICES ASSUME TypeInv, CounterInv, [Next]_vars PROVE CounterInv'
    OBVIOUS
  <2>1. now \in Nat /\ last_sample_time \in Nat /\ opened_at \in Nat
    BY TimesAreNat
  <2>2. CASE UNCHANGED lines /\ (set_backs' = 0 => set_backs = 0 /\ CounterExact')
    BY <2>2 DEF CounterInv, CounterCoversTime
  <2>3. CASE StartProcess \/ OpenCom \/ Crash
    <3>1. CounterExact' /\ UNCHANGED <<lines, set_backs>>
      <4>1. now - now = 0
        BY <2>1
      <4>2. StartProcess \/ Crash => CounterExact'
        BY <2>3 DEF StartProcess, Crash, CounterExact, InLoop
      <4>3. OpenCom => CounterExact'
        BY <2>1, <4>1, NothingCounted DEF OpenCom, CounterExact
      <4> QED  BY <2>3, <4>2, <4>3 DEF StartProcess, OpenCom, Crash
    <3> QED  BY <2>2, <3>1
  <2>4. CASE EnterMainLoop \/ PersistCheckpoint \/ LostSensor \/ Wait \/ UNCHANGED vars
    <3>1. UNCHANGED <<lines, set_backs>> /\ (CounterExact => CounterExact')
      BY <2>4 DEF EnterMainLoop, PersistCheckpoint, LostSensor, Wait, CounterExact, InLoop
    <3> QED  BY <2>2, <3>1 DEF CounterInv
  <2>5. CASE TryComReopen
    <3>1. CounterExact' /\ UNCHANGED <<lines, set_backs>>
      <4>1. now - now = 0
        BY <2>1
      <4> QED  BY <2>1, <2>5, <4>1, NothingCounted DEF TryComReopen, CounterExact
    <3> QED  BY <2>2, <3>1
  <2>6. CASE ReadSample
    <3>1. /\ pc = "loop" /\ pc' = "write" /\ UNCHANGED <<now, opened_at, lines, set_backs>>
          /\ last_sample_time' = now /\ time_prev_sample' = now /\ reads' = reads + 1
          /\ now > last_sample_time \/ set_backs > 0
      BY <2>6 DEF ReadSample, MoveLastSample, ClockMoved
    <3>2. ASSUME CounterExact, set_backs = 0 PROVE CounterExact'
      <4> DEFINE covered == last_sample_time - opened_at
                 passed == now - last_sample_time
      <4>1. opened_at <= last_sample_time /\ last_sample_time < now
            /\ counter \in Counts(covered, reads)
        BY <2>1, <3>1, <3>2 DEF CounterExact
      <4>2. Counted(last_sample_time, now) = passed
        BY <2>1, <4>1, ElapsedExact DEF TypeInv, ScalarsOK, TimesOK, Counted
      <4>3. covered \in Nat /\ passed \in Nat /\ covered + passed = now - opened_at
        BY <2>1, <4>1
      <4>4. PICK cpm \in CpmValues : \E counts \in Nearest(passed * cpm) :
               counter' = (counter + counts) % WordMod
        BY <2>6, <4>2 DEF ReadSample
      <4>5. PICK counts \in Nearest(passed * cpm) : counter' = (counter + counts) % WordMod
        BY <4>4
      <4>6. now - opened_at \in Times
        BY <2>1, <4>1, ClockAssumption DEF TypeInv, ScalarsOK, Times
      <4>7. reads \in Nat /\ reads + 1 \in 0..MaxSamples
        BY <2>6, ClockAssumption DEF ReadSample, SamplesLeft, TypeInv, ScalarsOK, CountInv
      <4> HIDE DEF covered, passed
      <4>8. counter + counts \in Counts(now - opened_at, reads + 1)
        BY <4>1, <4>3, <4>5, <4>7, CountsAdded
      <4>9. (counter + counts) % WordMod \in Counts(now - opened_at, reads + 1)
        BY <4>6, <4>7, <4>8, CountsKept
      <4> QED  BY <2>1, <3>1, <4>1, <4>5, <4>9 DEF CounterExact
    <3> QED  BY <2>2, <3>1, <3>2 DEF CounterInv
  <2>7. CASE WriteDataBinAndTrickle
    <3> DEFINE timer == Elapsed(time_start, time_prev_sample)
    <3>1. pc = "write" /\ pc' = "checkpoint"
          /\ UNCHANGED <<now, startVars, sampleVars, set_backs>>
      BY <2>7 DEF WriteDataBinAndTrickle
    <3>2. CounterExact => CounterExact'
      BY <3>1 DEF CounterExact, InLoop
    <3>3. timer \in Words
      BY ElapsedWord DEF TypeInv, TimesOK
    <3>4. UNCHANGED lines \/ lines' = Append(lines, LineOf(timer))
      BY <2>7, LinesWritten
    <3> HIDE DEF timer
    <3>5. CASE UNCHANGED lines
      BY <2>2, <3>1, <3>2, <3>5 DEF CounterInv
    <3>6. CASE lines' = Append(lines, LineOf(timer)) /\ set_backs = 0
      <4>1. /\ DOMAIN lines = 1..Len(lines) /\ DOMAIN lines' = 1..Len(lines) + 1
            /\ lines'[Len(lines) + 1] = LineOf(timer) /\ Len(lines) \in Nat
            /\ \A i \in 1..Len(lines) : lines'[i] = lines[i]
        BY <3>3, <3>6, LineAppended
      <4>2. LineOf(timer).counter
               \in Counts(LineOf(timer).at - LineOf(timer).opened, LineOf(timer).reads)
        BY <3>1, <3>6 DEF LineOf, CounterInv, CounterExact
      <4>3. \A i \in DOMAIN lines :
               /\ lines[i].counter \in Nat
               /\ lines[i].counter \in Counts(lines[i].at - lines[i].opened, lines[i].reads)
        <5>1. \A i \in DOMAIN lines : lines[i] \in Lines
          BY DEF TypeInv, RecordsOK
        <5>2. \A i \in DOMAIN lines : lines[i].counter \in Nat
          BY <5>1, ClockAssumption DEF Lines, Words
        <5> QED  BY <3>6, <5>2 DEF CounterInv, CounterCoversTime, Counts
      <4>4. \A i \in DOMAIN lines' :
               lines'[i].counter \in Counts(lines'[i].at - lines'[i].opened, lines'[i].reads)
        BY <4>1, <4>2, <4>3
      <4>5. CounterCoversTime'
        BY <4>4 DEF CounterCoversTime, Counts
      <4> QED  BY <3>1, <3>2, <3>6, <4>5 DEF CounterInv
    <3>7. CASE set_backs # 0
      BY <3>1, <3>7 DEF CounterInv, CounterCoversTime
    <3> QED  BY <3>4, <3>5, <3>6, <3>7
  <2>8. CASE Tick
    <3>1. UNCHANGED <<lines, set_backs, pc, sampleVars, startVars>> /\ now' = now + 1
          /\ pc # "write"
      BY <2>8 DEF Tick, Waiting
    <3>2. CounterExact => CounterExact'
      BY <2>1, <3>1 DEF CounterExact
    <3> QED  BY <2>2, <3>1, <3>2 DEF CounterInv
  <2>9. CASE SetBack
    <3>1. set_backs' # 0 /\ UNCHANGED lines
      BY <2>9 DEF SetBack, TypeInv, MishapsOK
    <3> QED  BY <2>2, <3>1
  <2> QED  BY <2>3, <2>4, <2>5, <2>6, <2>7, <2>8, <2>9 DEF Next
<1>3. CounterInv => CounterCoversTime
  BY DEF CounterInv
<1> QED  BY <1>1, <1>2, <1>3, TypeInvariant, PTL DEF Spec

-----------------------------------------------------------------------------
(* Gaps.                                                                   *)

LastIsOurs ==
    /\ lines # <<>> /\ pc \in InLoop
    /\ lines[Len(lines)].process = crashes /\ lines[Len(lines)].connection = reopens
(* The previous timer is that of the last line, if this process wrote it   *)
(* over this connection; before the loop, no line is of this process.      *)
TimerExact ==
    /\ pc \in InLoop => time_start <= now
    /\ pc = "write" => time_prev_sample = now
    /\ LastIsOurs =>
          /\ time_start <= lines[Len(lines)].at /\ lines[Len(lines)].at <= now
          /\ prev_timer = lines[Len(lines)].at - time_start
          /\ total_samples_done > Here
LinesPast ==
    \A i \in DOMAIN lines :
       /\ lines[i].process <= crashes /\ lines[i].connection <= reopens
       /\ lines[i].process = crashes => pc \in InLoop
GapInv == LinesPast /\ GapsMarked /\ (set_backs = 0 => TimerExact)

(* What the lines hold.                                                    *)
LEMMA LineFields ==
  ASSUME TypeInv
  PROVE  \A i \in DOMAIN lines :
            lines[i].at \in Nat /\ lines[i].process \in Nat /\ lines[i].connection \in Nat
<1>1. \A i \in DOMAIN lines : lines[i] \in Lines
  BY DEF TypeInv, RecordsOK
<1>2. \A x \in Lines : x.at \in Nat /\ x.process \in Nat /\ x.connection \in Nat
  BY ClockAssumption DEF Lines, Times
<1> QED  BY <1>1, <1>2

(* A process that has not entered the loop, and one that has just reopened *)
(* the port, have written no line over the connection.                     *)
LEMMA LastIsPast ==
  ASSUME TypeInv, LinesPast, UNCHANGED <<lines, crashes>>, LastIsOurs'
  PROVE  reopens' <= reopens /\ pc \in InLoop
<1>1. Len(lines) \in DOMAIN lines
  BY DEF LastIsOurs, TypeInv, RecordsOK
<1>2. lines[Len(lines)].process = crashes /\ lines[Len(lines)].connection = reopens'
  BY DEF LastIsOurs
<1> QED  BY <1>1, <1>2 DEF LinesPast

(* Writing a line compares its timer with that of the line before: over    *)
(* one connection the difference of the timers is that of the times.       *)
LEMMA LineMarked ==
  ASSUME WordMod > MaxTime, TypeInv, GapInv, WriteDataBinAndTrickle, UNCHANGED append_failed,
         lines' = Append(lines, LineOf(Elapsed(time_start, time_prev_sample))),
         prev_timer' = Elapsed(time_start, time_prev_sample)
  PROVE  GapInv'
<1> DEFINE timer == Elapsed(time_start, time_prev_sample)
<1>1. timer \in Words
  BY ElapsedWord DEF TypeInv, TimesOK
<1>2. set_backs = 0 => timer = now - time_start /\ time_start <= now /\ time_prev_sample = now
  <2> SUFFICES ASSUME set_backs = 0
               PROVE  timer = now - time_start /\ time_start <= now /\ time_prev_sample = now
    OBVIOUS
  <2>1. time_start <= now /\ time_prev_sample = now
    BY DEF WriteDataBinAndTrickle, GapInv, TimerExact, InLoop
  <2>2. timer = now - time_start
    BY <2>1, ElapsedExact, TimesAreNat DEF TypeInv, TimesOK
  <2> QED  BY <2>1, <2>2
<1>3. lines' = Append(lines, LineOf(timer)) /\ prev_timer' = timer
  OBVIOUS
<1> HIDE DEF timer
<1>4. /\ Len(lines') = Len(lines) + 1 /\ Len(lines) \in Nat
      /\ DOMAIN lines = 1..Len(lines) /\ DOMAIN lines' = 1..Len(lines) + 1
      /\ lines'[Len(lines) + 1] = LineOf(timer)
      /\ \A i \in 1..Len(lines) : lines'[i] = lines[i]
  BY <1>1, <1>3, LineAppended
<1>5. /\ pc = "write" /\ pc' = "checkpoint"
      /\ UNCHANGED <<now, procVars, startVars, sampleVars, boundVars>>
  BY DEF WriteDataBinAndTrickle
<1>6. LineOf(timer).process = crashes /\ LineOf(timer).connection = reopens
      /\ LineOf(timer).at = time_prev_sample /\ LineOf(timer).type = SampleType(timer)
  BY DEF LineOf
<1>7. crashes \in Nat /\ reopens \in Nat /\ total_samples_done \in Nat
      /\ total_samples_done > 0
  BY <1>5 DEF TypeInv, MishapsOK, ScalarsOK, CountInv
<1>8. LinesPast'
  <2> SUFFICES ASSUME NEW i \in DOMAIN lines'
               PROVE  /\ lines'[i].process <= crashes /\ lines'[i].connection <= reopens
                      /\ lines'[i].process = crashes => pc' \in InLoop
    BY <1>5 DEF LinesPast
  <2>1. pc' \in InLoop
    BY <1>5 DEF InLoop
  <2>2. CASE i \in 1..Len(lines)
    BY <1>4, <2>1, <2>2 DEF GapInv, LinesPast
  <2>3. CASE i = Len(lines) + 1
    BY <1>4, <1>6, <1>7, <2>1, <2>3
  <2> QED  BY <1>4, <2>2, <2>3
<1>9. set_backs = 0 => TimerExact'
  <2> SUFFICES ASSUME set_backs = 0 PROVE TimerExact'
    OBVIOUS
  <2>1. time_start' <= now' /\ pc' # "write"
    BY <1>2, <1>5
  <2>2. lines'[Len(lines')].at = now /\ prev_timer' = now - time_start
    BY <1>2, <1>3, <1>4, <1>6
  <2>3. total_samples_done' > Here'
    BY <1>5, <1>7 DEF Here
  <2> QED  BY <1>2, <1>5, <2>1, <2>2, <2>3, TimesAreNat DEF TimerExact
<1>10. GapsMarked'
  <2> SUFFICES ASSUME set_backs = 0, NEW i \in 2..Len(lines'), SameConnection(i - 1, i)'
               PROVE  (lines'[i].type = "r") = (lines'[i].at - lines'[i - 1].at > LongGap)
    BY <1>5 DEF GapsMarked
  <2>1. CASE i # Len(lines) + 1
    <3>1. i \in 2..Len(lines) /\ lines'[i] = lines[i] /\ lines'[i - 1] = lines[i - 1]
      BY <1>4, <2>1
    <3>2. SameConnection(i - 1, i)
      BY <3>1 DEF SameConnection, SameProcess
    <3> QED  BY <3>1, <3>2 DEF GapInv, GapsMarked
  <2>2. CASE i = Len(lines) + 1
    <3>0. Len(lines) \in 1..Len(lines) /\ Len(lines) >= 1 /\ i - 1 = Len(lines)
      BY <1>4, <2>2
    <3>1. lines'[i] = LineOf(timer) /\ lines'[i - 1] = lines[Len(lines)] /\ Len(lines) >= 1
      <4>1. lines'[i] = LineOf(timer)
        BY <1>4, <2>2
      <4>2. lines'[Len(lines)] = lines[Len(lines)]
        BY <1>4, <3>0
      <4> QED  BY <3>0, <4>1, <4>2
    <3>2. lines[Len(lines)].process = crashes /\ lines[Len(lines)].connection = reopens
      BY <1>6, <3>1 DEF SameConnection, SameProcess
    <3>3. LastIsOurs
      BY <1>5, <3>1, <3>2 DEF LastIsOurs, InLoop
    <3>4. /\ time_start <= lines[Len(lines)].at /\ lines[Len(lines)].at <= now
          /\ prev_timer = lines[Len(lines)].at - time_start /\ total_samples_done > 1
      BY <1>5, <3>3 DEF GapInv, TimerExact, Here
    <3>5. lines[Len(lines)].at \in Nat /\ now \in Nat /\ time_start \in Nat
      BY <1>4, <3>1, LineFields, TimesAreNat
    <3>6. timer - prev_timer = now - lines[Len(lines)].at
      BY <1>2, <3>4, <3>5
    <3>7. (timer > prev_timer /\ timer - prev_timer > LongGap)
             = (now - lines[Len(lines)].at > LongGap)
      BY <1>2, <3>4, <3>5, ClockAssumption
    <3>8. (SampleType(timer) = "r") = (timer > prev_timer /\ timer - prev_timer > LongGap)
      BY <1>7, <3>4 DEF SampleType
    <3> QED  BY <1>2, <1>6, <3>1, <3>7, <3>8
  <2> QED  BY <2>1, <2>2
<1> QED  BY <1>5, <1>8, <1>9, <1>10 DEF GapInv

(* A line is marked "r" exactly after a long gap, over one connection and  *)
(* a clock that is not set back, for every gap (get_sample_type).          *)
THEOREM GapsAreMarked ==
  ASSUME WordMod > MaxTime PROVE Spec => []GapsMarked
<1>1. Init => GapInv
  BY DEF Init, GapInv, LinesPast, GapsMarked, TimerExact, LastIsOurs, InLoop
<1>2. TypeInv /\ GapInv /\ [Next]_vars => GapInv'
  <2> SUFFICES ASSUME TypeInv, GapInv, [Next]_vars PROVE GapInv'
    OBVIOUS
  <2> USE DEF InLoop
  <2>1. crashes \in Nat /\ reopens \in Nat /\ now \in Nat
        /\ total_samples_done \in Nat /\ set_backs \in Nat
    BY TimesAreNat DEF TypeInv, MishapsOK, ScalarsOK
  <2>2. CASE StartProcess \/ OpenCom \/ EnterMainLoop
    <3>1. UNCHANGED <<lines, boundVars, now>> /\ pc \notin InLoop /\ pc' # "write"
          /\ (pc' \in InLoop => time_start' = now)
      BY <2>2 DEF StartProcess, OpenCom, EnterMainLoop
    <3>2. ~LastIsOurs'
      BY <3>1, LastIsPast DEF GapInv
    <3>3. LinesPast'
      BY <3>1 DEF GapInv, LinesPast
    <3>4. TimerExact'
      BY <2>1, <3>1, <3>2 DEF TimerExact
    <3> QED  BY <3>1, <3>3, <3>4 DEF GapInv, GapsMarked, SameConnection, SameProcess
  <2>3. CASE TryComReopen
    <3>1. UNCHANGED <<lines, crashes, set_backs, now>> /\ pc' = "loop" /\ reopens' = reopens + 1
          /\ time_start' = now
      BY <2>3 DEF TryComReopen
    <3>2. ~LastIsOurs'
      BY <2>1, <3>1, LastIsPast DEF GapInv
    <3>3. LinesPast'
      BY <2>1, <3>1, LineFields DEF GapInv, LinesPast
    <3>4. TimerExact'
      BY <2>1, <3>1, <3>2 DEF TimerExact
    <3> QED  BY <3>1, <3>3, <3>4 DEF GapInv, GapsMarked, SameConnection, SameProcess
  <2>4. CASE ReadSample
    <3>1. UNCHANGED <<lines, boundVars, now, time_start, prev_timer>> /\ pc = "loop"
          /\ pc' = "write" /\ time_prev_sample' = now
          /\ total_samples_done' = total_samples_done + 1
      BY <2>4 DEF ReadSample
    <3>2. LinesPast'
      BY <3>1 DEF GapInv, LinesPast
    <3>3. TimerExact => TimerExact'
      BY <2>1, <3>1 DEF TimerExact, LastIsOurs, Here
    <3> QED  BY <3>1, <3>2, <3>3 DEF GapInv, GapsMarked, SameConnection, SameProcess
  <2>5. CASE WriteDataBinAndTrickle
    <3>1. CASE UNCHANGED append_failed
               /\ lines' = Append(lines, LineOf(Elapsed(time_start, time_prev_sample)))
               /\ prev_timer' = Elapsed(time_start, time_prev_sample)
      BY <2>5, <3>1, LineMarked
    <3>2. CASE UNCHANGED <<lines, prev_timer>>
      <4>1. UNCHANGED <<boundVars, now, startVars, procVars>> /\ pc = "write"
            /\ pc' = "checkpoint"
        BY <2>5 DEF WriteDataBinAndTrickle
      <4>2. LinesPast'
        BY <3>2, <4>1 DEF GapInv, LinesPast
      <4>3. TimerExact => TimerExact'
        BY <2>1, <3>2, <4>1 DEF TimerExact, LastIsOurs, Here
      <4> QED  BY <3>2, <4>1, <4>2, <4>3 DEF GapInv, GapsMarked, SameConnection, SameProcess
    <3> QED  BY <2>5, <3>1, <3>2 DEF WriteDataBinAndTrickle, RememberWritten
  <2>6. CASE PersistCheckpoint \/ LostSensor \/ Wait \/ UNCHANGED vars
    <3>1. UNCHANGED <<lines, boundVars, now, startVars, procVars, sampleVars, prev_timer>>
          /\ (pc' \in InLoop <=> pc \in InLoop) /\ (pc' = "write" <=> pc = "write")
      BY <2>6 DEF PersistCheckpoint, LostSensor, Wait
    <3>2. LinesPast'
      BY <3>1 DEF GapInv, LinesPast
    <3>3. TimerExact => TimerExact'
      BY <3>1 DEF TimerExact, LastIsOurs, Here
    <3> QED  BY <3>1, <3>2, <3>3 DEF GapInv, GapsMarked, SameConnection, SameProcess
  <2>7. CASE Tick
    <3>1. UNCHANGED <<pc, lines, boundVars, startVars, procVars, prev_timer>> /\ pc # "write"
          /\ now' = now + 1
      BY <2>7 DEF Tick, Waiting
    <3>2. LinesPast'
      BY <3>1 DEF GapInv, LinesPast
    <3>3. TimerExact => TimerExact'
      <4>1. time_start \in Nat
        BY TimesAreNat
      <4>2. LastIsOurs => lines[Len(lines)].at \in Nat
        BY LineFields DEF LastIsOurs, TypeInv, RecordsOK
      <4>3. LastIsOurs' <=> LastIsOurs
        BY <3>1 DEF LastIsOurs
      <4> QED  BY <2>1, <3>1, <4>1, <4>2, <4>3 DEF TimerExact, Here
    <3> QED  BY <3>1, <3>2, <3>3 DEF GapInv, GapsMarked, SameConnection, SameProcess
  <2>8. CASE SetBack
    <3>1. UNCHANGED <<pc, lines, crashes, reopens>> /\ set_backs' # 0
      BY <2>1, <2>8 DEF SetBack
    <3> QED  BY <3>1 DEF GapInv, LinesPast, GapsMarked
  <2>9. CASE Crash
    <3>1. UNCHANGED <<lines, reopens, set_backs>> /\ crashes' = crashes + 1 /\ pc' = "start"
      BY <2>9 DEF Crash
    <3>2. LinesPast'
      BY <2>1, <3>1, LineFields DEF GapInv, LinesPast
    <3>3. TimerExact'
      BY <3>1 DEF TimerExact, LastIsOurs
    <3> QED  BY <3>1, <3>2, <3>3 DEF GapInv, GapsMarked, SameConnection, SameProcess
  <2> QED  BY <2>2, <2>3, <2>4, <2>5, <2>6, <2>7, <2>8, <2>9 DEF Next
<1>3. GapInv => GapsMarked
  BY DEF GapInv
<1> QED  BY <1>1, <1>2, <1>3, TypeInvariant, PTL DEF Spec

-----------------------------------------------------------------------------
(* Leaps.                                                                  *)

(* What one sample adds at most.                                           *)
Most(high) == 2 * MaxTime * high + Minute

(* The counter is at most a job's time for each sample read.               *)
LeapInv ==
    /\ NoLeap
    /\ \A high \in CpmValues :
          CpmValues \subseteq 0..high => 2 * Minute * counter <= Most(high) * total_samples_done

(* Products of smaller numbers are smaller; no sample takes no time.       *)
LEMMA ProductBounded ==
  ASSUME NEW t \in Nat, NEW u \in Nat, NEW n \in Nat, NEW m \in Nat, t <= u, n <= m
  PROVE  t * n <= u * m
<1>1. t * n <= t * m /\ m * t <= m * u
  BY FewerTimes
<1>2. m * t = t * m /\ m * u = u * m /\ t * n \in Nat /\ t * m \in Nat /\ u * m \in Nat
  OBVIOUS
<1> QED  BY <1>1, <1>2
LEMMA NoTimes ==
  ASSUME NEW n \in Nat
  PROVE  \A high \in CpmValues : /\ Most(high) \in Nat
                                 /\ 2 * Minute * 0 <= Most(high) * n
                                 /\ 2 * Minute * 0 <= Most(high) * 0
<1> SUFFICES ASSUME NEW high \in CpmValues
             PROVE  /\ Most(high) \in Nat
                    /\ 2 * Minute * 0 <= Most(high) * n /\ 2 * Minute * 0 <= Most(high) * 0
  OBVIOUS
<1>1. MaxTime \in Nat /\ high \in Nat /\ Minute \in Nat
  BY ClockAssumption
<1>2. 2 * MaxTime * high \in Nat /\ 2 * Minute \in Nat
  BY <1>1
<1>3. Most(high) \in Nat
  BY <1>1, <1>2 DEF Most
<1>4. \A p \in Nat : p * n \in Nat /\ p * 0 = 0
  OBVIOUS
<1> QED  BY <1>2, <1>3, <1>4

(* However the clock is set back, no timer and no counter is beyond what   *)
(* the samples of a job can account for: the cast to unsigned never sees a *)
(* negative difference (time_start of main_app.cpp:403).                   *)
THEOREM NothingLeaps == Spec => []NoLeap
<1>1. Init => LeapInv
  <2>1. \A high \in CpmValues : 2 * Minute * 0 <= Most(high) * 0
    BY NoTimes
  <2> QED  BY <2>1 DEF Init, LeapInv, NoLeap
<1>2. TypeInv /\ LeapInv /\ [Next]_vars => LeapInv'
  <2> SUFFICES ASSUME TypeInv, LeapInv, [Next]_vars PROVE LeapInv'
    OBVIOUS
  <2>1. /\ total_samples_done \in Nat /\ total_samples_done <= MaxSamples
        /\ counter \in Nat /\ MaxTime \in Nat /\ MaxSamples \in Nat /\ Minute \in Nat
        /\ \A high \in CpmValues : high \in Nat /\ Most(high) \in Nat
    BY NoTimes, ClockAssumption DEF TypeInv, ScalarsOK, Words
  <2>2. CASE StartProcess \/ EnterMainLoop \/ PersistCheckpoint \/ LostSensor \/ Tick
             \/ SetBack \/ Wait \/ UNCHANGED vars
    BY <2>2 DEF StartProcess, Resume, FailToResume, EnterMainLoop, PersistCheckpoint, LostSensor,
                Tick, SetBack, Wait, LeapInv, NoLeap
  <2>3. CASE OpenCom \/ TryComReopen \/ Crash
    <3>1. /\ counter' = 0 /\ UNCHANGED lines
          /\ total_samples_done' = total_samples_done \/ total_samples_done' = 0
      BY <2>3 DEF OpenCom, TryComReopen, Crash
    <3>2. \A high \in CpmValues : /\ 2 * Minute * 0 <= Most(high) * total_samples_done
                                  /\ 2 * Minute * 0 <= Most(high) * 0
      BY <2>1, NoTimes
    <3> QED  BY <3>1, <3>2 DEF LeapInv, NoLeap
  <2>4. CASE ReadSample
    <3> DEFINE counted == Counted(last_sample_time, now)
    <3>0. PICK cpm \in CpmValues : \E counts \in Nearest(counted * cpm) :
             counter' = (counter + counts) % WordMod
      BY <2>4 DEF ReadSample
    <3>1. PICK counts \in Nearest(counted * cpm) : counter' = (counter + counts) % WordMod
      BY <3>0
    <3>2. counted \in Nat /\ counted <= MaxTime /\ cpm \in Nat
      BY CountedBounded, ClockAssumption DEF TypeInv, ScalarsOK, TimesOK
    <3> HIDE DEF counted
    <3>3. counts \in Nat /\ 2 * Minute * counts - 2 * (counted * cpm) \in -Minute..Minute
      BY <3>2, NearestBounds
    <3>4. counter' \in Nat /\ counter' <= counter + counts
      BY <2>1, <3>1, <3>3, ModuloShrinks
    <3>5. total_samples_done' = total_samples_done + 1 /\ UNCHANGED lines
      BY <2>4 DEF ReadSample
    <3>6. ASSUME NEW high \in CpmValues, CpmValues \subseteq 0..high
          PROVE  2 * Minute * counter' <= Most(high) * (total_samples_done + 1)
      <4>1. high \in Nat /\ cpm <= high /\ Most(high) \in Nat
        BY <2>1, <3>6
      <4>2. 2 * Minute * counts <= Most(high)
        <5>1. counted * cpm <= MaxTime * high
          BY <2>1, <3>2, <4>1, ProductBounded
        <5>2. 2 * MaxTime * high = 2 * (MaxTime * high) /\ MaxTime * high \in Nat
              /\ counted * cpm \in Nat /\ 2 * Minute * counts \in Nat
          BY <2>1, <3>2, <3>3, <4>1
        <5>3. 2 * Minute * counts <= 2 * (counted * cpm) + Minute
          BY <2>1, <3>3, <5>2
        <5> QED  BY <2>1, <5>1, <5>2, <5>3 DEF Most
      <4>3. /\ 2 * Minute * counter' <= 2 * Minute * counter + 2 * Minute * counts
            /\ 2 * Minute * counter' \in Nat /\ 2 * Minute * counter \in Nat
            /\ 2 * Minute * counts \in Nat
        <5>1. 2 * Minute \in Nat
          BY <2>1
        <5>2. \A m, a, b, c \in Nat :
                 b <= a + c => /\ m * b <= m * a + m * c
                               /\ m * b \in Nat /\ m * a \in Nat /\ m * c \in Nat
          <6>1. ASSUME NEW m \in Nat, NEW a \in Nat, NEW b \in Nat, NEW c \in Nat, b <= a + c
                PROVE  m * b <= m * (a + c)
            BY <6>1, FewerTimes
          <6>2. \A m, a, c \in Nat : m * (a + c) = m * a + m * c
            OBVIOUS
          <6>3. \A m, a \in Nat : m * a \in Nat
            OBVIOUS
          <6> QED  BY <6>1, <6>2, <6>3
        <5> HIDE DEF counted
        <5> DEFINE later == counter'
        <5>3. later \in Nat /\ later <= counter + counts
          BY <3>4
        <5> HIDE DEF later
        <5>4. 2 * Minute * later <= 2 * Minute * counter + 2 * Minute * counts
              /\ 2 * Minute * later \in Nat /\ 2 * Minute * counter \in Nat
              /\ 2 * Minute * counts \in Nat
          BY <2>1, <3>3, <5>1, <5>2, <5>3
        <5> QED  BY <5>4 DEF later
      <4>4. Most(high) * (total_samples_done + 1) = Most(high) * total_samples_done + Most(high)
        BY <2>1, <4>1, OneTimeMore
      <4>5. Most(high) * total_samples_done \in Nat
            /\ 2 * Minute * counter <= Most(high) * total_samples_done
        BY <2>1, <3>6, <4>1 DEF LeapInv
      <4> QED  BY <4>1, <4>2, <4>3, <4>4, <4>5
    <3> QED  BY <3>5, <3>6 DEF LeapInv, NoLeap
  <2>5. CASE WriteDataBinAndTrickle
    <3> DEFINE timer == Elapsed(time_start, time_prev_sample)
    <3>1. UNCHANGED <<counter, total_samples_done>>
      BY <2>5 DEF WriteDataBinAndTrickle
    <3>2. timer \in Words /\ timer \in Nat /\ timer <= MaxTime
      BY ElapsedWord, ElapsedBounded DEF TypeInv, TimesOK
    <3>3. UNCHANGED lines \/ lines' = Append(lines, LineOf(timer))
      BY <2>5, LinesWritten
    <3> HIDE DEF timer
    <3>4. CASE UNCHANGED lines
      BY <3>1, <3>4 DEF LeapInv, NoLeap
    <3>5. CASE lines' = Append(lines, LineOf(timer))
      <4>1. /\ DOMAIN lines = 1..Len(lines) /\ DOMAIN lines' = 1..Len(lines) + 1
            /\ lines'[Len(lines) + 1] = LineOf(timer) /\ Len(lines) \in Nat
            /\ \A i \in 1..Len(lines) : lines'[i] = lines[i]
        BY <3>2, <3>5, LineAppended
      <4>2. ASSUME NEW high \in CpmValues, CpmValues \subseteq 0..high
            PROVE  2 * Minute * counter <= Most(high) * MaxSamples
        <5>1. Most(high) \in Nat /\ 2 * Minute * counter \in Nat
          BY <2>1
        <5>2. Most(high) * total_samples_done <= Most(high) * MaxSamples
          BY <2>1, <5>1, FewerTimes
        <5>3. Most(high) * total_samples_done \in Nat /\ Most(high) * MaxSamples \in Nat
          BY <2>1, <5>1
        <5> QED  BY <2>1, <4>2, <5>1, <5>2, <5>3 DEF LeapInv
      <4>5. LineOf(timer).timer <= MaxTime /\ LineOf(timer).counter = counter
        BY <3>2 DEF LineOf
      <4>6. NoLeap'
        BY <4>1, <4>2, <4>5 DEF LeapInv, NoLeap, Most
      <4> QED  BY <3>1, <4>6 DEF LeapInv
    <3> QED  BY <3>3, <3>4, <3>5
  <2> QED  BY <2>2, <2>3, <2>4, <2>5 DEF Next
<1>3. LeapInv => NoLeap
  BY DEF LeapInv
<1> QED  BY <1>1, <1>2, <1>3, TypeInvariant, PTL DEF Spec
-----------------------------------------------------------------------------
(* The trickle buffer, as the main loop fills it.                          *)

(* A process starts with an empty buffer and without a trickle.            *)
StartsEmpty == pc = "start" => trickle_pending = 0 /\ ~trickle_sent

LEMMA StartsEmptyInvariant == Spec => []StartsEmpty
<1>1. Init => StartsEmpty
  BY DEF Init, StartsEmpty
<1>2. StartsEmpty /\ [Next]_vars => StartsEmpty'
  BY DEF StartsEmpty, Next, StartProcess, Resume, FailToResume, OpenCom, EnterMainLoop, ReadSample,
     WriteDataBinAndTrickle, PersistCheckpoint, LostSensor, TryComReopen, Tick, SetBack,
     Wait, Crash
<1> QED  BY <1>1, <1>2, PTL DEF Spec

(* The count a restore would bring back.                                   *)
Stored == IF ckpt = NoCkpt THEN -1 ELSE ckpt.pending

(* A checkpoint that holds times holds a count of samples.                 *)
LEMMA StoredType ==
  ASSUME TypeInv PROVE ckpt # NoCkpt => ckpt.pending \in Nat
  BY ClockAssumption DEF TypeInv, RecordsOK

(* The clock lets the buffer do nothing that the main loop does not: what  *)
(* is due or full goes as one trickle, at a time this clock allows.        *)
THEOREM BufferTimed == Spec => ImplementsTrickleUse
<1> USE DEF Stored
<1>1. Init => Buffer!Init
  BY DEF Init, Buffer!Init, Buffer!Nothing
<1>2. TypeInv /\ StartsEmpty /\ [Next]_vars => [Buffer!Next]_(Buffer!vars)
  <2> SUFFICES ASSUME TypeInv, StartsEmpty, [Next]_vars
               PROVE  \/ Buffer!Next
                      \/ UNCHANGED <<trickle_pending, trickle_sent, Stored, Len(sends)>>
    BY DEF Buffer!vars
  <2>0. /\ trickle_pending \in Nat /\ Len(sends) \in Nat
        /\ \A why : Sent(why) => Len(sends') = Len(sends) + 1
    BY ClockAssumption DEF TypeInv, ScalarsOK, RecordsOK, Sent
  <2>1. CASE StartProcess
    <3>1. pc = "start" /\ trickle_pending = 0 /\ ~trickle_sent
          /\ UNCHANGED <<trickle_sent, sends>>
      BY <2>1 DEF StartProcess, StartsEmpty
    <3>0. CASE FailToResume
      BY <2>1, <3>0, <3>1 DEF StartProcess, FailToResume
    <3>2. CASE Resume /\ lines # <<>> /\ ckpt # NoCkpt
      <4>1. trickle_pending' = ckpt.pending /\ ckpt' = NoCkpt /\ ckpt.pending \in Nat
        BY <2>1, <3>2, StoredType DEF StartProcess, Resume
      <4> QED  BY <3>1, <3>2, <4>1 DEF Buffer!Next, Buffer!Restore, Buffer!Nothing
    <3>3. CASE Resume /\ ~(lines # <<>> /\ ckpt # NoCkpt)
      BY <2>1, <3>1, <3>3 DEF StartProcess, Resume
    <3> QED  BY <2>1, <3>0, <3>2, <3>3 DEF StartProcess
  <2>2. CASE WriteDataBinAndTrickle
    <3>1. UNCHANGED ckpt /\ (BufferOrSend \/ UNCHANGED <<trickle_pending, trickle_sent, sends>>)
      BY <2>2 DEF WriteDataBinAndTrickle
    <3>2. CASE BufferOrSend
      <4>1. CASE IntervalOk \/ BufferFull
        BY <2>0, <3>1, <3>2, <4>1 DEF BufferOrSend, Buffer!Next, Buffer!SendOld
      <4>2. CASE ~(IntervalOk \/ BufferFull)
        BY <3>1, <3>2, <4>2 DEF BufferOrSend, Buffer!Next, Buffer!Hold
      <4> QED  BY <4>1, <4>2
    <3> QED  BY <3>1, <3>2
  <2>3. CASE PersistCheckpoint
    <3>1. UNCHANGED <<trickle_pending, trickle_sent, sends>>
      BY <2>3 DEF PersistCheckpoint
    <3>2. CASE ~trickle_sent
               /\ ckpt' = [time |-> last_trickle_send_time, pending |-> trickle_pending]
      <4>1. last_trickle_send_time \in Nat
        BY ClockAssumption DEF TypeInv, TimesOK, Times
      <4>2. ckpt' # NoCkpt /\ ckpt'.pending = trickle_pending
        BY <3>2, <4>1 DEF NoCkpt
      <4> QED  BY <3>1, <3>2, <4>2 DEF Buffer!Next, Buffer!Store
    <3>3. CASE UNCHANGED ckpt
      BY <3>1, <3>3
    <3> QED  BY <2>3, <3>2, <3>3 DEF PersistCheckpoint
  <2>4. CASE LostSensor
    BY <2>0, <2>4 DEF LostSensor, Buffer!Next, Buffer!SendAll
  <2>5. CASE Crash
    BY <2>5 DEF Crash, Buffer!Next, Buffer!Restart
  <2>6. CASE OpenCom \/ EnterMainLoop \/ ReadSample \/ TryComReopen \/ Tick \/ SetBack
             \/ Wait \/ UNCHANGED vars
    BY <2>6 DEF OpenCom, EnterMainLoop, ReadSample, TryComReopen, Tick, SetBack, Wait
  <2> QED  BY <2>1, <2>2, <2>3, <2>4, <2>5, <2>6 DEF Next
<1> QED
  BY <1>1, <1>2, TypeInvariant, StartsEmptyInvariant, PTL
  DEF Spec, ImplementsTrickleUse, Buffer!Spec
=============================================================================
