---------------------------- MODULE MainAppProofs ----------------------------
(***************************************************************************)
(* Theorems about module MainApp, for every quota, buffer size, retry      *)
(* count and number of crashes.                                            *)
(***************************************************************************)
EXTENDS MainApp, TLAPS

USE DEF confVars, progVars, fracVars, portVars, comVars, bufVars, trickVars,
        binVars, ckptVars, memVars, vars

-----------------------------------------------------------------------------
(* The empty buffer, the empty history of trickles and the empty           *)
(* checkpoint have the types of the variables that hold them.              *)
LEMMA EmptyBuffer == <<>> \in Seq(Nat)
  OBVIOUS
(* No trickle has been sent at the start.                                  *)
LEMMA EmptyHistory == <<>> \in Seq(Seq(Nat))
  OBVIOUS
(* No checkpoint: the file is absent or truncated.                         *)
LEMMA EmptyCkpt == NoCkpt \in [pending : Nat, ids : Seq(Nat), len : Nat]
  BY DEF NoCkpt

(* The samples of a sequence of samples are samples.                       *)
LEMMA RangeType == ASSUME NEW s \in Seq(Nat) PROVE Range(s) \subseteq Nat
  BY DEF Range

(* The buffer limit of a process is a length no larger than the array's.   *)
LEMMA ContentLimit ==
    TrickleMaxContent \in Nat /\ TrickleMaxContent <= MaxTrickleContentBytes
  BY TrickleAssumption DEF TrickleMaxContent, Clip

(* A quota is positive and at most MaxNumSamples.                          *)
LEMMA NoQuotaYet == 0 \in 0..MaxNumSamples
  BY QuotaAssumption
(* Every quota a preference may give is in range.                          *)
LEMMA QuotaType == NumSamples \subseteq 0..MaxNumSamples
  BY QuotaAssumption

(* Handing the buffer to the client, and clearing or keeping it after, leaves *)
(* the buffer and the trickles well typed.                                 *)
LEMMA SendType ==
  ASSUME SamplesOK, NEW accepted \in BOOLEAN, SendTrickle(accepted)
  PROVE  trickles' \in Seq(Seq(Nat)) /\ faults' \subseteq {"crash", "send", "append"}
<1>1. Append(trickles, trickle_buf) \in Seq(Seq(Nat))
  BY DEF SamplesOK
<1> QED
  BY <1>1 DEF SamplesOK, SendTrickle, Payload

(* The send of the lost-sensor and exit paths leaves both well typed.      *)
LEMMA SendPendingType ==
  ASSUME CountersOK, SamplesOK, SendPending
  PROVE  /\ trickle_buf' \in Seq(Nat) /\ trickle_pending' \in Nat /\ trickle_msg_len' \in Nat
         /\ trickles' \in Seq(Seq(Nat)) /\ faults' \subseteq {"crash", "send", "append"}
<1>1. CASE HasPending
  <2>1. PICK accepted \in BOOLEAN :
          SendTrickle(accepted) /\ IF accepted THEN ClearBuffer ELSE KeepBuffer
    BY <1>1 DEF SendPending
  <2>2. trickles' \in Seq(Seq(Nat)) /\ faults' \subseteq {"crash", "send", "append"}
    BY <2>1, SendType
  <2>3. trickle_buf' \in Seq(Nat) /\ trickle_pending' \in Nat /\ trickle_msg_len' \in Nat
    <3>1. CASE accepted
      <4>1. trickle_buf' = <<>> /\ trickle_pending' = 0 /\ trickle_msg_len' = 0
        BY <2>1, <3>1 DEF ClearBuffer
      <4>2. trickle_buf' \in Seq(Nat)
        BY <4>1, EmptyBuffer
      <4>3. trickle_pending' \in Nat
        BY <4>1
      <4> QED BY <4>1, <4>2, <4>3
    <3>2. CASE ~accepted
      BY <2>1, <3>2 DEF KeepBuffer, CountersOK, SamplesOK
    <3> QED BY <3>1, <3>2
  <2> QED BY <2>2, <2>3
<1>2. CASE ~HasPending
  BY <1>2 DEF SendPending, KeepBuffer, CountersOK, SamplesOK
<1> QED BY <1>1, <1>2

-----------------------------------------------------------------------------
(* A retry is being waited for only while one is left.                     *)
TypeInv ==
    /\ TypeOK
    /\ pc = "delay" => retries_left > 0

(* The types are kept by every step of the program and of the machine.     *)
LEMMA TypeInvariant == Spec => []TypeInv
<1>1. Init => TypeInv
  <2> SUFFICES ASSUME Init PROVE TypeInv
    OBVIOUS
  <2>1. SamplesOK
    <3>1. trickle_buf \in Seq(Nat) /\ data_bin \in Seq(Nat)
      BY EmptyBuffer DEF Init, FreshMemory
    <3>2. trickles \in Seq(Seq(Nat))
      BY EmptyHistory DEF Init
    <3>3. ckpt \in [pending : Nat, ids : Seq(Nat), len : Nat]
      BY EmptyCkpt DEF Init
    <3> QED BY <3>1, <3>2, <3>3 DEF Init, SamplesOK
  <2>2. FlagsOK
    BY DEF Init, FreshMemory, FlagsOK
  <2>3. CountersOK
    BY NoQuotaYet DEF Init, FreshMemory, CountersOK
  <2> QED
    BY <2>1, <2>2, <2>3 DEF Init, TypeInv, TypeOK
<1>2. TypeInv /\ [Next]_vars => TypeInv'
  <2> SUFFICES ASSUME TypeInv, [Next]_vars PROVE TypeInv'
    OBVIOUS
  <2> USE DEF TypeInv, TypeOK, FlagsOK, CountersOK, SamplesOK
  <2>1. CASE Boot
    BY <2>1, QuotaType, RetryAssumption DEF Boot
  <2>2. CASE BadConfig
    BY <2>2 DEF BadConfig, FinishJob
  <2>3. CASE ResumeFresh
    BY <2>3 DEF ResumeFresh
  <2>4. CASE TryAlmostDoneExit
    BY <2>4 DEF TryAlmostDoneExit, FinishJob
  <2>5. CASE ResumeDataBin
    BY <2>5 DEF ResumeDataBin
  <2>6. CASE RestoreTrickleCheckpoint
    BY <2>6, EmptyCkpt, TrickleAssumption DEF RestoreTrickleCheckpoint, Clip
  <2>7. CASE TryOneComOpen
    BY <2>7 DEF TryOneComOpen, MayRetry, OpenAttempt, PortsAfterOpen, OpenResults
  <2>8. CASE SleepRetryDelay
    BY <2>8 DEF SleepRetryDelay
  <2>9. CASE NoDetector
    BY <2>9 DEF NoDetector, FinishJob
  <2>10. CASE EnterMainLoop
    BY <2>10 DEF EnterMainLoop, FirstIndex
  <2>11. CASE LoopTop
    BY <2>11 DEF LoopTop
  <2>12. CASE QuitPolled
    BY <2>12 DEF QuitPolled, FinishJob
  <2>13. CASE TryComReopen
    BY <2>13 DEF TryComReopen, OpenAttempt, PortsAfterOpen, OpenResults, NextTurn
  <2>14. CASE ReadSample
    BY <2>14 DEF ReadSample, SamplesOfTheJob
  <2>15. CASE ReadFailed
    BY <2>15 DEF ReadFailed
  <2>16. CASE LostSensor
    <3>1. FlagsOK'
      BY <2>16 DEF LostSensor
    <3>2. CountersOK'
      BY <2>16, SendPendingType DEF LostSensor, ClosePort
    <3>3. SamplesOK'
      BY <2>16, SendPendingType DEF LostSensor
    <3> QED BY <3>1, <3>2, <3>3, <2>16 DEF LostSensor
  <2>17. CASE OpenDataBin
    BY <2>17 DEF OpenDataBin
  <2>18. CASE BufferOrSend
    <3>1. PICK xml \in XmlLens : KeepAlone(xml) \/ AppendToBuffer(xml)
      BY <2>18 DEF BufferOrSend
    <3>2. trickle_buf' \in Seq(Nat)
      <4>1. <<taken>> \in Seq(Nat) /\ Append(trickle_buf, taken) \in Seq(Nat)
        OBVIOUS
      <4> QED BY <3>1, <4>1 DEF KeepAlone, AppendToBuffer
    <3>3. trickle_pending' \in Nat /\ trickle_msg_len' \in Nat
      BY <3>1, ContentLimit, TrickleAssumption DEF KeepAlone, AppendToBuffer, Clip
    <3>4. /\ trickles' \in Seq(Seq(Nat)) /\ faults' \subseteq {"crash", "send", "append"}
          /\ trickle_sent' \in BOOLEAN
      BY <2>18, SendType DEF BufferOrSend
    <3> QED
      BY <2>18, <3>2, <3>3, <3>4 DEF BufferOrSend
  <2>19. CASE FlushLine
    BY <2>19 DEF FlushLine
  <2>20. CASE SkipCheckpoint
    BY <2>20 DEF SkipCheckpoint
  <2>21. CASE TruncateCheckpoint
    BY <2>21, EmptyCkpt DEF TruncateCheckpoint
  <2>22. CASE PersistTrickleCheckpoint
    BY <2>22, RangeType DEF PersistTrickleCheckpoint
  <2>23. CASE ReportFraction
    BY <2>23 DEF ReportFraction
  <2>24. CASE WaitSampleInterval
    BY <2>24 DEF WaitSampleInterval, NextTurn
  <2>25. CASE FinishSend
    BY <2>25, SendPendingType DEF FinishSend
  <2>26. CASE FinishClose
    BY <2>26 DEF FinishClose, FinishJob, ClosePort
  <2>27. CASE Crash
    <3>1. SamplesOK'
      BY <2>27, EmptyBuffer DEF Crash, ClearBuffer
    <3>2. FlagsOK'
      BY <2>27 DEF Crash
    <3>3. CountersOK'
      BY <2>27, NoQuotaYet DEF Crash, ClearBuffer
    <3> QED BY <3>1, <3>2, <3>3, <2>27 DEF Crash
  <2>28. CASE UNCHANGED vars
    BY <2>28
  <2> QED
    BY <2>1, <2>2, <2>3, <2>4, <2>5, <2>6, <2>7, <2>8, <2>9, <2>10, <2>11, <2>12,
       <2>13, <2>14, <2>15, <2>16, <2>17, <2>18, <2>19, <2>20, <2>21, <2>22, <2>23,
       <2>24, <2>25, <2>26, <2>27, <2>28
    DEF Next, AppStep, StartUp, OpenCom, Iterate, WriteOut, Finish, Terminated
<1> QED
  BY <1>1, <1>2, PTL DEF Spec

(* Every variable keeps its type in every reachable state; in particular   *)
(* the retry counter of open_com_until_ready never goes below zero.        *)
THEOREM TypeCorrect == Spec => []TypeOK
<1>1. TypeInv => TypeOK
  BY DEF TypeInv
<1> QED
  BY <1>1, TypeInvariant, PTL
-----------------------------------------------------------------------------
(* A start that cannot read the file leaves a quota of lines uncounted.    *)
LEMMA OneQuotaMore ==
    /\ 0 * MaxNumSamples = 0
    /\ \A n \in Nat : /\ n * MaxNumSamples \in Nat
                      /\ (n + 1) * MaxNumSamples = n * MaxNumSamples + MaxNumSamples
  BY QuotaAssumption

(* What a step leaves uncounted.                                           *)
LEMMA UncountedStep ==
  ASSUME misreads \in Nat
  PROVE  /\ Uncounted \in Nat
         /\ misreads = 0 => Uncounted = 0
         /\ UNCHANGED misreads => Uncounted' = Uncounted
         /\ misreads' = misreads + 1 => Uncounted' = Uncounted + MaxNumSamples
  BY OneQuotaMore DEF Uncounted

(* The number of turns taken bounds the samples read, and the samples read *)
(* bound the lines, across restarts (run_main_loop, load_data_bin_line_count). *)
LEMMA ProgressInvariant == Spec => []ProgressInv
<1> USE DEF BeforeLoop, Turn, AfterRead, MainLoop, Here
<1>1. Init => ProgressInv
  BY QuotaAssumption, OneQuotaMore DEF Init, FreshMemory, ProgressInv, Uncounted
<1>2. TypeInv /\ TypeInv' /\ ProgressInv /\ [Next]_vars => ProgressInv'
  <2> SUFFICES ASSUME TypeInv, TypeInv', ProgressInv, [Next]_vars PROVE ProgressInv'
    OBVIOUS
  <2>0. /\ misreads \in Nat /\ Uncounted \in Nat /\ (misreads = 0 => Uncounted = 0)
        /\ UNCHANGED misreads => Uncounted' = Uncounted
        /\ misreads' = misreads + 1 => Uncounted' = Uncounted + MaxNumSamples
    BY UncountedStep DEF TypeInv, TypeOK, CountersOK
  <2> USE <2>0 DEF TypeInv, TypeOK, FlagsOK, CountersOK, SamplesOK, ProgressInv
  <2>1. CASE Boot
    BY <2>1 DEF Boot
  <2>2. CASE BadConfig
    BY <2>2 DEF BadConfig, FinishJob
  <2>3. CASE ResumeFresh
    BY <2>3, QuotaAssumption DEF ResumeFresh
  <2>4. CASE TryAlmostDoneExit
    BY <2>4, QuotaAssumption DEF TryAlmostDoneExit, FinishJob, AlmostDone
  <2>5. CASE ResumeDataBin
    BY <2>5, QuotaAssumption DEF ResumeDataBin, AlmostDone
  <2>6. CASE RestoreTrickleCheckpoint
    BY <2>6 DEF RestoreTrickleCheckpoint
  <2>7. CASE TryOneComOpen
    BY <2>7 DEF TryOneComOpen
  <2>8. CASE SleepRetryDelay
    BY <2>8 DEF SleepRetryDelay
  <2>9. CASE NoDetector
    BY <2>9 DEF NoDetector, FinishJob
  <2>10. CASE EnterMainLoop
    BY <2>10 DEF EnterMainLoop, FirstIndex
  <2>11. CASE LoopTop
    <3>1. CASE QuotaReached
      BY <2>11, <3>1 DEF LoopTop
    <3>2. CASE ~QuotaReached /\ com_open_ok
      BY <2>11, <3>2 DEF LoopTop, QuotaReached
    <3>3. CASE ~QuotaReached /\ ~com_open_ok
      BY <2>11, <3>3 DEF LoopTop, QuotaReached
    <3> QED BY <3>1, <3>2, <3>3
  <2>12. CASE QuitPolled
    BY <2>12 DEF QuitPolled, FinishJob
  <2>13. CASE TryComReopen
    <3>1. CASE pc' = "read" /\ UNCHANGED sample_index
      BY <2>13, <3>1 DEF TryComReopen
    <3>2. CASE pc' = "loop" /\ sample_index' = sample_index + 1
      BY <2>13, <3>2 DEF TryComReopen
    <3> QED BY <2>13, <3>1, <3>2 DEF TryComReopen, NextTurn
  <2>14. CASE ReadSample
    BY <2>14 DEF ReadSample
  <2>15. CASE ReadFailed
    BY <2>15 DEF ReadFailed
  <2>16. CASE LostSensor
    BY <2>16 DEF LostSensor, SendPending, SendTrickle
  <2>17. CASE OpenDataBin
    BY <2>17 DEF OpenDataBin
  <2>18. CASE BufferOrSend
    BY <2>18 DEF BufferOrSend, SendTrickle
  <2>19. CASE FlushLine
    <3>1. Len(data_bin') = Len(data_bin) + 1
      BY <2>19 DEF FlushLine
    <3>2. /\ pc = "flush" /\ pc' = "ckpt"
          /\ UNCHANGED <<exit, num_samples, data_bin_line_count, total_samples_done,
                        sample_index, data_bin_exists, faults, misreads>>
      BY <2>19 DEF FlushLine
    <3>3. data_bin_exists
      BY <3>2
    <3>4. Len(data_bin) \in Nat
      OBVIOUS
    <3>5. /\ Len(data_bin) + 1 <= Uncounted + data_bin_line_count + total_samples_done
          /\ data_bin_line_count + total_samples_done <= num_samples
          /\ num_samples <= MaxNumSamples
      BY <3>2, <3>4, QuotaAssumption
    <3>6. "append" \notin faults /\ misreads = 0 =>
            Len(data_bin) + 1 = data_bin_line_count + total_samples_done
      BY <3>2
    <3>7. sample_index < num_samples
          /\ data_bin_line_count + total_samples_done <= sample_index + 1
      BY <3>2
    <3> HIDE DEF SamplesOK
    <3> QED BY <3>1, <3>2, <3>3, <3>4, <3>5, <3>6, <3>7, QuotaAssumption
  <2>20. CASE SkipCheckpoint
    BY <2>20 DEF SkipCheckpoint
  <2>21. CASE TruncateCheckpoint
    BY <2>21 DEF TruncateCheckpoint
  <2>22. CASE PersistTrickleCheckpoint
    BY <2>22 DEF PersistTrickleCheckpoint
  <2>23. CASE ReportFraction
    BY <2>23 DEF ReportFraction
  <2>24. CASE WaitSampleInterval
    BY <2>24 DEF WaitSampleInterval, NextTurn
  <2>25. CASE FinishSend
    BY <2>25 DEF FinishSend, SendPending, SendTrickle
  <2>26. CASE FinishClose
    BY <2>26 DEF FinishClose, FinishJob
  <2>27. CASE Crash
    BY <2>27, QuotaAssumption DEF Crash
  <2>28. CASE UNCHANGED vars
    BY <2>28
  <2> QED
    BY <2>1, <2>2, <2>3, <2>4, <2>5, <2>6, <2>7, <2>8, <2>9, <2>10, <2>11, <2>12,
       <2>13, <2>14, <2>15, <2>16, <2>17, <2>18, <2>19, <2>20, <2>21, <2>22, <2>23, <2>24,
       <2>25, <2>26, <2>27, <2>28
    DEF Next, AppStep, StartUp, OpenCom, Iterate, WriteOut, Finish, Terminated
<1> QED
  BY <1>1, <1>2, TypeInvariant, PTL DEF Spec

-----------------------------------------------------------------------------
(* The fraction reported is that of the lines, and within the quota.       *)
LEMMA FractionInvariant == Spec => []FractionInv
<1> USE DEF BeforeLoop, Turn, AfterRead, MainLoop, Here
<1>1. Init => FractionInv
  BY DEF Init, FreshMemory, FractionInv
<1>2. TypeInv /\ TypeInv' /\ ProgressInv /\ ProgressInv' /\ FractionInv /\ [Next]_vars
      => FractionInv'
  <2> SUFFICES ASSUME TypeInv, TypeInv', ProgressInv, ProgressInv', FractionInv, [Next]_vars
               PROVE  FractionInv'
    OBVIOUS
  <2> USE DEF TypeInv, TypeOK, FlagsOK, CountersOK, ProgressInv, FractionInv
  <2>1. CASE Boot
    BY <2>1 DEF Boot
  <2>2. CASE BadConfig
    BY <2>2 DEF BadConfig, FinishJob
  <2>3. CASE ResumeFresh
    BY <2>3 DEF ResumeFresh
  <2>4. CASE TryAlmostDoneExit
    BY <2>4 DEF TryAlmostDoneExit, FinishJob
  <2>5. CASE ResumeDataBin
    BY <2>5 DEF ResumeDataBin, AlmostDone
  <2>6. CASE RestoreTrickleCheckpoint
    BY <2>6 DEF RestoreTrickleCheckpoint
  <2>7. CASE TryOneComOpen
    BY <2>7 DEF TryOneComOpen
  <2>8. CASE SleepRetryDelay
    BY <2>8 DEF SleepRetryDelay
  <2>9. CASE NoDetector
    BY <2>9 DEF NoDetector, FinishJob
  <2>10. CASE EnterMainLoop
    BY <2>10 DEF EnterMainLoop
  <2>11. CASE LoopTop
    BY <2>11 DEF LoopTop, QuotaReached
  <2>12. CASE QuitPolled
    BY <2>12 DEF QuitPolled, FinishJob
  <2>13. CASE TryComReopen
    BY <2>13 DEF TryComReopen
  <2>14. CASE ReadSample
    BY <2>14 DEF ReadSample, SamplesOfTheJob
  <2>15. CASE ReadFailed
    BY <2>15 DEF ReadFailed
  <2>16. CASE LostSensor
    BY <2>16 DEF LostSensor
  <2>17. CASE OpenDataBin
    BY <2>17 DEF OpenDataBin
  <2>18. CASE BufferOrSend
    BY <2>18 DEF BufferOrSend
  <2>19. CASE FlushLine
    BY <2>19 DEF FlushLine
  <2>20. CASE SkipCheckpoint
    BY <2>20 DEF SkipCheckpoint
  <2>21. CASE TruncateCheckpoint
    BY <2>21 DEF TruncateCheckpoint
  <2>22. CASE PersistTrickleCheckpoint
    BY <2>22 DEF PersistTrickleCheckpoint
  <2>23. CASE ReportFraction
    BY <2>23 DEF ReportFraction
  <2>24. CASE WaitSampleInterval
    BY <2>24 DEF WaitSampleInterval
  <2>25. CASE FinishSend
    BY <2>25 DEF FinishSend
  <2>26. CASE FinishClose
    BY <2>26 DEF FinishClose, FinishJob
  <2>27. CASE Crash
    BY <2>27 DEF Crash
  <2>28. CASE UNCHANGED vars
    BY <2>28
  <2> QED
    BY <2>1, <2>2, <2>3, <2>4, <2>5, <2>6, <2>7, <2>8, <2>9, <2>10, <2>11, <2>12,
       <2>13, <2>14, <2>15, <2>16, <2>17, <2>18, <2>19, <2>20, <2>21, <2>22, <2>23, <2>24,
       <2>25, <2>26, <2>27, <2>28
    DEF Next, AppStep, StartUp, OpenCom, Iterate, WriteOut, Finish, Terminated
<1> QED
  BY <1>1, <1>2, TypeInvariant, ProgressInvariant, PTL DEF Spec

-----------------------------------------------------------------------------
(* The port is open exactly while the handle says so.                      *)
LEMMA PortInvariant == Spec => []PortInv
<1>1. Init => PortInv
  BY DEF Init, FreshMemory, PortInv
<1>2. TypeInv /\ PortInv /\ [Next]_vars => PortInv'
  <2> SUFFICES ASSUME TypeInv, PortInv, [Next]_vars PROVE PortInv'
    OBVIOUS
  <2> USE DEF TypeInv, TypeOK, FlagsOK, CountersOK, PortInv
  <2>1. CASE Boot
    BY <2>1 DEF Boot
  <2>2. CASE BadConfig
    BY <2>2 DEF BadConfig, FinishJob
  <2>3. CASE ResumeFresh
    BY <2>3 DEF ResumeFresh
  <2>4. CASE TryAlmostDoneExit
    BY <2>4 DEF TryAlmostDoneExit, FinishJob
  <2>5. CASE ResumeDataBin
    BY <2>5 DEF ResumeDataBin
  <2>6. CASE RestoreTrickleCheckpoint
    BY <2>6 DEF RestoreTrickleCheckpoint
  <2>7. CASE TryOneComOpen
    <3>1. PICK r \in OpenResults : OpenAttempt(r) /\ pc' = IF r = "ready" THEN "enter" ELSE "delay"
      BY <2>7 DEF TryOneComOpen
    <3>2. pc = "open" /\ exit' = exit /\ open_ports = 0
      BY <2>7 DEF TryOneComOpen
    <3>3. CASE r = "ready"
      <4>1. com_handle' = TRUE /\ com_open_ok' = TRUE /\ open_ports' = 1
        <5>1. com_handle' /\ com_open_ok'
          BY <3>1, <3>3, Zenon DEF OpenAttempt
        <5>2. open_ports' = 1
          BY <3>1, <3>2, <3>3 DEF OpenAttempt, PortsAfterOpen
        <5> QED BY <5>1, <5>2
      <4> QED BY <3>1, <3>2, <3>3, <4>1
    <3>4. CASE r # "ready"
      <4>1. com_handle' = FALSE /\ com_open_ok' = FALSE /\ open_ports' = 0
        BY <3>1, <3>2, <3>4 DEF OpenAttempt, PortsAfterOpen
      <4> QED BY <3>1, <3>2, <3>4, <4>1
    <3> QED BY <3>3, <3>4
  <2>8. CASE SleepRetryDelay
    BY <2>8 DEF SleepRetryDelay
  <2>9. CASE NoDetector
    BY <2>9 DEF NoDetector, FinishJob
  <2>10. CASE EnterMainLoop
    BY <2>10 DEF EnterMainLoop
  <2>11. CASE LoopTop
    BY <2>11 DEF LoopTop
  <2>12. CASE QuitPolled
    BY <2>12 DEF QuitPolled, FinishJob
  <2>13. CASE TryComReopen
    <3>1. PICK r \in OpenResults : OpenAttempt(r) /\ pc' = IF r = "ready" THEN "read" ELSE "loop"
      BY <2>13 DEF TryComReopen
    <3>2. pc = "reopen" /\ exit' = exit /\ open_ports = 0
      BY <2>13 DEF TryComReopen
    <3>3. CASE r = "ready"
      <4>1. com_handle' = TRUE /\ com_open_ok' = TRUE /\ open_ports' = 1
        <5>1. com_handle' /\ com_open_ok'
          BY <3>1, <3>3, Zenon DEF OpenAttempt
        <5>2. open_ports' = 1
          BY <3>1, <3>2, <3>3 DEF OpenAttempt, PortsAfterOpen
        <5> QED BY <5>1, <5>2
      <4> QED BY <3>1, <3>2, <3>3, <4>1
    <3>4. CASE r # "ready"
      <4>1. com_handle' = FALSE /\ com_open_ok' = FALSE /\ open_ports' = 0
        BY <3>1, <3>2, <3>4 DEF OpenAttempt, PortsAfterOpen
      <4> QED BY <3>1, <3>2, <3>4, <4>1
    <3> QED BY <3>3, <3>4
  <2>14. CASE ReadSample
    BY <2>14 DEF ReadSample
  <2>15. CASE ReadFailed
    BY <2>15 DEF ReadFailed
  <2>16. CASE LostSensor
    <3>1. /\ pc = "lost" /\ pc' = "report" /\ exit' = exit
          /\ com_open_ok' = FALSE /\ com_handle' = FALSE /\ ClosePort
      BY <2>16 DEF LostSensor
    <3>2. com_handle /\ open_ports = 1
      BY <3>1
    <3>3. open_ports' = 0
      BY <3>1, <3>2 DEF ClosePort
    <3> QED BY <3>1, <3>3
  <2>17. CASE OpenDataBin
    BY <2>17 DEF OpenDataBin
  <2>18. CASE BufferOrSend
    BY <2>18 DEF BufferOrSend
  <2>19. CASE FlushLine
    BY <2>19 DEF FlushLine
  <2>20. CASE SkipCheckpoint
    BY <2>20 DEF SkipCheckpoint
  <2>21. CASE TruncateCheckpoint
    BY <2>21 DEF TruncateCheckpoint
  <2>22. CASE PersistTrickleCheckpoint
    BY <2>22 DEF PersistTrickleCheckpoint
  <2>23. CASE ReportFraction
    BY <2>23 DEF ReportFraction
  <2>24. CASE WaitSampleInterval
    BY <2>24 DEF WaitSampleInterval
  <2>25. CASE FinishSend
    BY <2>25 DEF FinishSend
  <2>26. CASE FinishClose
    BY <2>26 DEF FinishClose, FinishJob, ClosePort
  <2>27. CASE Crash
    BY <2>27 DEF Crash
  <2>28. CASE UNCHANGED vars
    BY <2>28
  <2> QED
    BY <2>1, <2>2, <2>3, <2>4, <2>5, <2>6, <2>7, <2>8, <2>9, <2>10, <2>11, <2>12,
       <2>13, <2>14, <2>15, <2>16, <2>17, <2>18, <2>19, <2>20, <2>21, <2>22, <2>23, <2>24,
       <2>25, <2>26, <2>27, <2>28
    DEF Next, AppStep, StartUp, OpenCom, Iterate, WriteOut, Finish, Terminated
<1> QED
  BY <1>1, <1>2, TypeInvariant, PTL DEF Spec

-----------------------------------------------------------------------------
(* After SendPending the buffer is empty or as it was.                     *)
LEMMA SendPendingBuffer ==
  ASSUME SendPending
  PROVE  \/ trickle_buf' = <<>> /\ trickle_pending' = 0 /\ trickle_msg_len' = 0
         \/ UNCHANGED <<trickle_buf, trickle_pending, trickle_msg_len>>
<1>1. CASE HasPending
  BY <1>1 DEF SendPending, ClearBuffer, KeepBuffer
<1>2. CASE ~HasPending
  BY <1>2 DEF SendPending, KeepBuffer
<1> QED BY <1>1, <1>2

(* The buffer stays within its array and its count stays right.            *)
LEMMA BufferInvariant == Spec => []BufferInv
<1> USE DEF BufferInv, BufferFits
<1>1. Init => BufferInv
  <2> SUFFICES ASSUME Init PROVE BufferInv
    OBVIOUS
  <2>1. Len(trickle_buf) = 0 /\ trickle_pending = 0
    BY DEF Init, FreshMemory
  <2>2. trickle_msg_len <= MaxTrickleContentBytes
    BY TrickleAssumption DEF Init, FreshMemory
  <2>3. ckpt.pending = Len(ckpt.ids)
    BY DEF Init, NoCkpt
  <2> QED BY <2>1, <2>2, <2>3
<1>2. TypeInv /\ BufferInv /\ [Next]_vars => BufferInv'
  <2> SUFFICES ASSUME TypeInv, BufferInv, [Next]_vars PROVE BufferInv'
    OBVIOUS
  <2> USE DEF TypeInv, TypeOK, CountersOK, SamplesOK
  <2>1. CASE Boot
    BY <2>1 DEF Boot
  <2>2. CASE BadConfig
    BY <2>2 DEF BadConfig
  <2>3. CASE ResumeFresh
    BY <2>3 DEF ResumeFresh
  <2>4. CASE TryAlmostDoneExit
    BY <2>4 DEF TryAlmostDoneExit
  <2>5. CASE ResumeDataBin
    BY <2>5 DEF ResumeDataBin
  <2>6. CASE RestoreTrickleCheckpoint
    <3>1. ckpt'.pending = Len(ckpt'.ids)
      BY <2>6 DEF RestoreTrickleCheckpoint, NoCkpt
    <3>2. CASE ckpt_state = "written"
      <4>1. trickle_pending' = Len(trickle_buf')
        BY <2>6, <3>2 DEF RestoreTrickleCheckpoint
      <4>2. trickle_msg_len' <= MaxTrickleContentBytes
        BY <2>6, <3>2, TrickleAssumption DEF RestoreTrickleCheckpoint, Clip
      <4> QED BY <3>1, <4>1, <4>2
    <3>3. CASE ckpt_state # "written"
      BY <2>6, <3>1, <3>3 DEF RestoreTrickleCheckpoint
    <3> QED BY <3>2, <3>3
  <2>7. CASE TryOneComOpen
    BY <2>7 DEF TryOneComOpen
  <2>8. CASE SleepRetryDelay
    BY <2>8 DEF SleepRetryDelay
  <2>9. CASE NoDetector
    BY <2>9 DEF NoDetector
  <2>10. CASE EnterMainLoop
    BY <2>10 DEF EnterMainLoop
  <2>11. CASE LoopTop
    BY <2>11 DEF LoopTop
  <2>12. CASE QuitPolled
    BY <2>12 DEF QuitPolled
  <2>13. CASE TryComReopen
    BY <2>13 DEF TryComReopen
  <2>14. CASE ReadSample
    BY <2>14 DEF ReadSample
  <2>15. CASE ReadFailed
    BY <2>15 DEF ReadFailed
  <2>16. CASE LostSensor
    <3>1. ckpt' = ckpt /\ SendPending
      BY <2>16 DEF LostSensor
    <3> QED BY <3>1, SendPendingBuffer, TrickleAssumption
  <2>17. CASE OpenDataBin
    BY <2>17 DEF OpenDataBin
  <2>18. CASE BufferOrSend
    <3>1. PICK xml \in XmlLens :
            \/ KeepAlone(xml)
            \/ AppendToBuffer(xml) /\ ~BufferFull(xml)
      BY <2>18 DEF BufferOrSend
    <3>2. ckpt' = ckpt
      BY <2>18 DEF BufferOrSend
    <3>3. CASE KeepAlone(xml)
      <4>1. trickle_msg_len' <= MaxTrickleContentBytes
        BY <3>3, ContentLimit, TrickleAssumption DEF KeepAlone, Clip
      <4>2. trickle_pending' = Len(trickle_buf')
        BY <3>3 DEF KeepAlone
      <4> QED BY <3>2, <4>1, <4>2
    <3>4. CASE AppendToBuffer(xml) /\ ~BufferFull(xml)
      <4>1. trickle_msg_len' <= MaxTrickleContentBytes
        BY <3>4, ContentLimit, TrickleAssumption DEF AppendToBuffer, BufferFull
      <4>2. trickle_pending' = Len(trickle_buf')
        BY <3>4 DEF AppendToBuffer
      <4> QED BY <3>2, <4>1, <4>2
    <3> QED BY <3>1, <3>3, <3>4
  <2>19. CASE FlushLine
    BY <2>19 DEF FlushLine
  <2>20. CASE SkipCheckpoint
    BY <2>20 DEF SkipCheckpoint
  <2>21. CASE TruncateCheckpoint
    <3>1. ckpt' = NoCkpt \/ ckpt' = ckpt
      BY <2>21 DEF TruncateCheckpoint
    <3>2. ckpt'.pending = Len(ckpt'.ids)
      BY <3>1 DEF NoCkpt
    <3> QED BY <2>21, <3>2 DEF TruncateCheckpoint
  <2>22. CASE PersistTrickleCheckpoint
    BY <2>22 DEF PersistTrickleCheckpoint
  <2>23. CASE ReportFraction
    BY <2>23 DEF ReportFraction
  <2>24. CASE WaitSampleInterval
    BY <2>24 DEF WaitSampleInterval
  <2>25. CASE FinishSend
    <3>1. ckpt' = ckpt /\ SendPending
      BY <2>25 DEF FinishSend
    <3> QED BY <3>1, SendPendingBuffer, TrickleAssumption
  <2>26. CASE FinishClose
    BY <2>26 DEF FinishClose
  <2>27. CASE Crash
    <3>1. trickle_pending' = 0 /\ Len(trickle_buf') = 0 /\ trickle_msg_len' = 0
      BY <2>27 DEF Crash, ClearBuffer
    <3>2. ckpt' = ckpt
      BY <2>27 DEF Crash
    <3> QED BY <3>1, <3>2, TrickleAssumption
  <2>28. CASE UNCHANGED vars
    BY <2>28
  <2> QED
    BY <2>1, <2>2, <2>3, <2>4, <2>5, <2>6, <2>7, <2>8, <2>9, <2>10, <2>11, <2>12,
       <2>13, <2>14, <2>15, <2>16, <2>17, <2>18, <2>19, <2>20, <2>21, <2>22, <2>23, <2>24,
       <2>25, <2>26, <2>27, <2>28
    DEF Next, AppStep, StartUp, OpenCom, Iterate, WriteOut, Finish, Terminated
<1> QED
  BY <1>1, <1>2, TypeInvariant, PTL DEF Spec

-----------------------------------------------------------------------------
(* Appending adds one element to the range.                                *)
LEMMA RangeAppend ==
  ASSUME NEW S, NEW s \in Seq(S), NEW e \in S
  PROVE  Range(Append(s, e)) = Range(s) \cup {e}
<1>1. \A i \in 1..Len(s) : Append(s, e)[i] = s[i]
  OBVIOUS
<1>2. Append(s, e)[Len(s) + 1] = e /\ DOMAIN Append(s, e) = 1..(Len(s) + 1)
  OBVIOUS
<1>3. DOMAIN s = 1..Len(s)
  OBVIOUS
<1>4. Len(s) \in Nat
  OBVIOUS
<1>5. ASSUME NEW x \in Range(Append(s, e)) PROVE x \in Range(s) \cup {e}
  BY <1>1, <1>2, <1>3, <1>4 DEF Range
<1>6. ASSUME NEW x \in Range(s) \cup {e} PROVE x \in Range(Append(s, e))
  BY <1>1, <1>2, <1>3, <1>4 DEF Range
<1> QED BY <1>5, <1>6

(* What the client has accepted does not change without a new trickle.     *)
LEMMA UploadedSame == ASSUME UNCHANGED trickles PROVE Uploaded' = Uploaded
  BY DEF Uploaded

(* A send uploads at most what is in the buffer.                           *)
LEMMA UploadedAfterSend ==
  ASSUME SamplesOK, NEW accepted \in BOOLEAN, SendTrickle(accepted)
  PROVE  Uploaded' \subseteq Uploaded \cup Range(trickle_buf)
<1>1. CASE accepted
  <2>1. trickles' = Append(trickles, trickle_buf)
    BY <1>1 DEF SendTrickle, Payload
  <2>2. \A i \in DOMAIN trickles' :
           trickles'[i] = trickle_buf \/ (i \in DOMAIN trickles /\ trickles'[i] = trickles[i])
    BY <2>1 DEF SamplesOK
  <2> QED BY <2>2 DEF Uploaded
<1>2. CASE ~accepted
  BY <1>2, UploadedSame DEF SendTrickle
<1> QED BY <1>1, <1>2

(* What SendPending uploads is in the buffer.                              *)
LEMMA SendPendingUpload ==
  ASSUME SamplesOK, SendPending
  PROVE  Uploaded' \subseteq Uploaded \cup Range(trickle_buf)
<1>1. CASE HasPending
  BY <1>1, UploadedAfterSend DEF SendPending
<1>2. CASE ~HasPending
  BY <1>2, UploadedSame DEF SendPending
<1> QED BY <1>1, <1>2

(* Nothing is in an empty buffer.                                          *)
LEMMA EmptyRange == Range(<<>>) = {}
  BY DEF Range

(* A sample is buffered, checkpointed or uploaded only with its line in    *)
(* data.bin: the line is flushed at the end of the function that buffers   *)
(* the sample, and what is sent there is the buffer without it.            *)
LEMMA RecordInvariant == Spec => []RecordInv
<1> USE DEF RecordInv
<1>1. Init => RecordInv
  <2> SUFFICES ASSUME Init PROVE RecordInv
    OBVIOUS
  <2>1. Range(trickle_buf) = {}
    BY EmptyRange DEF Init, FreshMemory
  <2>2. Range(ckpt.ids) = {}
    BY EmptyRange DEF Init, NoCkpt
  <2>3. Uploaded = {}
    BY DEF Init, Uploaded
  <2> QED BY <2>1, <2>2, <2>3
<1>2. TypeInv /\ RecordInv /\ [Next]_vars => RecordInv'
  <2> SUFFICES ASSUME TypeInv, RecordInv, [Next]_vars PROVE RecordInv'
    OBVIOUS
  <2> USE DEF TypeInv, TypeOK, CountersOK
  <2>1. CASE Boot
    BY <2>1, UploadedSame DEF Boot
  <2>2. CASE BadConfig
    BY <2>2, UploadedSame DEF BadConfig, FinishJob
  <2>3. CASE ResumeFresh
    BY <2>3, UploadedSame DEF ResumeFresh
  <2>4. CASE TryAlmostDoneExit
    BY <2>4, UploadedSame DEF TryAlmostDoneExit, FinishJob
  <2>5. CASE ResumeDataBin
    BY <2>5, UploadedSame DEF ResumeDataBin
  <2>6. CASE RestoreTrickleCheckpoint
    <3>1. pc' # "flush" /\ UNCHANGED <<data_bin, trickles>> /\ pc # "flush"
      BY <2>6 DEF RestoreTrickleCheckpoint
    <3>2. Range(ckpt'.ids) = {}
      BY <2>6, EmptyRange DEF RestoreTrickleCheckpoint, NoCkpt
    <3>3. trickle_buf' = ckpt.ids \/ trickle_buf' = trickle_buf
      BY <2>6 DEF RestoreTrickleCheckpoint
    <3> QED BY <3>1, <3>2, <3>3, UploadedSame
  <2>7. CASE TryOneComOpen
    BY <2>7, UploadedSame DEF TryOneComOpen
  <2>8. CASE SleepRetryDelay
    BY <2>8, UploadedSame DEF SleepRetryDelay
  <2>9. CASE NoDetector
    BY <2>9, UploadedSame DEF NoDetector, FinishJob
  <2>10. CASE EnterMainLoop
    BY <2>10, UploadedSame DEF EnterMainLoop
  <2>11. CASE LoopTop
    BY <2>11, UploadedSame DEF LoopTop
  <2>12. CASE QuitPolled
    BY <2>12, UploadedSame DEF QuitPolled, FinishJob
  <2>13. CASE TryComReopen
    BY <2>13, UploadedSame DEF TryComReopen
  <2>14. CASE ReadSample
    BY <2>14, UploadedSame DEF ReadSample
  <2>15. CASE ReadFailed
    BY <2>15, UploadedSame DEF ReadFailed
  <2>16. CASE LostSensor
    <3>1. SendPending /\ UNCHANGED <<data_bin, ckpt>> /\ pc # "flush" /\ pc' # "flush"
      BY <2>16 DEF LostSensor
    <3>2. Uploaded' \subseteq Uploaded \cup Range(trickle_buf)
      BY <3>1, SendPendingUpload
    <3>3. Range(trickle_buf') \subseteq Range(trickle_buf)
      BY <3>1, SendPendingBuffer, EmptyRange
    <3> QED BY <3>1, <3>2, <3>3
  <2>17. CASE OpenDataBin
    BY <2>17, UploadedSame DEF OpenDataBin
  <2>18. CASE BufferOrSend
    <3>1. /\ pc = "trickle" /\ pc' = "flush"
          /\ UNCHANGED <<data_bin, ckpt, taken>>
      BY <2>18 DEF BufferOrSend
    <3>2. Range(trickle_buf') \subseteq Range(trickle_buf) \cup {taken}
      <4>1. PICK xml \in XmlLens : KeepAlone(xml) \/ AppendToBuffer(xml)
        BY <2>18 DEF BufferOrSend
      <4>2. CASE KeepAlone(xml)
        BY <4>2 DEF KeepAlone, Range
      <4>3. CASE AppendToBuffer(xml)
        <5>1. trickle_buf \in Seq(Nat) /\ taken \in Nat
          BY DEF SamplesOK
        <5>2. Range(Append(trickle_buf, taken)) = Range(trickle_buf) \cup {taken}
          BY <5>1, RangeAppend
        <5> QED BY <4>3, <5>2 DEF AppendToBuffer
      <4> QED BY <4>1, <4>2, <4>3
    <3>3. Uploaded' \subseteq Uploaded \cup Range(trickle_buf)
      BY <2>18, UploadedAfterSend, UploadedSame DEF BufferOrSend
    <3> QED BY <3>1, <3>2, <3>3
  <2>19. CASE FlushLine
    <3>1. Range(data_bin') = Range(data_bin) \cup {taken}
      <4>1. data_bin \in Seq(Nat) /\ taken \in Nat
        BY DEF SamplesOK
      <4>2. Range(Append(data_bin, taken)) = Range(data_bin) \cup {taken}
        BY <4>1, RangeAppend
      <4> QED BY <2>19, <4>2 DEF FlushLine
    <3>2. pc = "flush" /\ pc' = "ckpt" /\ UNCHANGED <<trickle_buf, ckpt, trickles>>
      BY <2>19 DEF FlushLine
    <3> QED BY <3>1, <3>2, UploadedSame
  <2>20. CASE SkipCheckpoint
    BY <2>20, UploadedSame DEF SkipCheckpoint
  <2>21. CASE TruncateCheckpoint
    <3>1. pc = "ckpt" /\ pc' # "flush" /\ UNCHANGED <<trickle_buf, data_bin, trickles>>
      BY <2>21 DEF TruncateCheckpoint
    <3>2. ckpt' = NoCkpt \/ ckpt' = ckpt
      BY <2>21 DEF TruncateCheckpoint
    <3>3. Range(ckpt'.ids) \subseteq Range(ckpt.ids)
      BY <3>2, EmptyRange DEF NoCkpt
    <3> QED BY <3>1, <3>3, UploadedSame
  <2>22. CASE PersistTrickleCheckpoint
    <3>1. pc = "persist" /\ pc' # "flush" /\ UNCHANGED <<trickle_buf, data_bin, trickles>>
      BY <2>22 DEF PersistTrickleCheckpoint
    <3>2. ckpt'.ids = trickle_buf
      BY <2>22 DEF PersistTrickleCheckpoint
    <3> QED BY <3>1, <3>2, UploadedSame
  <2>23. CASE ReportFraction
    BY <2>23, UploadedSame DEF ReportFraction
  <2>24. CASE WaitSampleInterval
    BY <2>24, UploadedSame DEF WaitSampleInterval
  <2>25. CASE FinishSend
    <3>1. SendPending /\ UNCHANGED <<data_bin, ckpt>> /\ pc # "flush" /\ pc' # "flush"
      BY <2>25 DEF FinishSend
    <3>2. Uploaded' \subseteq Uploaded \cup Range(trickle_buf)
      BY <3>1, SendPendingUpload
    <3>3. Range(trickle_buf') \subseteq Range(trickle_buf)
      BY <3>1, SendPendingBuffer, EmptyRange
    <3> QED BY <3>1, <3>2, <3>3
  <2>26. CASE FinishClose
    BY <2>26, UploadedSame DEF FinishClose, FinishJob
  <2>27. CASE Crash
    <3>1. pc' = "boot" /\ UNCHANGED <<data_bin, ckpt, trickles>>
      BY <2>27 DEF Crash
    <3>2. Range(trickle_buf') = {}
      BY <2>27, EmptyRange DEF Crash, ClearBuffer
    <3> QED BY <3>1, <3>2, UploadedSame
  <2>28. CASE UNCHANGED vars
    BY <2>28, UploadedSame
  <2> QED
    BY <2>1, <2>2, <2>3, <2>4, <2>5, <2>6, <2>7, <2>8, <2>9, <2>10, <2>11, <2>12,
       <2>13, <2>14, <2>15, <2>16, <2>17, <2>18, <2>19, <2>20, <2>21, <2>22, <2>23, <2>24,
       <2>25, <2>26, <2>27, <2>28
    DEF Next, AppStep, StartUp, OpenCom, Iterate, WriteOut, Finish, Terminated
<1> QED
  BY <1>1, <1>2, TypeInvariant, PTL DEF Spec

-----------------------------------------------------------------------------
(* No sample has been missed before a port was opened, and none beyond the *)
(* threshold while a port is read (handle_read_error_and_lost_sensor).     *)
MissedInv ==
    /\ pc \in {"boot", "resume", "restore", "open", "delay"} => read_error_count = 0
    /\ com_open_ok /\ pc # "lost" => read_error_count <= ReadErrorThreshold
    /\ pc = "lost" => read_error_count = ReadErrorThreshold + 1

(* Every step of a turn keeps the count of missed samples; only a reading  *)
(* and a reopened port forget it.                                          *)
LEMMA MissedInvariant == Spec => []MissedInv
<1> USE RetryAssumption
<1>1. Init => MissedInv
  BY DEF Init, FreshMemory, MissedInv
<1>2. TypeInv /\ PortInv /\ MissedInv /\ [Next]_vars => MissedInv'
  <2> SUFFICES ASSUME TypeInv, PortInv, MissedInv, [Next]_vars PROVE MissedInv'
    OBVIOUS
  <2> USE DEF MissedInv
  <2>1. CASE TryOneComOpen
    BY <2>1 DEF TryOneComOpen, OpenAttempt
  <2>2. CASE TryComReopen
    <3>1. /\ pc' \in {"read", "loop"}
          /\ com_open_ok' => read_error_count' = 0
      BY <2>2 DEF TryComReopen, OpenAttempt
    <3> QED  BY <3>1
  <2>3. CASE ReadSample
    BY <2>3 DEF ReadSample
  <2>4. CASE ReadFailed
    <3>1. read_error_count \in Nat /\ read_error_count <= ReadErrorThreshold
      BY <2>4 DEF ReadFailed, PortInv, TypeInv, TypeOK, CountersOK
    <3> QED  BY <2>4, <3>1 DEF ReadFailed, StillPatient
  <2>5. CASE LostSensor
    BY <2>5 DEF LostSensor
  <2>6. CASE Crash
    BY <2>6 DEF Crash
  <2>7. CASE UNCHANGED <<read_error_count, com_open_ok>> /\ pc # "lost" /\ pc' # "lost"
             /\ (pc' \in {"boot", "resume", "restore", "open", "delay"} =>
                    pc \in {"boot", "resume", "restore", "open", "delay"})
    BY <2>7
  <2>8. CASE Boot \/ BadConfig \/ ResumeFresh \/ TryAlmostDoneExit \/ ResumeDataBin
             \/ RestoreTrickleCheckpoint \/ SleepRetryDelay \/ NoDetector
    BY <2>7, <2>8 DEF Boot, BadConfig, ResumeFresh, TryAlmostDoneExit, ResumeDataBin,
       RestoreTrickleCheckpoint, SleepRetryDelay, NoDetector, FinishJob
  <2>9. CASE EnterMainLoop \/ LoopTop \/ QuitPolled \/ ReportFraction \/ WaitSampleInterval
             \/ FinishSend \/ FinishClose
    BY <2>7, <2>9 DEF EnterMainLoop, LoopTop, QuitPolled, ReportFraction,
       WaitSampleInterval, FinishSend, FinishClose, FinishJob
  <2>10. CASE OpenDataBin \/ BufferOrSend \/ FlushLine \/ SkipCheckpoint
              \/ TruncateCheckpoint \/ PersistTrickleCheckpoint
    BY <2>7, <2>10 DEF OpenDataBin, BufferOrSend, FlushLine, SkipCheckpoint,
       TruncateCheckpoint, PersistTrickleCheckpoint
  <2>11. CASE UNCHANGED vars
    BY <2>11
  <2> QED
    BY <2>1, <2>2, <2>3, <2>4, <2>5, <2>6, <2>8, <2>9, <2>10, <2>11
    DEF Next, AppStep, StartUp, OpenCom, Iterate, WriteOut, Finish, Terminated
<1> QED
  BY <1>1, <1>2, TypeInvariant, PortInvariant, PTL DEF Spec

-----------------------------------------------------------------------------
(* The theorems.                                                           *)

(* The inductive invariant holds of every work unit.                       *)
THEOREM InvariantHolds == Spec => []IInv
<1>1. TypeInv /\ ProgressInv /\ FractionInv /\ PortInv /\ BufferInv /\ RecordInv => IInv
  BY DEF IInv, TypeInv
<1> QED
  BY <1>1, TypeInvariant, ProgressInvariant, FractionInvariant, PortInvariant,
     BufferInvariant, RecordInvariant, PTL

(* data.bin never outgrows the quota, whatever quota each restart is given *)
(* (run_main_loop starts counting at the lines it found), and outgrows it  *)
(* by one quota at most for each start that could not open the file        *)
(* (load_data_bin_line_count).                                             *)
THEOREM QuotaRespected == Spec => []LinesWithinQuota
<1>1. IInv => LinesWithinQuota
  <2> SUFFICES ASSUME IInv PROVE LinesWithinQuota
    OBVIOUS
  <2>1. Uncounted \in Nat
    BY UncountedStep DEF IInv, TypeOK, CountersOK
  <2> QED
    BY <2>1, QuotaAssumption
    DEF IInv, TypeOK, FlagsOK, CountersOK, SamplesOK, ProgressInv, LinesWithinQuota, InJob,
        BeforeLoop, Turn, AfterRead, MainLoop, Here
<1> QED
  BY <1>1, InvariantHolds, PTL

(* boinc_fraction_done is never told more than 1.0 by run_main_loop.       *)
THEOREM FractionRespected == Spec => []FractionWithinOne
<1>1. IInv => FractionWithinOne
  BY DEF IInv, FractionInv, FractionWithinOne
<1> QED
  BY <1>1, InvariantHolds, PTL

(* The fraction computed after a sample counts the lines of the file.      *)
THEOREM ProgressIsDisk == Spec => []ProgressMatchesDisk
<1>1. IInv => ProgressMatchesDisk
  BY DEF IInv, TypeOK, CountersOK, SamplesOK, FractionInv, ProgressInv, ProgressMatchesDisk,
         MainLoop, Turn, Here
<1> QED
  BY <1>1, InvariantHolds, PTL

(* One port is open exactly while com_handle is not null: none leaks, none *)
(* is closed twice, on every open, lost-sensor and reopen path.            *)
THEOREM PortOwnership == Spec => []PortOwned
<1>1. IInv => PortOwned
  BY DEF IInv, PortInv, PortOwned
<1> QED
  BY <1>1, InvariantHolds, PTL

(* trickle_msg_buf never overflows, for every length a sample may have and *)
(* every buffer another process may have left in the checkpoint.           *)
THEOREM BufferNeverOverflows == Spec => []BufferFits
<1>1. IInv => BufferFits
  BY DEF IInv, BufferInv
<1> QED
  BY <1>1, InvariantHolds, PTL

(* Every sample the server has been sent is on a line of data.bin, through *)
(* any number of crashes.                                                  *)
THEOREM UploadsAreRecorded == Spec => []UploadedIsRecorded
<1>1. IInv => UploadedIsRecorded
  BY DEF IInv, RecordInv, UploadedIsRecorded
<1> QED
  BY <1>1, InvariantHolds, PTL

(* The main loop keeps to the rules of DetectorUse, for every threshold,   *)
(* quota and number of crashes: the port is given up at the first sample   *)
(* beyond the threshold and nowhere else, and each opening counts anew.    *)
THEOREM DetectorFollowed == Spec => ImplementsDetector
<1> USE RetryAssumption DEF Link
<1>1. Init => Detector!Init
  BY DEF Init, FreshMemory, Detector!Init
<1>2. TypeInv /\ PortInv /\ MissedInv /\ [Next]_vars => [Detector!Next]_(Detector!vars)
  <2> SUFFICES ASSUME TypeInv, PortInv, MissedInv, [Next]_vars
               PROVE  Detector!Next \/ UNCHANGED <<Link, read_error_count>>
    BY DEF Detector!vars
  <2>1. CASE TryOneComOpen
    <3>1. pc = "open" /\ ~com_open_ok /\ read_error_count = 0 /\ UNCHANGED read_error_count
          /\ pc' # "lost"
      BY <2>1 DEF TryOneComOpen, PortInv, MissedInv
    <3> QED  BY <3>1 DEF Detector!Next, Detector!Open
  <2>2. CASE TryComReopen
    <3>1. pc = "reopen" /\ ~com_open_ok /\ pc' # "lost"
          /\ (com_open_ok' => read_error_count' = 0)
          /\ (~com_open_ok' => UNCHANGED read_error_count)
      BY <2>2 DEF TryComReopen, OpenAttempt, PortInv
    <3> QED  BY <3>1 DEF Detector!Next, Detector!Open
  <2>3. CASE ReadSample
    BY <2>3 DEF ReadSample, PortInv, Detector!Next, Detector!Sample
  <2>4. CASE ReadFailed
    <3>1. read_error_count \in Nat /\ read_error_count <= ReadErrorThreshold
          /\ com_open_ok /\ pc = "read" /\ UNCHANGED com_open_ok
      BY <2>4 DEF ReadFailed, PortInv, MissedInv, TypeInv, TypeOK, CountersOK
    <3>2. CASE read_error_count = ReadErrorThreshold
      BY <2>4, <3>1, <3>2 DEF ReadFailed, StillPatient, Detector!Next, Detector!Lose
    <3>3. CASE read_error_count # ReadErrorThreshold
      BY <2>4, <3>1, <3>3 DEF ReadFailed, StillPatient, Detector!Next, Detector!Miss
    <3> QED  BY <3>2, <3>3
  <2>5. CASE LostSensor
    BY <2>5 DEF LostSensor, Detector!Next, Detector!Close
  <2>6. CASE Crash
    BY <2>6 DEF Crash, Detector!Next, Detector!Restart
  <2>7. CASE UNCHANGED <<read_error_count, com_open_ok>> /\ pc # "lost" /\ pc' # "lost"
    BY <2>7
  <2>8. CASE Boot \/ BadConfig \/ ResumeFresh \/ TryAlmostDoneExit \/ ResumeDataBin
             \/ RestoreTrickleCheckpoint \/ SleepRetryDelay \/ NoDetector
    BY <2>7, <2>8 DEF Boot, BadConfig, ResumeFresh, TryAlmostDoneExit, ResumeDataBin,
       RestoreTrickleCheckpoint, SleepRetryDelay, NoDetector, FinishJob
  <2>9. CASE EnterMainLoop \/ LoopTop \/ QuitPolled \/ ReportFraction \/ WaitSampleInterval
             \/ FinishSend \/ FinishClose
    BY <2>7, <2>9 DEF EnterMainLoop, LoopTop, QuitPolled, ReportFraction,
       WaitSampleInterval, FinishSend, FinishClose, FinishJob
  <2>10. CASE OpenDataBin \/ BufferOrSend \/ FlushLine \/ SkipCheckpoint
              \/ TruncateCheckpoint \/ PersistTrickleCheckpoint
    BY <2>7, <2>10 DEF OpenDataBin, BufferOrSend, FlushLine, SkipCheckpoint,
       TruncateCheckpoint, PersistTrickleCheckpoint
  <2>11. CASE UNCHANGED vars
    BY <2>11
  <2> QED
    BY <2>1, <2>2, <2>3, <2>4, <2>5, <2>6, <2>8, <2>9, <2>10, <2>11
    DEF Next, AppStep, StartUp, OpenCom, Iterate, WriteOut, Finish, Terminated
<1> QED
  BY <1>1, <1>2, TypeInvariant, PortInvariant, MissedInvariant, PTL
  DEF Spec, ImplementsDetector, Detector!Spec
-----------------------------------------------------------------------------
(* The trickle buffer, as the clock uses it.                               *)

(* A process starts with an empty buffer and without a trickle, the        *)
(* checkpoint is being written by one that has sent none, and nothing      *)
(* buffered or checkpointed has no length.                                 *)
UseInv ==
    /\ pc \in {"boot", "resume", "restore"} => trickle_pending = 0 /\ ~trickle_sent
    /\ pc = "persist" => ~trickle_sent
    /\ trickle_pending = 0 => trickle_msg_len = 0
    /\ ckpt.pending = 0 => ckpt.len = 0

LEMMA UseInvariant == Spec => []UseInv
<1>1. Init => UseInv
  BY DEF Init, FreshMemory, NoCkpt, UseInv
<1>2. TypeInv /\ UseInv /\ [Next]_vars => UseInv'
  <2> SUFFICES ASSUME TypeInv, UseInv, [Next]_vars PROVE UseInv'
    OBVIOUS
  <2> DEFINE Starting == {"boot", "resume", "restore"}
  <2>A. ASSUME UNCHANGED <<trickle_pending, trickle_msg_len, trickle_sent, ckpt>>,
               pc' \in Starting => pc \in Starting,
               pc' = "persist" => pc = "persist"
        PROVE  UseInv'
    BY <2>A DEF UseInv
  <2>1. CASE Boot \/ BadConfig \/ ResumeFresh \/ TryAlmostDoneExit \/ ResumeDataBin
             \/ TryOneComOpen \/ SleepRetryDelay \/ NoDetector
    BY <2>1, <2>A DEF Boot, BadConfig, ResumeFresh, TryAlmostDoneExit, ResumeDataBin,
       TryOneComOpen, SleepRetryDelay, NoDetector, FinishJob
  <2>2. CASE EnterMainLoop \/ LoopTop \/ QuitPolled \/ TryComReopen \/ ReadSample
             \/ ReadFailed \/ ReportFraction \/ WaitSampleInterval \/ FinishClose
    BY <2>2, <2>A DEF EnterMainLoop, LoopTop, QuitPolled, TryComReopen, ReadSample,
       ReadFailed, ReportFraction, WaitSampleInterval, FinishClose, FinishJob
  <2>3. CASE OpenDataBin \/ FlushLine \/ SkipCheckpoint \/ UNCHANGED vars
    BY <2>3, <2>A DEF OpenDataBin, FlushLine, SkipCheckpoint
  <2>4. CASE LostSensor \/ FinishSend
    <3>1. SendPending /\ pc' \in {"report", "close"} /\ UNCHANGED ckpt
      BY <2>4 DEF LostSensor, FinishSend
    <3>2. UNCHANGED bufVars \/ (trickle_pending' = 0 /\ trickle_msg_len' = 0)
      BY <3>1 DEF SendPending, KeepBuffer, ClearBuffer
    <3> QED  BY <3>1, <3>2 DEF UseInv
  <2>5. CASE BufferOrSend
    <3>1. pc' = "flush" /\ UNCHANGED ckpt /\ trickle_pending \in Nat
      BY <2>5 DEF BufferOrSend, TypeInv, TypeOK, CountersOK
    <3>2. trickle_pending' \in {1, trickle_pending + 1}
      BY <2>5 DEF BufferOrSend, KeepAlone, AppendToBuffer
    <3> QED  BY <3>1, <3>2 DEF UseInv
  <2>6. CASE RestoreTrickleCheckpoint
    <3>1. pc' = "open" /\ ckpt'.pending = 0 /\ ckpt'.len = 0 /\ pc = "restore"
      BY <2>6 DEF RestoreTrickleCheckpoint, NoCkpt
    <3>2. CASE ckpt_state = "written"
      <4>1. trickle_pending' = ckpt.pending
            /\ trickle_msg_len' = Clip(ckpt.len, MaxTrickleContentBytes)
        BY <2>6, <3>2 DEF RestoreTrickleCheckpoint
      <4>2. Clip(0, MaxTrickleContentBytes) = 0
        BY TrickleAssumption DEF Clip
      <4> QED  BY <3>1, <4>1, <4>2 DEF UseInv
    <3>3. CASE ckpt_state # "written"
      BY <2>6, <3>1, <3>3 DEF RestoreTrickleCheckpoint, UseInv
    <3> QED  BY <3>2, <3>3
  <2>7. CASE TruncateCheckpoint
    BY <2>7 DEF TruncateCheckpoint, NoCkpt, UseInv
  <2>8. CASE PersistTrickleCheckpoint
    BY <2>8 DEF PersistTrickleCheckpoint, UseInv
  <2>9. CASE Crash
    BY <2>9 DEF Crash, ClearBuffer, UseInv
  <2> QED
    BY <2>1, <2>2, <2>3, <2>4, <2>5, <2>6, <2>7, <2>8, <2>9
    DEF Next, AppStep, StartUp, OpenCom, Iterate, WriteOut, Finish, Terminated
<1> QED  BY <1>1, <1>2, TypeInvariant, PTL DEF Spec

(* A trickle that the client accepts is one more.                          *)
LEMMA AcceptedCounted ==
  ASSUME TypeInv, NEW accepted \in BOOLEAN, SendTrickle(accepted)
  PROVE  Len(trickles') = IF accepted THEN Len(trickles) + 1 ELSE Len(trickles)
  BY DEF TypeInv, TypeOK, SamplesOK, SendTrickle, Payload

(* The count a restore would bring back.                                   *)
Stored == IF ckpt_state = "written" THEN ckpt.pending ELSE -1

(* Whatever the clock says, the buffer loses samples only with a trickle,  *)
(* accepted or, on the write path, refused; the checkpoint is written by a *)
(* process that has sent nothing on that path and restored once            *)
(* (write_data_bin_and_trickle, send_pending_trickle).                     *)
THEOREM BufferFollowed == Spec => ImplementsTrickleUse
<1> USE DEF Stored
<1>1. Init => Buffer!Init
  BY DEF Init, FreshMemory, Buffer!Init, Buffer!Nothing
<1>2. TypeInv /\ UseInv /\ [Next]_vars => [Buffer!Next]_(Buffer!vars)
  <2> SUFFICES ASSUME TypeInv, UseInv, [Next]_vars
               PROVE  \/ Buffer!Next
                      \/ UNCHANGED <<trickle_pending, trickle_sent, Stored, Len(trickles)>>
    BY DEF Buffer!vars
  <2>1. CASE RestoreTrickleCheckpoint
    <3>1. pc = "restore" /\ trickle_pending = 0 /\ ~trickle_sent /\ ckpt_state' = "absent"
          /\ UNCHANGED <<trickle_sent, trickles>>
      BY <2>1 DEF RestoreTrickleCheckpoint, UseInv
    <3>2. CASE ckpt_state = "written"
      <4>1. trickle_pending' = ckpt.pending /\ ckpt.pending \in Nat
        BY <2>1, <3>2 DEF RestoreTrickleCheckpoint, TypeInv, TypeOK, SamplesOK
      <4> QED  BY <3>1, <3>2, <4>1 DEF Buffer!Next, Buffer!Restore, Buffer!Nothing
    <3>3. CASE ckpt_state # "written"
      BY <2>1, <3>1, <3>3 DEF RestoreTrickleCheckpoint
    <3> QED  BY <3>2, <3>3
  <2>2. CASE LostSensor \/ FinishSend
    <3>1. SendPending /\ UNCHANGED <<trickle_sent, ckpt_state, ckpt>>
      BY <2>2 DEF LostSensor, FinishSend
    <3>2. CASE HasPending
      <4>1. PICK accepted \in BOOLEAN :
              SendTrickle(accepted) /\ IF accepted THEN ClearBuffer ELSE KeepBuffer
        BY <3>1, <3>2 DEF SendPending
      <4>2. CASE accepted
        BY <3>1, <3>2, <4>1, <4>2, AcceptedCounted
        DEF ClearBuffer, HasPending, Buffer!Next, Buffer!SendAll
      <4>3. CASE ~accepted
        BY <3>1, <4>1, <4>3, AcceptedCounted DEF KeepBuffer
      <4> QED  BY <4>2, <4>3
    <3>3. CASE ~HasPending
      BY <3>1, <3>3 DEF SendPending, KeepBuffer
    <3> QED  BY <3>2, <3>3
  <2>3. CASE BufferOrSend
    <3>1. trickle_pending \in Nat /\ trickle_msg_len \in Nat
          /\ (trickle_msg_len > 0 => trickle_pending > 0)
          /\ UNCHANGED <<ckpt_state, ckpt>>
      BY <2>3 DEF BufferOrSend, TypeInv, TypeOK, CountersOK, UseInv
    <3>2. PICK xml \in XmlLens, elapsed \in BOOLEAN :
            IF IntervalOk(elapsed) \/ BufferFull(xml)
               THEN /\ IF SomethingToSend
                          THEN \E accepted \in BOOLEAN :
                                  /\ SendTrickle(accepted)
                                  /\ trickle_sent' = (trickle_sent \/ accepted)
                          ELSE UNCHANGED <<trickles, trickle_sent, faults>>
                    /\ KeepAlone(xml)
               ELSE /\ AppendToBuffer(xml)
                    /\ UNCHANGED <<trickles, trickle_sent, faults>>
      BY <2>3 DEF BufferOrSend
    <3>3. CASE AppendToBuffer(xml) /\ UNCHANGED <<trickles, trickle_sent>>
      BY <3>1, <3>3 DEF AppendToBuffer, Buffer!Next, Buffer!Hold
    <3>4. CASE KeepAlone(xml) /\ UNCHANGED <<trickles, trickle_sent>>
      BY <3>1, <3>4 DEF KeepAlone, Buffer!Next, Buffer!SendOld
    <3>5. CASE /\ KeepAlone(xml) /\ SomethingToSend
               /\ \E accepted \in BOOLEAN :
                     SendTrickle(accepted) /\ trickle_sent' = (trickle_sent \/ accepted)
      <4>1. PICK accepted \in BOOLEAN :
              SendTrickle(accepted) /\ trickle_sent' = (trickle_sent \/ accepted)
        BY <3>5
      <4>2. trickle_pending' = 1 /\ trickle_pending > 0
        BY <3>1, <3>5 DEF KeepAlone, SomethingToSend
      <4>3. CASE accepted
        <5>1. trickle_sent' = TRUE /\ Len(trickles') = Len(trickles) + 1
          BY <4>1, <4>3, AcceptedCounted
        <5> QED  BY <3>1, <4>2, <5>1 DEF Buffer!Next, Buffer!SendOld
      <4>4. CASE ~accepted
        <5>1. UNCHANGED <<trickles, trickle_sent>>
          BY <4>1, <4>4 DEF SendTrickle, TypeInv, TypeOK, FlagsOK
        <5> QED  BY <3>1, <4>2, <5>1 DEF Buffer!Next, Buffer!SendOld
      <4> QED  BY <4>3, <4>4
    <3> QED  BY <3>2, <3>3, <3>4, <3>5
  <2>4. CASE TruncateCheckpoint
    BY <2>4 DEF TruncateCheckpoint, Buffer!Next, Buffer!Store, Buffer!Nothing
  <2>5. CASE PersistTrickleCheckpoint
    BY <2>5 DEF PersistTrickleCheckpoint, UseInv, Buffer!Next, Buffer!Store
  <2>6. CASE Crash
    BY <2>6 DEF Crash, ClearBuffer, Buffer!Next, Buffer!Restart
  <2>7. CASE Boot \/ BadConfig \/ ResumeFresh \/ TryAlmostDoneExit \/ ResumeDataBin
             \/ TryOneComOpen \/ SleepRetryDelay \/ NoDetector
    BY <2>7 DEF Boot, BadConfig, ResumeFresh, TryAlmostDoneExit, ResumeDataBin,
       TryOneComOpen, SleepRetryDelay, NoDetector, FinishJob
  <2>8. CASE EnterMainLoop \/ LoopTop \/ QuitPolled \/ TryComReopen \/ ReadSample
             \/ ReadFailed \/ ReportFraction \/ WaitSampleInterval \/ FinishClose
    BY <2>8 DEF EnterMainLoop, LoopTop, QuitPolled, TryComReopen, ReadSample,
       ReadFailed, ReportFraction, WaitSampleInterval, FinishClose, FinishJob
  <2>9. CASE OpenDataBin \/ FlushLine \/ SkipCheckpoint \/ UNCHANGED vars
    BY <2>9 DEF OpenDataBin, FlushLine, SkipCheckpoint
  <2> QED
    BY <2>1, <2>2, <2>3, <2>4, <2>5, <2>6, <2>7, <2>8, <2>9
    DEF Next, AppStep, StartUp, OpenCom, Iterate, WriteOut, Finish, Terminated
<1> QED
  BY <1>1, <1>2, TypeInvariant, UseInvariant, PTL
  DEF Spec, ImplementsTrickleUse, Buffer!Spec

-----------------------------------------------------------------------------
(* The lines a crash costs.                                                *)

(* A sample has its line, is about to get it, or went with a process.      *)
LossInv ==
    /\ Len(data_bin) + Here({"append", "trickle", "flush"}) <= taken
    /\ "append" \notin faults =>
          taken <= Len(data_bin) + crashes + Here({"append", "trickle", "flush"})

(* A send is refused or taken, and touches no line.                        *)
LEMMA SendFaults ==
  ASSUME SendPending \/ (\E accepted \in BOOLEAN : SendTrickle(accepted)),
         "append" \notin faults'
  PROVE  "append" \notin faults
  BY DEF SendPending, SendTrickle

LEMMA LossInvariant == Spec => []LossInv
<1> USE DEF Here
<1>1. Init => LossInv
  BY DEF Init, LossInv
<1>2. TypeInv /\ LossInv /\ [Next]_vars => LossInv'
  <2> SUFFICES ASSUME TypeInv, LossInv, [Next]_vars PROVE LossInv'
    OBVIOUS
  <2>0. Len(data_bin) \in Nat /\ taken \in Nat /\ crashes \in Nat
    BY DEF TypeInv, TypeOK, SamplesOK, CountersOK
  <2> DEFINE Writing == {"append", "trickle", "flush"}
  <2>A. ASSUME UNCHANGED <<data_bin, taken, crashes>>, pc' \in Writing <=> pc \in Writing,
               "append" \notin faults' => "append" \notin faults
        PROVE  LossInv'
    BY <2>A DEF LossInv
  <2>1. CASE Boot \/ BadConfig \/ ResumeFresh \/ TryAlmostDoneExit \/ ResumeDataBin
             \/ RestoreTrickleCheckpoint \/ TryOneComOpen \/ SleepRetryDelay \/ NoDetector
    BY <2>1, <2>A DEF Boot, BadConfig, ResumeFresh, TryAlmostDoneExit, ResumeDataBin,
       RestoreTrickleCheckpoint, TryOneComOpen, SleepRetryDelay, NoDetector, FinishJob
  <2>2. CASE EnterMainLoop \/ LoopTop \/ QuitPolled \/ TryComReopen \/ ReadFailed
             \/ ReportFraction \/ WaitSampleInterval \/ FinishClose
    BY <2>2, <2>A DEF EnterMainLoop, LoopTop, QuitPolled, TryComReopen, ReadFailed,
       ReportFraction, WaitSampleInterval, FinishClose, FinishJob
  <2>3. CASE SkipCheckpoint \/ TruncateCheckpoint \/ PersistTrickleCheckpoint
             \/ UNCHANGED vars
    BY <2>3, <2>A DEF SkipCheckpoint, TruncateCheckpoint, PersistTrickleCheckpoint, vars
  <2>4. CASE LostSensor \/ FinishSend
    BY <2>4, <2>A, SendFaults DEF LostSensor, FinishSend
  <2>5. CASE BufferOrSend
    <3>1. "append" \notin faults' => "append" \notin faults
      BY <2>5 DEF BufferOrSend, SendTrickle
    <3> QED  BY <2>5, <2>A, <3>1 DEF BufferOrSend
  <2>6. CASE ReadSample
    BY <2>0, <2>6 DEF ReadSample, LossInv
  <2>7. CASE OpenDataBin
    BY <2>0, <2>7 DEF OpenDataBin, LossInv
  <2>8. CASE FlushLine
    <3>1. pc = "flush" /\ pc' = "ckpt" /\ UNCHANGED <<taken, faults, crashes>>
          /\ data_bin' = Append(data_bin, taken)
      BY <2>8 DEF FlushLine
    <3>2. Len(data_bin') = Len(data_bin) + 1
      BY <3>1 DEF TypeInv, TypeOK, SamplesOK
    <3> QED  BY <2>0, <3>1, <3>2 DEF LossInv
  <2>9. CASE Crash
    BY <2>0, <2>9 DEF Crash, LossInv
  <2> QED
    BY <2>1, <2>2, <2>3, <2>4, <2>5, <2>6, <2>7, <2>8, <2>9
    DEF Next, AppStep, StartUp, OpenCom, Iterate, WriteOut, Finish, Terminated
<1> QED  BY <1>1, <1>2, TypeInvariant, PTL DEF Spec

(* Each crash costs one sample at most, for every number of crashes.       *)
THEOREM CrashesCostSamples == Spec => []CrashCostsOneSample
<1>1. TypeInv /\ LossInv => CrashCostsOneSample
  <2> SUFFICES ASSUME TypeInv, LossInv, "append" \notin faults
               PROVE  taken - Len(data_bin) \in 0..crashes + (IF Unflushed THEN 1 ELSE 0)
    BY DEF CrashCostsOneSample
  <2>1. Len(data_bin) \in Nat /\ taken \in Nat /\ crashes \in Nat
    BY DEF TypeInv, TypeOK, SamplesOK, CountersOK
  <2> QED  BY <2>1 DEF LossInv, Here, Unflushed
<1> QED  BY <1>1, TypeInvariant, LossInvariant, PTL

-----------------------------------------------------------------------------
(* Every step leads on.                                                    *)

(* The places in their order.                                              *)
LEMMA PlaceNumbers ==
    /\ DOMAIN Places = 1..20
    /\ Places[1] = "boot" /\ Places[2] = "resume" /\ Places[3] = "restore"
    /\ Places[4] = "open" /\ Places[5] = "delay" /\ Places[6] = "enter"
    /\ Places[7] = "loop" /\ Places[8] = "reopen" /\ Places[9] = "read"
    /\ Places[10] = "append" /\ Places[11] = "trickle" /\ Places[12] = "flush"
    /\ Places[13] = "ckpt" /\ Places[14] = "persist" /\ Places[15] = "lost"
    /\ Places[16] = "report" /\ Places[17] = "wait" /\ Places[18] = "finish"
    /\ Places[19] = "close" /\ Places[20] = "done"
  BY DEF Places

(* The counts that a step on leaves alone.                                 *)
Kept == UNCHANGED retries_left /\ (InTurns => UNCHANGED <<num_samples, sample_index>>)
LEMMA FurtherLeadsOn ==
  ASSUME Further, Kept \/ (pc = "boot" /\ ~InTurns) PROVE LeadsOn
  BY DEF LeadsOn, Kept, TurnsLeft, InTurns

(* Back at the head of the main loop, a turn less is left.                 *)
LEMMA TurnUsedUp ==
  ASSUME TypeInv, ProgressInv, pc \in {"reopen", "wait"}, pc' = "loop",
         sample_index' = sample_index + 1, UNCHANGED <<num_samples, retries_left>>
  PROVE  LeadsOn
<1>1. sample_index < num_samples
  BY DEF ProgressInv, Turn
<1>2. sample_index \in Nat /\ num_samples \in Nat
  BY QuotaAssumption DEF TypeInv, TypeOK, CountersOK
<1>3. TurnsLeft' \in 0..TurnsLeft - 1
  BY <1>1, <1>2 DEF TurnsLeft
<1> QED  BY <1>3 DEF LeadsOn, InTurns

(* The loops lead back only with something used up: a retry is left when   *)
(* one is waited for, and in a turn the index is below the quota.          *)
THEOREM NothingSpins == Spec => StepsLeadOn
<1>1. TypeInv /\ ProgressInv /\ [Next]_vars => [LeadsOn]_vars
  <2> SUFFICES ASSUME TypeInv, ProgressInv, Next PROVE LeadsOn \/ UNCHANGED vars
    OBVIOUS
  <2>1. CASE Boot
    <3>1. Further
      BY <2>1, PlaceNumbers DEF Further, Boot
    <3> QED  BY <2>1, <3>1, FurtherLeadsOn DEF Boot, InTurns
  <2>2. CASE BadConfig \/ ResumeFresh \/ TryAlmostDoneExit \/ ResumeDataBin
             \/ RestoreTrickleCheckpoint
    <3>1. Further
      BY <2>2, PlaceNumbers DEF Further, BadConfig, ResumeFresh, TryAlmostDoneExit,
         ResumeDataBin, RestoreTrickleCheckpoint, FinishJob
    <3>2. Kept
      BY <2>2 DEF BadConfig, ResumeFresh, TryAlmostDoneExit, ResumeDataBin,
         RestoreTrickleCheckpoint, Kept, InTurns
    <3> QED  BY <3>1, <3>2, FurtherLeadsOn
  <2>3. CASE TryOneComOpen \/ NoDetector \/ EnterMainLoop \/ LoopTop
    <3>1. Further
      BY <2>3, PlaceNumbers DEF Further, TryOneComOpen, NoDetector, EnterMainLoop, LoopTop,
         FinishJob
    <3>2. Kept
      BY <2>3 DEF TryOneComOpen, NoDetector, EnterMainLoop, LoopTop, Kept, InTurns
    <3> QED  BY <3>1, <3>2, FurtherLeadsOn
  <2>4. CASE QuitPolled \/ ReadSample \/ ReadFailed \/ LostSensor \/ ReportFraction
    <3>1. Further
      BY <2>4, PlaceNumbers DEF Further, QuitPolled, ReadSample, ReadFailed, LostSensor,
         ReportFraction, FinishJob
    <3>2. Kept
      BY <2>4 DEF QuitPolled, ReadSample, ReadFailed, LostSensor, ReportFraction, Kept, InTurns
    <3> QED  BY <3>1, <3>2, FurtherLeadsOn
  <2>5. CASE OpenDataBin \/ BufferOrSend \/ FlushLine
    <3>1. Further
      BY <2>5, PlaceNumbers DEF Further, OpenDataBin, BufferOrSend, FlushLine
    <3>2. Kept
      BY <2>5 DEF OpenDataBin, BufferOrSend, FlushLine, Kept, InTurns
    <3> QED  BY <3>1, <3>2, FurtherLeadsOn
  <2>6. CASE SkipCheckpoint \/ TruncateCheckpoint \/ PersistTrickleCheckpoint
             \/ FinishSend \/ FinishClose
    <3>1. Further
      BY <2>6, PlaceNumbers DEF Further, SkipCheckpoint, TruncateCheckpoint,
         PersistTrickleCheckpoint, FinishSend, FinishClose, FinishJob
    <3>2. Kept
      BY <2>6 DEF SkipCheckpoint, TruncateCheckpoint, PersistTrickleCheckpoint, FinishSend,
         FinishClose, Kept, InTurns
    <3> QED  BY <3>1, <3>2, FurtherLeadsOn
  <2>7. CASE SleepRetryDelay
    BY <2>7 DEF SleepRetryDelay, LeadsOn, TypeInv, TypeOK, CountersOK
  <2>8. CASE TryComReopen
    <3>1. CASE pc' = "read"
      <4>1. Further
        BY <2>8, <3>1, PlaceNumbers DEF Further, TryComReopen
      <4>2. Kept
        BY <2>8, <3>1 DEF TryComReopen, Kept
      <4> QED  BY <4>1, <4>2, FurtherLeadsOn
    <3>2. CASE pc' = "loop"
      <4>1. sample_index' = sample_index + 1 /\ pc = "reopen"
            /\ UNCHANGED <<num_samples, retries_left>>
        BY <2>8, <3>2 DEF TryComReopen, NextTurn
      <4> QED  BY <3>2, <4>1, TurnUsedUp
    <3> QED  BY <2>8, <3>1, <3>2 DEF TryComReopen
  <2>9. CASE WaitSampleInterval
    <3>1. sample_index' = sample_index + 1 /\ pc = "wait" /\ pc' = "loop"
          /\ UNCHANGED <<num_samples, retries_left>>
      BY <2>9 DEF WaitSampleInterval, NextTurn
    <3> QED  BY <3>1, TurnUsedUp
  <2>10. CASE Crash
    BY <2>10 DEF Crash, LeadsOn, TypeInv, TypeOK, CountersOK
  <2>11. CASE Terminated
    BY <2>11 DEF Terminated
  <2> QED
    BY <2>1, <2>2, <2>3, <2>4, <2>5, <2>6, <2>7, <2>8, <2>9, <2>10, <2>11
    DEF Next, AppStep, StartUp, OpenCom, Iterate, WriteOut, Finish
<1> QED  BY <1>1, TypeInvariant, ProgressInvariant, PTL DEF Spec, StepsLeadOn
=============================================================================
