--------------------------- MODULE MainLedgerProofs ---------------------------
(***************************************************************************)
(* Module MainApp implements module JobLedger, for every quota, buffer     *)
(* size, retry count and number of crashes: the samples of data.bin, of    *)
(* the buffer and of the checkpoint stay in the order of reading.          *)
(***************************************************************************)
EXTENDS MainAppProofs

USE DEF confVars, progVars, fracVars, portVars, comVars, bufVars, trickVars,
        binVars, ckptVars, memVars, vars

-----------------------------------------------------------------------------
(* The order of samples.                                                   *)

Before(s, n) == \A i \in DOMAIN s : s[i] < n

(* The sample just read is newer than every line until its line is         *)
(* written, and newer than the buffer until it is put there.               *)
Unwritten == {"append", "trickle", "flush"}
Unbuffered == {"append", "trickle"}
NewerThanLines == IF pc \in Unwritten THEN taken ELSE taken + 1
NewerThanBuffer == IF pc \in Unbuffered THEN taken ELSE taken + 1

LinesInOrder == Job!Increasing(data_bin) /\ Before(data_bin, NewerThanLines)
BufferInOrder ==
    /\ Job!Increasing(trickle_buf) /\ Before(trickle_buf, NewerThanBuffer)
    /\ trickle_buf = <<>> => trickle_msg_len = 0
CkptInOrder ==
    /\ Job!Increasing(ckpt.ids) /\ Before(ckpt.ids, taken + 1)
    /\ ckpt.ids = <<>> => ckpt.len = 0
OrderInv == LinesInOrder /\ BufferInOrder /\ CkptInOrder

(* A sequence without elements is in order and before anything.            *)
LEMMA EmptyInOrder == Job!Increasing(<<>>) /\ \A n \in Nat : Before(<<>>, n)
  BY DEF Job!Increasing, Before

(* So is a single element.                                                 *)
LEMMA SingleInOrder ==
  ASSUME NEW e \in Nat PROVE Job!Increasing(<<e>>) /\ Before(<<e>>, e + 1)
<1>1. DOMAIN <<e>> = {1} /\ <<e>>[1] = e
  OBVIOUS
<1> QED  BY <1>1 DEF Job!Increasing, Before

(* Appending a newer element keeps the order.                              *)
LEMMA AppendInOrder ==
  ASSUME NEW s \in Seq(Nat), NEW e \in Nat, Job!Increasing(s), Before(s, e)
  PROVE  Job!Increasing(Append(s, e)) /\ Before(Append(s, e), e + 1)
<1> DEFINE t == Append(s, e)
<1>1. Len(t) = Len(s) + 1 /\ DOMAIN t = 1..Len(t) /\ DOMAIN s = 1..Len(s) /\ Len(s) \in Nat
  OBVIOUS
<1>2. \A i \in 1..Len(s) : t[i] = s[i] /\ s[i] \in Nat /\ s[i] < e
  BY DEF Before
<1>3. t[Len(s) + 1] = e
  OBVIOUS
<1> HIDE DEF t
<1>4. Before(t, e + 1)
  BY <1>1, <1>2, <1>3 DEF Before
<1>5. \A i, j \in DOMAIN s : i < j => s[i] < s[j]
  BY DEF Job!Increasing
<1>6. ASSUME NEW i \in DOMAIN t, NEW j \in DOMAIN t, i < j PROVE t[i] < t[j]
  <2>1. CASE j = Len(s) + 1
    BY <1>1, <1>2, <1>3, <1>6, <2>1
  <2>2. CASE j # Len(s) + 1
    BY <1>1, <1>2, <1>5, <1>6, <2>2
  <2> QED  BY <2>1, <2>2
<1>7. Job!Increasing(t)
  BY <1>6 DEF Job!Increasing
<1> QED  BY <1>4, <1>7 DEF t

(* What is before a number is before a larger one.                         *)
LEMMA BeforeLarger ==
  ASSUME NEW s \in Seq(Nat), NEW m \in Nat, NEW n \in Nat, m <= n, Before(s, m)
  PROVE  Before(s, n)
<1>1. \A i \in DOMAIN s : s[i] \in Nat
  OBVIOUS
<1> QED  BY <1>1 DEF Before

(* A step that leaves the samples alone and reads none keeps the order.    *)
LEMMA OrderKept ==
  ASSUME TypeOK, OrderInv,
         UNCHANGED <<data_bin, trickle_buf, trickle_msg_len, ckpt, taken>>,
         pc' \in Unwritten => pc \in Unwritten,
         pc' \in Unbuffered => pc \in Unbuffered
  PROVE  OrderInv'
<1>1. taken \in Nat /\ NewerThanLines \in Nat /\ NewerThanLines' \in Nat
      /\ NewerThanBuffer \in Nat /\ NewerThanBuffer' \in Nat
  BY DEF TypeOK, CountersOK, NewerThanLines, NewerThanBuffer
<1>2. NewerThanLines <= NewerThanLines' /\ NewerThanBuffer <= NewerThanBuffer'
  BY DEF TypeOK, CountersOK, NewerThanLines, NewerThanBuffer
<1>3. data_bin \in Seq(Nat) /\ trickle_buf \in Seq(Nat)
  BY DEF TypeOK, SamplesOK
<1>4. Before(data_bin, NewerThanLines') /\ Before(trickle_buf, NewerThanBuffer')
  BY <1>1, <1>2, <1>3, BeforeLarger DEF OrderInv, LinesInOrder, BufferInOrder
<1> QED
  BY <1>4 DEF OrderInv, LinesInOrder, BufferInOrder, CkptInOrder, Before, Job!Increasing

(* After SendPending the buffer is in order as it was, or empty.           *)
LEMMA SendPendingOrder ==
  ASSUME TypeOK, OrderInv, SendPending, UNCHANGED <<data_bin, ckpt, taken>>,
         pc \notin Unwritten, pc' \notin Unwritten
  PROVE  OrderInv'
<1>1. CASE UNCHANGED <<trickle_buf, trickle_msg_len>>
  BY <1>1, OrderKept DEF Unwritten, Unbuffered
<1>2. CASE trickle_buf' = <<>> /\ trickle_msg_len' = 0
  <2>1. NewerThanBuffer' \in Nat
    BY DEF TypeOK, CountersOK, NewerThanBuffer
  <2>2. BufferInOrder'
    BY <1>2, <2>1, EmptyInOrder DEF BufferInOrder
  <2>3. LinesInOrder' /\ CkptInOrder'
    BY DEF OrderInv, LinesInOrder, CkptInOrder, NewerThanLines, Before, Job!Increasing
  <2> QED  BY <2>2, <2>3 DEF OrderInv
<1> QED  BY <1>1, <1>2, SendPendingBuffer

(* Lines are appended in the order of reading, the newest sample is put at *)
(* the buffer's end or replaces it, and the checkpoint copies the buffer.  *)
LEMMA OrderInvariant == Spec => []OrderInv
<1>1. Init => OrderInv
  <2> SUFFICES ASSUME Init PROVE OrderInv
    OBVIOUS
  <2>1. data_bin = <<>> /\ trickle_buf = <<>> /\ trickle_msg_len = 0 /\ taken = 0
        /\ ckpt.ids = <<>> /\ ckpt.len = 0
    BY DEF Init, FreshMemory, NoCkpt
  <2>2. NewerThanLines \in Nat /\ NewerThanBuffer \in Nat /\ taken + 1 \in Nat
    BY <2>1 DEF NewerThanLines, NewerThanBuffer
  <2> QED
    BY <2>1, <2>2, EmptyInOrder DEF OrderInv, LinesInOrder, BufferInOrder, CkptInOrder
<1>2. TypeOK /\ OrderInv /\ [Next]_vars => OrderInv'
  <2> SUFFICES ASSUME TypeOK, OrderInv, [Next]_vars PROVE OrderInv'
    OBVIOUS
  <2> USE DEF Unwritten, Unbuffered
  <2> DEFINE Idle ==
        /\ UNCHANGED <<data_bin, trickle_buf, trickle_msg_len, ckpt, taken>>
        /\ pc' \in Unwritten => pc \in Unwritten
        /\ pc' \in Unbuffered => pc \in Unbuffered
  <2>1. CASE Boot \/ BadConfig \/ ResumeFresh \/ TryAlmostDoneExit \/ ResumeDataBin
             \/ TryOneComOpen \/ SleepRetryDelay \/ NoDetector
    <3>1. Idle
      BY <2>1 DEF Boot, BadConfig, ResumeFresh, TryAlmostDoneExit, ResumeDataBin,
         TryOneComOpen, SleepRetryDelay, NoDetector, FinishJob
    <3> QED  BY <3>1, OrderKept
  <2>2. CASE EnterMainLoop \/ LoopTop \/ QuitPolled \/ TryComReopen \/ ReadFailed
             \/ ReportFraction \/ WaitSampleInterval \/ FinishClose
    <3>1. Idle
      BY <2>2 DEF EnterMainLoop, LoopTop, QuitPolled, TryComReopen, ReadFailed,
         ReportFraction, WaitSampleInterval, FinishClose, FinishJob
    <3> QED  BY <3>1, OrderKept
  <2>3. CASE OpenDataBin \/ SkipCheckpoint \/ UNCHANGED vars
    <3>1. Idle
      BY <2>3 DEF OpenDataBin, SkipCheckpoint
    <3> QED  BY <3>1, OrderKept
  <2>4. CASE RestoreTrickleCheckpoint
    <3>1. pc = "restore" /\ pc' = "open" /\ UNCHANGED <<data_bin, taken>>
          /\ ckpt'.ids = <<>> /\ ckpt'.len = 0
      BY <2>4 DEF RestoreTrickleCheckpoint, NoCkpt
    <3>2. NewerThanBuffer' = taken + 1 /\ NewerThanBuffer = taken + 1
          /\ NewerThanLines' = NewerThanLines
      BY <3>1 DEF NewerThanBuffer, NewerThanLines
    <3>3. \/ trickle_buf' = ckpt.ids
             /\ trickle_msg_len' = Clip(ckpt.len, MaxTrickleContentBytes)
          \/ UNCHANGED <<trickle_buf, trickle_msg_len>>
      BY <2>4 DEF RestoreTrickleCheckpoint
    <3>4. ckpt.len = 0 => Clip(ckpt.len, MaxTrickleContentBytes) = 0
      BY TrickleAssumption DEF Clip
    <3>5. BufferInOrder'
      BY <3>2, <3>3, <3>4 DEF OrderInv, BufferInOrder, CkptInOrder, Before, Job!Increasing
    <3>6. taken' + 1 \in Nat
      BY <3>1 DEF TypeOK, CountersOK
    <3>7. CkptInOrder'
      BY <3>1, <3>6, EmptyInOrder DEF CkptInOrder
    <3>8. LinesInOrder'
      BY <3>1, <3>2 DEF OrderInv, LinesInOrder, Before, Job!Increasing
    <3> QED  BY <3>5, <3>7, <3>8 DEF OrderInv
  <2>5. CASE ReadSample
    <3>1. pc = "read" /\ pc' = "append" /\ taken' = taken + 1 /\ taken \in Nat
          /\ UNCHANGED <<data_bin, trickle_buf, trickle_msg_len, ckpt>>
      BY <2>5 DEF ReadSample, TypeOK, CountersOK
    <3>2. NewerThanLines' = NewerThanLines /\ NewerThanBuffer' = NewerThanBuffer
      BY <3>1 DEF NewerThanLines, NewerThanBuffer
    <3>3. ckpt.ids \in Seq(Nat)
      BY DEF TypeOK, SamplesOK
    <3>4. Before(ckpt.ids, taken + 1 + 1)
      BY <3>1, <3>3, BeforeLarger DEF OrderInv, CkptInOrder
    <3> QED
      BY <3>1, <3>2, <3>4
      DEF OrderInv, LinesInOrder, BufferInOrder, CkptInOrder, Before, Job!Increasing
  <2>6. CASE LostSensor
    BY <2>6, SendPendingOrder DEF LostSensor
  <2>7. CASE FinishSend
    BY <2>7, SendPendingOrder DEF FinishSend
  <2>8. CASE BufferOrSend
    <3>1. pc = "trickle" /\ pc' = "flush" /\ UNCHANGED <<data_bin, ckpt, taken>>
      BY <2>8 DEF BufferOrSend
    <3>2. taken \in Nat /\ trickle_buf \in Seq(Nat)
      BY DEF TypeOK, CountersOK, SamplesOK
    <3>3. NewerThanBuffer = taken /\ NewerThanBuffer' = taken + 1
          /\ NewerThanLines' = NewerThanLines
      BY <3>1 DEF NewerThanBuffer, NewerThanLines
    <3>4. trickle_buf' = <<taken>> \/ trickle_buf' = Append(trickle_buf, taken)
      BY <2>8 DEF BufferOrSend, KeepAlone, AppendToBuffer
    <3>5. <<taken>> # <<>> /\ Append(trickle_buf, taken) # <<>>
      <4>1. Len(<<taken>>) = 1 /\ Len(<<>>) = 0
        OBVIOUS
      <4>2. Len(Append(trickle_buf, taken)) = Len(trickle_buf) + 1 /\ Len(trickle_buf) \in Nat
        BY <3>2
      <4> QED  BY <4>1, <4>2
    <3>6. Job!Increasing(<<taken>>) /\ Before(<<taken>>, taken + 1)
      BY <3>2, SingleInOrder
    <3>7. Job!Increasing(Append(trickle_buf, taken))
          /\ Before(Append(trickle_buf, taken), taken + 1)
      BY <3>2, <3>3, AppendInOrder DEF OrderInv, BufferInOrder
    <3>8. BufferInOrder'
      <4>1. CASE trickle_buf' = <<taken>>
        BY <3>3, <3>5, <3>6, <4>1 DEF BufferInOrder, Before, Job!Increasing
      <4>2. CASE trickle_buf' = Append(trickle_buf, taken)
        BY <3>3, <3>5, <3>7, <4>2 DEF BufferInOrder, Before, Job!Increasing
      <4> QED  BY <3>4, <4>1, <4>2
    <3> QED
      BY <3>1, <3>3, <3>8
      DEF OrderInv, LinesInOrder, CkptInOrder, Before, Job!Increasing
  <2>9. CASE FlushLine
    <3>1. pc = "flush" /\ pc' = "ckpt" /\ data_bin' = Append(data_bin, taken)
          /\ UNCHANGED <<trickle_buf, trickle_msg_len, ckpt, taken>>
      BY <2>9 DEF FlushLine
    <3>2. taken \in Nat /\ data_bin \in Seq(Nat)
      BY DEF TypeOK, CountersOK, SamplesOK
    <3>3. NewerThanLines = taken /\ NewerThanLines' = taken + 1
          /\ NewerThanBuffer' = NewerThanBuffer
      BY <3>1 DEF NewerThanBuffer, NewerThanLines
    <3>4. Job!Increasing(Append(data_bin, taken)) /\ Before(Append(data_bin, taken), taken + 1)
      BY <3>2, <3>3, AppendInOrder DEF OrderInv, LinesInOrder
    <3> QED
      BY <3>1, <3>3, <3>4
      DEF OrderInv, LinesInOrder, BufferInOrder, CkptInOrder, Before, Job!Increasing
  <2>10. CASE TruncateCheckpoint
    <3>1. CASE UNCHANGED ckpt
      <4>1. Idle
        BY <2>10, <3>1 DEF TruncateCheckpoint
      <4> QED  BY <4>1, OrderKept
    <3>2. CASE ckpt' = NoCkpt
      <4>1. UNCHANGED <<data_bin, trickle_buf, trickle_msg_len, taken>>
            /\ pc = "ckpt" /\ pc' \notin Unwritten /\ taken + 1 \in Nat
        BY <2>10 DEF TruncateCheckpoint, TypeOK, CountersOK
      <4>2. CkptInOrder'
        BY <3>2, <4>1, EmptyInOrder DEF CkptInOrder, NoCkpt
      <4>3. NewerThanLines' = NewerThanLines /\ NewerThanBuffer' = NewerThanBuffer
        BY <4>1 DEF NewerThanLines, NewerThanBuffer
      <4> QED
        BY <4>1, <4>2, <4>3 DEF OrderInv, LinesInOrder, BufferInOrder, Before, Job!Increasing
    <3> QED  BY <2>10, <3>1, <3>2 DEF TruncateCheckpoint
  <2>11. CASE PersistTrickleCheckpoint
    <3>1. pc = "persist" /\ pc' = "report"
          /\ UNCHANGED <<data_bin, trickle_buf, trickle_msg_len, taken>>
          /\ ckpt'.ids = trickle_buf /\ ckpt'.len = trickle_msg_len
      BY <2>11 DEF PersistTrickleCheckpoint
    <3>2. NewerThanLines' = NewerThanLines /\ NewerThanBuffer' = NewerThanBuffer
          /\ NewerThanBuffer = taken + 1
      BY <3>1 DEF NewerThanLines, NewerThanBuffer
    <3> QED
      BY <3>1, <3>2
      DEF OrderInv, LinesInOrder, BufferInOrder, CkptInOrder, Before, Job!Increasing
  <2>12. CASE Crash
    <3>1. pc' = "boot" /\ UNCHANGED <<data_bin, ckpt, taken>>
          /\ trickle_buf' = <<>> /\ trickle_msg_len' = 0
      BY <2>12 DEF Crash, ClearBuffer
    <3>2. taken \in Nat /\ data_bin \in Seq(Nat) /\ NewerThanLines \in Nat
          /\ NewerThanLines <= taken + 1 /\ NewerThanLines' = taken + 1
          /\ NewerThanBuffer' \in Nat
      BY <3>1 DEF TypeOK, CountersOK, SamplesOK, NewerThanLines, NewerThanBuffer
    <3>3. Before(data_bin, taken + 1)
      BY <3>2, BeforeLarger DEF OrderInv, LinesInOrder
    <3>4. LinesInOrder'
      BY <3>1, <3>2, <3>3 DEF OrderInv, LinesInOrder, Before, Job!Increasing
    <3>5. BufferInOrder'
      BY <3>1, <3>2, EmptyInOrder DEF BufferInOrder
    <3>6. CkptInOrder'
      BY <3>1 DEF OrderInv, CkptInOrder, Before, Job!Increasing
    <3> QED  BY <3>4, <3>5, <3>6 DEF OrderInv
  <2> QED
    BY <2>1, <2>2, <2>3, <2>4, <2>5, <2>6, <2>7, <2>8, <2>9, <2>10, <2>11, <2>12
    DEF Next, AppStep, StartUp, OpenCom, Iterate, WriteOut, Finish, Terminated
<1> QED
  BY <1>1, <1>2, TypeCorrect, PTL DEF Spec

-----------------------------------------------------------------------------
(* The steps of the ledger.                                                *)

(* Appending leaves the front of a sequence as it was.                     *)
LEMMA AppendKeepsFront ==
  ASSUME NEW S, NEW s \in Seq(S), NEW e \in S
  PROVE  /\ Len(Append(s, e)) = Len(s) + 1
         /\ SubSeq(Append(s, e), 1, Len(s)) = s
         /\ Append(s, e)[Len(Append(s, e))] = e
<1>1. Len(s) \in Nat /\ Len(Append(s, e)) = Len(s) + 1 /\ Append(s, e)[Len(s) + 1] = e
  OBVIOUS
<1>2. SubSeq(Append(s, e), 1, Len(s)) = s
  <2> DEFINE t == SubSeq(Append(s, e), 1, Len(s))
  <2>1. t \in Seq(S) /\ Len(t) = Len(s)
    BY <1>1
  <2>2. \A i \in 1..Len(s) : t[i] = s[i]
    BY <1>1
  <2> HIDE DEF t
  <2>3. t = s
    BY <2>1, <2>2
  <2> QED  BY <2>3 DEF t
<1> QED  BY <1>1, <1>2

(* A buffer the client accepts is a trickle of the ledger: it is in order, *)
(* not empty, and recorded.                                                *)
LEMMA AcceptedIsUpload ==
  ASSUME TypeOK, OrderInv, Range(trickle_buf) \subseteq Range(data_bin), trickle_buf # <<>>,
         exit = "none", NEW accepted \in BOOLEAN, SendTrickle(accepted),
         UNCHANGED <<data_bin, exit, misreads>>
  PROVE  Job!Upload \/ UNCHANGED <<data_bin, trickles, exit, misreads>>
<1>1. CASE ~accepted
  BY <1>1 DEF SendTrickle
<1>2. CASE accepted
  <2>1. trickles' = Append(trickles, trickle_buf)
    BY <1>2 DEF SendTrickle, Payload
  <2>2. trickles \in Seq(Seq(Nat)) /\ trickle_buf \in Seq(Nat)
    BY DEF TypeOK, SamplesOK
  <2>3. /\ Len(trickles') = Len(trickles) + 1
        /\ SubSeq(trickles', 1, Len(trickles)) = trickles
        /\ trickles'[Len(trickles')] = trickle_buf
    BY <2>1, <2>2, AppendKeepsFront
  <2>4. Job!Increasing(trickle_buf)
    BY DEF OrderInv, BufferInOrder
  <2>5. LET batch == trickles'[Len(trickles')]
        IN  batch # <<>> /\ Job!Increasing(batch) /\ Range(batch) \subseteq Range(data_bin)
    BY <2>3, <2>4
  <2>6. ~(exit # "none") /\ (exit' # "none") = (exit # "none") /\ UNCHANGED data_bin
        /\ UNCHANGED Uncounted
    BY DEF Uncounted
  <2> QED
    BY <2>3, <2>5, <2>6 DEF Job!Upload, Job!Range, Range
<1> QED  BY <1>1, <1>2

(* So is the buffer that the lost-sensor and exit paths hand over.         *)
LEMMA SendPendingIsUpload ==
  ASSUME TypeOK, OrderInv, BufferInv, Range(trickle_buf) \subseteq Range(data_bin),
         exit = "none", SendPending, UNCHANGED <<data_bin, exit, misreads>>
  PROVE  Job!Upload \/ UNCHANGED <<data_bin, trickles, exit, misreads>>
<1>1. CASE HasPending
  <2>1. trickle_buf # <<>>
    BY <1>1 DEF HasPending, OrderInv, BufferInOrder
  <2> QED  BY <1>1, <2>1, AcceptedIsUpload DEF SendPending
<1>2. CASE ~HasPending
  BY <1>2 DEF SendPending
<1> QED  BY <1>1, <1>2

(* Every step of a work unit records one sample, uploads one trickle,      *)
(* begins without seeing the file, finishes the job, or changes nothing the project can see; no crash and  *)
(* no restart undoes a record (JobLedger).                                 *)
THEOREM LedgerKept == Spec => ImplementsLedger
<1>1. Init => Job!LedgerInit
  BY OneQuotaMore, QuotaAssumption DEF Init, Job!LedgerInit, Uncounted
<1>2. IInv /\ OrderInv /\ [Next]_vars => [Job!LedgerNext]_(Job!ledger)
  <2> SUFFICES ASSUME IInv, OrderInv, [Next]_vars
               PROVE  Job!LedgerNext \/ UNCHANGED <<data_bin, trickles, exit, misreads>>
    BY DEF Job!ledger, Uncounted
  <2>1. TypeOK /\ ProgressInv /\ BufferInv /\ RecordInv
    BY DEF IInv
  <2>2. pc # "done" => exit = "none"
    BY <2>1 DEF ProgressInv
  <2>3. pc # "flush" => Range(trickle_buf) \subseteq Range(data_bin)
    BY <2>1 DEF RecordInv
  <2>0. Uncounted \in Nat /\ (misreads' = misreads + 1 => Uncounted' = Uncounted + MaxNumSamples)
    BY <2>1, UncountedStep DEF TypeOK, CountersOK
  <2>4. CASE FlushLine
    <3>1. pc = "flush" /\ data_bin' = Append(data_bin, taken)
          /\ UNCHANGED <<trickles, exit, misreads>>
      BY <2>4 DEF FlushLine
    <3>2. data_bin \in Seq(Nat) /\ taken \in Nat
      BY <2>1 DEF TypeOK, SamplesOK, CountersOK
    <3>3. Len(data_bin) < Uncounted + MaxNumSamples
      BY <2>1, <3>1, <2>0, QuotaAssumption
      DEF ProgressInv, TypeOK, CountersOK, SamplesOK, MainLoop, Turn, AfterRead, Here
    <3>4. Job!Increasing(Append(data_bin, taken))
      BY <3>1, <3>2, AppendInOrder DEF OrderInv, LinesInOrder, NewerThanLines, Unwritten
    <3>5. Len(data_bin') = Len(data_bin) + 1 /\ SubSeq(data_bin', 1, Len(data_bin)) = data_bin
      BY <3>1, <3>2, AppendKeepsFront
    <3>6. Job!Increasing(data_bin')
      BY <3>1, <3>4
    <3> QED
      BY <2>2, <3>1, <3>3, <3>5, <3>6 DEF Job!LedgerNext, Job!Record, Uncounted
  <2>5. CASE BufferOrSend
    <3>1. pc = "trickle" /\ UNCHANGED <<data_bin, exit, misreads>>
      BY <2>5 DEF BufferOrSend
    <3>2. CASE UNCHANGED trickles
      BY <3>1, <3>2
    <3>3. CASE ~UNCHANGED trickles
      <4>1. PICK accepted \in BOOLEAN : SendTrickle(accepted) /\ SomethingToSend
        BY <2>5, <3>3 DEF BufferOrSend
      <4>2. trickle_buf # <<>>
        BY <4>1 DEF SomethingToSend, OrderInv, BufferInOrder
      <4> QED
        BY <2>1, <2>2, <2>3, <3>1, <4>1, <4>2, AcceptedIsUpload DEF Job!LedgerNext
    <3> QED  BY <3>2, <3>3
  <2>6. CASE LostSensor \/ FinishSend
    <3>1. pc \notin {"done", "flush"} /\ SendPending
          /\ UNCHANGED <<data_bin, exit, misreads>>
      BY <2>6 DEF LostSensor, FinishSend
    <3> QED
      BY <2>1, <2>2, <2>3, <3>1, SendPendingIsUpload DEF Job!LedgerNext
  <2>7. CASE BadConfig \/ TryAlmostDoneExit \/ NoDetector \/ QuitPolled \/ FinishClose
    <3>1. pc # "done" /\ exit' # "none" /\ UNCHANGED <<data_bin, trickles, misreads>>
      BY <2>7 DEF BadConfig, TryAlmostDoneExit, NoDetector, QuitPolled, FinishClose, FinishJob
    <3> QED
      BY <2>2, <3>1 DEF Job!LedgerNext, Job!FinishLedger, Uncounted
  <2>8. CASE Boot \/ ResumeDataBin \/ RestoreTrickleCheckpoint
             \/ TryOneComOpen \/ SleepRetryDelay \/ EnterMainLoop \/ LoopTop
    BY <2>8 DEF Boot, ResumeDataBin, RestoreTrickleCheckpoint,
       TryOneComOpen, SleepRetryDelay, EnterMainLoop, LoopTop
  <2>9. CASE TryComReopen \/ ReadSample \/ ReadFailed \/ ReportFraction
             \/ WaitSampleInterval \/ OpenDataBin
    BY <2>9 DEF TryComReopen, ReadSample, ReadFailed, ReportFraction,
       WaitSampleInterval, OpenDataBin
  <2>10. CASE ResumeFresh
    <3>1. pc = "resume" /\ UNCHANGED <<data_bin, trickles, exit>>
          /\ (misreads' = misreads + 1 \/ UNCHANGED misreads)
      BY <2>10 DEF ResumeFresh
    <3> QED
      BY <2>2, <2>0, <3>1 DEF Job!LedgerNext, Job!Misread
  <2>11. CASE SkipCheckpoint \/ TruncateCheckpoint \/ PersistTrickleCheckpoint
              \/ Crash \/ UNCHANGED vars
    BY <2>11 DEF SkipCheckpoint, TruncateCheckpoint, PersistTrickleCheckpoint, Crash
  <2> QED
    BY <2>4, <2>5, <2>6, <2>7, <2>8, <2>9, <2>10, <2>11
    DEF Next, AppStep, StartUp, OpenCom, Iterate, WriteOut, Finish, Terminated
<1> QED
  BY <1>1, <1>2, InvariantHolds, OrderInvariant, PTL
  DEF Spec, ImplementsLedger, Job!LedgerSpec
=============================================================================
