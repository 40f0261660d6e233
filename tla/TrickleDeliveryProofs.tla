------------------------ MODULE TrickleDeliveryProofs ------------------------
(***************************************************************************)
(* Theorems about module TrickleDelivery: how often a sample is delivered, *)
(* and that none leaves the buffer of a live process without a trickle.    *)
(***************************************************************************)
EXTENDS TrickleDelivery, MainLedgerProofs, FiniteSetTheorems

USE DEF confVars, progVars, fracVars, portVars, comVars, bufVars, trickVars,
        binVars, ckptVars, memVars, vars

-----------------------------------------------------------------------------
(* Counting deliveries.                                                    *)

Deliveries(id) == Cardinality(DeliveriesOf(id))

(* A sample is in finitely many trickles.                                  *)
LEMMA DeliveriesType ==
  ASSUME TypeOK, NEW id
  PROVE  IsFiniteSet(DeliveriesOf(id)) /\ Deliveries(id) \in Nat
<1>1. DeliveriesOf(id) \in SUBSET (1..Len(trickles)) /\ Len(trickles) \in Nat
  BY DEF DeliveriesOf, TypeOK, SamplesOK
<1>2. IsFiniteSet(1..Len(trickles))
  BY <1>1, FS_Interval
<1>3. IsFiniteSet(DeliveriesOf(id))
  BY <1>1, <1>2, FS_Subset
<1> QED  BY <1>3, FS_CardinalityType DEF Deliveries

(* Without a new trickle nothing is delivered.                             *)
LEMMA DeliveriesSame ==
  ASSUME UNCHANGED trickles PROVE \A id : Deliveries(id)' = Deliveries(id)
  BY DEF Deliveries, DeliveriesOf

(* A send delivers what is in the buffer once more, and nothing else.      *)
LEMMA DeliveriesAfterSend ==
  ASSUME TypeOK, NEW accepted \in BOOLEAN, SendTrickle(accepted), NEW id
  PROVE  /\ Deliveries(id)' \in Nat
         /\ Deliveries(id)' <= Deliveries(id) + 1
         /\ id \notin Range(trickle_buf) => Deliveries(id)' = Deliveries(id)
<1>1. IsFiniteSet(DeliveriesOf(id)) /\ Deliveries(id) \in Nat
  BY DeliveriesType
<1>2. CASE ~accepted
  <2>1. Deliveries(id)' = Deliveries(id)
    BY <1>2, DeliveriesSame DEF SendTrickle
  <2> QED  BY <1>1, <2>1
<1>3. CASE accepted
  <2> DEFINE last == Len(trickles) + 1
  <2>1. trickles' = Append(trickles, trickle_buf)
    BY <1>3 DEF SendTrickle, Payload
  <2>2. trickles \in Seq(Seq(Nat)) /\ trickle_buf \in Seq(Nat)
    BY DEF TypeOK, SamplesOK
  <2>3. /\ DOMAIN trickles = 1..Len(trickles) /\ DOMAIN trickles' = 1..last
        /\ Len(trickles) \in Nat /\ trickles'[last] = trickle_buf
        /\ \A i \in 1..Len(trickles) : trickles'[i] = trickles[i]
    BY <2>1, <2>2
  <2>4. DOMAIN trickles' = DOMAIN trickles \cup {last} /\ last \notin DOMAIN trickles
    BY <2>3
  <2>5. CASE id \in Range(trickle_buf)
    <3>1. DeliveriesOf(id)' = DeliveriesOf(id) \cup {last}
      BY <2>3, <2>4, <2>5 DEF DeliveriesOf
    <3>2. last \notin DeliveriesOf(id)
      BY <2>4 DEF DeliveriesOf
    <3>3. Cardinality(DeliveriesOf(id) \cup {last}) = Cardinality(DeliveriesOf(id)) + 1
      BY <1>1, <3>2, FS_AddElement
    <3>4. Deliveries(id)' = Deliveries(id) + 1
      BY <3>1, <3>3 DEF Deliveries
    <3> QED  BY <1>1, <2>5, <3>4
  <2>6. CASE id \notin Range(trickle_buf)
    <3>1. DeliveriesOf(id)' = DeliveriesOf(id)
      BY <2>3, <2>4, <2>6 DEF DeliveriesOf
    <3>2. Deliveries(id)' = Deliveries(id)
      BY <3>1 DEF Deliveries
    <3> QED  BY <1>1, <3>2
  <2> QED  BY <2>5, <2>6
<1> QED  BY <1>2, <1>3

(* A sample just read is on no line yet, so that no trickle has it.        *)
LEMMA NewestUndelivered ==
  ASSUME TypeOK, OrderInv, RecordInv, pc = "trickle"
  PROVE  Deliveries(taken) = 0 /\ taken \notin Range(trickle_buf)
<1>1. Before(data_bin, taken) /\ Before(trickle_buf, taken)
  BY DEF OrderInv, LinesInOrder, BufferInOrder, NewerThanLines, NewerThanBuffer,
         Unwritten, Unbuffered
<1>2. taken \in Nat
  BY DEF TypeOK, CountersOK
<1>3. taken \notin Range(data_bin) /\ taken \notin Range(trickle_buf)
  BY <1>1, <1>2 DEF Before, Range
<1>4. taken \notin Uploaded
  BY <1>3 DEF RecordInv
<1>5. DeliveriesOf(taken) = {}
  BY <1>4 DEF DeliveriesOf, Uploaded
<1> QED  BY <1>3, <1>5, FS_EmptySet DEF Deliveries

-----------------------------------------------------------------------------
(* Bounded redelivery.                                                     *)

(* The deliveries beyond the first that crashes may have caused.           *)
Again(id) == IF id \in saved THEN crashes ELSE 0
Starting == {"boot", "resume", "restore"}

(* What is buffered, or will be after the restore, has a delivery to spare.*)
RedeliveryInv ==
    /\ \A id : Deliveries(id) <= 1 + Again(id)
    /\ \A id \in Range(trickle_buf) : Deliveries(id) <= Again(id)
    /\ Range(ckpt.ids) \subseteq saved
    /\ pc \in Starting => \A id \in Range(ckpt.ids) : Deliveries(id) <= crashes

(* A step without a trickle, a crash or a change of buffer and checkpoint  *)
(* delivers nothing and spares nothing.                                    *)
LEMMA QuietRedelivery ==
  ASSUME RedeliveryInv, UNCHANGED <<trickle_buf, ckpt, saved, trickles, crashes>>,
         pc' \in Starting => pc \in Starting
  PROVE  RedeliveryInv'
  BY DeliveriesSame DEF RedeliveryInv, Again

(* The send of the lost-sensor and exit paths uses up what is spare.       *)
LEMMA SendPendingRedelivery ==
  ASSUME TypeOK, RedeliveryInv, SendPending, UNCHANGED <<ckpt, saved, crashes>>,
         pc' \notin Starting
  PROVE  RedeliveryInv'
<1>1. crashes \in Nat /\ \A id : Deliveries(id) \in Nat /\ Again(id) \in Nat
  BY DeliveriesType DEF TypeOK, CountersOK, Again
<1>2. \A id : Again(id)' = Again(id)
  BY DEF Again
<1>3. CASE UNCHANGED trickles /\ UNCHANGED trickle_buf
  BY <1>2, <1>3, DeliveriesSame DEF RedeliveryInv
<1>4. CASE SendTrickle(TRUE) /\ trickle_buf' = <<>>
  <2>1. \A id : Deliveries(id)' <= 1 + Again(id)
    <3> SUFFICES ASSUME NEW id PROVE Deliveries(id)' <= 1 + Again(id)
      OBVIOUS
    <3>1. /\ Deliveries(id)' \in Nat /\ Deliveries(id)' <= Deliveries(id) + 1
          /\ id \notin Range(trickle_buf) => Deliveries(id)' = Deliveries(id)
      BY <1>4, DeliveriesAfterSend
    <3>2. /\ Deliveries(id) <= 1 + Again(id)
          /\ id \in Range(trickle_buf) => Deliveries(id) <= Again(id)
      BY DEF RedeliveryInv
    <3> QED  BY <1>1, <3>1, <3>2
  <2>2. Range(trickle_buf') = {}
    BY <1>4, EmptyRange
  <2> QED  BY <1>2, <2>1, <2>2 DEF RedeliveryInv
<1>5. (UNCHANGED trickles /\ UNCHANGED trickle_buf) \/ (SendTrickle(TRUE) /\ trickle_buf' = <<>>)
  BY DEF SendPending, SendTrickle, KeepBuffer, ClearBuffer
<1> QED  BY <1>3, <1>4, <1>5

(* Each process delivers a sample once: the buffer it sends is replaced or *)
(* cleared, and a process that starts gets from the checkpoint only what a *)
(* crash has taken from the one before.                                    *)
LEMMA RedeliveryInvariant == Spec => []RedeliveryInv
<1>1. Init => RedeliveryInv
  <2> SUFFICES ASSUME Init PROVE RedeliveryInv
    OBVIOUS
  <2>1. \A id : Deliveries(id) = 0
    BY FS_EmptySet DEF Init, Deliveries, DeliveriesOf
  <2>2. Range(trickle_buf) = {} /\ Range(ckpt.ids) = {} /\ crashes = 0 /\ saved = {}
    BY EmptyRange DEF Init, FreshMemory, NoCkpt
  <2> QED  BY <2>1, <2>2 DEF RedeliveryInv, Again
<1>2. TypeOK /\ OrderInv /\ RecordInv /\ RedeliveryInv /\ [Next]_vars => RedeliveryInv'
  <2> SUFFICES ASSUME TypeOK, OrderInv, RecordInv, RedeliveryInv, [Next]_vars
               PROVE  RedeliveryInv'
    OBVIOUS
  <2> USE DEF Starting
  <2> DEFINE Quiet ==
        /\ UNCHANGED <<trickle_buf, ckpt, saved, trickles, crashes>>
        /\ pc' \in Starting => pc \in Starting
  <2>1. CASE Boot \/ BadConfig \/ ResumeFresh \/ TryAlmostDoneExit \/ ResumeDataBin
             \/ TryOneComOpen \/ SleepRetryDelay \/ NoDetector
    <3>1. Quiet
      BY <2>1 DEF Boot, BadConfig, ResumeFresh, TryAlmostDoneExit, ResumeDataBin,
         TryOneComOpen, SleepRetryDelay, NoDetector, FinishJob
    <3> QED  BY <3>1, QuietRedelivery
  <2>2. CASE EnterMainLoop \/ LoopTop \/ QuitPolled \/ TryComReopen \/ ReadSample
             \/ ReadFailed \/ ReportFraction \/ WaitSampleInterval \/ FinishClose
    <3>1. Quiet
      BY <2>2 DEF EnterMainLoop, LoopTop, QuitPolled, TryComReopen, ReadSample, ReadFailed,
         ReportFraction, WaitSampleInterval, FinishClose, FinishJob
    <3> QED  BY <3>1, QuietRedelivery
  <2>3. CASE OpenDataBin \/ FlushLine \/ SkipCheckpoint \/ UNCHANGED vars
    <3>1. Quiet
      BY <2>3 DEF OpenDataBin, FlushLine, SkipCheckpoint
    <3> QED  BY <3>1, QuietRedelivery
  <2>4. CASE RestoreTrickleCheckpoint
    <3>1. pc = "restore" /\ pc' = "open" /\ UNCHANGED <<saved, trickles, crashes>>
          /\ ckpt'.ids = <<>> /\ (trickle_buf' = ckpt.ids \/ trickle_buf' = trickle_buf)
      BY <2>4 DEF RestoreTrickleCheckpoint, NoCkpt
    <3>2. \A id \in Range(ckpt.ids) : Deliveries(id) <= Again(id)
      BY <3>1 DEF RedeliveryInv, Again
    <3> QED
      BY <3>1, <3>2, EmptyRange, DeliveriesSame DEF RedeliveryInv, Again
  <2>5. CASE LostSensor
    BY <2>5, SendPendingRedelivery DEF LostSensor
  <2>6. CASE FinishSend
    BY <2>6, SendPendingRedelivery DEF FinishSend
  <2>7. CASE BufferOrSend
    <3>1. pc = "trickle" /\ pc' = "flush" /\ UNCHANGED <<ckpt, saved, crashes>>
      BY <2>7 DEF BufferOrSend
    <3>2. Deliveries(taken) = 0 /\ taken \notin Range(trickle_buf)
      BY <3>1, NewestUndelivered
    <3>3. /\ \A id : Again(id)' = Again(id) /\ Again(id) \in Nat /\ Deliveries(id) \in Nat
      BY <3>1, DeliveriesType DEF Again, TypeOK, CountersOK
    <3>4. CASE UNCHANGED trickles
      <4>1. Range(trickle_buf') \subseteq Range(trickle_buf) \cup {taken}
        <5>1. trickle_buf' = <<taken>> \/ trickle_buf' = Append(trickle_buf, taken)
          BY <2>7 DEF BufferOrSend, KeepAlone, AppendToBuffer
        <5>2. Range(<<taken>>) = {taken}
          BY DEF Range
        <5>3. Range(Append(trickle_buf, taken)) = Range(trickle_buf) \cup {taken}
          <6>1. trickle_buf \in Seq(Nat) /\ taken \in Nat
            BY DEF TypeOK, SamplesOK, CountersOK
          <6> QED  BY <6>1, RangeAppend
        <5> QED  BY <5>1, <5>2, <5>3
      <4>2. \A id : Deliveries(id)' = Deliveries(id)
        BY <3>4, DeliveriesSame
      <4> QED  BY <3>1, <3>2, <3>3, <4>1, <4>2 DEF RedeliveryInv
    <3>5. CASE ~UNCHANGED trickles
      <4>1. SendTrickle(TRUE) /\ trickle_buf' = <<taken>>
        BY <2>7, <3>5 DEF BufferOrSend, SendTrickle, KeepAlone
      <4>2. Range(trickle_buf') = {taken}
        <5>1. DOMAIN <<taken>> = {1} /\ <<taken>>[1] = taken
          OBVIOUS
        <5> QED  BY <4>1, <5>1 DEF Range
      <4>3. ASSUME NEW id, id = taken PROVE Deliveries(id)' = 0
        <5>1. Deliveries(id) = 0 /\ id \notin Range(trickle_buf)
          BY <3>2, <4>3
        <5> QED  BY <4>1, <5>1, DeliveriesAfterSend
      <4>4. \A id : Deliveries(id)' <= 1 + Again(id)
        <5> SUFFICES ASSUME NEW id PROVE Deliveries(id)' <= 1 + Again(id)
          OBVIOUS
        <5>1. /\ Deliveries(id)' \in Nat /\ Deliveries(id)' <= Deliveries(id) + 1
              /\ id \notin Range(trickle_buf) => Deliveries(id)' = Deliveries(id)
          BY <4>1, DeliveriesAfterSend
        <5>2. /\ Deliveries(id) <= 1 + Again(id)
              /\ id \in Range(trickle_buf) => Deliveries(id) <= Again(id)
          BY DEF RedeliveryInv
        <5> QED  BY <3>3, <5>1, <5>2
      <4>5. \A id \in Range(trickle_buf') : Deliveries(id)' <= Again(id)
        BY <3>3, <4>2, <4>3
      <4> QED  BY <3>1, <3>3, <4>4, <4>5 DEF RedeliveryInv
    <3> QED  BY <3>4, <3>5
  <2>8. CASE TruncateCheckpoint
    <3>1. pc' \notin Starting /\ UNCHANGED <<trickle_buf, saved, trickles, crashes>>
          /\ (ckpt' = ckpt \/ ckpt'.ids = <<>>)
      BY <2>8 DEF TruncateCheckpoint, NoCkpt
    <3> QED  BY <3>1, EmptyRange, DeliveriesSame DEF RedeliveryInv, Again
  <2>9. CASE PersistTrickleCheckpoint
    <3>1. pc' = "report" /\ UNCHANGED <<trickle_buf, trickles, crashes>>
          /\ ckpt'.ids = trickle_buf /\ saved' = saved \cup Range(trickle_buf)
      BY <2>9 DEF PersistTrickleCheckpoint
    <3>2. \A id : Deliveries(id)' = Deliveries(id) /\ Deliveries(id) \in Nat
      BY <3>1, DeliveriesSame, DeliveriesType
    <3>3. \A id : Again(id) <= Again(id)' /\ Again(id) \in Nat /\ Again(id)' \in Nat
      BY <3>1 DEF Again, TypeOK, CountersOK
    <3>4. \A id : Deliveries(id)' <= 1 + Again(id)'
      BY <3>2, <3>3 DEF RedeliveryInv
    <3>5. \A id \in Range(trickle_buf') : Deliveries(id)' <= Again(id)'
      BY <3>1, <3>2, <3>3 DEF RedeliveryInv
    <3> QED  BY <3>1, <3>4, <3>5 DEF RedeliveryInv
  <2>10. CASE Crash
    <3>1. trickle_buf' = <<>> /\ crashes' = crashes + 1 /\ crashes \in Nat
          /\ UNCHANGED <<ckpt, saved, trickles>>
      BY <2>10 DEF Crash, ClearBuffer, TypeOK, CountersOK
    <3>2. \A id : Deliveries(id)' = Deliveries(id) /\ Deliveries(id) \in Nat
      BY <3>1, DeliveriesSame, DeliveriesType
    <3>3. \A id : Again(id) <= Again(id)' /\ Again(id) \in Nat /\ Again(id)' \in Nat
      BY <3>1 DEF Again
    <3>4. \A id : Deliveries(id)' <= 1 + Again(id)'
      BY <3>2, <3>3 DEF RedeliveryInv
    <3>5. \A id \in Range(ckpt.ids) : Deliveries(id) <= 1 + crashes
      BY DEF RedeliveryInv, Again
    <3>6. \A id \in Range(ckpt'.ids) : Deliveries(id)' <= crashes'
      BY <3>1, <3>2, <3>5
    <3> QED  BY <3>1, <3>4, <3>6, EmptyRange DEF RedeliveryInv
  <2> QED
    BY <2>1, <2>2, <2>3, <2>4, <2>5, <2>6, <2>7, <2>8, <2>9, <2>10
    DEF Next, AppStep, StartUp, OpenCom, Iterate, WriteOut, Finish, Terminated
<1> QED
  BY <1>1, <1>2, TypeCorrect, OrderInvariant, RecordInvariant, PTL DEF Spec

(* Each crash may cause one more delivery of what a checkpoint has held,   *)
(* and nothing else is delivered twice.                                    *)
THEOREM RedeliveryBounded == Spec => []BoundedRedelivery
<1>1. RedeliveryInv => BoundedRedelivery
  BY DEF RedeliveryInv, BoundedRedelivery, Deliveries, Again
<1> QED  BY <1>1, RedeliveryInvariant, PTL

-----------------------------------------------------------------------------
(* No silent drop.                                                         *)

(* The length tells whether there is something to send, and a process      *)
(* starts with nothing in the buffer that a restore could overwrite.       *)
ContentInv ==
    /\ trickle_buf # <<>> => trickle_msg_len > 0
    /\ ckpt.ids # <<>> => ckpt.len > 0
    /\ pc \in Starting => trickle_buf = <<>>

(* The buffer's limit leaves room for something.                           *)
LEMMA SomeContent == TrickleMaxContent \in Nat \ {0}
  BY TrickleAssumption DEF TrickleMaxContent, Clip

(* A length is counted for everything buffered, restored or saved.         *)
LEMMA ContentInvariant == Spec => []ContentInv
<1> USE DEF ContentInv, Starting
<1>1. Init => ContentInv
  BY DEF Init, FreshMemory, NoCkpt
<1>2. TypeOK /\ ContentInv /\ [Next]_vars => ContentInv'
  <2> SUFFICES ASSUME TypeOK, ContentInv, [Next]_vars PROVE ContentInv'
    OBVIOUS
  <2> DEFINE Quiet ==
        /\ UNCHANGED <<trickle_buf, trickle_msg_len, ckpt>>
        /\ pc' \in Starting => pc \in Starting
  <2>1. CASE Boot \/ BadConfig \/ ResumeFresh \/ TryAlmostDoneExit \/ ResumeDataBin
             \/ TryOneComOpen \/ SleepRetryDelay \/ NoDetector
    <3>1. Quiet
      BY <2>1 DEF Boot, BadConfig, ResumeFresh, TryAlmostDoneExit, ResumeDataBin,
         TryOneComOpen, SleepRetryDelay, NoDetector, FinishJob
    <3> QED  BY <3>1
  <2>2. CASE EnterMainLoop \/ LoopTop \/ QuitPolled \/ TryComReopen \/ ReadSample
             \/ ReadFailed \/ ReportFraction \/ WaitSampleInterval \/ FinishClose
    <3>1. Quiet
      BY <2>2 DEF EnterMainLoop, LoopTop, QuitPolled, TryComReopen, ReadSample, ReadFailed,
         ReportFraction, WaitSampleInterval, FinishClose, FinishJob
    <3> QED  BY <3>1
  <2>3. CASE OpenDataBin \/ FlushLine \/ SkipCheckpoint \/ UNCHANGED vars
    <3>1. Quiet
      BY <2>3 DEF OpenDataBin, FlushLine, SkipCheckpoint
    <3> QED  BY <3>1
  <2>4. CASE RestoreTrickleCheckpoint
    <3>1. ckpt.len > 0 => Clip(ckpt.len, MaxTrickleContentBytes) > 0
      BY TrickleAssumption DEF Clip
    <3>2. pc = "restore" /\ pc' = "open" /\ ckpt'.ids = <<>>
      BY <2>4 DEF RestoreTrickleCheckpoint, NoCkpt
    <3>3. \/ trickle_buf' = ckpt.ids
             /\ trickle_msg_len' = Clip(ckpt.len, MaxTrickleContentBytes)
          \/ UNCHANGED <<trickle_buf, trickle_msg_len>>
      BY <2>4 DEF RestoreTrickleCheckpoint
    <3> QED  BY <3>1, <3>2, <3>3
  <2>5. CASE LostSensor \/ FinishSend
    <3>1. pc' \notin Starting /\ SendPending /\ UNCHANGED ckpt
      BY <2>5 DEF LostSensor, FinishSend
    <3> QED  BY <3>1, SendPendingBuffer
  <2>6. CASE BufferOrSend
    <3>1. pc' = "flush" /\ UNCHANGED ckpt
      BY <2>6 DEF BufferOrSend
    <3>2. PICK xml \in XmlLens : KeepAlone(xml) \/ AppendToBuffer(xml)
      BY <2>6 DEF BufferOrSend
    <3>3. xml \in Nat \ {0} /\ trickle_msg_len \in Nat
      BY TrickleAssumption DEF TypeOK, CountersOK
    <3>4. Clip(xml, TrickleMaxContent) > 0 /\ trickle_msg_len + xml > 0
      BY <3>3, SomeContent DEF Clip
    <3>5. trickle_msg_len' > 0
      BY <3>2, <3>4 DEF KeepAlone, AppendToBuffer
    <3> QED  BY <3>1, <3>5
  <2>7. CASE TruncateCheckpoint
    <3>1. pc' \notin Starting /\ UNCHANGED <<trickle_buf, trickle_msg_len>>
          /\ (ckpt' = ckpt \/ ckpt'.ids = <<>>)
      BY <2>7 DEF TruncateCheckpoint, NoCkpt
    <3> QED  BY <3>1
  <2>8. CASE PersistTrickleCheckpoint
    <3>1. pc' = "report" /\ UNCHANGED <<trickle_buf, trickle_msg_len>>
          /\ ckpt'.ids = trickle_buf /\ ckpt'.len = trickle_msg_len
      BY <2>8 DEF PersistTrickleCheckpoint
    <3> QED  BY <3>1
  <2>9. CASE Crash
    BY <2>9 DEF Crash, ClearBuffer
  <2> QED
    BY <2>1, <2>2, <2>3, <2>4, <2>5, <2>6, <2>7, <2>8, <2>9
    DEF Next, AppStep, StartUp, OpenCom, Iterate, WriteOut, Finish, Terminated
<1> QED
  BY <1>1, <1>2, TypeCorrect, PTL DEF Spec

(* What a send takes out of the buffer has been uploaded or was refused.   *)
LEMMA SentIsUploaded ==
  ASSUME TypeOK, NEW accepted \in BOOLEAN, SendTrickle(accepted)
  PROVE  IF accepted THEN Range(trickle_buf) \subseteq Uploaded' ELSE "send" \in faults'
<1>1. CASE ~accepted
  BY <1>1 DEF SendTrickle
<1>2. CASE accepted
  <2>1. trickles' = Append(trickles, trickle_buf)
    BY <1>2 DEF SendTrickle, Payload
  <2>2. trickles \in Seq(Seq(Nat)) /\ trickle_buf \in Seq(Nat)
    BY DEF TypeOK, SamplesOK
  <2>3. Len(trickles) + 1 \in DOMAIN trickles' /\ trickles'[Len(trickles) + 1] = trickle_buf
    BY <2>1, <2>2
  <2> QED  BY <1>2, <2>3 DEF Uploaded
<1> QED  BY <1>1, <1>2

(* Neither the overflow rule nor a lost sensor drops a sample, and only the *)
(* write path one the client has refused, for every buffer limit and every *)
(* length of a sample.                                                     *)
THEOREM NothingDropped == Spec => NoSilentDrop
<1>1. TypeOK /\ ContentInv /\ [Next]_vars => [LeavesOnlyDelivered]_vars
  <2> SUFFICES ASSUME TypeOK, ContentInv, [Next]_vars
               PROVE  LeavesOnlyDelivered \/ UNCHANGED vars
    OBVIOUS
  <2> USE DEF LeavesOnlyDelivered
  <2>1. CASE UNCHANGED trickle_buf
    BY <2>1
  <2>2. CASE SendPending
    <3>1. CASE UNCHANGED trickle_buf
      BY <3>1
    <3>2. CASE ~UNCHANGED trickle_buf
      <4>1. SendTrickle(TRUE)
        BY <2>2, <3>2 DEF SendPending, KeepBuffer
      <4> QED  BY <4>1, SentIsUploaded
    <3> QED  BY <3>1, <3>2
  <2>3. CASE BufferOrSend
    <3>1. CASE \E xml \in XmlLens : AppendToBuffer(xml)
      <4>1. trickle_buf' = Append(trickle_buf, taken)
        BY <3>1 DEF AppendToBuffer
      <4>2. trickle_buf \in Seq(Nat) /\ taken \in Nat
        BY DEF TypeOK, SamplesOK, CountersOK
      <4>3. Range(Append(trickle_buf, taken)) = Range(trickle_buf) \cup {taken}
        BY <4>2, RangeAppend
      <4> QED  BY <4>1, <4>3
    <3>2. CASE \E accepted \in BOOLEAN : SendTrickle(accepted)
      <4>1. pc = "trickle"
        BY <2>3 DEF BufferOrSend
      <4> QED  BY <3>2, <4>1, SentIsUploaded
    <3>3. CASE ~SomethingToSend
      <4>1. trickle_buf = <<>>
        BY <3>3 DEF SomethingToSend, ContentInv
      <4> QED  BY <4>1, EmptyRange
    <3> QED  BY <2>3, <3>1, <3>2, <3>3 DEF BufferOrSend
  <2>4. CASE RestoreTrickleCheckpoint
    <3>1. trickle_buf = <<>>
      BY <2>4 DEF RestoreTrickleCheckpoint, ContentInv, Starting
    <3> QED  BY <3>1, EmptyRange
  <2>5. CASE Crash
    <3>1. crashes \in Nat /\ crashes' = crashes + 1
      BY <2>5 DEF Crash, TypeOK, CountersOK
    <3> QED  BY <3>1
  <2>6. CASE Boot \/ BadConfig \/ ResumeFresh \/ TryAlmostDoneExit \/ ResumeDataBin
             \/ OpenCom \/ UNCHANGED vars
    BY <2>1, <2>6 DEF Boot, BadConfig, ResumeFresh, TryAlmostDoneExit, ResumeDataBin,
       OpenCom, TryOneComOpen, SleepRetryDelay, NoDetector
  <2>7. CASE EnterMainLoop \/ LoopTop \/ QuitPolled \/ TryComReopen \/ ReadSample
             \/ ReadFailed \/ ReportFraction \/ WaitSampleInterval \/ FinishClose
    BY <2>1, <2>7 DEF EnterMainLoop, LoopTop, QuitPolled, TryComReopen, ReadSample, ReadFailed,
       ReportFraction, WaitSampleInterval, FinishClose
  <2>8. CASE OpenDataBin \/ FlushLine \/ SkipCheckpoint \/ TruncateCheckpoint
             \/ PersistTrickleCheckpoint
    BY <2>1, <2>8 DEF OpenDataBin, FlushLine, SkipCheckpoint, TruncateCheckpoint,
       PersistTrickleCheckpoint
  <2>9. CASE LostSensor \/ FinishSend
    BY <2>2, <2>9 DEF LostSensor, FinishSend
  <2> QED
    BY <2>3, <2>4, <2>5, <2>6, <2>7, <2>8, <2>9
    DEF Next, AppStep, StartUp, Iterate, WriteOut, Finish, Terminated
<1> QED
  BY <1>1, TypeCorrect, ContentInvariant, PTL DEF Spec, NoSilentDrop
-----------------------------------------------------------------------------
(* Once without a crash.                                                   *)

EarlierThan(s, t) == \A k \in DOMAIN s, l \in DOMAIN t : s[k] < t[l]

(* Batches each in order, one before the next, and all before a number.    *)
Ordered(batches, n) ==
    /\ \A i \in DOMAIN batches : Job!Increasing(batches[i]) /\ Before(batches[i], n)
    /\ \A i, j \in DOMAIN batches : i < j => EarlierThan(batches[i], batches[j])

(* A process that was never killed is the first: it finds no file, and     *)
(* what it has delivered is older than its buffer and the newest sample.   *)
FirstProcess ==
    /\ pc \in Starting => pc # "restore" /\ ~data_bin_exists
    /\ Ordered(trickles, NewerThanBuffer)
    /\ \A i \in DOMAIN trickles : EarlierThan(trickles[i], trickle_buf)
DeliveryInv == "crash" \notin faults => FirstProcess

(* A younger batch may follow ordered ones.                                *)
LEMMA AppendOrdered ==
  ASSUME NEW batches \in Seq(Seq(Nat)), NEW s \in Seq(Nat), NEW n, Ordered(batches, n),
         Job!Increasing(s), Before(s, n), \A i \in DOMAIN batches : EarlierThan(batches[i], s)
  PROVE  Ordered(Append(batches, s), n)
<1> DEFINE more == Append(batches, s)
<1>1. /\ Len(batches) \in Nat /\ DOMAIN batches = 1..Len(batches)
      /\ DOMAIN more = 1..Len(batches) + 1 /\ more[Len(batches) + 1] = s
      /\ \A i \in 1..Len(batches) : more[i] = batches[i]
  OBVIOUS
<1> HIDE DEF more
<1>2. \A i \in DOMAIN more : Job!Increasing(more[i]) /\ Before(more[i], n)
  <2> SUFFICES ASSUME NEW i \in DOMAIN more PROVE Job!Increasing(more[i]) /\ Before(more[i], n)
    OBVIOUS
  <2>1. CASE i = Len(batches) + 1
    BY <1>1, <2>1
  <2>2. CASE i # Len(batches) + 1
    BY <1>1, <2>2 DEF Ordered
  <2> QED  BY <2>1, <2>2
<1>3. \A i, j \in DOMAIN more : i < j => EarlierThan(more[i], more[j])
  <2> SUFFICES ASSUME NEW i \in DOMAIN more, NEW j \in DOMAIN more, i < j
               PROVE  EarlierThan(more[i], more[j])
    OBVIOUS
  <2>1. i \in 1..Len(batches) /\ more[i] = batches[i]
    BY <1>1
  <2>2. CASE j = Len(batches) + 1
    BY <1>1, <2>1, <2>2
  <2>3. CASE j # Len(batches) + 1
    <3>1. j \in 1..Len(batches)
      BY <1>1, <2>3
    <3>2. i \in DOMAIN batches /\ j \in DOMAIN batches /\ more[j] = batches[j]
      BY <1>1, <2>1, <3>1
    <3>3. EarlierThan(batches[i], batches[j])
      BY <3>2 DEF Ordered
    <3> QED  BY <2>1, <3>2, <3>3
  <2> QED  BY <2>2, <2>3
<1>4. Ordered(more, n)
  BY <1>2, <1>3 DEF Ordered
<1> QED  BY <1>4 DEF more

(* What is before a number is before a larger one.                         *)
LEMMA OrderedLarger ==
  ASSUME NEW batches \in Seq(Seq(Nat)), NEW m \in Nat, NEW n \in Nat, m <= n,
         Ordered(batches, m)
  PROVE  Ordered(batches, n)
<1>1. \A i \in DOMAIN batches : batches[i] \in Seq(Nat)
  OBVIOUS
<1> QED  BY <1>1, BeforeLarger DEF Ordered

(* The newest sample, or the next, has a number.                           *)
LEMMA NewerType ==
  /\ taken \in Nat => NewerThanBuffer \in Nat
  /\ taken' \in Nat => NewerThanBuffer' \in Nat
  BY DEF NewerThanBuffer

(* A step that neither sends nor fills the buffer keeps the order.         *)
LEMMA QuietDelivery ==
  ASSUME TypeOK, DeliveryInv, UNCHANGED <<trickle_buf, trickles>>, taken' \in Nat,
         NewerThanBuffer <= NewerThanBuffer', "crash" \in faults => "crash" \in faults',
         FirstProcess => (pc' \in Starting => pc' # "restore" /\ ~data_bin_exists')
  PROVE  DeliveryInv'
<1> SUFFICES ASSUME FirstProcess PROVE FirstProcess'
  BY DEF DeliveryInv
<1>1. trickles \in Seq(Seq(Nat))
  BY DEF TypeOK, SamplesOK
<1>2. NewerThanBuffer \in Nat /\ NewerThanBuffer' \in Nat
  BY NewerType DEF TypeOK, CountersOK
<1>3. Ordered(trickles, NewerThanBuffer')
  BY <1>1, <1>2, OrderedLarger DEF FirstProcess
<1> QED  BY <1>3 DEF FirstProcess, Ordered, EarlierThan, Before, Job!Increasing

(* A send puts the buffer after what was delivered.                        *)
LEMMA OrderedAfterSend ==
  ASSUME TypeOK, OrderInv, FirstProcess, NEW accepted \in BOOLEAN, SendTrickle(accepted)
  PROVE  Ordered(trickles', NewerThanBuffer) /\ trickles' \in Seq(Seq(Nat))
<1>1. trickles \in Seq(Seq(Nat)) /\ trickle_buf \in Seq(Nat)
  BY DEF TypeOK, SamplesOK
<1>2. CASE ~accepted
  BY <1>1, <1>2 DEF SendTrickle, FirstProcess
<1>3. CASE accepted
  <2>1. trickles' = Append(trickles, trickle_buf)
    BY <1>3 DEF SendTrickle, Payload
  <2>2. Job!Increasing(trickle_buf) /\ Before(trickle_buf, NewerThanBuffer)
    BY DEF OrderInv, BufferInOrder
  <2>3. Ordered(Append(trickles, trickle_buf), NewerThanBuffer)
    BY <1>1, <2>2, AppendOrdered DEF FirstProcess
  <2> QED  BY <1>1, <2>1, <2>3
<1> QED  BY <1>2, <1>3

(* So does the send of the lost-sensor and exit paths, which clears it.    *)
LEMMA SendPendingDelivery ==
  ASSUME TypeOK, OrderInv, DeliveryInv, SendPending, UNCHANGED taken,
         pc \notin Unbuffered, pc' \notin Unbuffered \cup Starting
  PROVE  DeliveryInv'
<1>1. NewerThanBuffer' = NewerThanBuffer /\ taken' \in Nat /\ NewerThanBuffer \in Nat
  BY DEF NewerThanBuffer, TypeOK, CountersOK
<1>2. "crash" \in faults => "crash" \in faults'
  BY DEF SendPending, SendTrickle
<1>3. CASE UNCHANGED trickles /\ UNCHANGED trickle_buf
  BY <1>1, <1>2, <1>3, QuietDelivery
<1>4. CASE SendTrickle(TRUE) /\ trickle_buf' = <<>>
  <2> SUFFICES ASSUME FirstProcess PROVE FirstProcess'
    BY <1>2 DEF DeliveryInv
  <2>1. Ordered(trickles', NewerThanBuffer')
    BY <1>1, <1>4, OrderedAfterSend
  <2>2. DOMAIN trickle_buf' = {}
    BY <1>4
  <2> QED
    BY <2>1, <2>2 DEF FirstProcess, Ordered, EarlierThan, Before, Job!Increasing
<1>5. (UNCHANGED trickles /\ UNCHANGED trickle_buf) \/ (SendTrickle(TRUE) /\ trickle_buf' = <<>>)
  BY DEF SendPending, SendTrickle, KeepBuffer, ClearBuffer
<1> QED  BY <1>3, <1>4, <1>5

(* Each send takes the whole buffer, what stays or comes is newer.         *)
LEMMA DeliveryInvariant == Spec => []DeliveryInv
<1>1. Init => DeliveryInv
  <2> SUFFICES ASSUME Init PROVE DeliveryInv
    OBVIOUS
  <2>1. pc = "boot" /\ ~data_bin_exists /\ DOMAIN trickles = {}
    BY DEF Init
  <2> QED  BY <2>1 DEF DeliveryInv, FirstProcess, Ordered
<1>2. TypeOK /\ OrderInv /\ DeliveryInv /\ [Next]_vars => DeliveryInv'
  <2> SUFFICES ASSUME TypeOK, OrderInv, DeliveryInv, [Next]_vars PROVE DeliveryInv'
    OBVIOUS
  <2> USE DEF Starting, Unbuffered
  <2>0. taken \in Nat
    BY DEF TypeOK, CountersOK
  <2> DEFINE Quiet ==
        /\ UNCHANGED <<trickle_buf, trickles, faults>>
        /\ taken' \in Nat /\ NewerThanBuffer <= NewerThanBuffer'
        /\ FirstProcess => (pc' \in Starting => pc' # "restore" /\ ~data_bin_exists')
  <2>1. CASE Boot \/ BadConfig \/ ResumeFresh \/ TryAlmostDoneExit \/ ResumeDataBin
             \/ TryOneComOpen \/ SleepRetryDelay \/ NoDetector
    <3>1. Quiet
      BY <2>0, <2>1 DEF Boot, BadConfig, ResumeFresh, TryAlmostDoneExit, ResumeDataBin,
         TryOneComOpen, SleepRetryDelay, NoDetector, FinishJob, NewerThanBuffer, FirstProcess
    <3> QED  BY <3>1, QuietDelivery
  <2>2. CASE EnterMainLoop \/ LoopTop \/ QuitPolled \/ TryComReopen \/ ReadSample
             \/ ReadFailed \/ ReportFraction \/ WaitSampleInterval \/ FinishClose
    <3>1. Quiet
      BY <2>0, <2>2 DEF EnterMainLoop, LoopTop, QuitPolled, TryComReopen, ReadSample, ReadFailed,
         ReportFraction, WaitSampleInterval, FinishClose, FinishJob, NewerThanBuffer
    <3> QED  BY <3>1, QuietDelivery
  <2>3. CASE FlushLine \/ SkipCheckpoint \/ TruncateCheckpoint \/ PersistTrickleCheckpoint
    <3>1. Quiet
      BY <2>0, <2>3 DEF FlushLine, SkipCheckpoint, TruncateCheckpoint,
         PersistTrickleCheckpoint, NewerThanBuffer
    <3> QED  BY <3>1, QuietDelivery
  <2>4. CASE UNCHANGED vars
    <3>1. Quiet
      BY <2>0, <2>4 DEF NewerThanBuffer, FirstProcess
    <3> QED  BY <3>1, QuietDelivery
  <2>5. CASE OpenDataBin
    <3>1. UNCHANGED <<trickle_buf, trickles, taken>> /\ pc = "append" /\ pc' \in {"trickle", "ckpt"}
          /\ ("crash" \in faults => "crash" \in faults')
      BY <2>5 DEF OpenDataBin
    <3>2. NewerThanBuffer <= NewerThanBuffer'
      BY <2>0, <3>1 DEF NewerThanBuffer
    <3> QED  BY <2>0, <3>1, <3>2, QuietDelivery
  <2>6. CASE RestoreTrickleCheckpoint
    BY <2>6 DEF RestoreTrickleCheckpoint, DeliveryInv, FirstProcess
  <2>7. CASE LostSensor
    BY <2>7, SendPendingDelivery DEF LostSensor
  <2>8. CASE FinishSend
    BY <2>8, SendPendingDelivery DEF FinishSend
  <2>9. CASE BufferOrSend
    <3>1. pc = "trickle" /\ pc' = "flush" /\ UNCHANGED taken
          /\ ("crash" \in faults => "crash" \in faults')
      BY <2>9 DEF BufferOrSend, SendTrickle
    <3> SUFFICES ASSUME FirstProcess PROVE FirstProcess'
      BY <3>1 DEF DeliveryInv
    <3>2. NewerThanBuffer = taken /\ NewerThanBuffer' = taken + 1
      BY <3>1 DEF NewerThanBuffer
    <3>3. trickles \in Seq(Seq(Nat)) /\ trickle_buf \in Seq(Nat)
      BY DEF TypeOK, SamplesOK
    <3>4. Ordered(trickles', taken) /\ trickles' \in Seq(Seq(Nat))
      <4>1. UNCHANGED trickles \/ \E accepted \in BOOLEAN : SendTrickle(accepted)
        BY <2>9 DEF BufferOrSend
      <4> QED  BY <3>2, <3>3, <4>1, OrderedAfterSend DEF FirstProcess
    <3>5. Ordered(trickles', taken + 1)
      BY <2>0, <3>4, OrderedLarger
    <3>6. \A i \in DOMAIN trickles' : EarlierThan(trickles'[i], trickle_buf')
      <4>1. CASE trickle_buf' = <<taken>>
        <5>1. DOMAIN trickle_buf' = {1} /\ trickle_buf'[1] = taken
          BY <4>1
        <5> QED  BY <3>4, <5>1 DEF EarlierThan, Ordered, Before
      <4>2. CASE trickle_buf' = Append(trickle_buf, taken) /\ UNCHANGED trickles
        <5>1. /\ DOMAIN trickle_buf' = 1..Len(trickle_buf) + 1 /\ Len(trickle_buf) \in Nat
              /\ DOMAIN trickle_buf = 1..Len(trickle_buf)
              /\ trickle_buf'[Len(trickle_buf) + 1] = taken
              /\ \A l \in 1..Len(trickle_buf) : trickle_buf'[l] = trickle_buf[l]
          BY <3>3, <4>2
        <5> SUFFICES ASSUME NEW i \in DOMAIN trickles, NEW k \in DOMAIN trickles[i],
                            NEW l \in DOMAIN trickle_buf'
                     PROVE  trickles[i][k] < trickle_buf'[l]
          BY <4>2 DEF EarlierThan
        <5>2. CASE l = Len(trickle_buf) + 1
          BY <3>2, <5>1, <5>2 DEF FirstProcess, Ordered, Before
        <5>3. CASE l # Len(trickle_buf) + 1
          BY <5>1, <5>3 DEF FirstProcess, EarlierThan
        <5> QED  BY <5>2, <5>3
      <4> QED
        BY <2>9, <4>1, <4>2 DEF BufferOrSend, KeepAlone, AppendToBuffer
    <3> QED
      BY <3>1, <3>2, <3>5, <3>6
      DEF FirstProcess, Ordered, EarlierThan, Before, Job!Increasing
  <2>10. CASE Crash
    BY <2>10 DEF Crash, DeliveryInv
  <2> QED
    BY <2>1, <2>2, <2>3, <2>4, <2>5, <2>6, <2>7, <2>8, <2>9, <2>10
    DEF Next, AppStep, StartUp, OpenCom, Iterate, WriteOut, Finish, Terminated
<1> QED
  BY <1>1, <1>2, TypeCorrect, OrderInvariant, PTL DEF Spec

(* Ordered batches are in the order of reading.                            *)
LEMMA OrderedIsReadingOrder ==
  ASSUME NEW batches \in Seq(Seq(Nat)), NEW n, Ordered(batches, n)
  PROVE  InReadingOrder(batches)
  BY DEF Ordered, InReadingOrder, EarlierThan, Job!Increasing

(* Without a crash no sample is delivered twice, or delivered and still    *)
(* buffered, and none overtakes another, for every interval and limit.     *)
THEOREM DeliveredOnce == Spec => []OnceWithoutCrash
<1>1. TypeOK /\ OrderInv /\ DeliveryInv => OnceWithoutCrash
  <2> SUFFICES ASSUME TypeOK, OrderInv, FirstProcess
               PROVE  InReadingOrder(Append(trickles, trickle_buf))
    BY DEF DeliveryInv, OnceWithoutCrash
  <2>1. trickles \in Seq(Seq(Nat)) /\ trickle_buf \in Seq(Nat)
    BY DEF TypeOK, SamplesOK
  <2>2. Ordered(Append(trickles, trickle_buf), NewerThanBuffer)
    BY <2>1, AppendOrdered DEF FirstProcess, OrderInv, BufferInOrder
  <2>3. Append(trickles, trickle_buf) \in Seq(Seq(Nat))
    BY <2>1
  <2> QED  BY <2>2, <2>3, OrderedIsReadingOrder
<1> QED  BY <1>1, TypeCorrect, OrderInvariant, DeliveryInvariant, PTL
-----------------------------------------------------------------------------
(* Everything delivered.                                                   *)

(* While nothing has failed every line is delivered or buffered, and at    *)
(* the end of the exit path nothing is buffered any more.                  *)
Account ==
    /\ Uploaded \cup Range(trickle_buf)
          = Range(data_bin) \cup (IF pc = "flush" THEN {taken} ELSE {})
    /\ pc = "close" \/ exit = "complete" => trickle_buf = <<>> /\ pc # "flush"
AccountInv == faults = {} => Account

(* Faults are not forgotten.                                               *)
LEMMA FaultsStay ==
  ASSUME [Next]_vars PROVE faults \subseteq faults'
<1>1. CASE UNCHANGED faults
  BY <1>1
<1>2. CASE LostSensor \/ FinishSend
  BY <1>2 DEF LostSensor, FinishSend, SendPending, SendTrickle
<1>3. CASE OpenDataBin \/ BufferOrSend \/ Crash
  BY <1>3 DEF OpenDataBin, BufferOrSend, SendTrickle, Crash
<1>4. CASE StartUp \/ OpenCom
  BY <1>4 DEF StartUp, OpenCom, Boot, BadConfig, ResumeFresh, TryAlmostDoneExit, ResumeDataBin,
     RestoreTrickleCheckpoint, TryOneComOpen, SleepRetryDelay, NoDetector
<1>5. CASE EnterMainLoop \/ LoopTop \/ QuitPolled \/ TryComReopen \/ ReadSample
           \/ ReadFailed \/ ReportFraction \/ WaitSampleInterval \/ FinishClose
  BY <1>5 DEF EnterMainLoop, LoopTop, QuitPolled, TryComReopen, ReadSample, ReadFailed,
     ReportFraction, WaitSampleInterval, FinishClose
<1>6. CASE FlushLine \/ SkipCheckpoint \/ TruncateCheckpoint \/ PersistTrickleCheckpoint
  BY <1>6 DEF FlushLine, SkipCheckpoint, TruncateCheckpoint, PersistTrickleCheckpoint
<1> QED
  BY <1>1, <1>2, <1>3, <1>4, <1>5, <1>6 DEF Next, AppStep, Iterate, WriteOut, Finish, Terminated

(* A send that is not refused moves the buffer to what was delivered.      *)
LEMMA SendMoves ==
  ASSUME TypeOK, NEW accepted \in BOOLEAN, SendTrickle(accepted), "send" \notin faults'
  PROVE  Uploaded' = Uploaded \cup Range(trickle_buf)
<1>1. trickles' = Append(trickles, trickle_buf)
  BY DEF SendTrickle, Payload
<1>2. trickles \in Seq(Seq(Nat)) /\ trickle_buf \in Seq(Nat)
  BY DEF TypeOK, SamplesOK
<1>3. /\ DOMAIN trickles' = DOMAIN trickles \cup {Len(trickles) + 1}
      /\ trickles'[Len(trickles) + 1] = trickle_buf
      /\ \A i \in DOMAIN trickles : trickles'[i] = trickles[i]
  <2>1. Len(trickles) \in Nat /\ DOMAIN trickles = 1..Len(trickles)
        /\ DOMAIN trickles' = 1..Len(trickles) + 1
    BY <1>1, <1>2
  <2>2. trickles'[Len(trickles) + 1] = trickle_buf
        /\ \A i \in 1..Len(trickles) : trickles'[i] = trickles[i]
    BY <1>1, <1>2
  <2> QED  BY <2>1, <2>2
<1> QED  BY <1>3 DEF Uploaded

(* What is pending has a length, so that nothing is left behind.           *)
LEMMA SendPendingMoves ==
  ASSUME TypeOK, BufferInv, ContentInv, SendPending, "send" \notin faults'
  PROVE  trickle_buf' = <<>> /\ Uploaded' = Uploaded \cup Range(trickle_buf)
<1>1. CASE HasPending
  <2>1. PICK accepted \in BOOLEAN :
           SendTrickle(accepted) /\ (IF accepted THEN ClearBuffer ELSE KeepBuffer)
    BY <1>1 DEF SendPending
  <2>2. accepted
    BY <2>1 DEF SendTrickle
  <2> QED  BY <2>1, <2>2, SendMoves DEF ClearBuffer
<1>2. CASE ~HasPending
  <2>1. trickle_pending = Len(trickle_buf) /\ trickle_buf \in Seq(Nat)
        /\ trickle_pending \in Nat /\ trickle_msg_len \in Nat
    BY DEF BufferInv, BufferFits, TypeOK, SamplesOK, CountersOK
  <2>2. trickle_buf = <<>>
    <3>1. trickle_pending = 0 \/ trickle_msg_len = 0
      BY <1>2, <2>1 DEF HasPending
    <3>2. \A s \in Seq(Nat) : Len(s) = 0 => s = <<>>
      OBVIOUS
    <3>3. trickle_pending = 0 => trickle_buf = <<>>
      BY <2>1, <3>2
    <3> QED  BY <3>1, <3>3 DEF ContentInv
  <2>3. UNCHANGED trickles /\ UNCHANGED trickle_buf
    BY <1>2 DEF SendPending, KeepBuffer
  <2> QED  BY <2>2, <2>3, UploadedSame, EmptyRange
<1> QED  BY <1>1, <1>2

(* Every sample goes from the buffer to a trickle, and to a line.          *)
LEMMA AccountInvariant == Spec => []AccountInv
<1>1. Init => AccountInv
  <2> SUFFICES ASSUME Init PROVE Account
    BY DEF AccountInv
  <2>1. pc = "boot" /\ exit = "none" /\ trickle_buf = <<>> /\ data_bin = <<>> /\ Uploaded = {}
    BY DEF Init, FreshMemory, Uploaded
  <2> QED  BY <2>1, EmptyRange DEF Account
<1>2. TypeOK /\ PortInv /\ BufferInv /\ ContentInv /\ DeliveryInv /\ AccountInv /\ [Next]_vars
         => AccountInv'
  <2> SUFFICES ASSUME TypeOK, PortInv, BufferInv, ContentInv, DeliveryInv, Account, [Next]_vars,
                      faults = {}, faults' = {}
               PROVE  Account'
    BY FaultsStay DEF AccountInv
  <2>0. exit = "complete" => pc = "done"
    BY DEF PortInv
  <2> DEFINE Quiet ==
        /\ UNCHANGED <<trickle_buf, trickles, data_bin, taken>>
        /\ pc # "flush" /\ pc' \notin {"close", "flush"}
        /\ exit' = "complete" => exit = "complete" \/ pc = "close"
  <2>A. ASSUME Quiet PROVE Account'
    BY <2>A, UploadedSame DEF Account
  <2>1. CASE Boot \/ BadConfig \/ ResumeFresh \/ TryAlmostDoneExit \/ ResumeDataBin
             \/ TryOneComOpen \/ SleepRetryDelay \/ NoDetector
    <3>1. Quiet
      BY <2>1 DEF Boot, BadConfig, ResumeFresh, TryAlmostDoneExit, ResumeDataBin,
         TryOneComOpen, SleepRetryDelay, NoDetector, FinishJob
    <3> QED  BY <3>1, <2>A
  <2>2. CASE EnterMainLoop \/ LoopTop \/ QuitPolled \/ TryComReopen \/ ReadFailed
             \/ ReportFraction \/ WaitSampleInterval \/ FinishClose
    <3>1. Quiet
      BY <2>2 DEF EnterMainLoop, LoopTop, QuitPolled, TryComReopen, ReadFailed,
         ReportFraction, WaitSampleInterval, FinishClose, FinishJob
    <3> QED  BY <3>1, <2>A
  <2>3. CASE OpenDataBin \/ SkipCheckpoint \/ TruncateCheckpoint \/ PersistTrickleCheckpoint
    <3>1. Quiet
      BY <2>3 DEF OpenDataBin, SkipCheckpoint, TruncateCheckpoint, PersistTrickleCheckpoint
    <3> QED  BY <3>1, <2>A
  <2>4. CASE UNCHANGED vars
    BY <2>4, UploadedSame DEF Account
  <2>5. CASE ReadSample
    <3>1. UNCHANGED <<trickle_buf, trickles, data_bin, exit>> /\ pc = "read" /\ pc' = "append"
      BY <2>5 DEF ReadSample
    <3> QED  BY <2>0, <3>1, UploadedSame DEF Account
  <2>6. CASE FlushLine
    <3>1. UNCHANGED <<trickle_buf, trickles, taken, exit>> /\ pc = "flush" /\ pc' = "ckpt"
          /\ data_bin' = Append(data_bin, taken)
      BY <2>6 DEF FlushLine
    <3>2. data_bin \in Seq(Nat) /\ taken \in Nat
      BY DEF TypeOK, SamplesOK, CountersOK
    <3>3. Range(data_bin') = Range(data_bin) \cup {taken}
      BY <3>1, <3>2, RangeAppend
    <3> QED  BY <2>0, <3>1, <3>3, UploadedSame DEF Account
  <2>7. CASE RestoreTrickleCheckpoint
    BY <2>7 DEF RestoreTrickleCheckpoint, DeliveryInv, FirstProcess, Starting
  <2>8. CASE LostSensor \/ FinishSend
    <3>1. SendPending /\ UNCHANGED <<data_bin, exit>> /\ pc \notin {"flush", "done"} /\ pc' # "flush"
      BY <2>8 DEF LostSensor, FinishSend
    <3>2. trickle_buf' = <<>> /\ Uploaded' = Uploaded \cup Range(trickle_buf)
      BY <3>1, SendPendingMoves
    <3> QED  BY <2>0, <3>1, <3>2, EmptyRange DEF Account
  <2>9. CASE BufferOrSend
    <3>1. pc = "trickle" /\ pc' = "flush" /\ UNCHANGED <<data_bin, taken, exit>>
      BY <2>9 DEF BufferOrSend
    <3>2. trickle_buf \in Seq(Nat) /\ taken \in Nat
      BY DEF TypeOK, SamplesOK, CountersOK
    <3>3. Uploaded' \cup Range(trickle_buf') = Uploaded \cup Range(trickle_buf) \cup {taken}
      <4>1. CASE trickle_buf' = Append(trickle_buf, taken) /\ UNCHANGED trickles
        BY <3>2, <4>1, UploadedSame, RangeAppend
      <4>2. CASE trickle_buf' = <<taken>> /\ \E accepted \in BOOLEAN : SendTrickle(accepted)
        <5>1. PICK accepted \in BOOLEAN : SendTrickle(accepted)
          BY <4>2
        <5>2. Uploaded' = Uploaded \cup Range(trickle_buf)
          BY <5>1, SendMoves
        <5>3. Range(<<taken>>) = {taken}
          BY DEF Range
        <5> QED  BY <4>2, <5>2, <5>3
      <4>3. CASE trickle_buf' = <<taken>> /\ ~SomethingToSend /\ UNCHANGED trickles
        <5>1. trickle_buf = <<>>
          BY <4>3 DEF SomethingToSend, ContentInv
        <5>2. Range(<<taken>>) = {taken}
          BY DEF Range
        <5> QED  BY <4>3, <5>1, <5>2, EmptyRange, UploadedSame
      <4> QED
        BY <2>9, <4>1, <4>2, <4>3 DEF BufferOrSend, KeepAlone, AppendToBuffer
    <3> QED  BY <2>0, <3>1, <3>3 DEF Account
  <2>10. CASE Crash
    BY <2>10 DEF Crash
  <2> QED
    BY <2>1, <2>2, <2>3, <2>4, <2>5, <2>6, <2>7, <2>8, <2>9, <2>10
    DEF Next, AppStep, StartUp, OpenCom, Iterate, WriteOut, Finish, Terminated
<1> QED
  BY <1>1, <1>2, TypeCorrect, PortInvariant, BufferInvariant, ContentInvariant,
     DeliveryInvariant, PTL DEF Spec

(* A job that ran to its quota, and to which nothing happened, has every   *)
(* line in a trickle, in order and once (finish_and_exit_with_trickle).    *)
THEOREM AllDelivered == Spec => []EverythingDelivered
<1>1. TypeOK /\ DeliveryInv /\ AccountInv => EverythingDelivered
  <2> SUFFICES ASSUME TypeOK, DeliveryInv, AccountInv, exit = "complete",
                      faults \cap {"crash", "send", "append"} = {}
               PROVE  Uploaded = Range(data_bin) /\ InReadingOrder(trickles)
    BY DEF EverythingDelivered
  <2>1. faults = {}
    BY DEF TypeOK, SamplesOK
  <2>2. Uploaded = Range(data_bin)
    BY <2>1, EmptyRange DEF AccountInv, Account
  <2>3. Ordered(trickles, NewerThanBuffer) /\ trickles \in Seq(Seq(Nat))
    BY <2>1 DEF DeliveryInv, FirstProcess, TypeOK, SamplesOK
  <2> QED  BY <2>2, <2>3, OrderedIsReadingOrder
<1> QED  BY <1>1, TypeCorrect, DeliveryInvariant, AccountInvariant, PTL
=============================================================================
