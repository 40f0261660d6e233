---------------------------- MODULE GmcLinkProofs ----------------------------
(***************************************************************************)
(* Theorems about module GmcLink, for every device, every number of        *)
(* attempts and every threshold.                                           *)
(***************************************************************************)
EXTENDS GmcLink, SequenceTheorems, TLAPS

(* The failed exchanges of the present connection are those of the samples *)
(* given up and those of the present sample.                               *)
CountInv ==
    /\ tries \in Nat /\ tries < ReadAttempts
    /\ read_error_count \in Nat /\ silent \in Nat
    /\ pc \in {"ready", "getcpm", "missed"} =>
          /\ silent = read_error_count * ReadAttempts + tries
          /\ read_error_count <= ReadErrorThreshold
    /\ pc \in {"closed", "opened", "getver", "check", "failed", "lost"} => tries = 0
    /\ pc = "lost" => silent = Patience

(* One sample more costs ReadAttempts exchanges more.                      *)
LEMMA OneSampleMore ==
    ASSUME NEW r \in Nat, NEW a \in Nat PROVE (r + 1) * a = r * a + a
  OBVIOUS

(* Samples within the threshold stay under the patience.                   *)
LEMMA WithinPatience ==
    ASSUME NEW r \in Nat, NEW a \in Nat, NEW t \in Nat, NEW k \in Nat,
           t < a, r <= k
    PROVE  r * a + t < (k + 1) * a
  OBVIOUS

(* The count is kept by every step of the program, the device and the      *)
(* driver (do_one_sample_iteration, handle_read_error_and_lost_sensor).    *)
LEMMA CountInvariant == Spec => []CountInv
<1> USE LinkAssumption DEF GivesUp, NextAttempt, ForgetErrors
<1>1. Init => CountInv
  BY DEF Init, CountInv
<1>2. CountInv /\ [Next]_vars => CountInv'
  <2> SUFFICES ASSUME CountInv, [Next]_vars PROVE CountInv'
    OBVIOUS
  <2> USE DEF CountInv
  <2>1. CASE OpenPort
    BY <2>1 DEF OpenPort, hostVars
  <2>2. CASE SendGetVer
    BY <2>2 DEF SendGetVer
  <2>3. CASE ReadVersion
    BY <2>3 DEF ReadVersion
  <2>4. CASE CheckVersion
    <3>1. CASE pc' = "ready" /\ ForgetErrors /\ silent' = 0
      <4>1. tries' = 0
        BY <2>4 DEF CheckVersion
      <4>2. 0 = 0 * ReadAttempts + 0
        OBVIOUS
      <4> QED  BY <3>1, <4>1, <4>2
    <3>2. CASE pc' = "failed" /\ UNCHANGED <<read_error_count, silent>>
      BY <2>4, <3>2 DEF CheckVersion
    <3> QED  BY <2>4, <3>1, <3>2 DEF CheckVersion
  <2>5. CASE CloseFailed
    BY <2>5 DEF CloseFailed, hostVars
  <2>6. CASE SendGetCpm
    BY <2>6 DEF SendGetCpm
  <2>7. CASE ReadCpm
    <3>1. CASE pc' = "ready" /\ tries' = 0 /\ read_error_count' = 0 /\ silent' = 0
      <4>1. 0 = 0 * ReadAttempts + 0
        OBVIOUS
      <4> QED  BY <3>1, <4>1
    <3>2. CASE pc' \in {"getcpm", "missed"} /\ UNCHANGED <<tries, read_error_count, silent>>
      BY <2>7, <3>2 DEF ReadCpm
    <3> QED  BY <2>7, <3>1, <3>2 DEF ReadCpm
  <2>8. CASE MissedRead
    <3>1. CASE tries + 1 < ReadAttempts
      BY <2>8, <3>1 DEF MissedRead
    <3>2. CASE ~(tries + 1 < ReadAttempts)
      <4>1. /\ tries' = 0 /\ read_error_count' = read_error_count + 1
            /\ tries + 1 = ReadAttempts /\ silent' = silent + 1
            /\ pc' = IF read_error_count' > ReadErrorThreshold THEN "lost" ELSE "ready"
        BY <2>8, <3>2 DEF MissedRead
      <4>2. silent' = (read_error_count + 1) * ReadAttempts
        <5>1. silent = read_error_count * ReadAttempts + tries
          BY <2>8 DEF MissedRead
        <5> QED  BY <4>1, <5>1, OneSampleMore
      <4>3. pc' = "lost" => silent' = Patience
        <5>1. pc' = "lost" => read_error_count = ReadErrorThreshold
          BY <2>8, <4>1 DEF MissedRead
        <5> QED  BY <4>2, <5>1 DEF Patience
      <4>4. pc' \in {"ready", "lost"}
        BY <4>1
      <4>5. pc' = "ready" => read_error_count' <= ReadErrorThreshold
        BY <4>1
      <4>6. silent' = read_error_count' * ReadAttempts + tries'
        BY <4>1, <4>2
      <4>7. silent' \in Nat
        BY <4>1
      <4> QED  BY <4>1, <4>3, <4>4, <4>5, <4>6, <4>7 DEF Patience
    <3> QED  BY <3>1, <3>2
  <2>9. CASE CloseLost
    <3>1. pc = "lost" /\ pc' = "closed" /\ UNCHANGED hostVars
      BY <2>9 DEF CloseLost
    <3> QED  BY <3>1 DEF hostVars
  <2>10. CASE Arrive
    BY <2>10 DEF Arrive, hostVars
  <2>11. CASE Beat
    BY <2>11 DEF Beat, hostVars
  <2>12. CASE UNCHANGED vars
    BY <2>12 DEF vars, hostVars
  <2> QED  BY <2>1, <2>2, <2>3, <2>4, <2>5, <2>6, <2>7, <2>8, <2>9, <2>10, <2>11, <2>12
           DEF Next, HostStep, InitDevice, ReadDevice, Idle
<1> QED  BY <1>1, <1>2, PTL DEF Spec

(* A detector is given up after exactly READ_ERROR_THRESHOLD + 1 samples   *)
(* with READ_ATTEMPTS_PER_SAMPLE failed exchanges each, never sooner and   *)
(* never later, for every device.                                          *)
THEOREM LossCounted == Spec => []LossIsExact
<1>1. CountInv => LossIsExact
  <2> SUFFICES ASSUME CountInv PROVE LossIsExact
    OBVIOUS
  <2>1. ASSUME pc \in {"ready", "getcpm"} PROVE silent < Patience
    <3>1. /\ silent = read_error_count * ReadAttempts + tries
          /\ read_error_count <= ReadErrorThreshold
      BY <2>1 DEF CountInv
    <3>2. read_error_count \in Nat /\ tries \in Nat /\ tries < ReadAttempts
      BY DEF CountInv
    <3>3. ReadAttempts \in Nat /\ ReadErrorThreshold \in Nat
      BY LinkAssumption
    <3> QED  BY <3>1, <3>2, <3>3, WithinPatience DEF Patience
  <2>2. pc = "lost" => silent = Patience
    BY DEF CountInv
  <2> QED  BY <2>1, <2>2 DEF LossIsExact
<1> QED  BY <1>1, CountInvariant, PTL

(* The main loop sees of the conversation what DetectorUse allows, with    *)
(* every device: one loss, at the threshold, and a new count on opening.   *)
THEOREM DetectorServed == Spec => ImplementsDetector
<1> USE LinkAssumption DEF Link
<1>1. Init => Detector!Init
  BY DEF Init, Detector!Init
<1>2. CountInv /\ [Next]_vars => [Detector!Next]_(Detector!vars)
  <2> SUFFICES ASSUME CountInv, [Next]_vars
               PROVE  Detector!Next \/ UNCHANGED <<Link, read_error_count>>
    BY DEF Detector!vars
  <2>1. CASE OpenPort \/ CloseFailed
    BY <2>1 DEF OpenPort, CloseFailed, hostVars
  <2>2. CASE SendGetVer \/ ReadVersion \/ SendGetCpm
    BY <2>2 DEF SendGetVer, ReadVersion, SendGetCpm
  <2>3. CASE CheckVersion
    BY <2>3 DEF CheckVersion, ForgetErrors, Detector!Next, Detector!Open
  <2>4. CASE ReadCpm
    BY <2>4 DEF ReadCpm, Detector!Next, Detector!Sample
  <2>5. CASE MissedRead
    <3>1. read_error_count \in Nat /\ read_error_count <= ReadErrorThreshold /\ pc = "missed"
      BY <2>5 DEF MissedRead, CountInv
    <3>2. CASE tries + 1 < ReadAttempts
      BY <2>5, <3>2 DEF MissedRead
    <3>3. CASE ~(tries + 1 < ReadAttempts) /\ read_error_count = ReadErrorThreshold
      BY <2>5, <3>1, <3>3 DEF MissedRead, GivesUp, Detector!Next, Detector!Lose
    <3>4. CASE ~(tries + 1 < ReadAttempts) /\ read_error_count # ReadErrorThreshold
      BY <2>5, <3>1, <3>4 DEF MissedRead, GivesUp, Detector!Next, Detector!Miss
    <3> QED  BY <3>2, <3>3, <3>4
  <2>6. CASE CloseLost
    BY <2>6 DEF CloseLost, hostVars, Detector!Next, Detector!Close
  <2>7. CASE Arrive \/ Beat
    BY <2>7 DEF Arrive, Beat, hostVars
  <2>8. CASE UNCHANGED vars
    BY <2>8 DEF vars, hostVars
  <2> QED  BY <2>1, <2>2, <2>3, <2>4, <2>5, <2>6, <2>7, <2>8
           DEF Next, HostStep, InitDevice, ReadDevice, Idle
<1> QED  BY <1>1, <1>2, CountInvariant, PTL DEF Spec, ImplementsDetector, Detector!Spec

-----------------------------------------------------------------------------
(* The answers.                                                            *)

(* A sequence with elements is not empty.                                  *)
LEMMA NotEmpty == ASSUME NEW s, Len(s) > 0 PROVE s # <<>>
<1>1. Len(<<>>) = 0
  OBVIOUS
<1> QED  BY <1>1

(* A version is so many bytes.                                             *)
LEMMA VersionType ==
  ASSUME NEW kind \in {"ver", "other"}
  PROVE  Version(kind) \in Seq(Bytes) /\ Len(Version(kind)) = VersionLen
<1>1. Version(kind) \in [1..VersionLen -> Bytes]
  BY LinkAssumption DEF Version, Byte, Bytes
<1>2. Version(kind) \in Seq(Bytes)
  BY <1>1, SeqDef, LinkAssumption
<1>3. 1..Len(Version(kind)) = 1..VersionLen /\ Len(Version(kind)) \in Nat
  BY <1>1, <1>2, LenProperties
<1> QED  BY <1>2, <1>3, LinkAssumption

(* The preamble and a count are two bytes.                                 *)
LEMMA TwoBytes ==
  ASSUME NEW n \in Nat
  PROVE  /\ Preamble \in Seq(Bytes) /\ Len(Preamble) = 2
         /\ Answer(n) \in Seq(Bytes) /\ Len(Answer(n)) = 2
<1>1. /\ Byte("pre", 0, 1) \in Bytes /\ Byte("pre", 0, 2) \in Bytes
      /\ Byte("cpm", n, 1) \in Bytes /\ Byte("cpm", n, 2) \in Bytes
  BY DEF Byte, Bytes
<1> QED  BY <1>1 DEF Preamble, Answer

-----------------------------------------------------------------------------
(* A device in time.                                                       *)

(* An answer of several bytes: nothing of it is empty.                     *)
Several(a) == a \in Seq(Bytes) /\ Len(a) > 1
First(a) == SubSeq(a, 1, 1)

Quiet == rx = <<>> /\ wire = <<>>
(* The answer a is all there is, still on its way or already there.        *)
Coming(a) ==
    \/ rx = <<>> /\ wire = <<a>>
    \/ rx = a /\ wire = <<>>
    \/ "coalesce" \in device /\ rx = <<>> /\ wire = <<First(a), Tail(a)>>
    \/ "coalesce" \in device /\ rx = First(a) /\ wire = <<Tail(a)>>
(* A greeting comes before it, and is read first.                          *)
Greeting(a) ==
    /\ "coalesce" \notin device
    /\ \/ rx = <<>> /\ wire = <<Preamble, a>>
       \/ rx = Preamble /\ wire = <<a>>
VersionComing ==
    \/ Quiet
    \/ /\ version_buf = <<>> /\ attempt \in {0, 1}
       /\ \E kind \in {"ver", "other"} :
             Coming(Version(kind)) \/ (attempt = 0 /\ Greeting(Version(kind)))
AnswerComing == Quiet \/ Coming(Answer(asked))
(* Between two commands the line is quiet, and what is on it while one is  *)
(* being answered is that answer.                                          *)
InTimeInv ==
    InTime =>
       /\ reading = NoReading \/ reading.bytes = Answer(reading.request)
       /\ asked \in Nat
       /\ pc \notin {"getver", "getcpm"} => Quiet
       /\ pc = "getver" => VersionComing
       /\ pc = "getcpm" => AnswerComing

(* What such a device does not do.                                         *)
LEMMA InTimeHabits ==
  ASSUME InTime
  PROVE  /\ "late" \notin device /\ "ioError" \notin device /\ "heartbeat" \notin device
         /\ "split" \in device => "coalesce" \in device
         /\ "preamble" \in device => "coalesce" \notin device
         /\ "preamble" \in device => "split" \notin device
  BY DEF InTime, Prompt, Greeter

(* Versions and counts are such answers, and the greeting is one too.      *)
LEMMA AnswersSeveral ==
  /\ Several(Preamble)
  /\ \A kind \in {"ver", "other"} : Several(Version(kind))
  /\ \A n \in Nat : Several(Answer(n))
<1>1. VersionLen > 1
  BY LinkAssumption
<1>2. Preamble \in Seq(Bytes) /\ Len(Preamble) = 2
  BY TwoBytes
<1>3. \A kind \in {"ver", "other"} : Several(Version(kind))
  BY <1>1, VersionType DEF Several
<1>4. \A n \in Nat : Several(Answer(n))
  <2> SUFFICES ASSUME NEW n \in Nat PROVE Several(Answer(n))
    OBVIOUS
  <2>1. Answer(n) \in Seq(Bytes) /\ Len(Answer(n)) = 2
    BY TwoBytes
  <2> QED  BY <2>1 DEF Several
<1> QED  BY <1>2, <1>3, <1>4 DEF Several

(* An answer in two chunks is the answer.                                  *)
LEMMA TwoChunks ==
  ASSUME NEW a, Several(a)
  PROVE  /\ a # <<>> /\ First(a) \in Seq(Bytes) /\ First(a) # <<>>
         /\ Tail(a) \in Seq(Bytes) /\ First(a) \o Tail(a) = a
<1>1. a \in Seq(Bytes) /\ Len(a) \in Nat /\ Len(a) > 1 /\ a # <<>>
  BY NotEmpty DEF Several
<1>2. /\ Tail(a) \in Seq(Bytes) /\ Len(Tail(a)) = Len(a) - 1
      /\ \A i \in 1..Len(Tail(a)) : Tail(a)[i] = a[i + 1]
  BY <1>1, HeadTailProperties
<1>3. First(a) \in Seq(Bytes) /\ Len(First(a)) = 1 /\ First(a)[1] = a[1]
  <2>1. \A i \in 1..1 : a[i] \in Bytes
    BY <1>1, ElementOfSeq
  <2> QED  BY <1>1, <2>1, SubSeqProperties DEF First
<1>4. /\ First(a) \o Tail(a) \in Seq(Bytes) /\ Len(First(a) \o Tail(a)) = Len(a)
      /\ \A i \in 1..Len(a) :
            (First(a) \o Tail(a))[i] = IF i <= 1 THEN First(a)[i] ELSE Tail(a)[i - 1]
  <2> DEFINE f == First(a)
             t == Tail(a)
  <2>1. f \in Seq(Bytes) /\ t \in Seq(Bytes) /\ Len(f) = 1 /\ Len(t) = Len(a) - 1
    BY <1>2, <1>3
  <2> HIDE DEF f, t
  <2>2. /\ f \o t \in Seq(Bytes) /\ Len(f \o t) = Len(f) + Len(t)
        /\ \A i \in 1..Len(f) + Len(t) : (f \o t)[i] = IF i <= Len(f) THEN f[i] ELSE t[i - Len(f)]
    BY <2>1, ConcatProperties
  <2>3. Len(f) + Len(t) = Len(a)
    BY <1>1, <2>1
  <2> QED  BY <2>1, <2>2, <2>3 DEF f, t
<1>5. \A i \in 1..Len(a) : (First(a) \o Tail(a))[i] = a[i]
  <2> SUFFICES ASSUME NEW i \in 1..Len(a) PROVE (First(a) \o Tail(a))[i] = a[i]
    OBVIOUS
  <2>1. CASE i = 1
    BY <1>1, <1>3, <1>4, <2>1
  <2>2. CASE i # 1
    <3>1. i - 1 \in 1..Len(Tail(a)) /\ (i - 1) + 1 = i /\ ~(i <= 1)
      BY <1>1, <1>2, <2>2
    <3> QED  BY <1>2, <1>4, <3>1
  <2> QED  BY <2>1, <2>2
<1>6. First(a) # <<>>
  BY <1>3, NotEmpty
<1> QED  BY <1>1, <1>2, <1>3, <1>4, <1>5, <1>6, SeqEqual

(* A greeting and the version, one after the other.                        *)
LEMMA Pair ==
  ASSUME NEW a \in Seq(Bytes), NEW b \in Seq(Bytes) PROVE <<a>> \o <<b>> = <<a, b>>
<1>1. <<a>> \in Seq(Seq(Bytes)) /\ <<b>> \in Seq(Seq(Bytes)) /\ <<a, b>> \in Seq(Seq(Bytes))
  OBVIOUS
<1>2. Len(<<a>>) = 1 /\ Len(<<b>>) = 1 /\ Len(<<a, b>>) = 2
  OBVIOUS
<1>3. /\ <<a>> \o <<b>> \in Seq(Seq(Bytes)) /\ Len(<<a>> \o <<b>>) = 2
      /\ (<<a>> \o <<b>>)[1] = a /\ (<<a>> \o <<b>>)[2] = b
  <2>1. \A i \in 1..2 : (<<a>> \o <<b>>)[i] = IF i <= 1 THEN <<a>>[i] ELSE <<b>>[i - 1]
    BY <1>1, <1>2, ConcatProperties
  <2>2. (<<a>> \o <<b>>)[1] = <<a>>[1] /\ (<<a>> \o <<b>>)[2] = <<b>>[1]
    BY <2>1
  <2> QED  BY <1>1, <1>2, <2>2, ConcatProperties
<1>4. \A i \in 1..2 : (<<a>> \o <<b>>)[i] = <<a, b>>[i]
  BY <1>3
<1> QED  BY <1>1, <1>2, <1>3, <1>4, SeqEqual

(* What a device in time may answer to a command.                          *)
WholeReply(a, reply) ==
    reply = <<a>> \/ ("coalesce" \in device /\ reply = <<First(a), Tail(a)>>)
LEMMA InTimeReplies ==
  ASSUME InTime
  PROVE  /\ \A reply \in VersionReplies :
               \/ reply = <<>>
               \/ \E kind \in {"ver", "other"} :
                     \/ WholeReply(Version(kind), reply)
                     \/ "coalesce" \notin device /\ reply = <<Preamble, Version(kind)>>
         /\ \A n \in Nat : \A reply \in CpmReplies(n) :
               reply = <<>> \/ WholeReply(Answer(n), reply)
<1>1. \A answer : \A reply \in Chunkings(answer) : WholeReply(answer, reply)
  BY InTimeHabits DEF Chunkings, WholeReply, First
<1>2. \A answer : "preamble" \in device => Chunkings(answer) = {<<answer>>}
  BY InTimeHabits DEF Chunkings
<1>3. Silence \subseteq {<<>>} /\ VersionKinds \subseteq {"ver", "other"}
  BY DEF Silence, VersionKinds
<1>4. \A n \in Nat : \A reply \in CpmReplies(n) : reply = <<>> \/ WholeReply(Answer(n), reply)
  BY <1>1, <1>3 DEF CpmReplies
<1>5. ASSUME NEW reply \in VersionReplies
      PROVE  \/ reply = <<>>
             \/ \E kind \in {"ver", "other"} :
                   \/ WholeReply(Version(kind), reply)
                   \/ "coalesce" \notin device /\ reply = <<Preamble, Version(kind)>>
  <2> DEFINE plain == UNION {Chunkings(Version(kind)) : kind \in VersionKinds}
  <2>1. \/ reply \in plain \/ reply \in Silence
        \/ "preamble" \in device /\ \E r \in plain : reply = <<Preamble>> \o r
    BY DEF VersionReplies
  <2>2. CASE reply \in plain
    BY <1>1, <1>3, <2>2
  <2>3. CASE reply \in Silence
    BY <1>3, <2>3
  <2>4. CASE "preamble" \in device /\ \E r \in plain : reply = <<Preamble>> \o r
    <3>1. PICK r \in plain : reply = <<Preamble>> \o r
      BY <2>4
    <3>2. PICK kind \in {"ver", "other"} : r = <<Version(kind)>>
      BY <1>2, <1>3, <2>4, <3>1
    <3>3. <<Preamble>> \o <<Version(kind)>> = <<Preamble, Version(kind)>>
      BY TwoBytes, VersionType, Pair
    <3> QED  BY <2>4, <3>1, <3>2, <3>3, InTimeHabits
  <2> QED  BY <2>1, <2>2, <2>3, <2>4
<1> QED  BY <1>4, <1>5

(* A command written on a quiet line brings its answer.                    *)
LEMMA ReplyComes ==
  ASSUME NEW a, Several(a), NEW reply, WholeReply(a, reply), Quiet,
         UNCHANGED <<rx, device>>, wire' = wire \o reply
  PROVE  Coming(a)'
<1>1. a \in Seq(Bytes) /\ First(a) \in Seq(Bytes) /\ Tail(a) \in Seq(Bytes)
  BY TwoChunks DEF Several
<1>2. reply \in Seq(Seq(Bytes))
  <2>1. <<a>> \in Seq(Seq(Bytes)) /\ <<First(a), Tail(a)>> \in Seq(Seq(Bytes))
    BY <1>1
  <2> QED  BY <2>1 DEF WholeReply
<1>3. wire' = reply
  BY <1>2, ConcatEmptySeq DEF Quiet
<1> QED  BY <1>3 DEF Coming, WholeReply, Quiet

(* What comes in belongs to the answer that is coming.                     *)
LEMMA ChunkComes ==
  ASSUME NEW a, Several(a), Coming(a), Arrive, pc # "closed"
  PROVE  Coming(a)'
<1>1. /\ wire # <<>> /\ wire' = Tail(wire) /\ rx' = rx \o Head(wire) /\ UNCHANGED device
  BY DEF Arrive
<1>2. /\ a \in Seq(Bytes) /\ First(a) \in Seq(Bytes) /\ Tail(a) \in Seq(Bytes)
      /\ First(a) \o Tail(a) = a
  BY TwoChunks DEF Several
<1>3. CASE rx = <<>> /\ wire = <<a>>
  <2>1. Head(wire) = a /\ Tail(wire) = <<>>
    BY <1>3
  <2> QED  BY <1>1, <1>2, <1>3, <2>1, ConcatEmptySeq DEF Coming
<1>4. CASE "coalesce" \in device /\ rx = <<>> /\ wire = <<First(a), Tail(a)>>
  <2>1. Head(wire) = First(a) /\ Tail(wire) = <<Tail(a)>>
    BY <1>4
  <2>2. rx' = First(a)
    BY <1>1, <1>2, <1>4, <2>1, ConcatEmptySeq
  <2> QED  BY <1>1, <1>4, <2>1, <2>2 DEF Coming
<1>5. CASE "coalesce" \in device /\ rx = First(a) /\ wire = <<Tail(a)>>
  <2>1. Head(wire) = Tail(a) /\ Tail(wire) = <<>>
    BY <1>5
  <2> QED  BY <1>1, <1>2, <1>5, <2>1 DEF Coming
<1> QED  BY <1>1, <1>3, <1>4, <1>5 DEF Coming

(* The greeting comes in alone.                                            *)
LEMMA GreetingComes ==
  ASSUME NEW a, Several(a), Greeting(a), Arrive, pc # "closed"
  PROVE  Greeting(a)'
<1>1. /\ rx = <<>> /\ wire' = Tail(wire) /\ rx' = rx \o Head(wire) /\ UNCHANGED device
  BY DEF Arrive, Greeting
<1>2. Preamble \in Seq(Bytes) /\ Preamble # <<>>
  BY AnswersSeveral, NotEmpty DEF Several
<1>3. wire = <<Preamble, a>>
  BY <1>1, <1>2 DEF Greeting
<1>4. Head(wire) = Preamble /\ Tail(wire) = <<a>>
  BY <1>3
<1> QED  BY <1>1, <1>2, <1>4, ConcatEmptySeq DEF Greeting

(* When the program reads, what is there is the whole answer.              *)
LEMMA WholeIsThere ==
  ASSUME InTime, NEW a, Several(a), Coming(a), AnswerDue
  PROVE  rx = a /\ wire = <<>>
<1>1. <<a>> # <<>> /\ <<Tail(a)>> # <<>> /\ <<First(a), Tail(a)>> # <<>>
  OBVIOUS
<1> QED  BY <1>1, InTimeHabits DEF AnswerDue, Coming

(* A read of the version takes the whole of what is there.                 *)
LEMMA ReadsAllOfIt ==
  ASSUME InTime, ReadVersion, version_buf = <<>>, rx \in Seq(Bytes), rx # <<>>,
         Len(rx) <= VersionLen
  PROVE  /\ version_buf' \in AfterDiscard(rx) /\ rx' = <<>> /\ attempt' = attempt + 1
         /\ UNCHANGED <<pc, wire, device>>
<1> USE LinkAssumption
<1>1. Len(rx) \in Nat /\ Len(version_buf) = 0 /\ VersionLen - Len(version_buf) = VersionLen
  OBVIOUS
<1>2. /\ version_buf' \in AfterDiscard(version_buf \o Got(VersionLen - Len(version_buf)))
      /\ rx' = Left(VersionLen - Len(version_buf)) /\ attempt' = attempt + 1
      /\ UNCHANGED <<pc, wire, device>>
  BY InTimeHabits DEF ReadVersion, ReadMayFail
<1>3. Left(VersionLen) = <<>>
  BY <1>1, SubSeqEmpty DEF Left
<1>4. Got(VersionLen) = rx
  BY <1>1, SubSeqFull DEF Got
<1>5. <<>> \o rx = rx
  BY ConcatEmptySeq
<1> QED  BY <1>1, <1>2, <1>3, <1>4, <1>5

(* A read of the version takes the greeting or the version, or ends.       *)
LEMMA InTimeVersionRead ==
  ASSUME InTime, VersionComing, ReadVersion
  PROVE  \/ pc' = "check" /\ Quiet'
         \/ pc' = "getver" /\ VersionComing'
<1> USE LinkAssumption
<1>1. CASE Quiet
  <2>1. pc' = "check" /\ UNCHANGED <<rx, wire>>
    BY <1>1, InTimeHabits DEF ReadVersion, Quiet
  <2> QED  BY <1>1, <2>1 DEF Quiet
<1>2. CASE ~Quiet
  <2>1. PICK kind \in {"ver", "other"} :
           Coming(Version(kind)) \/ (attempt = 0 /\ Greeting(Version(kind)))
    BY <1>2 DEF VersionComing
  <2>2. version_buf = <<>> /\ pc = "getver" /\ AnswerDue
    BY <1>2 DEF VersionComing, ReadVersion
  <2>3. Several(Version(kind)) /\ Len(Version(kind)) = VersionLen
    BY AnswersSeveral, VersionType
  <2> DEFINE v == Version(kind)
  <2> HIDE DEF v
  <2>4. CASE Coming(v)
    <3>1. rx = v /\ wire = <<>> /\ v \in Seq(Bytes) /\ v # <<>> /\ Len(v) = VersionLen
      BY <2>2, <2>3, <2>4, WholeIsThere, TwoChunks DEF v, Several
    <3>2. rx' = <<>> /\ UNCHANGED <<pc, wire>>
      BY <2>2, <3>1, ReadsAllOfIt
    <3> QED  BY <2>2, <3>1, <3>2 DEF VersionComing, Quiet
  <2>5. CASE attempt = 0 /\ Greeting(v)
    <3>1. Preamble \in Seq(Bytes) /\ Len(Preamble) = 2 /\ Preamble # <<>>
      BY TwoBytes, NotEmpty
    <3>2. rx = Preamble /\ wire = <<v>> /\ "coalesce" \notin device
      <4>1. <<Preamble, v>> # <<>>
        OBVIOUS
      <4> QED  BY <2>2, <2>5, <4>1, InTimeHabits DEF AnswerDue, Greeting
    <3>3. /\ version_buf' \in AfterDiscard(Preamble) /\ rx' = <<>> /\ attempt' = 1
          /\ UNCHANGED <<pc, wire, device>>
      <4>1. rx \in Seq(Bytes) /\ rx # <<>> /\ Len(rx) <= VersionLen
        <5>1. VersionLen > 2 /\ VersionLen \in Nat
          BY LinkAssumption
        <5>2. Preamble \in Seq(Bytes) /\ Preamble # <<>> /\ Len(Preamble) <= VersionLen
          BY <3>1, <5>1
        <5> QED  BY <3>2, <5>2
      <4>2. /\ version_buf' \in AfterDiscard(rx) /\ rx' = <<>> /\ attempt' = attempt + 1
            /\ UNCHANGED <<pc, wire, device>>
        BY <2>2, <4>1, ReadsAllOfIt
      <4> QED  BY <2>5, <3>2, <4>2
    <3>4. ~MayKeep(Preamble)
      <4>1. Preamble[1].msg = "pre"
        BY DEF Preamble, Byte
      <4> QED  BY <3>1, <4>1 DEF MayKeep, MayBeG, IsG
    <3>5. version_buf' = <<>>
      BY <3>3, <3>4 DEF AfterDiscard
    <3>6. Coming(v)'
      BY <3>2, <3>3 DEF Coming, v
    <3> QED  BY <2>2, <3>3, <3>5, <3>6 DEF VersionComing, v
  <2> QED  BY <2>1, <2>4, <2>5 DEF v
<1> QED  BY <1>1, <1>2

(* Two bytes are the whole answer.                                         *)
LEMMA InTimeCpmRead ==
  ASSUME InTime, InTimeInv, ReadCpm PROVE InTimeInv'
<1>1. asked \in Nat /\ pc = "getcpm" /\ UNCHANGED <<asked, wire, device, version_buf>>
  BY DEF InTimeInv, ReadCpm
<1>2. Answer(asked) \in Seq(Bytes) /\ Len(Answer(asked)) = 2 /\ Several(Answer(asked))
  BY <1>1, TwoBytes, AnswersSeveral
<1>3. wire = <<>> /\ (rx = <<>> \/ rx = Answer(asked))
  BY <1>1, <1>2, WholeIsThere DEF InTimeInv, AnswerComing, Quiet, ReadCpm
<1>4. InTime'
  BY <1>1 DEF InTime
<1>5. CASE rx = <<>>
  <2>1. rx' = <<>> /\ (pc' = "getcpm" \/ pc' = "missed") /\ UNCHANGED reading
    <3>1. Len(rx) = 0
      BY <1>5
    <3> QED  BY <1>5, <3>1 DEF ReadCpm
  <2> QED  BY <1>1, <1>3, <2>1 DEF InTimeInv, AnswerComing, Quiet
<1>6. CASE rx = Answer(asked)
  <2>1. Len(rx) = 2 /\ rx # <<>> /\ rx \in Seq(Bytes)
    BY <1>2, <1>6, NotEmpty
  <2>2. pc' = "ready" /\ rx' = Left(2) /\ reading' = [request |-> asked, bytes |-> Got(2)]
    BY <2>1, InTimeHabits DEF ReadCpm, ReadMayFail
  <2>3. Left(2) = <<>> /\ Got(2) = rx
    BY <2>1, SubSeqEmpty, SubSeqFull DEF Left, Got
  <2>4. reading'.bytes = Answer(reading'.request)
    BY <1>6, <2>2, <2>3
  <2> QED  BY <1>1, <1>3, <2>2, <2>3, <2>4 DEF InTimeInv, Quiet
<1> QED  BY <1>3, <1>5, <1>6

(* With a device in time, be it mute at times, of another make, quick with *)
(* an answer in two chunks or slow with its version after a greeting,      *)
(* nothing is left on the line between two commands, and each value is the *)
(* answer to its own request (read_cpm_response).                          *)
THEOREM AnswersAreRead == Spec => []ReadingIsAnswer
<1>1. Init => InTimeInv
  BY DEF Init, InTimeInv, Quiet
<1>2. InTimeInv /\ [Next]_vars => InTimeInv'
  <2> SUFFICES ASSUME InTimeInv, [Next]_vars PROVE InTimeInv'
    OBVIOUS
  <2>1. UNCHANGED device
    BY DEF Next, HostStep, InitDevice, ReadDevice, OpenPort, SendGetVer, ReadVersion,
           CheckVersion, CloseFailed, SendGetCpm, ReadCpm, MissedRead, CloseLost, Arrive,
           Beat, Idle, vars
  <2>2. SUFFICES ASSUME InTime PROVE InTimeInv'
    BY <2>1 DEF InTimeInv, InTime
  <2>3. CASE OpenPort
    BY <2>2, <2>3 DEF OpenPort, hostVars, InTimeInv, Quiet
  <2>4. CASE SendGetVer
    <3>1. Quiet /\ UNCHANGED <<rx, reading, asked, device>> /\ pc = "opened"
      BY <2>2, <2>4 DEF SendGetVer, InTimeInv
    <3>2. CASE pc' = "failed"
      BY <2>2, <2>4, <3>1, <3>2 DEF InTimeInv, SendGetVer, Quiet
    <3>3. CASE pc' # "failed"
      <4>1. PICK reply \in VersionReplies :
               pc' = "getver" /\ version_buf' = <<>> /\ attempt' = 0 /\ wire' = wire \o reply
        BY <2>4, <3>3 DEF SendGetVer
      <4>2. VersionComing'
        <5>1. CASE reply = <<>>
          <6>1. wire' = <<>>
            <7>1. <<>> \in Seq(Seq(Bytes))
              OBVIOUS
            <7> QED  BY <3>1, <4>1, <5>1, <7>1, ConcatEmptySeq DEF Quiet
          <6> QED  BY <3>1, <6>1 DEF VersionComing, Quiet
        <5>2. ASSUME NEW kind \in {"ver", "other"}, WholeReply(Version(kind), reply)
              PROVE  VersionComing'
          <6>1. Coming(Version(kind))'
            BY <3>1, <4>1, <5>2, ReplyComes, AnswersSeveral
          <6> QED  BY <4>1, <6>1 DEF VersionComing
        <5>3. ASSUME NEW kind \in {"ver", "other"}, "coalesce" \notin device,
                     reply = <<Preamble, Version(kind)>>
              PROVE  VersionComing'
          <6>1. Preamble \in Seq(Bytes) /\ Version(kind) \in Seq(Bytes)
            BY TwoBytes, VersionType
          <6>2. reply \in Seq(Seq(Bytes))
            BY <5>3, <6>1
          <6>3. wire' = reply
            BY <3>1, <4>1, <6>2, ConcatEmptySeq DEF Quiet
          <6>4. Greeting(Version(kind))'
            BY <3>1, <5>3, <6>3 DEF Greeting, Quiet
          <6> QED  BY <4>1, <6>4 DEF VersionComing
        <5> QED  BY <2>2, <5>1, <5>2, <5>3, InTimeReplies
      <4> QED  BY <2>2, <3>1, <4>1, <4>2 DEF InTimeInv
    <3> QED  BY <3>2, <3>3
  <2>5. CASE ReadVersion
    <3>1. UNCHANGED <<reading, asked, device>> /\ pc = "getver"
      BY <2>5 DEF ReadVersion
    <3>2. (pc' = "check" /\ Quiet') \/ (pc' = "getver" /\ VersionComing')
      BY <2>2, <2>5, <3>1, InTimeVersionRead DEF InTimeInv
    <3> QED  BY <2>2, <3>1, <3>2 DEF InTimeInv
  <2>6. CASE CheckVersion
    <3>1. UNCHANGED <<rx, wire, reading, asked, device>> /\ pc' \in {"ready", "failed"}
      BY <2>6 DEF CheckVersion
    <3>2. Quiet
      <4>1. CASE pc = "check"
        BY <2>2, <4>1 DEF InTimeInv
      <4>2. CASE pc = "getver"
        <5>1. Len(<<>>) = 0 /\ VersionLen # 0 /\ MaxVersionReads \notin {0, 1}
          BY LinkAssumption
        <5> QED  BY <2>2, <2>6, <4>2, <5>1 DEF CheckVersion, InTimeInv, VersionComing
      <4> QED  BY <2>6, <4>1, <4>2 DEF CheckVersion
    <3> QED  BY <2>2, <3>1, <3>2 DEF InTimeInv, Quiet
  <2>7. CASE CloseFailed
    BY <2>2, <2>7 DEF CloseFailed, hostVars, InTimeInv, Quiet
  <2>8. CASE SendGetCpm
    <3>1. Quiet /\ UNCHANGED <<rx, reading, device>> /\ asked \in Nat
      BY <2>2, <2>8 DEF SendGetCpm, InTimeInv
    <3>2. CASE pc' = "missed" /\ UNCHANGED <<wire, asked>>
      BY <2>2, <3>1, <3>2 DEF InTimeInv, Quiet
    <3>3. CASE pc' = "getcpm"
      <4>1. PICK reply \in CpmReplies(asked') : asked' = asked + 1 /\ wire' = wire \o reply
        BY <2>8, <3>3 DEF SendGetCpm
      <4>2. asked' \in Nat
        BY <3>1, <4>1
      <4>3. AnswerComing'
        <5>1. CASE reply = <<>>
          <6>1. <<>> \in Seq(Seq(Bytes))
            OBVIOUS
          <6>2. wire' = <<>>
            BY <3>1, <4>1, <5>1, <6>1, ConcatEmptySeq DEF Quiet
          <6> QED  BY <3>1, <6>2 DEF AnswerComing, Quiet
        <5>2. CASE WholeReply(Answer(asked'), reply)
          <6>1. PICK a : a = Answer(asked')
            OBVIOUS
          <6>2. Several(a) /\ WholeReply(a, reply)
            BY <4>2, <5>2, <6>1, AnswersSeveral
          <6>3. Coming(a)'
            BY <3>1, <4>1, <6>2, ReplyComes
          <6> QED  BY <6>1, <6>3 DEF AnswerComing
        <5> QED  BY <2>2, <4>2, <5>1, <5>2, InTimeReplies
      <4> QED  BY <2>2, <3>1, <3>3, <4>2, <4>3 DEF InTimeInv
    <3> QED  BY <2>8, <3>2, <3>3 DEF SendGetCpm
  <2>9. CASE ReadCpm
    BY <2>2, <2>9, InTimeCpmRead
  <2>10. CASE MissedRead
    <3>1. UNCHANGED <<rx, wire, reading, asked, device>> /\ pc = "missed"
          /\ (pc' = "ready" \/ pc' = "lost")
      BY <2>10 DEF MissedRead
    <3> QED  BY <2>2, <3>1 DEF InTimeInv, Quiet
  <2>11. CASE CloseLost
    BY <2>2, <2>11 DEF CloseLost, hostVars, InTimeInv, Quiet
  <2>12. CASE Arrive
    <3>1. UNCHANGED <<pc, version_buf, attempt, reading, asked, device>> /\ ~Quiet
      BY <2>12 DEF Arrive, hostVars, Quiet
    <3>2. CASE pc = "getver"
      <4>1. PICK kind \in {"ver", "other"} :
               Coming(Version(kind)) \/ (attempt = 0 /\ Greeting(Version(kind)))
        BY <2>2, <3>1, <3>2 DEF InTimeInv, VersionComing
      <4>2. version_buf = <<>> /\ attempt \in {0, 1}
        BY <2>2, <3>1, <3>2 DEF InTimeInv, VersionComing
      <4>3. Coming(Version(kind))' \/ (attempt = 0 /\ Greeting(Version(kind))')
        BY <2>12, <3>2, <4>1, ChunkComes, GreetingComes, AnswersSeveral
      <4> QED  BY <2>2, <3>1, <3>2, <4>2, <4>3 DEF InTimeInv, VersionComing
    <3>3. CASE pc = "getcpm"
      <4>1. asked \in Nat /\ Coming(Answer(asked))
        BY <2>2, <3>1, <3>3 DEF InTimeInv, AnswerComing
      <4>2. PICK a : a = Answer(asked)
        OBVIOUS
      <4>3. Coming(a)'
        BY <2>12, <3>3, <4>1, <4>2, ChunkComes, AnswersSeveral
      <4>4. a = Answer(asked')
        BY <3>1, <4>2
      <4> QED  BY <2>2, <3>1, <3>3, <4>1, <4>3, <4>4 DEF InTimeInv, AnswerComing
    <3>4. CASE pc \notin {"getver", "getcpm"}
      BY <2>2, <3>1, <3>4 DEF InTimeInv
    <3> QED  BY <3>2, <3>3, <3>4
  <2>13. CASE Beat
    BY <2>2, <2>13, InTimeHabits DEF Beat
  <2>14. CASE UNCHANGED vars
    BY <2>2, <2>14 DEF vars, hostVars, InTimeInv, Quiet, VersionComing, Coming, Greeting,
                       AnswerComing
  <2> QED  BY <2>3, <2>4, <2>5, <2>6, <2>7, <2>8, <2>9, <2>10, <2>11, <2>12, <2>13, <2>14
           DEF Next, HostStep, InitDevice, ReadDevice, Idle
<1>3. InTimeInv => ReadingIsAnswer
  BY DEF InTimeInv, ReadingIsAnswer
<1> QED  BY <1>1, <1>2, <1>3, PTL DEF Spec

-----------------------------------------------------------------------------
(* Types.                                                                  *)

TypeInv ==
    /\ TypeOK /\ CountInv
    /\ pc = "getver" => attempt <= MaxVersionReads
    /\ pc = "getcpm" => attempt < GetCpmAttempts

(* Every answer is chunks of bytes, however it is split.                   *)
LEMMA ChunksType ==
  ASSUME NEW answer \in Seq(Bytes), answer # <<>>
  PROVE  Chunkings(answer) \subseteq Seq(Seq(Bytes))
<1>1. Tail(answer) \in Seq(Bytes)
  BY HeadTailProperties
<1>2. SubSeq(answer, 1, 1) \in Seq(Bytes)
  <2>1. 1 \in 1..Len(answer) /\ \A i \in 1..1 : answer[i] \in Bytes
    BY EmptySeq, ElementOfSeq
  <2> QED  BY <2>1, SubSeqProperties
<1>3. <<answer>> \in Seq(Seq(Bytes))
      /\ <<SubSeq(answer, 1, 1), Tail(answer)>> \in Seq(Seq(Bytes))
  BY <1>1, <1>2
<1> QED  BY <1>3 DEF Chunkings

LEMMA RepliesType ==
  /\ VersionReplies \subseteq Seq(Seq(Bytes))
  /\ \A n \in Nat : CpmReplies(n) \subseteq Seq(Seq(Bytes))
<1>1. Silence \subseteq Seq(Seq(Bytes)) /\ VersionKinds \subseteq {"ver", "other"}
  <2>1. <<>> \in Seq(Seq(Bytes))
    BY EmptySeq
  <2>2. Silence \subseteq {<<>>} /\ VersionKinds \subseteq {"ver", "other"}
    BY DEF Silence, VersionKinds
  <2> QED  BY <2>1, <2>2
<1>2. \A n \in Nat : CpmReplies(n) \subseteq Seq(Seq(Bytes))
  <2> SUFFICES ASSUME NEW n \in Nat PROVE CpmReplies(n) \subseteq Seq(Seq(Bytes))
    OBVIOUS
  <2>1. Answer(n) \in Seq(Bytes) /\ Len(Answer(n)) = 2
    BY TwoBytes
  <2>2. Answer(n) # <<>>
    BY <2>1
  <2> QED  BY <1>1, <2>1, <2>2, ChunksType DEF CpmReplies
<1>3. \A kind \in VersionKinds : Chunkings(Version(kind)) \subseteq Seq(Seq(Bytes))
  <2> SUFFICES ASSUME NEW kind \in VersionKinds
               PROVE  Chunkings(Version(kind)) \subseteq Seq(Seq(Bytes))
    OBVIOUS
  <2>1. Version(kind) \in Seq(Bytes) /\ Len(Version(kind)) > 2
    BY <1>1, VersionType, LinkAssumption
  <2>2. Version(kind) # <<>>
    BY <2>1
  <2> QED  BY <2>1, <2>2, ChunksType
<1>4. <<Preamble>> \in Seq(Seq(Bytes))
  BY TwoBytes
<1>5. \A reply \in Seq(Seq(Bytes)) : <<Preamble>> \o reply \in Seq(Seq(Bytes))
  BY <1>4, ConcatProperties
<1>6. VersionReplies \subseteq Seq(Seq(Bytes))
  <2> DEFINE plain == UNION {Chunkings(Version(kind)) : kind \in VersionKinds}
  <2>1. plain \subseteq Seq(Seq(Bytes))
    BY <1>3
  <2>2. \A reply \in VersionReplies :
           \/ reply \in plain \/ reply \in Silence
           \/ \E r \in plain : reply = <<Preamble>> \o r
    BY DEF VersionReplies
  <2> QED  BY <1>1, <1>5, <2>1, <2>2
<1> QED  BY <1>2, <1>6

(* What a read takes and what it leaves are bytes.                         *)
LEMMA ReadType ==
  ASSUME NEW want \in Nat, rx \in Seq(Bytes)
  PROVE  /\ Got(want) \in Seq(Bytes) /\ Len(Got(want)) \in Nat /\ Len(Got(want)) <= want
         /\ Left(want) \in Seq(Bytes)
<1>1. Len(rx) \in Nat /\ \A i \in 1..Len(rx) : rx[i] \in Bytes
  BY LenProperties, ElementOfSeq
<1> DEFINE n == IF Len(rx) < want THEN Len(rx) ELSE want
<1>2. n \in Nat /\ n <= want /\ n <= Len(rx)
  BY <1>1
<1> HIDE DEF n
<1>3. \A i \in 1..n : rx[i] \in Bytes
  BY <1>1, <1>2
<1>4. SubSeq(rx, 1, n) \in Seq(Bytes) /\ Len(SubSeq(rx, 1, n)) = IF 1 <= n THEN n - 1 + 1 ELSE 0
  BY <1>2, <1>3, SubSeqProperties
<1>5. \A i \in want + 1..Len(rx) : rx[i] \in Bytes
  BY <1>1
<1>6. SubSeq(rx, want + 1, Len(rx)) \in Seq(Bytes)
  BY <1>1, <1>5, SubSeqProperties
<1> QED  BY <1>2, <1>4, <1>6 DEF Got, Left, n

(* Every variable keeps its type, with every device: the loops stay within *)
(* their attempts and the version within its buffer (send_getver).         *)
LEMMA TypeInvariant == Spec => []TypeInv
<1> USE LinkAssumption
<1>1. Init => TypeInv
  <2> SUFFICES ASSUME Init PROVE TypeInv
    OBVIOUS
  <2>1. <<>> \in Seq(Bytes) /\ <<>> \in Seq(Seq(Bytes)) /\ Len(<<>>) = 0
    OBVIOUS
  <2>2. CountInv
    BY DEF Init, CountInv
  <2> QED  BY <2>1, <2>2 DEF Init, TypeInv, TypeOK, NoReading
<1>2. TypeInv /\ CountInv' /\ [Next]_vars => TypeInv'
  <2> SUFFICES ASSUME TypeInv, CountInv', [Next]_vars PROVE TypeInv'
    OBVIOUS
  <2> USE DEF TypeInv
  <2>1. CASE OpenPort
    <3>1. opens' \in 0..MaxOpens /\ pc' = "opened"
      BY <2>1 DEF OpenPort, TypeOK
    <3>2. UNCHANGED <<rx, wire, hostVars, beats, device>>
      BY <2>1 DEF OpenPort
    <3> QED  BY <3>1, <3>2 DEF hostVars, TypeOK
  <2>2. CASE SendGetVer
    <3>1. CASE pc' = "failed" /\ UNCHANGED <<wire, version_buf, attempt>>
      BY <2>2, <3>1 DEF SendGetVer, TypeOK
    <3>2. CASE pc' = "getver" /\ version_buf' = <<>> /\ attempt' = 0
      <4>1. PICK reply \in VersionReplies : wire' = wire \o reply
        BY <2>2, <3>2 DEF SendGetVer
      <4>2. wire' \in Seq(Seq(Bytes))
        BY <4>1, RepliesType, ConcatProperties DEF TypeOK
      <4>3. <<>> \in Seq(Bytes) /\ Len(<<>>) = 0
        OBVIOUS
      <4> QED  BY <2>2, <3>2, <4>2, <4>3 DEF SendGetVer, TypeOK
    <3> QED  BY <2>2, <3>1, <3>2 DEF SendGetVer
  <2>3. CASE ReadVersion
    <3>1. CASE pc' = "check" /\ UNCHANGED <<rx, version_buf, attempt>>
      BY <2>3, <3>1 DEF ReadVersion, TypeOK
    <3>2. CASE rx # <<>> /\ attempt' = attempt + 1 /\ UNCHANGED pc
      <4> DEFINE want == VersionLen - Len(version_buf)
      <4>1. want \in Nat /\ Len(version_buf) \in Nat
        BY <2>3 DEF ReadVersion, TypeOK
      <4>2. version_buf' \in AfterDiscard(version_buf \o Got(want)) /\ rx' = Left(want)
        BY <2>3, <3>2 DEF ReadVersion
      <4>3. want = VersionLen - Len(version_buf)
        OBVIOUS
      <4> HIDE DEF want
      <4>4. Got(want) \in Seq(Bytes) /\ Len(Got(want)) \in Nat /\ Len(Got(want)) <= want
            /\ Left(want) \in Seq(Bytes)
        BY <4>1, ReadType DEF TypeOK
      <4>5. /\ version_buf \o Got(want) \in Seq(Bytes)
            /\ Len(version_buf \o Got(want)) = Len(version_buf) + Len(Got(want))
        BY <4>4, ConcatProperties DEF TypeOK
      <4>6. Len(version_buf \o Got(want)) <= VersionLen
        BY <4>1, <4>3, <4>4, <4>5
      <4>7. version_buf' = version_buf \o Got(want) \/ version_buf' = <<>>
        BY <4>2 DEF AfterDiscard
      <4>8. version_buf' \in Seq(Bytes) /\ Len(version_buf') <= VersionLen
        <5>1. <<>> \in Seq(Bytes) /\ Len(<<>>) = 0
          OBVIOUS
        <5>2. CASE version_buf' = version_buf \o Got(want)
          BY <4>5, <4>6, <5>2
        <5>3. CASE version_buf' = <<>>
          BY <5>1, <5>3
        <5> QED  BY <4>7, <5>2, <5>3
      <4>9. attempt' \in 0..MaxVersionReads + GetCpmAttempts /\ attempt' <= MaxVersionReads
        BY <2>3, <3>2 DEF ReadVersion, TypeOK
      <4> QED  BY <2>3, <3>2, <4>2, <4>4, <4>8, <4>9 DEF ReadVersion, TypeOK
    <3> QED  BY <2>3, <3>1, <3>2 DEF ReadVersion
  <2>4. CASE CheckVersion
    BY <2>4 DEF CheckVersion, ForgetErrors, TypeOK
  <2>5. CASE CloseFailed \/ CloseLost
    <3>1. <<>> \in Seq(Bytes)
      OBVIOUS
    <3> QED  BY <2>5, <3>1 DEF CloseFailed, CloseLost, hostVars, TypeOK
  <2>6. CASE SendGetCpm
    <3>1. CASE pc' = "missed" /\ UNCHANGED <<wire, asked, attempt>>
      BY <2>6, <3>1 DEF SendGetCpm, TypeOK
    <3>2. CASE pc' = "getcpm" /\ asked' = asked + 1 /\ attempt' = 0
      <4>1. PICK reply \in CpmReplies(asked') : wire' = wire \o reply
        BY <2>6, <3>2 DEF SendGetCpm
      <4>2. asked' \in 0..MaxAsked /\ asked' \in Nat
        BY <2>6, <3>2 DEF SendGetCpm, TypeOK
      <4>3. wire' \in Seq(Seq(Bytes))
        BY <4>1, <4>2, RepliesType, ConcatProperties DEF TypeOK
      <4> QED  BY <2>6, <3>2, <4>2, <4>3 DEF SendGetCpm, TypeOK
    <3> QED  BY <2>6, <3>1, <3>2 DEF SendGetCpm
  <2>7. CASE ReadCpm
    <3>1. <<>> \in Seq(Bytes)
      OBVIOUS
    <3>2. Got(2) \in Seq(Bytes) /\ Left(2) \in Seq(Bytes)
      BY ReadType DEF TypeOK
    <3>3. CASE pc' = "ready" /\ reading' = [request |-> asked, bytes |-> Got(2)]
      BY <2>7, <3>2, <3>3 DEF ReadCpm, TypeOK
    <3>4. CASE UNCHANGED reading
      <4>1. rx' \in Seq(Bytes) /\ UNCHANGED <<wire, version_buf, asked, opens, beats, device>>
        BY <2>7, <3>1, <3>2 DEF ReadCpm, TypeOK
      <4>2. \/ tries' = 0 /\ read_error_count' = 0 /\ silent' = 0
            \/ UNCHANGED <<tries, read_error_count, silent>>
        BY <2>7 DEF ReadCpm
      <4>3. pc' \in {"ready", "missed", "getcpm"}
        BY <2>7 DEF ReadCpm
      <4>4. attempt' = attempt \/ (attempt' = attempt + 1 /\ attempt < GetCpmAttempts - 1)
        BY <2>7 DEF ReadCpm, NextAttempt
      <4>5. pc = "getcpm"
        BY <2>7 DEF ReadCpm
      <4>6. attempt' \in 0..MaxVersionReads + GetCpmAttempts /\ attempt' < GetCpmAttempts
        BY <4>4, <4>5 DEF TypeOK
      <4>7. tries' \in 0..ReadAttempts - 1 /\ read_error_count' \in 0..ReadErrorThreshold + 1
            /\ silent' \in Nat
        BY <4>2 DEF TypeOK
      <4>8. TypeOK'
        BY <3>4, <4>1, <4>3, <4>6, <4>7 DEF TypeOK
      <4>9. pc' # "getver"
        BY <4>3
      <4> QED  BY <4>6, <4>8, <4>9
    <3> QED  BY <2>7, <3>3, <3>4 DEF ReadCpm
  <2>8. CASE MissedRead
    <3>1. pc' \in {"ready", "lost"} /\ tries' \in 0..ReadAttempts - 1 /\ silent' \in Nat
      BY <2>8 DEF MissedRead, TypeOK
    <3>2. read_error_count' \in 0..ReadErrorThreshold + 1
      BY <2>8 DEF MissedRead, TypeOK, CountInv
    <3> QED  BY <2>8, <3>1, <3>2 DEF MissedRead, TypeOK
  <2>9. CASE Arrive
    <3>1. Tail(wire) \in Seq(Seq(Bytes)) /\ Head(wire) \in Seq(Bytes) /\ <<>> \in Seq(Bytes)
      BY <2>9, HeadTailProperties DEF Arrive, TypeOK
    <3>2. rx \o Head(wire) \in Seq(Bytes)
      BY <3>1, ConcatProperties DEF TypeOK
    <3> QED  BY <2>9, <3>1, <3>2 DEF Arrive, hostVars, TypeOK
  <2>10. CASE Beat
    <3>1. beats' \in 0..MaxBeats /\ beats' \in Nat
      BY <2>10 DEF Beat, TypeOK
    <3>2. <<Byte("beat", beats', 1), Byte("beat", beats', 2)>> \in Seq(Bytes)
      BY <3>1 DEF Byte, Bytes
    <3>3. wire' \in Seq(Seq(Bytes))
      BY <2>10, <3>2 DEF Beat, TypeOK
    <3> QED  BY <2>10, <3>1, <3>3 DEF Beat, hostVars, TypeOK
  <2>11. CASE UNCHANGED vars
    BY <2>11 DEF vars, hostVars, TypeOK
  <2> QED  BY <2>1, <2>2, <2>3, <2>4, <2>5, <2>6, <2>7, <2>8, <2>9, <2>10, <2>11
           DEF Next, HostStep, InitDevice, ReadDevice, Idle
<1> QED  BY <1>1, <1>2, CountInvariant, PTL DEF Spec

(* The types hold with every device.                                       *)
THEOREM TypeCorrect == Spec => []TypeOK
<1>1. TypeInv => TypeOK
  BY DEF TypeInv
<1> QED  BY <1>1, TypeInvariant, PTL

-----------------------------------------------------------------------------
(* Exchanges.                                                              *)

(* Each step of an exchange ends it or uses something up: a heartbeat the  *)
(* device has left, else a read of those the loop allows, else a chunk     *)
(* that was still to come.  So an exchange has finitely many steps, and    *)
(* what ExchangesEnd asks of fairness is that they are taken.              *)
MaxReads == IF pc = "getver" THEN MaxVersionReads ELSE GetCpmAttempts
BeatSpent == beats' \in beats + 1..MaxBeats /\ UNCHANGED attempt
ReadSpent == attempt' \in attempt + 1..MaxReads /\ UNCHANGED beats
ChunkSpent == Len(wire') \in 0..Len(wire) - 1 /\ UNCHANGED <<attempt, beats>>
Ended == pc' \in (IF pc = "getcpm" THEN {"ready", "missed"} ELSE {"check", "ready", "failed"})
ExchangeLeadsOn ==
    pc \in {"getver", "getcpm"} =>
       \/ pc' # pc /\ Ended
       \/ UNCHANGED pc /\ (BeatSpent \/ ReadSpent \/ ChunkSpent)

(* No loop of the protocol goes round without using up one of its attempts *)
(* (send_getver, read_cpm_response), whatever the device sends meanwhile.  *)
THEOREM ExchangesLeadOn == Spec => [][ExchangeLeadsOn]_vars
<1> USE LinkAssumption
<1>1. TypeInv /\ TypeInv' /\ [Next]_vars => [ExchangeLeadsOn]_vars
  <2> SUFFICES ASSUME TypeInv, TypeInv', Next, pc \in {"getver", "getcpm"}
               PROVE  \/ pc' # pc /\ Ended
                      \/ UNCHANGED pc /\ (BeatSpent \/ ReadSpent \/ ChunkSpent)
    BY DEF ExchangeLeadsOn
  <2>0. attempt \in Nat /\ beats \in 0..MaxBeats /\ beats' \in 0..MaxBeats
    BY DEF TypeInv, TypeOK
  <2>1. CASE ReadVersion
    <3>1. CASE UNCHANGED pc
      <4>1. attempt' = attempt + 1 /\ attempt < MaxVersionReads /\ pc = "getver"
            /\ UNCHANGED beats
        BY <2>1, <3>1 DEF ReadVersion
      <4> QED  BY <2>0, <3>1, <4>1 DEF ReadSpent, MaxReads
    <3>2. CASE pc' = "check"
      BY <2>1, <3>2 DEF ReadVersion, Ended
    <3> QED  BY <2>1, <3>1, <3>2 DEF ReadVersion
  <2>2. CASE CheckVersion
    BY <2>2 DEF CheckVersion, Ended
  <2>3. CASE ReadCpm
    <3>1. CASE UNCHANGED pc
      <4>1. attempt' = attempt + 1 /\ attempt < GetCpmAttempts - 1 /\ pc = "getcpm"
            /\ UNCHANGED beats
        BY <2>3, <3>1 DEF ReadCpm, NextAttempt
      <4> QED  BY <2>0, <3>1, <4>1 DEF ReadSpent, MaxReads
    <3>2. CASE pc' # pc
      BY <2>3, <3>2 DEF ReadCpm, Ended
    <3> QED  BY <3>1, <3>2
  <2>4. CASE Arrive
    <3>1. wire # <<>> /\ wire' = Tail(wire) /\ UNCHANGED <<pc, attempt, beats>>
      BY <2>4 DEF Arrive, hostVars
    <3>2. Len(wire') = Len(wire) - 1 /\ Len(wire) \in Nat /\ Len(wire) # 0
      BY <3>1, HeadTailProperties, EmptySeq DEF TypeInv, TypeOK
    <3> QED  BY <3>1, <3>2 DEF ChunkSpent
  <2>5. CASE Beat
    <3>1. beats' = beats + 1 /\ UNCHANGED <<pc, attempt>>
      BY <2>5 DEF Beat, hostVars
    <3> QED  BY <2>0, <3>1 DEF BeatSpent
  <2>6. CASE OpenPort \/ SendGetVer \/ CloseFailed \/ SendGetCpm \/ MissedRead \/ CloseLost
             \/ Idle
    BY <2>6 DEF OpenPort, SendGetVer, CloseFailed, SendGetCpm, MissedRead, CloseLost, Idle
  <2> QED  BY <2>1, <2>2, <2>3, <2>4, <2>5, <2>6 DEF Next, HostStep, InitDevice, ReadDevice
<1> QED  BY <1>1, TypeInvariant, PTL DEF Spec
=============================================================================
