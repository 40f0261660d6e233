------------------------------- MODULE GmcLink -------------------------------
(***************************************************************************)
(* The serial conversation with the Geiger counter: open_com_port and      *)
(* init_com_after_open (recovered/com_port.cpp), read_detector_sample      *)
(* (recovered/detector.cpp), the two attempts per sample and the lost      *)
(* sensor count of recovered/main_app.cpp.                                 *)
(*                                                                         *)
(* The link has no frames: the program reads however many bytes are there, *)
(* so a byte too many or too few shifts everything that follows.  A byte   *)
(* is the answer it belongs to and its place in it.  The device's answers  *)
(* travel in chunks; a chunk that has arrived is in rx, the driver's input.*)
(***************************************************************************)
EXTENDS Integers, Sequences

CONSTANTS
    VersionLen,         \* gmc::GETVER_RESPONSE_LEN
    MaxVersionReads,    \* max_attempts of send_getver
    GetCpmAttempts,     \* gmc::GETCPM_RETRY_ATTEMPTS
    ReadAttempts,       \* gmc::READ_ATTEMPTS_PER_SAMPLE
    ReadErrorThreshold, \* gmc::READ_ERROR_THRESHOLD
    Devices,            \* what devices and drivers may do, each a set of Habits
    MaxOpens, MaxAsked, MaxBeats   \* bounds on one behaviour

(* preamble: GETVER is answered with two more bytes in front; foreign: by  *)
(* another device; mute: a command may go unanswered; split: an answer may *)
(* come in two chunks; coalesce: chunks follow closely and meet in the     *)
(* driver's buffer, where without it the next chunk is sent when the one   *)
(* before has been read; late: a read may come before the answer;          *)
(* heartbeat: two unasked bytes; ioError: a read may fail although bytes   *)
(* are there.                                                              *)
Habits == {"preamble", "foreign", "mute", "split", "coalesce", "late", "heartbeat",
           "ioError"}

ASSUME LinkAssumption ==
    /\ VersionLen \in Nat /\ VersionLen > 2
    /\ MaxVersionReads \in Nat /\ MaxVersionReads > 1 /\ GetCpmAttempts \in Nat \ {0}
    /\ ReadAttempts \in Nat \ {0} /\ ReadErrorThreshold \in Nat
    /\ Devices \subseteq SUBSET Habits
    /\ MaxOpens \in Nat /\ MaxAsked \in Nat /\ MaxBeats \in Nat

VARIABLES
    pc,                 \* where the program is in the conversation
    rx,                 \* bytes the driver holds for the program
    wire,               \* chunks the device has still to deliver
    version_buf,        \* bytes read of the version, its length is "total"
    attempt,            \* of the loop in send_getver or read_cpm_response
    tries,              \* attempts used of the present sample
    read_error_count,
    reading,            \* the last value taken for a CPM, and its request
    asked,              \* GETCPM commands written so far
    silent,             \* exchanges in a row that gave no value
    opens, beats,
    device              \* the one on the other end of the line

hostVars == <<version_buf, attempt, tries, read_error_count, reading, asked, silent>>
vars == <<pc, rx, wire, hostVars, opens, beats, device>>

Byte(msg, of, at) == [msg |-> msg, of |-> of, at |-> at]
Bytes == [msg : {"pre", "ver", "other", "cpm", "beat"}, of : Nat, at : Nat]
NoReading == [request |-> 0, bytes |-> <<>>]

TypeOK ==
    /\ pc \in {"closed", "opened", "getver", "check", "failed", "ready", "getcpm",
               "missed", "lost"}
    /\ rx \in Seq(Bytes) /\ wire \in Seq(Seq(Bytes))
    /\ version_buf \in Seq(Bytes) /\ Len(version_buf) <= VersionLen
    /\ attempt \in 0..MaxVersionReads + GetCpmAttempts
    /\ tries \in 0..ReadAttempts - 1 /\ read_error_count \in 0..ReadErrorThreshold + 1
    /\ reading \in [request : 0..MaxAsked, bytes : Seq(Bytes)]
    /\ asked \in 0..MaxAsked /\ silent \in Nat
    /\ opens \in 0..MaxOpens /\ beats \in 0..MaxBeats /\ device \in Devices

Init ==
    /\ pc = "closed" /\ rx = <<>> /\ wire = <<>>
    /\ version_buf = <<>> /\ attempt = 0
    /\ tries = 0 /\ read_error_count = 0
    /\ reading = NoReading /\ asked = 0 /\ silent = 0
    /\ opens = 0 /\ beats = 0 /\ device \in Devices

-----------------------------------------------------------------------------
(* The device and the driver.                                              *)

Version(kind) == [k \in 1..VersionLen |-> Byte(kind, 0, k)]
Preamble == <<Byte("pre", 0, 1), Byte("pre", 0, 2)>>
Answer(n) == <<Byte("cpm", n, 1), Byte("cpm", n, 2)>>

Chunkings(answer) ==
    {<<answer>>} \cup
    IF "split" \in device THEN {<<SubSeq(answer, 1, 1), Tail(answer)>>} ELSE {}
Silence == IF "mute" \in device THEN {<<>>} ELSE {}
VersionKinds == {"ver"} \cup IF "foreign" \in device THEN {"other"} ELSE {}
VersionReplies ==
    LET plain == UNION {Chunkings(Version(kind)) : kind \in VersionKinds}
    IN  plain \cup Silence
        \cup IF "preamble" \in device THEN {<<Preamble>> \o reply : reply \in plain} ELSE {}
CpmReplies(n) == Chunkings(Answer(n)) \cup Silence

(* A chunk comes in; while the port is closed nobody keeps it.             *)
Arrive ==
    /\ wire # <<>> /\ (rx = <<>> \/ "coalesce" \in device)
    /\ wire' = Tail(wire)
    /\ rx' = IF pc = "closed" THEN <<>> ELSE rx \o Head(wire)
    /\ UNCHANGED <<pc, hostVars, opens, beats, device>>

Beat ==
    /\ "heartbeat" \in device /\ beats < MaxBeats /\ beats' = beats + 1
    /\ wire' = Append(wire, <<Byte("beat", beats', 1), Byte("beat", beats', 2)>>)
    /\ UNCHANGED <<pc, rx, hostVars, opens, device>>

(* The wait before a read is long enough for a device that is not late: all *)
(* it has to say is there, or the first of the chunks it sends one by one.  *)
AnswerDue ==
    \/ wire = <<>> \/ "late" \in device
    \/ rx # <<>> /\ "coalesce" \notin device

(* serial_read: what is there, at most want bytes; none when it times out. *)
Got(want) == SubSeq(rx, 1, IF Len(rx) < want THEN Len(rx) ELSE want)
Left(want) == SubSeq(rx, want + 1, Len(rx))
ReadMayFail == rx = <<>> \/ "ioError" \in device

-----------------------------------------------------------------------------
(* open_com_port and init_com_after_open.                                  *)

KeepErrors == UNCHANGED read_error_count
ForgetErrors == read_error_count' = 0

(* Opening for the first time leaves read_error_count alone: it is 0 then. *)
OpenPort ==
    /\ pc = "closed" /\ opens < MaxOpens
    /\ pc' = "opened" /\ opens' = opens + 1
    /\ UNCHANGED <<rx, wire, hostVars, beats, device>>

SendGetVer ==
    /\ pc = "opened"
    /\ \/ pc' = "failed" /\ UNCHANGED <<wire, version_buf, attempt>>
       \/ /\ pc' = "getver" /\ version_buf' = <<>> /\ attempt' = 0
          /\ \E reply \in VersionReplies : wire' = wire \o reply
    /\ UNCHANGED <<rx, tries, read_error_count, reading, asked, silent, opens, beats, device>>

IsG(byte) == byte.at = 1 /\ byte.msg = "ver"
MayBeG(byte) == IsG(byte) \/ byte.msg \in {"cpm", "beat"}  \* 0x47 is also a count
MayDiscard(got) == Len(got) = 2 /\ ~IsG(got[1])
MayKeep(got) == Len(got) # 2 \/ MayBeG(got[1])
KeepEverything(got) == {got}
AfterDiscard(got) == (IF MayKeep(got) THEN {got} ELSE {})
                     \cup (IF MayDiscard(got) THEN {<<>>} ELSE {})

ReadVersion ==
    /\ pc = "getver" /\ AnswerDue
    /\ attempt < MaxVersionReads /\ Len(version_buf) < VersionLen
    /\ LET want == VersionLen - Len(version_buf) IN
       \/ /\ rx # <<>>
          /\ version_buf' \in AfterDiscard(version_buf \o Got(want))
          /\ rx' = Left(want)
          /\ attempt' = attempt + 1 /\ UNCHANGED pc
       \/ /\ ReadMayFail /\ pc' = "check"
          /\ UNCHANGED <<rx, version_buf, attempt>>
    /\ UNCHANGED <<wire, tries, read_error_count, reading, asked, silent, opens, beats, device>>

(* strstr(version_buf, "GMC"): a zero byte in front ends the string.       *)
GmcAt(i) == \A k \in 1..3 : version_buf[i + k - 1] = Byte("ver", 0, k)
SaysGmc == \E i \in 1..Len(version_buf) - 2 : GmcAt(i)
CutShort == \E i \in DOMAIN version_buf : version_buf[i].msg \in {"cpm", "beat"}

CheckVersion ==
    /\ pc \in {"getver", "check"}
    /\ pc = "getver" => attempt = MaxVersionReads \/ Len(version_buf) = VersionLen
    /\ \/ /\ Len(version_buf) = VersionLen /\ SaysGmc
          /\ pc' = "ready" /\ ForgetErrors
          /\ silent' = 0
       \/ /\ Len(version_buf) = VersionLen => ~SaysGmc \/ CutShort
          /\ pc' = "failed" /\ UNCHANGED <<read_error_count, silent>>
    /\ UNCHANGED <<rx, wire, version_buf, attempt, tries, reading, asked, opens, beats, device>>

CloseFailed ==
    /\ pc = "failed" /\ pc' = "closed" /\ rx' = <<>>
    /\ UNCHANGED <<wire, hostVars, opens, beats, device>>

-----------------------------------------------------------------------------
(* read_detector_sample and the attempts of do_one_sample_iteration.       *)

SendGetCpm ==
    /\ pc = "ready" /\ asked < MaxAsked
    /\ \/ pc' = "missed" /\ UNCHANGED <<wire, asked, attempt>>
       \/ /\ pc' = "getcpm" /\ asked' = asked + 1 /\ attempt' = 0
          /\ \E reply \in CpmReplies(asked') : wire' = wire \o reply
    /\ UNCHANGED <<rx, version_buf, tries, read_error_count, reading, silent, opens, beats, device>>

SameAttempt == attempt
NextAttempt == attempt + 1

(* Two bytes are the value, none is asked for once more, one is a failure  *)
(* that leaves the other byte of the answer to the next read.              *)
ReadCpm ==
    /\ pc = "getcpm" /\ AnswerDue
    /\ \/ /\ Len(rx) >= 2 /\ pc' = "ready"
          /\ reading' = [request |-> asked, bytes |-> Got(2)]
          /\ tries' = 0 /\ read_error_count' = 0 /\ silent' = 0
          /\ rx' = Left(2) /\ UNCHANGED attempt
       \/ /\ Len(rx) = 1 /\ pc' = "missed" /\ rx' = <<>>
          /\ UNCHANGED <<attempt, tries, read_error_count, reading, silent>>
       \/ /\ rx = <<>> /\ attempt < GetCpmAttempts - 1
          /\ attempt' = NextAttempt
          /\ UNCHANGED <<pc, rx, tries, read_error_count, reading, silent>>
       \/ /\ ReadMayFail
          /\ "ioError" \in device \/ attempt = GetCpmAttempts - 1
          /\ pc' = "missed"
          /\ UNCHANGED <<rx, attempt, tries, read_error_count, reading, silent>>
    /\ UNCHANGED <<wire, version_buf, asked, opens, beats, device>>

GivesUpSooner(errors) == errors >= ReadErrorThreshold
GivesUpLater(errors) == errors > ReadErrorThreshold + 1
GivesUp(errors) == errors > ReadErrorThreshold

MissedRead ==
    /\ pc = "missed" /\ silent' = silent + 1
    /\ IF tries + 1 < ReadAttempts
          THEN tries' = tries + 1 /\ pc' = "ready" /\ UNCHANGED read_error_count
          ELSE /\ tries' = 0 /\ read_error_count' = read_error_count + 1
               /\ pc' = IF GivesUp(read_error_count') THEN "lost" ELSE "ready"
    /\ UNCHANGED <<rx, wire, version_buf, attempt, reading, asked, opens, beats, device>>

CloseLost ==
    /\ pc = "lost" /\ pc' = "closed" /\ rx' = <<>>
    /\ UNCHANGED <<wire, hostVars, opens, beats, device>>

Idle == pc \in {"closed", "ready"} /\ UNCHANGED vars

InitDevice == OpenPort \/ SendGetVer \/ ReadVersion \/ CheckVersion \/ CloseFailed
ReadDevice == SendGetCpm \/ ReadCpm \/ MissedRead \/ CloseLost
HostStep == InitDevice \/ ReadDevice
Next == HostStep \/ Arrive \/ Beat \/ Idle

Spec == Init /\ [][Next]_vars
(* A read that ends without help of an I/O error.                          *)
WithoutIoError ==
    /\ pc = "getcpm" /\ pc' = "missed" => Len(rx) = 1 \/ attempt = GetCpmAttempts - 1
    /\ pc = "getver" /\ pc' = "check" => rx = <<>>
(* The program runs on, what the device sent comes in, and no I/O error is *)
(* relied upon to end an exchange.                                         *)
FairSpec == Spec /\ WF_vars(HostStep /\ WithoutIoError) /\ WF_vars(Arrive)

-----------------------------------------------------------------------------
(* The conversation as the main loop uses it. *)
Link ==
    IF pc = "lost" THEN "lost"
    ELSE IF pc \in {"ready", "getcpm", "missed"} THEN "ready" ELSE "closed"
Detector == INSTANCE DetectorUse WITH
    Threshold <- ReadErrorThreshold, errors <- read_error_count, link <- Link

(* GmcLink implements DetectorUse, with any device: what the bytes do is   *)
(* seen by the main loop as samples, misses and one loss at the threshold. *)
ImplementsDetector == Detector!Spec

-----------------------------------------------------------------------------
(* What must hold.                                                         *)

(* A device with its whole answer there when the wait is over, be it sent  *)
(* in one chunk or two; or one that greets, and says its version only when *)
(* the two bytes have been read.  Either may be mute or of another make.   *)
Prompt == {"split", "coalesce", "foreign", "mute"}
Greeter == {"preamble", "foreign", "mute"}
InTime ==
    \/ device \subseteq Prompt /\ ("split" \in device => "coalesce" \in device)
    \/ device \subseteq Greeter

(* A value written to data.bin is the answer to the GETCPM just sent, its  *)
(* most significant byte first, if the device is in time: however often it *)
(* is closed and opened again, no read leaves a byte to the next command.  *)
(* A greeting that is there together with the version, after the two       *)
(* seconds of com_port.cpp:31-32, does leave two (VersionReadInFull).      *)
ReadingIsAnswer ==
    InTime /\ reading # NoReading => reading.bytes = Answer(reading.request)

(* The sensor counts as lost exactly when every attempt of                 *)
(* READ_ERROR_THRESHOLD + 1 samples in a row has failed since the last     *)
(* value or the opening of the port, whatever the device does.             *)
Patience == (ReadErrorThreshold + 1) * ReadAttempts
LossIsExact ==
    /\ pc \in {"ready", "getcpm"} => silent < Patience
    /\ pc = "lost" => silent = Patience

(* No exchange blocks the sampling thread for ever, whatever the device    *)
(* does or leaves out: the read loops are bounded.                         *)
ExchangesEnd ==
    /\ pc \in {"opened", "getver"} ~> pc \in {"ready", "failed"}
    /\ pc = "getcpm" ~> pc # "getcpm"

(* docs/phase3-protocol.md:44 "Some devices may send 2 leading non-ASCII   *)
(* bytes; the host can discard them and keep reading until 14 bytes of     *)
(* version data are received": a device accepted has its version read.     *)
VersionReadInFull == pc = "ready" /\ asked = 0 => version_buf = Version("ver")
=============================================================================
