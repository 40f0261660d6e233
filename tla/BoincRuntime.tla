---------------------------- MODULE BoincRuntime -----------------------------
(***************************************************************************)
(* The work unit and the BOINC client, second by second: where             *)
(* recovered/main_app.cpp polls the client's requests                      *)
(* (gmc_boinc_should_exit and gmc_boinc_wait_if_suspended of               *)
(* recovered/boinc_wrapper.cpp), where it sleeps without polling, and the  *)
(* critical section around a sample.  What a sample, a quota and a trickle *)
(* are is in MainApp.                                                      *)
(*                                                                         *)
(* Requests come between any two steps.  Opening the port and reading a    *)
(* sample take up to a number of seconds; a pass of a polling loop is a    *)
(* poll, a hold while suspended, and a second of sleep.                    *)
(***************************************************************************)
EXTENDS Integers

CONSTANTS
    Interval,        \* gmc::SAMPLE_INTERVAL_SEC
    RetryDelay,      \* state.retry_delay_sec
    RetryCount,      \* state.retry_count_max
    ReadErrorThreshold,  \* gmc::READ_ERROR_THRESHOLD
    NumSamples,      \* the quota, of a task that starts afresh
    OpenSecs,        \* the longest init_com_after_open takes
    SampleSecs       \* the longest the exchanges of one sample take

ASSUME TimeAssumption ==
    /\ Interval \in Nat /\ Interval > 1
    /\ RetryDelay \in Nat /\ RetryCount \in Nat
    /\ ReadErrorThreshold \in Nat /\ NumSamples \in Nat \ {0}
    /\ OpenSecs \in Nat /\ SampleSecs \in Nat

VARIABLES
    pc,
    stage,           \* in a polling loop: before the poll, held, or past both
    left,            \* seconds left of the present sleep or exchange
    turn,            \* sample_index
    retries_left, com_open_ok,
    misses,          \* read_error_count
    quit_request, no_heartbeat, suspended,   \* BOINC_STATUS
    critical,        \* between boinc_begin_ and boinc_end_critical_section
    unrecorded,      \* a sample has been read and its line is not written
    exit,
    deaf,            \* seconds worked, not suspended, since an exit was asked for
    busy,            \* seconds worked although suspended
    rest,            \* seconds since the device was last asked, up to Interval
    elapsed,         \* seconds in the main loop, up to those of a whole job
    stalls           \* turns used up by a device that did not answer GETVER

statusVars == <<quit_request, no_heartbeat, suspended>>
timeVars == <<deaf, busy, rest, elapsed>>
loopVars == <<turn, retries_left, com_open_ok, misses, stalls>>
sampleVars == <<critical, unrecorded>>
vars == <<pc, stage, left, loopVars, statusVars, sampleVars, exit, timeVars>>

Larger(a, b) == IF a > b THEN a ELSE b
Smaller(a, b) == IF a < b THEN a ELSE b
Unpolled == Larger(Interval, OpenSecs + SampleSecs)
WholeJob == NumSamples * Interval

PlacesOK ==
    /\ pc \in {"open", "opening", "delay", "top", "reopening", "blind", "sample",
               "reading", "recording", "ending", "wait", "done"}
    /\ stage \in {"poll", "hold", "doze", "go"}
    /\ exit \in {"none", "quit", "noDetector", "complete", "stopped"}
FlagsOK ==
    /\ com_open_ok \in BOOLEAN /\ critical \in BOOLEAN /\ unrecorded \in BOOLEAN
    /\ quit_request \in BOOLEAN /\ no_heartbeat \in BOOLEAN /\ suspended \in BOOLEAN
CountsOK ==
    /\ left \in 0..Larger(Unpolled, RetryDelay)
    /\ turn \in 0..NumSamples /\ stalls \in 0..NumSamples
    /\ retries_left \in 0..RetryCount /\ misses \in Nat
    /\ deaf \in Nat /\ busy \in Nat /\ rest \in 0..Interval /\ elapsed \in 0..WholeJob
TypeOK == PlacesOK /\ FlagsOK /\ CountsOK

Init ==
    /\ pc = "open" /\ stage = "poll" /\ left = 0
    /\ turn = 0 /\ stalls = 0
    /\ retries_left = RetryCount /\ com_open_ok = FALSE /\ misses = 0
    /\ quit_request = FALSE /\ no_heartbeat = FALSE /\ suspended = FALSE
    /\ critical = FALSE /\ unrecorded = FALSE /\ exit = "none"
    /\ deaf = 0 /\ busy = 0 /\ rest = Interval /\ elapsed = 0

-----------------------------------------------------------------------------
(* Polls, sleeps and the end.                                              *)

ExitAsked == quit_request \/ no_heartbeat
Finish(why) == pc' = "done" /\ exit' = why

Second(working) ==
    /\ deaf' = IF ExitAsked /\ working /\ ~suspended THEN deaf + 1 ELSE deaf
    /\ busy' = IF suspended /\ working THEN busy + 1 ELSE busy
    /\ rest' = Smaller(rest + 1, Interval)
    /\ elapsed' = Smaller(elapsed + 1, WholeJob)

(* The loops that poll the client, while they have another pass to make.   *)
Loops == {"open", "delay", "top", "wait"}
PassWithoutRetries == pc \in {"delay", "wait"} => left > 0
AnotherPass ==
    /\ pc = "open" => retries_left > 0
    /\ pc \in {"delay", "wait"} => left > 0

PolledAtTop == {"open", "top"}
Polled == Loops
HeldAtTop == {"open", "top"}
Held == Loops

(* gmc_boinc_should_exit, and boinc_finish if it says so.                  *)
Poll ==
    /\ pc \in Loops /\ stage = "poll" /\ AnotherPass
    /\ IF ExitAsked /\ pc \in Polled
          THEN Finish("quit") /\ UNCHANGED stage
          ELSE stage' = "hold" /\ UNCHANGED <<pc, exit>>
    /\ UNCHANGED <<left, loopVars, statusVars, sampleVars, timeVars>>

(* gmc_boinc_wait_if_suspended: it looks at no other request.              *)
Hold ==
    /\ pc \in Loops /\ stage = "hold"
    /\ stage' = IF suspended /\ pc \in Held THEN "doze" ELSE "go"
    /\ UNCHANGED <<pc, left, loopVars, statusVars, sampleVars, exit, timeVars>>

DozeOn == "doze"
LookAgain == "hold"
Doze ==
    /\ pc \in Loops /\ stage = "doze" /\ stage' = LookAgain
    /\ Second(FALSE)
    /\ UNCHANGED <<pc, left, loopVars, statusVars, sampleVars, exit>>

(* A second of a polling loop, or of a sleep or an exchange without polls. *)
Sleep ==
    /\ left > 0 /\ left' = left - 1 /\ Second(TRUE)
    /\ \/ pc \in {"delay", "wait"} /\ stage = "go" /\ stage' = "poll"
       \/ pc \in {"opening", "reopening", "blind", "reading"} /\ UNCHANGED stage
    /\ UNCHANGED <<pc, loopVars, statusVars, sampleVars, exit>>

GoTo(place, secs) == pc' = place /\ left' = secs /\ stage' = "poll"

-----------------------------------------------------------------------------
(* open_com_until_ready and sleep_retry_delay.                             *)

TryOneComOpen ==
    /\ pc = "open" /\ stage = "go"
    /\ GoTo("delay", RetryDelay) \/ GoTo("opening", OpenSecs)
    /\ UNCHANGED <<loopVars, statusVars, sampleVars, exit, timeVars>>

InitAfterOpen ==
    /\ pc = "opening"
    /\ \/ /\ GoTo("top", 0)
          /\ com_open_ok' = TRUE /\ elapsed' = 0
       \/ GoTo("delay", RetryDelay) /\ UNCHANGED <<com_open_ok, elapsed>>
    /\ UNCHANGED <<turn, retries_left, misses, stalls, statusVars, sampleVars, exit, deaf,
                   busy, rest>>

RetryDelayOver ==
    /\ pc = "delay" /\ left = 0 /\ GoTo("open", 0)
    /\ retries_left' = retries_left - 1
    /\ UNCHANGED <<turn, com_open_ok, misses, stalls, statusVars, sampleVars, exit, timeVars>>

NoDetector ==
    /\ pc = "open" /\ retries_left = 0 /\ Finish("noDetector")
    /\ UNCHANGED <<stage, left, loopVars, statusVars, sampleVars, timeVars>>

-----------------------------------------------------------------------------
(* run_main_loop.                                                          *)

NoWaitWithoutPort == 0
WaitWithoutPort == Interval

QuotaReached ==
    /\ pc = "top" /\ stage = "go" /\ turn = NumSamples /\ Finish("complete")
    /\ UNCHANGED <<stage, left, loopVars, statusVars, sampleVars, timeVars>>

StartTurn ==
    /\ pc = "top" /\ stage = "go" /\ turn < NumSamples
    /\ IF com_open_ok THEN GoTo("sample", 0)
       ELSE GoTo("blind", WaitWithoutPort) \/ GoTo("reopening", OpenSecs)
    /\ UNCHANGED <<loopVars, statusVars, sampleVars, exit, timeVars>>

(* A device that does not answer GETVER uses up the turn at once.          *)
InitAfterReopen ==
    /\ pc = "reopening"
    /\ \/ /\ GoTo("sample", 0) /\ com_open_ok' = TRUE /\ misses' = 0
          /\ UNCHANGED <<turn, stalls>>
       \/ /\ GoTo("top", 0) /\ turn' = turn + 1 /\ stalls' = stalls + 1
          /\ UNCHANGED <<com_open_ok, misses>>
    /\ UNCHANGED <<retries_left, statusVars, sampleVars, exit, timeVars>>

NotCritical == critical' = FALSE
EnterCritical == critical' = TRUE

BeginSample ==
    /\ pc = "sample" /\ GoTo("reading", SampleSecs) /\ EnterCritical
    /\ UNCHANGED <<loopVars, statusVars, unrecorded, exit, timeVars>>

(* A value, or none in all attempts; the sensor is lost when none came     *)
(* from more samples than the threshold in a row.                          *)
EndReading ==
    /\ pc = "reading" /\ rest' = 0
    /\ \/ /\ GoTo("recording", 0) /\ unrecorded' = TRUE /\ misses' = 0
          /\ UNCHANGED com_open_ok
       \/ /\ GoTo("ending", 0) /\ misses' = misses + 1
          /\ com_open_ok' = (misses < ReadErrorThreshold)
          /\ UNCHANGED unrecorded
    /\ UNCHANGED <<turn, retries_left, stalls, statusVars, critical, exit, deaf, busy,
                   elapsed>>

WriteDataBinAndTrickle ==
    /\ pc = "recording" /\ GoTo("ending", 0) /\ unrecorded' = FALSE
    /\ UNCHANGED <<loopVars, statusVars, critical, exit, timeVars>>

ShortWait == Interval - 1
SampleWait == Interval

EndSample ==
    /\ pc = "ending" /\ GoTo("wait", SampleWait) /\ critical' = FALSE
    /\ UNCHANGED <<loopVars, statusVars, unrecorded, exit, timeVars>>

TurnOver ==
    /\ pc \in {"wait", "blind"} /\ left = 0 /\ GoTo("top", 0)
    /\ turn' = turn + 1
    /\ UNCHANGED <<retries_left, com_open_ok, misses, stalls, statusVars, sampleVars, exit,
                   timeVars>>

-----------------------------------------------------------------------------
(* The client and its library.                                             *)

RequestExit ==
    /\ \/ quit_request' = TRUE /\ UNCHANGED no_heartbeat
       \/ no_heartbeat' = TRUE /\ UNCHANGED quit_request
    /\ UNCHANGED <<pc, stage, left, loopVars, suspended, sampleVars, exit, timeVars>>

SuspendOrResume ==
    /\ suspended' = ~suspended /\ busy' = 0
    /\ UNCHANGED <<pc, stage, left, loopVars, quit_request, no_heartbeat, sampleVars, exit,
                   deaf, rest, elapsed>>

(* The library may end the process itself, but in no critical section.     *)
StopByLibrary ==
    /\ pc # "done" /\ ExitAsked /\ ~critical /\ Finish("stopped")
    /\ UNCHANGED <<stage, left, loopVars, statusVars, sampleVars, timeVars>>

OpenCom == TryOneComOpen \/ InitAfterOpen \/ RetryDelayOver \/ NoDetector
Iterate == QuotaReached \/ StartTurn \/ InitAfterReopen \/ TurnOver
TakeSample == BeginSample \/ EndReading \/ WriteDataBinAndTrickle \/ EndSample
AppStep == Poll \/ Hold \/ Doze \/ Sleep \/ OpenCom \/ Iterate \/ TakeSample
Client == RequestExit \/ SuspendOrResume \/ StopByLibrary
Next == AppStep \/ Client

Spec == Init /\ [][Next]_vars
(* The thread runs, a sleep ends, and so does every exchange (GmcLink).    *)
FairSpec == Spec /\ WF_vars(AppStep)

-----------------------------------------------------------------------------
(* What must hold.                                                         *)

(* A request to quit, or a lost heartbeat, is heard after no more work     *)
(* than one reopening with its sample or one interval, from wherever it    *)
(* finds the program; the time it is suspended or held does not count.     *)
PromptExit == deaf <= Unpolled

(* A suspension is obeyed within one exchange or one interval.             *)
SuspendRespected == busy <= Unpolled

(* The client never stops a task that has read a sample and has not yet    *)
(* written its line.                                                       *)
CleanStop == exit = "stopped" => ~unrecorded

(* The device is left alone for an interval between the end of one sample  *)
(* and the start of the next, a lost sensor and a reopened port included.  *)
SamplesSpaced == pc = "sample" => rest = Interval

(* A job takes its quota of intervals, except for the turns a device used  *)
(* up that was there and did not answer.                                   *)
TurnsTakeTime == exit = "complete" => elapsed >= (NumSamples - stalls) * Interval

(* A task that is in the end left running finishes, however often it was   *)
(* suspended before.                                                       *)
Resumes == (<>[]~suspended) => <>(pc = "done")

(* constants.h:36 "so task runtime matches project runtime": a job that    *)
(* completes its quota has lasted its quota of intervals.                  *)
RuntimeMatches == exit = "complete" => elapsed >= WholeJob
=============================================================================
