------------------------- MODULE BoincRuntimeProofs --------------------------
(***************************************************************************)
(* Theorems about module BoincRuntime, for every interval, delay, number   *)
(* of retries, quota and length of the exchanges.                          *)
(***************************************************************************)
EXTENDS BoincRuntime, TLAPS

USE DEF statusVars, timeVars, loopVars, sampleVars, vars, Loops

-----------------------------------------------------------------------------
(* The longest work between two polls is a number of seconds, no shorter   *)
(* than an interval, nor than a reopening with its sample.                 *)
LEMMA UnpolledBounds ==
    /\ Unpolled \in Nat /\ Interval <= Unpolled /\ 1 <= Unpolled
    /\ OpenSecs <= Unpolled /\ OpenSecs + SampleSecs <= Unpolled
  BY TimeAssumption DEF Unpolled, Larger

(* A whole job is a number of seconds.                                     *)
LEMMA WholeJobType == WholeJob \in Nat
  BY TimeAssumption DEF WholeJob

InTurn == {"reopening", "blind", "sample", "reading", "recording", "ending", "wait"}

(* What the other invariants need of the types: a turn is begun only below *)
(* the quota, an opening only with a retry left.                           *)
PlaceInv ==
    /\ PlacesOK /\ CountsOK
    /\ stalls <= turn
    /\ pc \in InTurn => turn < NumSamples
    /\ pc \in {"opening", "delay"} => retries_left > 0
    /\ pc = "open" /\ stage # "poll" => retries_left > 0

(* Whatever the time of a second is spent on, the counts of seconds stay   *)
(* what they are.                                                          *)
LEMMA SecondType ==
  ASSUME CountsOK, NEW working \in BOOLEAN, Second(working)
  PROVE  /\ deaf' \in Nat /\ busy' \in Nat
         /\ rest' \in 0..Interval /\ elapsed' \in 0..WholeJob
  BY TimeAssumption, WholeJobType DEF CountsOK, Second, Smaller

(* Every step keeps the types and the bounds of turns and retries.         *)
LEMMA PlaceInvariant == Spec => []PlaceInv
<1> USE TimeAssumption, UnpolledBounds, WholeJobType
<1>1. Init => PlaceInv
  <2>1. /\ 0 \in 0..Larger(Unpolled, RetryDelay) /\ 0 \in 0..NumSamples
        /\ RetryCount \in 0..RetryCount /\ Interval \in 0..Interval /\ 0 \in 0..WholeJob
    BY DEF Larger
  <2> QED  BY <2>1 DEF Init, PlaceInv, PlacesOK, CountsOK, InTurn
<1>2. PlaceInv /\ [Next]_vars => PlaceInv'
  <2> SUFFICES ASSUME PlaceInv, [Next]_vars PROVE PlaceInv'
    OBVIOUS
  <2> USE DEF PlaceInv, PlacesOK, CountsOK, InTurn
  <2>0. /\ Interval \in 0..Larger(Unpolled, RetryDelay)
        /\ RetryDelay \in 0..Larger(Unpolled, RetryDelay)
        /\ OpenSecs \in 0..Larger(Unpolled, RetryDelay)
        /\ SampleSecs \in 0..Larger(Unpolled, RetryDelay)
        /\ 0 \in 0..Larger(Unpolled, RetryDelay)
    BY DEF Larger
  <2>1. CASE Poll
    BY <2>1 DEF Poll, Finish, AnotherPass
  <2>2. CASE Hold
    BY <2>2 DEF Hold
  <2>3. CASE Doze
    <3>1. Second(FALSE)
      BY <2>3 DEF Doze
    <3> QED  BY <2>3, <3>1, SecondType DEF Doze, LookAgain
  <2>4. CASE Sleep
    <3> DEFINE most == Larger(Unpolled, RetryDelay)
    <3>1. most \in Nat
      BY DEF Larger
    <3>2. left > 0 /\ left' = left - 1 /\ left \in 0..most /\ Second(TRUE)
      BY <2>4 DEF Sleep
    <3>3. left' \in 0..most
      <4> HIDE DEF most
      <4> QED  BY <3>1, <3>2
    <3>4. /\ pc # "open" /\ stage' \in {"poll", "hold", "doze", "go"}
          /\ UNCHANGED <<pc, loopVars, statusVars, sampleVars, exit>>
      BY <2>4 DEF Sleep
    <3> QED  BY <3>2, <3>3, <3>4, SecondType
  <2>5. CASE TryOneComOpen
    BY <2>5, <2>0 DEF TryOneComOpen, GoTo
  <2>6. CASE InitAfterOpen
    BY <2>6, <2>0 DEF InitAfterOpen, GoTo
  <2>7. CASE RetryDelayOver
    BY <2>7, <2>0 DEF RetryDelayOver, GoTo
  <2>8. CASE NoDetector
    BY <2>8 DEF NoDetector, Finish
  <2>9. CASE QuotaReached
    BY <2>9 DEF QuotaReached, Finish
  <2>10. CASE StartTurn
    BY <2>10, <2>0 DEF StartTurn, GoTo, WaitWithoutPort
  <2>11. CASE InitAfterReopen
    BY <2>11, <2>0 DEF InitAfterReopen, GoTo
  <2>12. CASE BeginSample
    BY <2>12, <2>0 DEF BeginSample, GoTo, EnterCritical
  <2>13. CASE EndReading
    BY <2>13, <2>0 DEF EndReading, GoTo
  <2>14. CASE WriteDataBinAndTrickle
    BY <2>14, <2>0 DEF WriteDataBinAndTrickle, GoTo
  <2>15. CASE EndSample
    BY <2>15, <2>0 DEF EndSample, GoTo, SampleWait
  <2>16. CASE TurnOver
    BY <2>16, <2>0 DEF TurnOver, GoTo
  <2>17. CASE RequestExit
    BY <2>17 DEF RequestExit
  <2>18. CASE SuspendOrResume
    BY <2>18 DEF SuspendOrResume
  <2>19. CASE StopByLibrary
    BY <2>19 DEF StopByLibrary, Finish
  <2>20. CASE UNCHANGED vars
    BY <2>20
  <2> QED
    BY <2>1, <2>2, <2>3, <2>4, <2>5, <2>6, <2>7, <2>8, <2>9, <2>10, <2>11, <2>12, <2>13,
       <2>14, <2>15, <2>16, <2>17, <2>18, <2>19, <2>20
    DEF Next, AppStep, Client, OpenCom, Iterate, TakeSample
<1> QED  BY <1>1, <1>2, PTL DEF Spec

(* The flags are Booleans.                                                 *)
LEMMA FlagsInvariant == Spec => []FlagsOK
<1>1. Init => FlagsOK
  BY DEF Init, FlagsOK
<1>2. FlagsOK /\ [Next]_vars => FlagsOK'
  <2> SUFFICES ASSUME FlagsOK, [Next]_vars PROVE FlagsOK'
    OBVIOUS
  <2> USE DEF FlagsOK
  <2>1. CASE Poll \/ Hold \/ Doze \/ Sleep
    <3>1. UNCHANGED <<com_open_ok, statusVars, sampleVars>>
      BY <2>1 DEF Poll, Hold, Doze, Sleep
    <3> QED  BY <3>1
  <2>2. CASE OpenCom
    <3>1. com_open_ok' \in BOOLEAN /\ UNCHANGED <<statusVars, sampleVars>>
      BY <2>2 DEF OpenCom, TryOneComOpen, InitAfterOpen, RetryDelayOver, NoDetector
    <3> QED  BY <3>1
  <2>3. CASE Iterate
    <3>1. com_open_ok' \in BOOLEAN /\ UNCHANGED <<statusVars, sampleVars>>
      BY <2>3 DEF Iterate, QuotaReached, StartTurn, InitAfterReopen, TurnOver
    <3> QED  BY <3>1
  <2>4. CASE TakeSample
    <3>1. /\ com_open_ok' \in BOOLEAN /\ critical' \in BOOLEAN /\ unrecorded' \in BOOLEAN
          /\ UNCHANGED statusVars
      <4>1. CASE EndReading
        <5>1. (misses < ReadErrorThreshold) \in BOOLEAN
          OBVIOUS
        <5>2. com_open_ok' \in BOOLEAN
          BY <4>1, <5>1, Zenon DEF EndReading
        <5>3. unrecorded' \in BOOLEAN /\ UNCHANGED <<critical, statusVars>>
          BY <4>1 DEF EndReading
        <5> QED  BY <5>2, <5>3
      <4>2. CASE BeginSample \/ WriteDataBinAndTrickle \/ EndSample
        BY <4>2 DEF BeginSample, WriteDataBinAndTrickle, EndSample, EnterCritical
      <4> QED  BY <2>4, <4>1, <4>2 DEF TakeSample
    <3> QED  BY <3>1
  <2>5. CASE Client
    <3>1. /\ UNCHANGED <<com_open_ok, sampleVars>>
          /\ quit_request' \in BOOLEAN /\ no_heartbeat' \in BOOLEAN
          /\ suspended' \in BOOLEAN
      BY <2>5 DEF Client, RequestExit, SuspendOrResume, StopByLibrary
    <3> QED  BY <3>1
  <2>6. CASE UNCHANGED vars
    BY <2>6
  <2> QED  BY <2>1, <2>2, <2>3, <2>4, <2>5, <2>6 DEF Next, AppStep
<1> QED  BY <1>1, <1>2, PTL DEF Spec

(* Every variable keeps its type: no retry, turn or second is counted      *)
(* below zero or above its bound.                                          *)
THEOREM TypeCorrect == Spec => []TypeOK
<1>1. PlaceInv /\ FlagsOK => TypeOK
  BY DEF PlaceInv, TypeOK
<1> QED  BY <1>1, PlaceInvariant, FlagsInvariant, PTL

-----------------------------------------------------------------------------
(* How long a request can wait.                                            *)

(* Past the poll of a pass nobody has waited yet; from then on the seconds *)
(* waited and those left of a sleep or exchange stay within what is        *)
(* between two polls.                                                      *)
DeafBounds ==
    /\ deaf <= Unpolled
    /\ pc \in Loops /\ stage # "poll" => deaf = 0
    /\ pc = "opening" \/ pc = "reopening" => deaf + left <= OpenSecs
    /\ pc = "sample" => deaf <= OpenSecs
    /\ pc = "reading" => deaf + left <= OpenSecs + SampleSecs
    /\ pc = "blind" => deaf + left <= Interval
DeafInv == DeafBounds /\ (~ExitAsked => deaf = 0)

(* Every step keeps the bound, the polls because they end the program.     *)
LEMMA DeafInvariant == Spec => []DeafInv
<1> USE TimeAssumption, UnpolledBounds
<1>1. Init => DeafInv
  BY DEF Init, DeafInv, DeafBounds, ExitAsked
<1>2. PlaceInv /\ DeafInv /\ [Next]_vars => DeafInv'
  <2> SUFFICES ASSUME PlaceInv, DeafInv, [Next]_vars PROVE DeafInv'
    OBVIOUS
  <2>0. left \in Nat /\ deaf \in Nat
    BY DEF PlaceInv, CountsOK, Larger
  <2> USE <2>0 DEF DeafInv, DeafBounds
  <2>1. CASE Poll
    BY <2>1 DEF Poll, Finish, Polled, ExitAsked
  <2>2. CASE Hold
    BY <2>2 DEF Hold, ExitAsked
  <2>3. CASE Doze
    BY <2>3 DEF Doze, Second, LookAgain, ExitAsked
  <2>4. CASE Sleep
    <3>1. /\ deaf' = deaf \/ deaf' = deaf + 1
          /\ left > 0 /\ left' = left - 1 /\ pc' = pc
      BY <2>4 DEF Sleep, Second
    <3>2. DeafBounds'
      <4> HIDE DEF DeafInv
      <4>1. DeafBounds
        BY DEF DeafInv
      <4>2. CASE pc \in {"delay", "wait"} /\ stage = "go" /\ stage' = "poll"
        BY <3>1, <4>1, <4>2
      <4>3. CASE pc \in {"opening", "reopening", "blind", "reading"}
        BY <3>1, <4>1, <4>3
      <4> QED  BY <2>4, <4>2, <4>3 DEF Sleep
    <3>3. (~ExitAsked => deaf = 0)'
      BY <2>4 DEF Sleep, Second, ExitAsked
    <3> QED  BY <3>2, <3>3
  <2>5. CASE OpenCom
    BY <2>5 DEF OpenCom, TryOneComOpen, InitAfterOpen, RetryDelayOver, NoDetector, GoTo,
                Finish, ExitAsked
  <2>6. CASE Iterate
    BY <2>6 DEF Iterate, QuotaReached, StartTurn, InitAfterReopen, TurnOver, GoTo, Finish,
                WaitWithoutPort, ExitAsked
  <2>7. CASE TakeSample
    BY <2>7 DEF TakeSample, BeginSample, EndReading, WriteDataBinAndTrickle, EndSample,
                GoTo, EnterCritical, SampleWait, ExitAsked
  <2>8. CASE Client
    BY <2>8 DEF Client, RequestExit, SuspendOrResume, StopByLibrary, Finish, ExitAsked
  <2>9. CASE UNCHANGED vars
    BY <2>9 DEF ExitAsked
  <2> QED  BY <2>1, <2>2, <2>3, <2>4, <2>5, <2>6, <2>7, <2>8, <2>9 DEF Next, AppStep
<1> QED  BY <1>1, <1>2, PlaceInvariant, PTL DEF Spec

(* A request to leave is heard within Unpolled seconds of work, whatever   *)
(* the interval, the delays and the exchanges last.                        *)
THEOREM ExitsPromptly == Spec => []PromptExit
<1>1. DeafInv => PromptExit
  BY DEF DeafInv, DeafBounds, PromptExit
<1> QED  BY <1>1, DeafInvariant, PTL

(* The same of a suspension, from the second look of a pass on.            *)
BusyBounds ==
    /\ busy <= Unpolled
    /\ pc \in Loops /\ stage = "go" => busy = 0
    /\ pc = "opening" \/ pc = "reopening" => busy + left <= OpenSecs
    /\ pc = "sample" => busy <= OpenSecs
    /\ pc = "reading" => busy + left <= OpenSecs + SampleSecs
    /\ pc = "blind" => busy + left <= Interval
BusyInv == BusyBounds /\ (~suspended => busy = 0)

(* Every step keeps the bound, the second look because it holds the task.  *)
LEMMA BusyInvariant == Spec => []BusyInv
<1> USE TimeAssumption, UnpolledBounds
<1>1. Init => BusyInv
  BY DEF Init, BusyInv, BusyBounds
<1>2. PlaceInv /\ PlaceInv' /\ BusyInv /\ [Next]_vars => BusyInv'
  <2> SUFFICES ASSUME PlaceInv, PlaceInv', BusyInv, [Next]_vars PROVE BusyInv'
    OBVIOUS
  <2>0. left \in Nat /\ left' \in Nat /\ busy \in Nat
    BY DEF PlaceInv, CountsOK, Larger
  <2> USE <2>0 DEF BusyInv, BusyBounds
  <2>1. CASE Poll
    BY <2>1 DEF Poll, Finish
  <2>2. CASE Hold
    BY <2>2 DEF Hold, Held
  <2>3. CASE Doze
    BY <2>3 DEF Doze, Second, LookAgain
  <2>4. CASE Sleep
    <3>1. /\ busy' = busy \/ busy' = busy + 1
          /\ left > 0 /\ left' = left - 1 /\ pc' = pc
      BY <2>4 DEF Sleep, Second
    <3>2. BusyBounds'
      <4> HIDE DEF BusyInv
      <4>1. BusyBounds
        BY DEF BusyInv
      <4>2. CASE pc \in {"delay", "wait"} /\ stage = "go" /\ stage' = "poll"
        BY <3>1, <4>1, <4>2
      <4>3. CASE pc \in {"opening", "reopening", "blind", "reading"}
        BY <3>1, <4>1, <4>3
      <4> QED  BY <2>4, <4>2, <4>3 DEF Sleep
    <3>3. (~suspended => busy = 0)'
      BY <2>4 DEF Sleep, Second
    <3> QED  BY <3>2, <3>3
  <2>5. CASE OpenCom
    BY <2>5 DEF OpenCom, TryOneComOpen, InitAfterOpen, RetryDelayOver, NoDetector, GoTo,
                Finish
  <2>6. CASE Iterate
    BY <2>6 DEF Iterate, QuotaReached, StartTurn, InitAfterReopen, TurnOver, GoTo, Finish,
                WaitWithoutPort
  <2>7. CASE TakeSample
    BY <2>7 DEF TakeSample, BeginSample, EndReading, WriteDataBinAndTrickle, EndSample,
                GoTo, EnterCritical, SampleWait
  <2>8. CASE RequestExit \/ StopByLibrary
    BY <2>8 DEF RequestExit, StopByLibrary, Finish
  <2>9. CASE SuspendOrResume
    <3>1. left <= OpenSecs \/ pc \notin {"opening", "reopening"}
      BY <2>0
    <3>2. busy' = 0 /\ UNCHANGED <<pc, stage, left>>
      BY <2>9 DEF SuspendOrResume
    <3> QED  BY <3>1, <3>2
  <2>10. CASE UNCHANGED vars
    BY <2>10
  <2> QED
    BY <2>1, <2>2, <2>3, <2>4, <2>5, <2>6, <2>7, <2>8, <2>9, <2>10 DEF Next, AppStep, Client
<1> QED  BY <1>1, <1>2, PlaceInvariant, PTL DEF Spec

(* A suspended task works on for no more than Unpolled seconds.            *)
THEOREM SuspensionRespected == Spec => []SuspendRespected
<1>1. BusyInv => SuspendRespected
  BY DEF BusyInv, BusyBounds, SuspendRespected
<1> QED  BY <1>1, BusyInvariant, PTL

-----------------------------------------------------------------------------
(* The sample and its spacing.                                             *)

(* The critical section is held from before the first request to the       *)
(* device until after the line is written.                                 *)
CriticalInv ==
    /\ pc \in {"reading", "recording", "ending"} => critical
    /\ unrecorded => pc = "recording"
    /\ pc # "done" => exit = "none"
    /\ exit = "stopped" => ~unrecorded

(* Every step keeps it, since the library stops nothing that is critical.  *)
LEMMA CriticalInvariant == Spec => []CriticalInv
<1>1. Init => CriticalInv
  BY DEF Init, CriticalInv
<1>2. CriticalInv /\ [Next]_vars => CriticalInv'
  <2> SUFFICES ASSUME CriticalInv, [Next]_vars PROVE CriticalInv'
    OBVIOUS
  <2> USE DEF CriticalInv
  <2>1. CASE Poll
    BY <2>1 DEF Poll, Finish
  <2>2. CASE Hold \/ Doze \/ Sleep
    <3>1. UNCHANGED <<pc, sampleVars, exit>>
      BY <2>2 DEF Hold, Doze, Sleep
    <3> QED  BY <3>1
  <2>3. CASE OpenCom
    BY <2>3 DEF OpenCom, TryOneComOpen, InitAfterOpen, RetryDelayOver, NoDetector, GoTo,
                Finish
  <2>4. CASE Iterate
    BY <2>4 DEF Iterate, QuotaReached, StartTurn, InitAfterReopen, TurnOver, GoTo, Finish
  <2>5. CASE TakeSample
    BY <2>5 DEF TakeSample, BeginSample, EndReading, WriteDataBinAndTrickle, EndSample,
                GoTo, EnterCritical
  <2>6. CASE Client
    BY <2>6 DEF Client, RequestExit, SuspendOrResume, StopByLibrary, Finish
  <2>7. CASE UNCHANGED vars
    BY <2>7
  <2> QED  BY <2>1, <2>2, <2>3, <2>4, <2>5, <2>6, <2>7 DEF Next, AppStep
<1> QED  BY <1>1, <1>2, PTL DEF Spec

(* The client stops no task between a reading and its line.                *)
THEOREM StopsClean == Spec => []CleanStop
<1>1. CriticalInv => CleanStop
  BY DEF CriticalInv, CleanStop
<1> QED  BY <1>1, CriticalInvariant, PTL

(* Away from a sample the device has rested an interval, or it rests now.  *)
RestInv ==
    /\ pc \in {"open", "opening", "delay", "top", "reopening", "blind", "sample"} =>
          rest = Interval
    /\ pc = "wait" => rest + left >= Interval

(* Every step keeps it: a turn is over when the wait is.                   *)
LEMMA RestInvariant == Spec => []RestInv
<1> USE TimeAssumption
<1>1. Init => RestInv
  BY DEF Init, RestInv
<1>2. PlaceInv /\ RestInv /\ [Next]_vars => RestInv'
  <2> SUFFICES ASSUME PlaceInv, RestInv, [Next]_vars PROVE RestInv'
    OBVIOUS
  <2>0. left \in Nat /\ rest \in 0..Interval
    BY UnpolledBounds DEF PlaceInv, CountsOK, Larger
  <2> USE <2>0 DEF RestInv
  <2>1. CASE Poll \/ Hold
    BY <2>1 DEF Poll, Hold, Finish
  <2>2. CASE Doze
    BY <2>2 DEF Doze, Second, Smaller
  <2>3. CASE Sleep
    <3>1. /\ rest' = IF rest + 1 < Interval THEN rest + 1 ELSE Interval
          /\ left > 0 /\ left' = left - 1 /\ pc' = pc
      BY <2>3 DEF Sleep, Second, Smaller
    <3>2. rest = Interval => rest' = Interval
      BY <3>1
    <3>3. rest + left >= Interval => rest' + left' >= Interval
      BY <3>1
    <3> QED  BY <3>1, <3>2, <3>3
  <2>4. CASE OpenCom
    BY <2>4 DEF OpenCom, TryOneComOpen, InitAfterOpen, RetryDelayOver, NoDetector, GoTo,
                Finish
  <2>5. CASE Iterate
    BY <2>5 DEF Iterate, QuotaReached, StartTurn, InitAfterReopen, TurnOver, GoTo, Finish
  <2>6. CASE TakeSample
    BY <2>6 DEF TakeSample, BeginSample, EndReading, WriteDataBinAndTrickle, EndSample,
                GoTo, SampleWait
  <2>7. CASE Client
    BY <2>7 DEF Client, RequestExit, SuspendOrResume, StopByLibrary, Finish
  <2>8. CASE UNCHANGED vars
    BY <2>8
  <2> QED  BY <2>1, <2>2, <2>3, <2>4, <2>5, <2>6, <2>7, <2>8 DEF Next, AppStep
<1> QED  BY <1>1, <1>2, PlaceInvariant, PTL DEF Spec

(* Two samples are at least an interval apart, for every interval.         *)
THEOREM SamplesAreSpaced == Spec => []SamplesSpaced
<1>1. RestInv => SamplesSpaced
  BY DEF RestInv, SamplesSpaced
<1> QED  BY <1>1, RestInvariant, PTL

-----------------------------------------------------------------------------
(* What a job lasts.                                                       *)

Lasted(turns) == turns * Interval

(* One turn more is one interval more, and all the turns are a whole job.  *)
LEMMA LastedStep ==
  ASSUME NEW n \in Int
  PROVE  /\ Lasted(n) \in Int /\ Lasted(n + 1) = Lasted(n) + Interval
         /\ n <= NumSamples => Lasted(n) <= WholeJob
<1> DEFINE gap == NumSamples - n
<1>1. gap \in Int /\ Interval \in Nat /\ NumSamples \in Nat
  BY TimeAssumption
<1>2. n * Interval \in Int /\ (n + 1) * Interval = n * Interval + Interval
  BY <1>1
<1>3. (gap + n) * Interval = gap * Interval + n * Interval
  BY <1>1
<1>4. gap >= 0 => gap * Interval >= 0
  BY <1>1
<1>5. gap * Interval \in Int
  BY <1>1
<1>6. NumSamples * Interval = gap * Interval + n * Interval
  BY <1>1, <1>3
<1>7. n <= NumSamples => n * Interval <= NumSamples * Interval
  <2>1. n <= NumSamples => gap >= 0
    BY <1>1
  <2> HIDE DEF gap
  <2> QED  BY <1>2, <1>4, <1>5, <1>6, <2>1
<1> QED  BY <1>2, <1>7 DEF Lasted, WholeJob

(* The turns that were no stall have each taken their interval, the one    *)
(* that waits with the seconds it has left.                                *)
Due == Lasted(turn - stalls)
TimeInv ==
    /\ pc \in {"top", "reopening", "sample", "reading", "recording", "ending"} =>
          elapsed >= Due
    /\ pc \in {"wait", "blind"} => elapsed + left >= Due + Interval
    /\ exit = "complete" => elapsed >= Lasted(NumSamples - stalls)
    /\ pc # "done" => exit = "none"
    /\ pc \in {"open", "opening", "delay"} => turn = 0

(* Every step keeps it: a turn ends with its wait, or as a stall.          *)
LEMMA TimeInvariant == Spec => []TimeInv
<1> USE TimeAssumption, WholeJobType
<1>1. Init => TimeInv
  BY DEF Init, TimeInv
<1>2. PlaceInv /\ TimeInv /\ [Next]_vars => TimeInv'
  <2> SUFFICES ASSUME PlaceInv, TimeInv, [Next]_vars PROVE TimeInv'
    OBVIOUS
  <2>0. /\ left \in Nat /\ elapsed \in 0..WholeJob
        /\ turn \in 0..NumSamples /\ stalls \in 0..NumSamples /\ stalls <= turn
    BY UnpolledBounds DEF PlaceInv, CountsOK, Larger
  <2> DEFINE n == turn - stalls
  <2>a. n \in 0..NumSamples /\ n \in Int
    BY <2>0
  <2>b. Due \in Int /\ Lasted(n + 1) = Due + Interval /\ Due <= WholeJob
    BY <2>a, LastedStep DEF Due
  <2>c. pc \in {"wait", "blind"} => Due + Interval <= WholeJob
    <3>1. pc \in {"wait", "blind"} => turn < NumSamples
      BY DEF PlaceInv, InTurn
    <3>2. pc \in {"wait", "blind"} => n + 1 \in Int /\ n + 1 <= NumSamples
      BY <2>0, <3>1
    <3> HIDE DEF n
    <3> QED  BY <2>b, <3>2, LastedStep
  <2>1. CASE Doze \/ Sleep
    <3>1. /\ elapsed' = IF elapsed + 1 < WholeJob THEN elapsed + 1 ELSE WholeJob
          /\ pc' = pc /\ exit' = exit /\ turn' = turn /\ stalls' = stalls
          /\ \/ left' = left
             \/ left > 0 /\ left' = left - 1
          /\ pc # "done"
      BY <2>1 DEF Doze, Sleep, Second, Smaller
    <3>2. Due' = Due /\ exit' # "complete"
      BY <3>1 DEF Due, TimeInv
    <3>3. elapsed >= Due => elapsed' >= Due
      BY <2>0, <2>b, <3>1
    <3>4. pc \in {"wait", "blind"} /\ elapsed + left >= Due + Interval =>
             elapsed' + left' >= Due + Interval
      BY <2>0, <2>b, <2>c, <3>1
    <3> QED  BY <3>1, <3>2, <3>3, <3>4 DEF TimeInv
  <2>2. CASE Poll \/ Hold \/ Client \/ UNCHANGED vars
    <3>1. /\ UNCHANGED <<left, turn, stalls, elapsed>>
          /\ \/ pc' = pc /\ exit' = exit
             \/ pc' = "done" /\ exit' \in {"quit", "stopped"}
      BY <2>2 DEF Poll, Hold, Client, RequestExit, SuspendOrResume, StopByLibrary, Finish
    <3>2. Due' = Due
      BY <3>1 DEF Due
    <3> QED  BY <3>1, <3>2 DEF TimeInv
  <2>3. CASE OpenCom
    <3>1. CASE InitAfterOpen
      <4>1. turn = 0 /\ n = 0 /\ Due' = Due
        BY <2>0, <3>1 DEF InitAfterOpen, TimeInv, Due
      <4>2. Due = 0
        BY <4>1 DEF Due, Lasted
      <4> QED  BY <3>1, <4>1, <4>2 DEF InitAfterOpen, GoTo, TimeInv
    <3>2. CASE TryOneComOpen \/ RetryDelayOver \/ NoDetector
      BY <3>2 DEF TryOneComOpen, RetryDelayOver, NoDetector, GoTo, Finish, TimeInv
    <3> QED  BY <2>3, <3>1, <3>2 DEF OpenCom
  <2>4. CASE QuotaReached \/ StartTurn \/ TakeSample
    <3>1. Due' = Due /\ elapsed' = elapsed
      BY <2>4 DEF QuotaReached, StartTurn, TakeSample, BeginSample, EndReading,
                  WriteDataBinAndTrickle, EndSample, Due
    <3>2. CASE QuotaReached
      BY <3>1, <3>2 DEF QuotaReached, Finish, TimeInv, Due
    <3>3. CASE StartTurn
      BY <2>0, <2>b, <3>1, <3>3 DEF StartTurn, GoTo, WaitWithoutPort, TimeInv
    <3>4. CASE TakeSample
      BY <2>0, <2>b, <3>1, <3>4
      DEF TakeSample, BeginSample, EndReading, WriteDataBinAndTrickle, EndSample, GoTo,
          SampleWait, TimeInv
    <3> QED  BY <2>4, <3>2, <3>3, <3>4
  <2>5. CASE InitAfterReopen
    <3>1. turn' - stalls' = turn - stalls
      BY <2>0, <2>5 DEF InitAfterReopen
    <3>2. Due' = Due
      BY <3>1 DEF Due
    <3> QED  BY <2>5, <3>2 DEF InitAfterReopen, GoTo, TimeInv
  <2>6. CASE TurnOver
    <3>1. /\ pc' = "top" /\ pc \in {"wait", "blind"} /\ left = 0
          /\ elapsed' = elapsed /\ exit' = exit
          /\ turn' = turn + 1 /\ stalls' = stalls
      BY <2>6 DEF TurnOver, GoTo
    <3>2. turn' - stalls' = n + 1
      BY <2>0, <3>1
    <3>3. Due' = Due + Interval
      BY <2>b, <3>2 DEF Due
    <3>4. elapsed' >= Due'
      BY <2>0, <2>b, <3>1, <3>3 DEF TimeInv
    <3> QED  BY <3>1, <3>4 DEF TimeInv
  <2> QED  BY <2>1, <2>2, <2>3, <2>4, <2>5, <2>6 DEF Next, AppStep, Iterate
<1> QED  BY <1>1, <1>2, PlaceInvariant, PTL DEF Spec

(* A completed job has lasted an interval for each turn but the stalls.    *)
THEOREM TurnsLast == Spec => []TurnsTakeTime
<1>1. TimeInv => TurnsTakeTime
  BY DEF TimeInv, TurnsTakeTime, Lasted
<1> QED  BY <1>1, TimeInvariant, PTL
-----------------------------------------------------------------------------
(* Every step of a task left running leads on.                             *)

(* While the task is not suspended each step of the thread is a later look *)
(* of the same pass, a second less to sleep, or a later place of the code, *)
(* or it goes back to the head of a loop with a retry or a turn less.  So  *)
(* a task left running has finitely many steps to go, and what Resumes     *)
(* asks of fairness is that they are taken.                                *)
Places == <<"open", "opening", "delay", "top", "reopening", "blind", "sample", "reading",
            "recording", "ending", "wait", "done">>
Looks == <<"poll", "doze", "hold", "go">>
Later(order, from, to) ==
    \E i, j \in DOMAIN order : i < j /\ order[i] = from /\ order[j] = to
LaterLook == UNCHANGED <<pc, left, turn, retries_left>> /\ Later(Looks, stage, stage')
SecondSpent == UNCHANGED <<pc, turn, retries_left>> /\ left' \in 0..left - 1
LaterPlace == UNCHANGED <<turn, retries_left>> /\ Later(Places, pc, pc')
RetrySpent == pc' = "open" /\ UNCHANGED turn /\ retries_left' \in 0..retries_left - 1
TurnSpent == pc' = "top" /\ UNCHANGED retries_left /\ turn' \in turn + 1..NumSamples
ThreadLeadsOn ==
    \/ suspended
    \/ LaterLook \/ SecondSpent \/ LaterPlace \/ RetrySpent \/ TurnSpent
    \/ Client
RunningLeadsOn == [][ThreadLeadsOn]_vars

(* The places and the looks in their order.                                *)
LEMMA OrderNumbers ==
    /\ DOMAIN Places = 1..12 /\ DOMAIN Looks = 1..4
    /\ Places[1] = "open" /\ Places[2] = "opening" /\ Places[3] = "delay"
    /\ Places[4] = "top" /\ Places[5] = "reopening" /\ Places[6] = "blind"
    /\ Places[7] = "sample" /\ Places[8] = "reading" /\ Places[9] = "recording"
    /\ Places[10] = "ending" /\ Places[11] = "wait" /\ Places[12] = "done"
    /\ Looks[1] = "poll" /\ Looks[2] = "doze" /\ Looks[3] = "hold" /\ Looks[4] = "go"
  BY DEF Places, Looks

(* No loop of the task goes round without using something up, not even the *)
(* one that waits without a port (main_app.cpp:388), and a resumed task    *)
(* does not go back behind the suspension.                                 *)
THEOREM TasksLeadOn == Spec => RunningLeadsOn
<1> USE TimeAssumption
<1>1. PlaceInv /\ [Next]_vars => [ThreadLeadsOn]_vars
  <2> SUFFICES ASSUME PlaceInv, AppStep, ~suspended
               PROVE  LaterLook \/ SecondSpent \/ LaterPlace \/ RetrySpent \/ TurnSpent
    BY DEF Next, ThreadLeadsOn
  <2>0. /\ left \in Nat /\ turn \in 0..NumSamples /\ retries_left \in 0..RetryCount
        /\ pc \in InTurn => turn < NumSamples
        /\ pc \in {"opening", "delay"} => retries_left > 0
    <3>1. left \in 0..Larger(Unpolled, RetryDelay) => left \in Nat
      BY UnpolledBounds DEF Larger
    <3> QED  BY <3>1 DEF PlaceInv, CountsOK
  <2>1. CASE Poll
    <3>1. CASE pc' = "done"
      <4>1. Later(Places, pc, pc')
        BY <2>1, <3>1, OrderNumbers DEF Poll, Later
      <4> QED  BY <2>1, <4>1 DEF Poll, LaterPlace
    <3>2. CASE stage' = "hold" /\ UNCHANGED pc
      <4>1. Later(Looks, stage, stage')
        BY <2>1, <3>2, OrderNumbers DEF Poll, Later
      <4> QED  BY <2>1, <3>2, <4>1 DEF Poll, LaterLook
    <3> QED  BY <2>1, <3>1, <3>2 DEF Poll, Finish
  <2>2. CASE Hold \/ Doze
    <3>1. (stage = "hold" /\ stage' = "go") \/ (stage = "doze" /\ stage' = "hold")
      <4>1. Hold => stage = "hold" /\ stage' = "go"
        BY DEF Hold
      <4>2. Doze => stage = "doze" /\ stage' = "hold"
        BY DEF Doze, LookAgain
      <4> QED  BY <2>2, <4>1, <4>2
    <3>2. Later(Looks, stage, stage')
      BY <3>1, OrderNumbers DEF Later
    <3> QED  BY <2>2, <3>2 DEF Hold, Doze, LaterLook
  <2>3. CASE Sleep
    BY <2>0, <2>3 DEF Sleep, SecondSpent
  <2>4. CASE TryOneComOpen \/ InitAfterOpen \/ NoDetector
    <3>1. Later(Places, pc, pc')
      BY <2>4, OrderNumbers DEF TryOneComOpen, InitAfterOpen, NoDetector, GoTo, Finish, Later
    <3> QED  BY <2>4, <3>1 DEF TryOneComOpen, InitAfterOpen, NoDetector, LaterPlace
  <2>5. CASE RetryDelayOver
    BY <2>0, <2>5 DEF RetryDelayOver, GoTo, RetrySpent
  <2>6. CASE QuotaReached \/ StartTurn
    <3>1. Later(Places, pc, pc')
      BY <2>6, OrderNumbers DEF QuotaReached, StartTurn, GoTo, Finish, Later
    <3> QED  BY <2>6, <3>1 DEF QuotaReached, StartTurn, LaterPlace
  <2>7. CASE InitAfterReopen
    <3>1. CASE pc' = "sample" /\ UNCHANGED turn
      <4>1. Later(Places, pc, pc')
        BY <2>7, <3>1, OrderNumbers DEF InitAfterReopen, Later
      <4> QED  BY <2>7, <3>1, <4>1 DEF InitAfterReopen, LaterPlace
    <3>2. CASE pc' = "top" /\ turn' = turn + 1
      <4>1. pc = "reopening" /\ UNCHANGED retries_left
        BY <2>7 DEF InitAfterReopen
      <4> QED  BY <2>0, <3>2, <4>1 DEF TurnSpent, InTurn
    <3> QED  BY <2>7, <3>1, <3>2 DEF InitAfterReopen, GoTo
  <2>8. CASE TurnOver
    <3>1. pc \in InTurn /\ pc' = "top" /\ turn' = turn + 1 /\ UNCHANGED retries_left
      BY <2>8 DEF TurnOver, GoTo, InTurn
    <3> QED  BY <2>0, <3>1 DEF TurnSpent
  <2>9. CASE TakeSample
    <3>1. Later(Places, pc, pc')
      BY <2>9, OrderNumbers DEF TakeSample, BeginSample, EndReading, WriteDataBinAndTrickle,
         EndSample, GoTo, Later
    <3> QED  BY <2>9, <3>1 DEF TakeSample, BeginSample, EndReading, WriteDataBinAndTrickle,
                EndSample, LaterPlace
  <2> QED  BY <2>1, <2>2, <2>3, <2>4, <2>5, <2>6, <2>7, <2>8, <2>9
           DEF AppStep, OpenCom, Iterate
<1> QED  BY <1>1, PlaceInvariant, PTL DEF Spec, RunningLeadsOn
=============================================================================
