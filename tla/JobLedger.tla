------------------------------ MODULE JobLedger ------------------------------
(***************************************************************************)
(* What one work unit promises its project, whatever happens to the        *)
(* process: the output file data.bin only grows, by samples newer than     *)
(* those it has, up to the quota; every trickle carries samples that are   *)
(* already on a line of the file, each once and in the order of reading;   *)
(* once the job is finished neither the file nor the trickles change.  The *)
(* quota is one for the job, and one more for each process that could not  *)
(* see what the file has.                                                  *)
(* Module MainApp implements it.                                           *)
(***************************************************************************)
EXTENDS Integers, Sequences, Functions

CONSTANT MaxNumSamples

VARIABLES recorded,  \* the samples on the lines of data.bin
          uploaded,  \* the trickles, each a sequence of samples
          finished,  \* whether boinc_finish has been called
          allowed    \* how many lines the file may have
ledger == <<recorded, uploaded, finished, allowed>>

Increasing(s) == \A i, j \in DOMAIN s : i < j => s[i] < s[j]

LedgerInit ==
    recorded = <<>> /\ uploaded = <<>> /\ finished = FALSE /\ allowed = MaxNumSamples

Record ==
    /\ ~finished /\ Len(recorded) < allowed
    /\ Len(recorded') = Len(recorded) + 1
    /\ SubSeq(recorded', 1, Len(recorded)) = recorded
    /\ Increasing(recorded')
    /\ UNCHANGED <<uploaded, finished, allowed>>

Upload ==
    /\ ~finished
    /\ Len(uploaded') = Len(uploaded) + 1
    /\ SubSeq(uploaded', 1, Len(uploaded)) = uploaded
    /\ LET batch == uploaded'[Len(uploaded')]
       IN  /\ batch # <<>> /\ Increasing(batch)
           /\ Range(batch) \subseteq Range(recorded)
    /\ UNCHANGED <<recorded, finished, allowed>>

Misread ==
    /\ ~finished /\ allowed' = allowed + MaxNumSamples
    /\ UNCHANGED <<recorded, uploaded, finished>>

FinishLedger ==
    ~finished /\ finished' = TRUE /\ UNCHANGED <<recorded, uploaded, allowed>>

LedgerNext == Record \/ Upload \/ Misread \/ FinishLedger
LedgerSpec == LedgerInit /\ [][LedgerNext]_ledger
(* Every job is finished in the end. *)
LedgerFinishes == <>finished
=============================================================================
