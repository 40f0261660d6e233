------------------------------ MODULE TrickleUse ------------------------------
(***************************************************************************)
(* What the trickle buffer and the clock owe each other: how many samples  *)
(* are pending, whether this process has sent a trickle from the write     *)
(* path, what count the checkpoint would restore, and how many trickles    *)
(* the client has accepted.  MainApp implements it with the samples and    *)
(* without the times, SampleClock with the times and without the samples;  *)
(* when a trickle is due the one leaves to chance and the other accounts   *)
(* for.                                                                    *)
(***************************************************************************)
EXTENDS Integers

VARIABLES pending, sent, stored, accepted

vars == <<pending, sent, stored, accepted>>

Nothing == -1      \* no checkpoint, or one that cannot be read

Init == pending = 0 /\ sent = FALSE /\ stored = Nothing /\ accepted = 0

Hold == pending' = pending + 1 /\ UNCHANGED <<sent, stored, accepted>>

(* Due or full: the old samples go, accepted or refused, the new one stays. *)
SendOld ==
    /\ pending' = 1
    /\ \/ pending > 0 /\ sent' = TRUE /\ accepted' = accepted + 1
       \/ UNCHANGED <<sent, accepted>>
    /\ UNCHANGED stored

(* On the lost-sensor and the exit path the buffer is emptied only by a    *)
(* trickle that was accepted, which is not noted in sent.                  *)
SendAll ==
    /\ pending > 0 /\ pending' = 0 /\ accepted' = accepted + 1
    /\ UNCHANGED <<sent, stored>>

(* A process that has sent leaves the checkpoint as it is.                 *)
Store ==
    /\ ~sent /\ stored' \in {Nothing, pending}
    /\ UNCHANGED <<pending, sent, accepted>>

(* Once, into a process that has nothing to lose.                          *)
Restore ==
    /\ pending = 0 /\ ~sent
    /\ stored # Nothing /\ pending' = stored /\ stored' = Nothing
    /\ UNCHANGED <<sent, accepted>>

Restart == pending' = 0 /\ sent' = FALSE /\ UNCHANGED <<stored, accepted>>

Next == Hold \/ SendOld \/ SendAll \/ Store \/ Restore \/ Restart

Spec == Init /\ [][Next]_vars
=============================================================================
