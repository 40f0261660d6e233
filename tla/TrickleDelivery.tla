--------------------------- MODULE TrickleDelivery ---------------------------
(***************************************************************************)
(* Which samples reach the project's server, and how often: properties of  *)
(* module MainApp over the trickles the client has accepted.               *)
(***************************************************************************)
EXTENDS MainApp, FiniteSets

DeliveriesOf(id) == {i \in DOMAIN trickles : id \in Range(trickles[i])}

(* Batches that would be in the order of reading, each sample once, if     *)
(* they were joined into one sequence.                                     *)
InReadingOrder(batches) ==
    \A i, j \in DOMAIN batches :
       \A k \in DOMAIN batches[i], l \in DOMAIN batches[j] :
          (i < j \/ (i = j /\ k < l)) => batches[i][k] < batches[j][l]

(* A process that was never killed hands every sample to the client at     *)
(* most once and in the order of reading, and has none of the buffered     *)
(* ones delivered already: no path keeps a buffer it has sent.             *)
OnceWithoutCrash ==
    "crash" \notin faults => InReadingOrder(Append(trickles, trickle_buf))

(* With crashes a sample is delivered at most once by each process, and    *)
(* only one that a trickle checkpoint has held is ever delivered again.    *)
BoundedRedelivery ==
    \A id \in Uploaded :
        Cardinality(DeliveriesOf(id)) <= 1 + (IF id \in saved THEN crashes ELSE 0)

(* A job that met no crash, refused trickle or unopenable file and ran to  *)
(* its quota has delivered every line of data.bin, in order and once.      *)
EverythingDelivered ==
    (exit = "complete" /\ faults \cap {"crash", "send", "append"} = {})
        => Uploaded = Range(data_bin) /\ InReadingOrder(trickles)

(* A sample leaves the trickle buffer of a live process only with a        *)
(* trickle that carries it, or on the write path with one that the client  *)
(* has refused (main_app.cpp:451-458): neither the overflow rule nor, even *)
(* with a refused trickle, losing the sensor or finishing drops it.        *)
LeavesOnlyDelivered ==
    \/ Range(trickle_buf) \subseteq Range(trickle_buf') \cup Uploaded'
    \/ crashes' # crashes
    \/ pc = "trickle" /\ "send" \in faults'
NoSilentDrop == [][LeavesOnlyDelivered]_vars

-----------------------------------------------------------------------------
(* Statements of the documents.                                            *)

(* docs/original-program-behaviour.md:30 "so unsent samples and the send   *)
(* interval are preserved across restarts": what is restored is unsent, a  *)
(* buffered sample has not been delivered.                                 *)
BufferedAreUnsent == Range(trickle_buf) \cap Uploaded = {}

(* docs/phase4-server.md:60 "restores that state, and deletes the file so  *)
(* unsent samples ... are preserved across restarts": a sample that a      *)
(* checkpoint has held is delivered, buffered or still in the file.        *)
SavedSurvive ==
    "send" \notin faults
        => saved \subseteq Uploaded \cup Range(trickle_buf) \cup Range(ckpt.ids)
=============================================================================
