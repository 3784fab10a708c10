----------------------------- MODULE RowReplica -----------------------------
(***************************************************************************)
(* What the sink promises, without Kafka, batches, replicas of the process *)
(* or Mongo commands: a view that follows the images of the source rows.   *)
(*                                                                         *)
(*   - the view of a row only ever holds an image the source published for *)
(*     that row, and moves to a newer one or, by a newer delete, to none;  *)
(*   - an image is acknowledged upstream only when the view holds it or a  *)
(*     newer one, or when it was lost by a named mistake before; this is   *)
(*     claimed for the rows that are never deleted.                        *)
(*                                                                         *)
(* An acknowledgement may be withdrawn, after which the image is delivered *)
(* again and has to be held again when it is acknowledged the next time.   *)
(*                                                                         *)
(* Module SinkRefinement gives the mapping under which Sink implements it. *)
(***************************************************************************)
EXTENDS Integers

CONSTANTS
  Key,    \* rows
  Absent  \* no image in the view; smaller than every LSN

VARIABLES
  images,   \* row -> LSNs of the images the source has published
  deletes,  \* row -> LSNs of the deletes the source has published
  view,     \* row -> LSN of the image the replica holds, or Absent
  acked,    \* row -> LSNs of the images acknowledged to the source
  lost      \* row -> LSNs of the images given up

vars == <<images, deletes, view, acked, lost>>

Init ==
  /\ images = [k \in Key |-> {}]
  /\ deletes = [k \in Key |-> {}]
  /\ view = [k \in Key |-> Absent]
  /\ acked = [k \in Key |-> {}]
  /\ lost = [k \in Key |-> {}]

\* The source publishes one change of row k, newer than all it published.
Publish(k) ==
  /\ UNCHANGED <<view, acked, lost>>
  /\ \E l \in images'[k] \cup deletes'[k] :
       /\ \A j \in Key : \A n \in images[j] \cup deletes[j] : n < l
       /\ \/ images' = [images EXCEPT ![k] = @ \cup {l}] /\ UNCHANGED deletes
          \/ deletes' = [deletes EXCEPT ![k] = @ \cup {l}] /\ UNCHANGED images

\* The view of k moves to a newer image.
Refresh(k) ==
  /\ \E l \in images[k] : view[k] < l /\ view' = [view EXCEPT ![k] = l]
  /\ UNCHANGED <<images, deletes, acked, lost>>

\* A delete removes an older image from the view.
Remove(k) ==
  /\ view[k] # Absent
  /\ \E l \in deletes[k] : view[k] < l
  /\ view' = [view EXCEPT ![k] = Absent]
  /\ UNCHANGED <<images, deletes, acked, lost>>

\* Images are given up, of any number of rows at once.
Lose ==
  /\ UNCHANGED <<view, images, deletes, acked>>
  /\ \A k \in Key : lost[k] \subseteq lost'[k] /\ lost'[k] \subseteq images[k]

\* Images are acknowledged, or acknowledgements withdrawn, of any number of
\* rows at once.
Acknowledge ==
  /\ UNCHANGED <<view, images, deletes, lost>>
  /\ \A k \in Key :
       /\ acked'[k] \subseteq images[k]
       /\ deletes[k] = {} =>
            \A l \in acked'[k] \ acked[k] : l <= view[k] \/ l \in lost[k]

Next ==
  \/ Acknowledge \/ Lose
  \/ \E k \in Key : Publish(k) \/ Refresh(k) \/ Remove(k)

Spec == Init /\ [][Next]_vars
=============================================================================
