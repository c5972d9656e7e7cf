----------------------------- MODULE DelayedFusion -----------------------------
(***************************************************************************)
(* What a body promises of its estimate.  An image is of a time in the     *)
(* past: it is put in its place among the IMU measurements, as if it had   *)
(* come when it was taken, and none of them is lost by that.               *)
(*                                                                         *)
(* No rollback, no snapshots and no loop: TrackingSystem implements it.    *)
(***************************************************************************)
EXTENDS Integers, Sequences

VARIABLES
  estimate,   \* what the estimate is made of, in the order applied
  kept,       \* the measurements that images to come may be followed by
  lastImage   \* time of the last image, whether it gave a pose or not

fusionVars == <<estimate, kept, lastImage>>

Elements(s) == {s[i] : i \in DOMAIN s}

\* The IMU sends of one time an orientation and then a velocity.
Sooner(a, b) == a.time < b.time \/ (a.time = b.time /\ a.kind = "ori" /\ b.kind = "vel")

Start == estimate = <<>> /\ kept = {} /\ lastImage = 0

\* A measurement is kept, and counts at once unless it is older than what does or
\* there is no pose yet.
Measure(meas) ==
  /\ kept' = kept \cup {meas}
  /\ \/ UNCHANGED estimate
     \/ /\ \A i \in DOMAIN estimate : estimate[i].time <= meas.time
        /\ estimate' = Append(estimate, meas)
  /\ UNCHANGED lastImage

\* An image with a pose goes behind all that is not newer; behind it come the
\* measurements kept that are, in their order, and nothing that counted is lost.
Insert(image) ==
  /\ image.time > lastImage /\ lastImage' = image.time
  /\ \E n \in 0..Len(estimate) :
       LET again == SubSeq(estimate', n + 2, Len(estimate')) IN
       /\ \A i \in DOMAIN estimate : i <= n <=> estimate[i].time <= image.time
       /\ estimate' = Append(SubSeq(estimate, 1, n), image) \o again
       /\ Elements(again) = {meas \in kept : meas.time > image.time}
       /\ \A i, j \in DOMAIN again : i < j => Sooner(again[i], again[j])
  /\ Elements(estimate) \subseteq Elements(estimate')
  /\ UNCHANGED kept

Look(time) ==
  /\ time > lastImage /\ lastImage' = time
  /\ UNCHANGED <<estimate, kept>>

\* Only what no image to come can need is forgotten.
Forget ==
  /\ kept' \subseteq kept
  /\ \A meas \in kept \ kept' : meas.time <= lastImage
  /\ UNCHANGED <<estimate, lastImage>>

Promise ==
  \/ \E meas \in kept' : meas.kind # "video" /\ Measure(meas)
  \/ Insert([kind |-> "video", time |-> lastImage'])
  \/ Look(lastImage')
  \/ Forget

Fusion == Start /\ [][Promise]_fusionVars
=============================================================================
