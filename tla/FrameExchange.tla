---------------------------- MODULE FrameExchange ----------------------------
(***************************************************************************)
(* What the tracker thread and the image processing thread promise each    *)
(* other, with none of the flags, locks and slots they do it with: one     *)
(* frame is asked for at a time; each request is answered by one result;   *)
(* a result is taken once, before the next request; and the requester may  *)
(* hang up, after which nothing is asked for, answered or taken any more.  *)
(***************************************************************************)
VARIABLES
  phase,   \* "idle", "requested" or "delivered"
  closed   \* the requester has hung up

vars == <<phase, closed>>

TypeOK == phase \in {"idle", "requested", "delivered"} /\ closed \in BOOLEAN

Init == phase = "idle" /\ closed = FALSE

Request ==
  /\ phase = "idle" /\ ~ closed
  /\ phase' = "requested"
  /\ UNCHANGED closed

Deliver ==
  /\ phase = "requested"
  /\ phase' = "delivered"
  /\ UNCHANGED closed

Take ==
  /\ phase = "delivered" /\ ~ closed
  /\ phase' = "idle"
  /\ UNCHANGED closed

\* Hanging up drops the request or the result there is.
Close ==
  /\ ~ closed
  /\ closed' = TRUE
  /\ phase' = "idle"

Next == Request \/ Deliver \/ Take \/ Close

Spec == Init /\ [][Next]_vars /\ WF_vars(Deliver) /\ WF_vars(Take)

\* Every request is answered, unless the requester hangs up.
Answered == phase = "requested" ~> (phase = "delivered" \/ closed)
=============================================================================
