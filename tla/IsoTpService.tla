---------------------------- MODULE IsoTpService ----------------------------
(***************************************************************************)
(* What the ISO-TP transport of isotp.c promises to its user, in one       *)
(* direction: isotp_send accepts messages, isotp_receive hands them over.  *)
(* The transport acknowledges nothing to the application, so a message may *)
(* be lost; but one that is handed over is a message that was accepted,    *)
(* whole, handed over once, and never after a later one.                   *)
(***************************************************************************)
EXTENDS Naturals, Sequences

VARIABLES
  accepted,   \* number of messages isotp_send has accepted so far
  delivered   \* the numbers of the messages isotp_receive handed over

vars == <<accepted, delivered>>

LastDelivered == IF delivered = <<>> THEN 0 ELSE delivered[Len(delivered)]

Init == accepted = 0 /\ delivered = <<>>

Accept == accepted' = accepted + 1 /\ UNCHANGED delivered

(* Messages between the last delivered one and m are lost for good. *)
Deliver(m) == /\ m > LastDelivered
              /\ m <= accepted
              /\ delivered' = Append(delivered, m)
              /\ UNCHANGED accepted

Next == Accept \/ \E m \in 1..accepted : Deliver(m)

Spec == Init /\ [][Next]_vars
=============================================================================
