------------------------------- MODULE LpdJob -------------------------------
(***************************************************************************)
(* What the lpd backend promises of one print job, whatever it does to     *)
(* keep it.  The job is offered to the printer over and over; each offer   *)
(* is made in part, then made in whole, and the printer queues it or drops *)
(* it.  LpdQueue implements this: there an offer is a connection with its  *)
(* five items and their answers.                                           *)
(***************************************************************************)
EXTENDS Integers

CONSTANT Attempts       \* the offers, counted from 1

VARIABLES
    order,     \* which file goes first
    current,   \* the offer being made, 0 before the first
    offer,     \* what became of each offer
    doubt,     \* the current offer missed an answer, or lacks part of the file
    result     \* the exit status; -1 before there is one

vars == <<order, current, offer, doubt, result>>

Init ==
    /\ order \in {"control_data", "data_control"}
    /\ current = 0
    /\ offer = [a \in Attempts |-> "unmade"]
    /\ doubt = FALSE
    /\ result = -1

(* With the control file first a new offer is only made when the one       *)
(* before it can no longer be queued.                                      *)
Begin ==
    /\ result = -1
    /\ (order = "control_data" /\ current # 0)
           => offer[current] \in {"partial", "dropped"}
    /\ current' = current + 1
    /\ offer' = [offer EXCEPT ![current'] = "partial"]
    /\ doubt' \in BOOLEAN
    /\ UNCHANGED <<order, result>>

Complete ==
    /\ result = -1
    /\ current \in Attempts /\ offer[current] = "partial"
    /\ offer' = [offer EXCEPT ![current] = "whole"]
    /\ UNCHANGED <<order, current, doubt, result>>

(* The printer decides on an offer, even on one that was given up.         *)
Queue(a) ==
    /\ offer[a] = "whole"
    /\ offer' = [offer EXCEPT ![a] = "queued"]
    /\ UNCHANGED <<order, current, doubt, result>>

Drop(a) ==
    /\ offer[a] \in {"partial", "whole"}
    /\ offer' = [offer EXCEPT ![a] = "dropped"]
    /\ UNCHANGED <<order, current, doubt, result>>

Waver ==
    /\ result = -1
    /\ doubt' = ~doubt
    /\ UNCHANGED <<order, current, offer, result>>

(* Success is the last offer queued, or in doubt.                          *)
Succeed ==
    /\ result = -1
    /\ current \in Attempts
    /\ ~doubt => offer[current] = "queued"
    /\ result' = 0
    /\ UNCHANGED <<order, current, offer, doubt>>

Fail ==
    /\ result = -1
    /\ result' = 1
    /\ doubt' \in BOOLEAN
    /\ UNCHANGED <<order, current, offer>>

Next ==
    \/ Begin \/ Complete \/ Waver \/ Succeed \/ Fail
    \/ \E a \in Attempts : Queue(a) \/ Drop(a)

Spec == Init /\ [][Next]_vars

=============================================================================
