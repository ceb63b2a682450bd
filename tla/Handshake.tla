----------------------------- MODULE Handshake ------------------------------
(***************************************************************************)
(* What xdg-shell asks of a client, as a toolkit built on libdecor relies  *)
(* on it: configures are answered in the order they were issued, an answer *)
(* settles the configures before it, nothing is answered that was not      *)
(* issued or that is settled, and in the end every configure of a window   *)
(* that lives on is settled.  Session implements it.                       *)
(***************************************************************************)
EXTENDS Naturals

CONSTANTS Frames, MaxConfigures

VARIABLES
    last,         \* the serial issued last, for any frame
    outstanding   \* frame -> serials issued to it and not settled

vars == <<last, outstanding>>

Init ==
    /\ last = 0
    /\ outstanding = [f \in Frames |-> {}]

Issue(f) ==
    /\ last < MaxConfigures
    /\ last' = last + 1
    /\ outstanding' = [outstanding EXCEPT ![f] = @ \cup {last + 1}]

Acknowledge(f) ==
    /\ \E n \in outstanding[f] :
          outstanding' = [outstanding EXCEPT ![f] = {m \in @ : m > n}]
    /\ UNCHANGED last

(* The frame is destroyed: its configures need no answer any more. *)
Abandon(f) ==
    /\ outstanding[f] # {}
    /\ outstanding' = [outstanding EXCEPT ![f] = {}]
    /\ UNCHANGED last

Next == \E f \in Frames : Issue(f) \/ Acknowledge(f) \/ Abandon(f)

Fairness == \A f \in Frames : WF_vars(Acknowledge(f) \/ Abandon(f))

(* The order alone, without the promise that every configure is settled. *)
Order == Init /\ [][Next]_vars

Spec == Order /\ Fairness
=============================================================================
