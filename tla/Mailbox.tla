------------------------------ MODULE Mailbox -------------------------------
(***************************************************************************)
(* What the C library promises about Configure and Close, whichever thread *)
(* or call handles them: the frames' events are delivered oldest first,    *)
(* each at most once, and none goes missing: one is taken away without     *)
(* being delivered only if its frame is gone, or behind a Close, whose     *)
(* callback may have freed what the others are for.  Pump implements it.   *)
(***************************************************************************)
EXTENDS Naturals, Sequences

CONSTANTS Frames, Kinds, MaxSent

VARIABLES
    open,       \* frames that events can be delivered to
    posted,     \* events in order; an event is its index
    pending,    \* events neither delivered nor taken away
    delivered   \* events delivered, in order

vars == <<open, posted, pending, delivered>>

Init == open = {} /\ posted = <<>> /\ pending = {} /\ delivered = <<>>

Open(f) ==
    /\ f \notin open /\ \A n \in DOMAIN posted : posted[n].frame # f
    /\ open' = open \cup {f}
    /\ UNCHANGED <<posted, pending, delivered>>

Post(f, kind) ==
    /\ f \in open /\ Len(posted) < MaxSent
    /\ posted' = Append(posted, [frame |-> f, kind |-> kind])
    /\ pending' = pending \cup {Len(posted) + 1}
    /\ UNCHANGED <<open, delivered>>

Deliverable(n) == posted[n].frame \in open

(* An event is taken in its turn, and a Close may take others with it. *)
Take(n) ==
    /\ IF Deliverable(n)
       THEN /\ \A m \in pending : m < n => ~Deliverable(m)
            /\ delivered' = Append(delivered, n)
       ELSE UNCHANGED delivered
    /\ pending' \subseteq pending \ {n}
    /\ pending' # pending \ {n} => posted[n].kind = "Close"
    /\ UNCHANGED <<open, posted>>

(* Frames go, and events of frames that are gone. *)
Withdraw ==
    /\ open' \subseteq open
    /\ pending' \subseteq pending
    /\ \A n \in pending \ pending' : posted[n].frame \notin open'
    /\ UNCHANGED <<posted, delivered>>

Next ==
    \/ \E f \in Frames : Open(f)
    \/ \E f \in Frames, kind \in Kinds : Post(f, kind)
    \/ \E n \in pending : Take(n)
    \/ Withdraw

Spec == Init /\ [][Next]_vars
=============================================================================
