----------------------------- MODULE PumpProofs -----------------------------
(***************************************************************************)
(* Theorems about Pump, for any number of frames, events and callbacks:    *)
(* the callbacks' memory, the armed sync and the end of a context, and     *)
(* that Pump hands events on as Mailbox does.                              *)
(***************************************************************************)
EXTENDS Pump, QueueLemmas

(***************************************************************************)
(* What the theorems ask of the application: a callback may drop frames    *)
(* and free the context, but dispatches nothing.  Of the callbacks that    *)
(* dispatch, NoFault is not true.                                          *)
(***************************************************************************)
Obedient == Reentry \subseteq {"drop", "unref"}

-----------------------------------------------------------------------------
(***************************************************************************)
(* The inductive invariant, in parts that a step disturbs one by one.      *)
(***************************************************************************)
Events == [frame : Frames, kind : Kinds]
Optional == Callbacks \cup {NoCallback}

Call == [fn : {"sync_done", "dispatch", "unref"},
         at : {"deliver", "callback", "reading", "joining"},
         batch : Seq(Nat), cb : Optional, event : Nat]

PumpState == [freed : BOOLEAN, detached : BOOLEAN, in_dispatch : BOOLEAN,
              cb : Optional, pending_destroy : Optional]

QueueTypes ==
    /\ sent \in Seq(Events)
    /\ asked \in Seq(Callbacks) /\ answers \in Seq(Callbacks) /\ fired \in Seq(Callbacks)
    /\ unread \in Seq(Nat) /\ routed \in Seq(Nat) /\ events \in Seq(Nat)
    /\ delivered \in Seq(Nat)

StateTypes ==
    /\ callbacks \subseteq Callbacks /\ garbage \subseteq callbacks /\ frames \subseteq Frames
    /\ worker \in {"check", "tick", "exited"}
    /\ broken \in BOOLEAN /\ alive \in BOOLEAN /\ locked \in BOOLEAN /\ stop \in BOOLEAN
    /\ stack \in Seq(Call) /\ pump \in PumpState

(* Calls nest once: libdecor_unref in a callback, and from a Close only. *)
Shaped(call) ==
    /\ call.fn = "unref" <=> call.at = "joining"
    /\ call.fn = "sync_done" <=> call.cb # NoCallback
    /\ call.at = "reading" => call.fn = "dispatch"
    /\ call.at \in {"reading", "joining"} => call.batch = <<>>
    /\ call.at = "callback" => /\ call.event \in DOMAIN sent
                               /\ sent[call.event].kind = "Close" => call.batch = <<>>

Nested ==
    /\ Len(stack) <= 2
    /\ \A i \in DOMAIN stack : Shaped(stack[i])
    /\ Len(stack) = 2 => /\ stack[1].at = "callback" /\ stack[1].batch = <<>>
                         /\ stack[2].at = "joining"

(* The one sync of the pump is asked for, answered or fired. *)
Single(cb) ==
    \/ asked = <<cb>> /\ answers = <<>> /\ fired = <<>>
    \/ asked = <<>> /\ answers = <<cb>> /\ fired = <<>>
    \/ asked = <<>> /\ answers = <<>> /\ fired = <<cb>>

Armed == alive => pump.cb \in Callbacks /\ Single(pump.cb)

(* The pump knows whether its handler runs, and for which callback. *)
InHandler == Len(stack) > 0 /\ stack[1].fn = "sync_done"

Owned ==
    /\ pump.in_dispatch <=> InHandler
    /\ alive /\ InHandler => stack[1].cb = pump.pending_destroy
    /\ alive => ~pump.detached /\ ~pump.freed
    /\ ~alive => pump.detached /\ (pump.freed <=> ~pump.in_dispatch)

(* The lock is kept only by a call that reads, and nothing is routed meanwhile. *)
Locking ==
    /\ locked <=> Len(stack) > 0 /\ stack[1].at = "reading"
    /\ locked => routed = <<>>

(* What a freed context leaves behind: nothing to deliver, and nobody to deliver it. *)
Gone ==
    ~alive => /\ worker = "exited" /\ frames = {} /\ events = <<>> /\ routed = <<>>
              /\ Len(stack) <= 1
              /\ Len(stack) = 1 => /\ stack[1].at \in {"deliver", "callback"}
                                   /\ stack[1].batch = <<>>

(* The events on their way, the oldest first. *)
Delivering == IF Len(stack) = 0 THEN <<>> ELSE stack[1].batch

Ordered ==
    /\ Rising(Delivering) /\ Rising(events) /\ Rising(routed) /\ Rising(unread)
    /\ Before(ToSet(Delivering), ToSet(events) \cup ToSet(routed) \cup ToSet(unread))
    /\ Before(ToSet(events), ToSet(routed) \cup ToSet(unread))
    /\ Before(ToSet(routed), ToSet(unread))

Numbered ==
    ToSet(Delivering) \cup ToSet(events) \cup ToSet(routed) \cup ToSet(unread) \subseteq DOMAIN sent

Sound == KeepsDisplay \/ NoFault

PumpInv ==
    /\ QueueTypes /\ StateTypes /\ Nested /\ Armed /\ CallbacksAccounted /\ Owned
    /\ Locking /\ Gone /\ Ordered /\ Numbered /\ Sound

-----------------------------------------------------------------------------
(***************************************************************************)
(* The stack.  At most two calls are nested, so that the outer one is      *)
(* stack[1], the innermost the same or a libdecor_unref.                   *)
(***************************************************************************)
LEMMA Innermost ==
    ASSUME StateTypes, Nested, stack # <<>>
    PROVE  /\ Len(stack) \in {1, 2} /\ DOMAIN stack = 1 .. Len(stack)
           /\ Top \in Call /\ stack[1] \in Call /\ Shaped(Top) /\ Shaped(stack[1])
           /\ Top.at # "joining" => Len(stack) = 1
           /\ Len(stack) = 1 => Top = stack[1]
           /\ Len(stack) = 2 => Top = stack[2] /\ Top.at = "joining"
<1>1. stack \in Seq(Call) /\ Len(stack) \in Nat /\ DOMAIN stack = 1 .. Len(stack)
  BY DEF StateTypes
<1>2. Len(stack) \in {1, 2}
  BY <1>1 DEF Nested
<1>3. 1 \in DOMAIN stack /\ Len(stack) \in DOMAIN stack
  BY <1>1, <1>2
<1>4. Top \in Call /\ stack[1] \in Call
  BY <1>1, <1>3 DEF Top
<1>5. Shaped(Top) /\ Shaped(stack[1])
  BY <1>3 DEF Nested, Top
<1> QED
  BY <1>1, <1>2, <1>4, <1>5 DEF Nested, Top

LEMMA EmptyStack ==
    ASSUME StateTypes
    PROVE  /\ stack = <<>> <=> Len(stack) = 0
           /\ stack # <<>> <=> Len(stack) > 0
           /\ Len(stack) \in Nat
BY DEF StateTypes

(* Only callbacks call, and not to dispatch. *)
LEMMA Callers ==
    ASSUME Obedient, StateTypes, Nested, NEW call, MayCall(call)
    PROVE  /\ call \in {"dispatch", "default"} => stack = <<>>
           /\ stack # <<>> => Len(stack) = 1 /\ Top = stack[1] /\ stack[1].at = "callback"
<1>1. stack # <<>> => Top.at = "callback" /\ call \in {"drop", "unref"}
  BY DEF Obedient, MayCall
<1> QED
  BY <1>1, Innermost

LEMMA Pushed ==
    ASSUME StateTypes, NEW call \in Call, Push(call)
    PROVE  /\ stack' \in Seq(Call) /\ Len(stack') = Len(stack) + 1 /\ stack'[Len(stack) + 1] = call
           /\ DOMAIN stack = 1 .. Len(stack) /\ DOMAIN stack' = 1 .. Len(stack) + 1
           /\ \A i \in 1 .. Len(stack) : stack'[i] = stack[i]
BY DEF StateTypes, Push

LEMMA Set ==
    ASSUME StateTypes, Len(stack) = 1, NEW call \in Call, SetTop(call)
    PROVE  /\ stack' \in Seq(Call) /\ Len(stack') = 1 /\ stack'[1] = call /\ DOMAIN stack' = {1}
<1>1. stack \in Seq(Call)
  BY DEF StateTypes
<1>2. stack' = [stack EXCEPT ![1] = call]
  BY DEF SetTop
<1>3. stack' \in Seq(Call) /\ Len(stack') = 1
  BY <1>1, <1>2
<1> QED
  BY <1>1, <1>2, <1>3

LEMMA Popped ==
    ASSUME StateTypes, Len(stack) \in {1, 2}, Pop
    PROVE  /\ stack' \in Seq(Call)
           /\ Len(stack) = 1 => stack' = <<>> /\ Len(stack') = 0 /\ DOMAIN stack' = {}
           /\ Len(stack) = 2 => Len(stack') = 1 /\ DOMAIN stack' = {1} /\ stack'[1] = stack[1]
<1>1. stack \in Seq(Call) /\ stack' = SubSeq(stack, 1, Len(stack) - 1)
  BY DEF StateTypes, Pop, Front
<1>2. CASE Len(stack) = 1
  <2>1. stack' = <<>>
    BY <1>1, <1>2
  <2> QED
    BY <1>2, <2>1
<1>3. CASE Len(stack) = 2
  <2>1. stack' \in Seq(Call) /\ Len(stack') = 1 /\ stack'[1] = stack[1]
    BY <1>1, <1>3
  <2> QED
    BY <1>3, <2>1
<1> QED
  BY <1>2, <1>3

LEMMA CallType ==
    ASSUME NEW fn \in {"sync_done", "dispatch", "unref"},
           NEW at \in {"deliver", "callback", "reading", "joining"},
           NEW batch \in Seq(Nat), NEW cb \in Optional
    PROVE  /\ Calling(fn, at, batch, cb) \in Call
           /\ Calling(fn, at, batch, cb).fn = fn /\ Calling(fn, at, batch, cb).at = at
           /\ Calling(fn, at, batch, cb).batch = batch /\ Calling(fn, at, batch, cb).cb = cb
BY DEF Calling, Call

(* The only handler that runs is that of the outer call. *)
LEMMA RunningIs ==
    ASSUME StateTypes, Nested, Owned, alive
    PROVE  /\ Running \subseteq {pump.pending_destroy}
           /\ ~pump.in_dispatch => Running = {}
<1>1. CASE stack = <<>>
  BY <1>1 DEF Running
<1>2. CASE stack # <<>>
  <2>1. DOMAIN stack = 1 .. Len(stack) /\ Len(stack) \in {1, 2}
    BY <1>2, Innermost
  <2>2. Len(stack) = 2 => stack[2].cb = NoCallback
    BY <1>2, <2>1, Innermost DEF Shaped
  <2>3. stack[1].fn = "sync_done" <=> stack[1].cb # NoCallback
    BY <1>2, Innermost DEF Shaped
  <2>4. Running \subseteq {stack[1].cb} \ {NoCallback}
    BY <2>1, <2>2 DEF Running
  <2> QED
    BY <2>1, <2>3, <2>4 DEF Owned, InHandler
<1> QED
  BY <1>1, <1>2

-----------------------------------------------------------------------------
(***************************************************************************)
(* A part of the invariant stands while what it reads does.                *)
(***************************************************************************)
LEMMA Stable ==
    ASSUME PumpInv
    PROVE  /\ UNCHANGED <<sent, stack>> => Nested'
           /\ UNCHANGED <<asked, answers, fired, alive, pump>> => Armed'
           /\ UNCHANGED <<callbacks, garbage, alive, pump>> => CallbacksAccounted'
           /\ UNCHANGED <<pump, stack, alive>> => Owned'
           /\ UNCHANGED <<locked, stack, routed>> => Locking'
           /\ UNCHANGED <<alive, worker, frames, events, routed, stack>> => Gone'
           /\ UNCHANGED <<stack, events, routed, unread>> => Ordered'
           /\ UNCHANGED <<sent, stack, events, routed, unread>> => Numbered'
           /\ UNCHANGED faults => Sound'
<1>1. UNCHANGED <<sent, stack>> => Nested'
  BY DEF PumpInv, Nested, Shaped
<1>2. UNCHANGED <<asked, answers, fired, alive, pump>> => Armed'
  BY DEF PumpInv, Armed, Single
<1>3. UNCHANGED <<callbacks, garbage, alive, pump>> => CallbacksAccounted'
  BY DEF PumpInv, CallbacksAccounted
<1>4. UNCHANGED <<pump, stack, alive>> => Owned'
  BY DEF PumpInv, Owned, InHandler
<1>5. UNCHANGED <<locked, stack, routed>> => Locking'
  BY DEF PumpInv, Locking
<1>6. UNCHANGED <<alive, worker, frames, events, routed, stack>> => Gone'
  BY DEF PumpInv, Gone
<1>7. UNCHANGED <<stack, events, routed, unread>> => Ordered'
  BY DEF PumpInv, Ordered, Delivering
<1>8. UNCHANGED <<sent, stack, events, routed, unread>> => Numbered'
  BY DEF PumpInv, Numbered, Delivering
<1>9. UNCHANGED faults => Sound'
  BY DEF PumpInv, Sound, NoFault
<1> QED
  BY <1>1, <1>2, <1>3, <1>4, <1>5, <1>6, <1>7, <1>8, <1>9

(* Events stand by their members and their order alone. *)
LEMMA NumberedMembers ==
    ASSUME QueueTypes, StateTypes, Nested, Numbered
    PROVE  /\ Delivering \in Seq(Nat)
           /\ \A x \in ToSet(Delivering) \cup ToSet(events) \cup ToSet(routed) \cup ToSet(unread) :
                  x \in Nat /\ x \in 1 .. Len(sent)
<1>1. Len(sent) \in Nat /\ DOMAIN sent = 1 .. Len(sent)
  BY DEF QueueTypes
<1>2. Delivering \in Seq(Nat)
  <2>1. CASE Len(stack) = 0
    BY <2>1 DEF Delivering
  <2>2. CASE Len(stack) # 0
    <3>1. stack[1] \in Call
      BY <2>2, EmptyStack, Innermost
    <3> QED
      BY <2>2, <3>1 DEF Delivering, Call
  <2> QED
    BY <2>1, <2>2
<1> QED
  BY <1>1, <1>2 DEF Numbered

-----------------------------------------------------------------------------
(* The compositor. *)
LEMMA SendStep ==
    ASSUME PumpInv, NEW f \in Frames, NEW kind \in Kinds, Send(f, kind)
    PROVE  PumpInv'
<1> DEFINE n == Len(sent) + 1
           e == [frame |-> f, kind |-> kind]
<1>1. /\ sent' = Append(sent, e) /\ unread' = Append(unread, n) /\ alive
      /\ UNCHANGED <<asked, answers, broken, routed, fired, callbacks, alive, frames, events,
                     locked, stop, worker, garbage, pump, stack, history>>
  BY DEF Send
<1>2. /\ sent \in Seq(Events) /\ Len(sent) \in Nat /\ n \in Nat /\ unread \in Seq(Nat)
      /\ DOMAIN sent = 1 .. Len(sent) /\ e \in Events
  BY DEF PumpInv, QueueTypes, Events
<1>3. /\ n = Len(sent) + 1 /\ n \in DOMAIN sent'
      /\ \A i \in DOMAIN sent : i \in DOMAIN sent' /\ sent'[i] = sent[i]
  BY <1>1, <1>2
<1>3a. sent' \in Seq(Events) /\ unread' \in Seq(Nat)
  BY <1>1, <1>2
<1> HIDE DEF n, e
<1>4. ToSet(unread') = ToSet(unread) \cup {n}
  <2>1. ToSet(Append(unread, n)) = ToSet(unread) \cup {n}
    BY <1>2, MembersAppend
  <2> QED
    BY <1>1, <2>1
<1>5. \A x \in ToSet(Delivering) \cup ToSet(events) \cup ToSet(routed) \cup ToSet(unread) :
          x \in Nat /\ x < n
  BY <1>2, <1>3, NumberedMembers DEF PumpInv
<1>6. Rising(unread')
  BY <1>1, <1>2, <1>5, RisingAppend DEF PumpInv, Ordered
<1>7. QueueTypes' /\ StateTypes'
  BY <1>1, <1>3a DEF PumpInv, QueueTypes, StateTypes, history
<1>8. Nested'
  BY <1>1, <1>3 DEF PumpInv, Nested, Shaped
<1>9. Armed' /\ CallbacksAccounted' /\ Owned' /\ Locking' /\ Gone' /\ Sound'
  BY <1>1, Stable DEF history
<1>10. Ordered'
  <2>1. Delivering' = Delivering
    BY <1>1 DEF Delivering
  <2> QED
    BY <1>1, <1>4, <1>5, <1>6, <2>1 DEF PumpInv, Ordered, Before
<1>11. Numbered'
  BY <1>1, <1>3, <1>4 DEF PumpInv, Numbered, Delivering
<1> QED
  BY <1>7, <1>8, <1>9, <1>10, <1>11 DEF PumpInv

LEMMA AnswerStep == ASSUME PumpInv, Answer PROVE PumpInv'
<1>1. /\ asked # <<>> /\ asked' = Tail(asked) /\ answers' = Append(answers, Head(asked))
      /\ UNCHANGED <<sent, unread, broken, routed, fired, callbacks, alive, frames, events,
                     locked, stop, worker, garbage, pump, stack, history>>
  BY DEF Answer
<1>2. QueueTypes' /\ StateTypes'
  BY <1>1 DEF PumpInv, QueueTypes, StateTypes, history
<1>3. Armed'
  <2> SUFFICES ASSUME alive
               PROVE  Single(pump.cb)'
    BY <1>1 DEF PumpInv, Armed
  <2>1. asked = <<pump.cb>> /\ answers = <<>> /\ fired = <<>>
    BY <1>1 DEF PumpInv, Armed, Single
  <2>2. asked' = <<>> /\ answers' = <<pump.cb>>
    BY <1>1, <2>1
  <2> QED
    BY <1>1, <2>1, <2>2 DEF Single
<1>4. /\ Nested' /\ CallbacksAccounted' /\ Owned' /\ Locking' /\ Gone' /\ Ordered' /\ Numbered'
      /\ Sound'
  BY <1>1, Stable DEF history
<1> QED
  BY <1>2, <1>3, <1>4 DEF PumpInv

LEMMA BreakStep == ASSUME PumpInv, Break PROVE PumpInv'
<1>1. QueueTypes' /\ StateTypes'
  BY DEF PumpInv, Break, QueueTypes, StateTypes, history
<1>2. /\ Nested' /\ Armed' /\ CallbacksAccounted' /\ Owned' /\ Locking' /\ Gone' /\ Ordered'
      /\ Numbered' /\ Sound'
  BY Stable DEF Break, history
<1> QED
  BY <1>1, <1>2 DEF PumpInv

(* Whoever reads moves the armed sync along. *)
LEMMA ReadArmed ==
    ASSUME PumpInv, Read, asked' = asked, alive' = alive, pump' = pump
    PROVE  /\ Armed' /\ answers' \in Seq(Callbacks) /\ fired' \in Seq(Callbacks)
           /\ unread' \in Seq(Nat)
<1>1. unread' = <<>> /\ answers' = <<>> /\ fired' = fired \o answers
  BY DEF Read
<1>2. fired' \in Seq(Callbacks) /\ answers' \in Seq(Callbacks) /\ unread' \in Seq(Nat)
  BY <1>1 DEF PumpInv, QueueTypes
<1>3. Armed'
  <2> SUFFICES ASSUME alive
               PROVE  Single(pump.cb)'
    BY DEF PumpInv, Armed
  <2>1. CASE asked = <<pump.cb>> /\ answers = <<>> /\ fired = <<>>
    BY <1>1, <2>1 DEF Single
  <2>2. CASE asked = <<>> /\ answers = <<pump.cb>> /\ fired = <<>>
    <3>1. fired' = <<pump.cb>>
      BY <1>1, <2>2
    <3> QED
      BY <1>1, <2>2, <3>1 DEF Single
  <2>3. CASE asked = <<>> /\ answers = <<>> /\ fired = <<pump.cb>>
    <3>1. fired' = <<pump.cb>>
      BY <1>1, <2>3
    <3> QED
      BY <1>1, <2>3, <3>1 DEF Single
  <2> QED
    BY <2>1, <2>2, <2>3 DEF PumpInv, Armed, Single
<1> QED
  BY <1>2, <1>3

LEMMA ReadSocketStep == ASSUME PumpInv, ReadSocket PROVE PumpInv'
<1>1. /\ Read /\ ~locked
      /\ routed' = IF alive THEN routed \o unread ELSE <<>>
      /\ UNCHANGED <<sent, asked, broken, callbacks, alive, frames, events, locked, stop, worker,
                     garbage, pump, stack, history>>
  BY DEF ReadSocket
<1>2. /\ Armed' /\ answers' \in Seq(Callbacks) /\ fired' \in Seq(Callbacks)
      /\ unread' \in Seq(Nat) /\ unread' = <<>>
  BY <1>1, ReadArmed DEF Read
<1>3. /\ routed' \in Seq(Nat) /\ Rising(routed')
      /\ ToSet(routed') \subseteq ToSet(routed) \cup ToSet(unread)
  <2>1. CASE alive
    <3>1. Rising(routed \o unread)
      BY RisingConcat DEF PumpInv, QueueTypes, Ordered
    <3>2. ToSet(routed \o unread) = ToSet(routed) \cup ToSet(unread)
      BY MembersConcat DEF PumpInv, QueueTypes
    <3> QED
      BY <1>1, <2>1, <3>1, <3>2 DEF PumpInv, QueueTypes
  <2>2. CASE ~alive
    <3>1. routed' = <<>>
      BY <1>1, <2>2
    <3> QED
      BY <3>1, MembersType DEF Rising
  <2> QED
    BY <2>1, <2>2
<1>4. ToSet(unread') = {} /\ Rising(unread')
  BY <1>2, MembersType DEF Rising
<1>5. QueueTypes' /\ StateTypes'
  BY <1>1, <1>2, <1>3 DEF PumpInv, QueueTypes, StateTypes, history
<1>6. Nested' /\ CallbacksAccounted' /\ Owned' /\ Sound'
  BY <1>1, Stable DEF history
<1>7. Locking' /\ Gone'
  BY <1>1 DEF PumpInv, Locking, Gone
<1>8. Ordered' /\ Numbered'
  <2>1. Delivering' = Delivering
    BY <1>1 DEF Delivering
  <2> QED
    BY <1>1, <1>3, <1>4, <2>1 DEF PumpInv, Ordered, Numbered, Before
<1> QED
  BY <1>2, <1>5, <1>6, <1>7, <1>8 DEF PumpInv

-----------------------------------------------------------------------------
(* The worker, and the application's frames. *)
LEMMA WorkerCheckStep == ASSUME PumpInv, WorkerCheck PROVE PumpInv'
<1>1. /\ worker = "check" /\ worker' \in {"exited", "tick"}
      /\ UNCHANGED <<compositor, routed, fired, callbacks, alive, frames, events, locked, stop,
                     garbage, pump, stack, history>>
  BY DEF WorkerCheck
<1>2. QueueTypes' /\ StateTypes'
  BY <1>1 DEF PumpInv, QueueTypes, StateTypes, history, compositor
<1>3. /\ Nested' /\ Armed' /\ CallbacksAccounted' /\ Owned' /\ Locking' /\ Ordered'
      /\ Numbered' /\ Sound'
  BY <1>1, Stable DEF history, compositor
<1>4. Gone'
  BY <1>1 DEF PumpInv, Gone
<1> QED
  BY <1>2, <1>3, <1>4 DEF PumpInv

(* What Inner holds after a dispatch: the old events, then the new ones that have a frame. *)
LEMMA DispatchedEvents ==
    ASSUME PumpInv, NEW queue \in Seq(Nat), Rising(queue), Before(ToSet(events), ToSet(queue))
    PROVE  /\ Dispatched(queue) \in Seq(Nat) /\ Rising(Dispatched(queue))
           /\ ToSet(Dispatched(queue)) = ToSet(events) \cup (ToSet(queue) \cap Wanted)
<1> DEFINE kept == Filter(queue, Wanted)
<1>1. kept \in Seq(Nat) /\ ToSet(kept) = ToSet(queue) \cap Wanted /\ Rising(kept)
  BY FilterMembers
<1>2. Before(ToSet(events), ToSet(kept))
  BY <1>1 DEF Before
<1>3. events \in Seq(Nat) /\ Rising(events)
  BY DEF PumpInv, QueueTypes, Ordered
<1> HIDE DEF kept
<1>4. events \o kept \in Seq(Nat)
  BY <1>1, <1>3
<1>5. Rising(events \o kept)
  BY <1>1, <1>2, <1>3, RisingConcat
<1>6. ToSet(events \o kept) = ToSet(events) \cup ToSet(kept)
  BY <1>1, <1>3, MembersConcat
<1> QED
  BY <1>1, <1>4, <1>5, <1>6 DEF Dispatched, kept

(* What waits for the worker is in nobody's hands. *)
LEMMA GarbageSafe ==
    ASSUME PumpInv, alive
    PROVE  DestroyFaults(garbage) = {}
<1>1. Running \subseteq {pump.pending_destroy} \ {NoCallback}
  BY RunningIs DEF PumpInv, Running
<1>2. garbage \cap Running = {}
  BY <1>1 DEF PumpInv, CallbacksAccounted
<1> QED
  BY <1>2 DEF DestroyFaults, Fault, PumpInv, StateTypes

LEMMA WorkerTickStep == ASSUME PumpInv, WorkerTick PROVE PumpInv'
<1>1. /\ worker = "tick" /\ ~locked
      /\ UNCHANGED <<compositor, fired, alive, frames, locked, stop, pump, stack,
                     delivered, dropped>>
  BY DEF WorkerTick
<1>2. alive
  BY <1>1 DEF PumpInv, Gone
<1>3. ASSUME worker' = "exited", UNCHANGED <<routed, events, garbage, callbacks, faults>>
      PROVE  PumpInv'
  <2>1. worker' = "exited" /\ UNCHANGED <<routed, events, garbage, callbacks, faults>>
    BY <1>3
  <2>2. QueueTypes' /\ StateTypes'
    BY <1>1, <2>1 DEF PumpInv, QueueTypes, StateTypes, compositor
  <2>3. /\ Nested' /\ Armed' /\ CallbacksAccounted' /\ Owned' /\ Locking' /\ Ordered'
        /\ Numbered' /\ Sound'
    BY <1>1, <2>1, Stable DEF compositor
  <2>4. Gone'
    BY <1>1, <1>2 DEF Gone
  <2> QED
    BY <2>2, <2>3, <2>4 DEF PumpInv
<1>4. ASSUME worker' \in {"check", "exited"}, events' = Dispatched(routed), routed' = <<>>,
             garbage' = {}, callbacks' = callbacks \ garbage,
             faults' = faults \cup DestroyFaults(garbage)
      PROVE  PumpInv'
  <2>1. /\ worker' \in {"check", "exited"} /\ events' = Dispatched(routed) /\ routed' = <<>>
        /\ garbage' = {} /\ callbacks' = callbacks \ garbage
        /\ faults' = faults \cup DestroyFaults(garbage)
    BY <1>4
  <2>2. routed \in Seq(Nat) /\ Rising(routed) /\ Before(ToSet(events), ToSet(routed))
    BY DEF PumpInv, QueueTypes, Ordered, Before
  <2>3. /\ events' \in Seq(Nat) /\ Rising(events')
        /\ ToSet(events') \subseteq ToSet(events) \cup ToSet(routed)
    BY <2>1, <2>2, DispatchedEvents
  <2>4. routed' \in Seq(Nat) /\ ToSet(routed') = {} /\ Rising(routed')
    BY <2>1, MembersType DEF Rising
  <2>5. QueueTypes' /\ StateTypes'
    BY <1>1, <2>1, <2>3, <2>4 DEF PumpInv, QueueTypes, StateTypes, compositor
  <2>6. Nested' /\ Armed' /\ Owned'
    BY <1>1, <2>1, Stable DEF compositor
  <2>7. CallbacksAccounted'
    BY <1>1, <1>2, <2>1 DEF PumpInv, CallbacksAccounted
  <2>8. Locking' /\ Gone'
    BY <1>1, <1>2 DEF PumpInv, Locking, Gone
  <2>9. Ordered' /\ Numbered'
    <3>1. Delivering' = Delivering /\ unread' = unread /\ sent' = sent
      BY <1>1 DEF Delivering, compositor
    <3> QED
      BY <2>3, <2>4, <3>1 DEF PumpInv, Ordered, Numbered, Before
  <2>10. Sound'
    BY <1>2, <2>1, GarbageSafe DEF PumpInv, Sound, NoFault
  <2> QED
    BY <2>5, <2>6, <2>7, <2>8, <2>9, <2>10 DEF PumpInv
<1> QED
  BY <1>3, <1>4 DEF WorkerTick

LEMMA FramesStep ==
    ASSUME PumpInv, NEW f \in Frames, Decorate(f) \/ DropFrame(f)
    PROVE  PumpInv'
<1>1. /\ alive /\ frames' \subseteq Frames
      /\ UNCHANGED <<compositor, routed, fired, callbacks, alive, events, locked, stop, worker,
                     garbage, pump, stack, history>>
  BY DEF Decorate, DropFrame, PumpInv, StateTypes
<1>2. QueueTypes' /\ StateTypes'
  BY <1>1 DEF PumpInv, QueueTypes, StateTypes, compositor, history
<1>3. /\ Nested' /\ Armed' /\ CallbacksAccounted' /\ Owned' /\ Locking' /\ Ordered'
      /\ Numbered' /\ Sound'
  BY <1>1, Stable DEF compositor, history
<1>4. Gone'
  BY <1>1 DEF Gone
<1> QED
  BY <1>2, <1>3, <1>4 DEF PumpInv

-----------------------------------------------------------------------------
(* The pump. *)
LEMMA NewCallbackFree ==
    ASSUME StateTypes, Followed # Callbacks
    PROVE  NewCallback \in Callbacks \ Followed
<1> DEFINE free == Callbacks \ Followed
<1>1. free \in SUBSET Nat /\ free # {}
  <2>1. Callbacks \subseteq Nat
    BY PumpAssumption DEF Callbacks
  <2>2. Followed \subseteq Callbacks /\ Followed # Callbacks
    BY DEF StateTypes, Followed
  <2> QED
    BY <2>1, <2>2
<1>2. \E n \in free : \A m \in free : n <= m
  <2> HIDE DEF free
  <2> QED
    BY <1>1, Smallest
<1> QED
  BY <1>2 DEF NewCallback

LEMMA PumpRearmed ==
    ASSUME pump \in PumpState, NEW cb \in Optional, NewCallback \in Optional
    PROVE  /\ Rearmed(cb) \in PumpState
           /\ Rearmed(cb).cb = NewCallback /\ Rearmed(cb).pending_destroy = cb
           /\ Rearmed(cb).in_dispatch = TRUE
           /\ Rearmed(cb).freed = pump.freed /\ Rearmed(cb).detached = pump.detached
<1> DEFINE new == NewCallback
           first == [pump EXCEPT !.cb = new]
           second == [first EXCEPT !.pending_destroy = cb]
           third == [second EXCEPT !.in_dispatch = TRUE]
<1>1. Rearmed(cb) = third
  BY DEF Rearmed
<1>2. new \in Optional
  OBVIOUS
<1> HIDE DEF new
<1>3. /\ first \in PumpState /\ first.cb = new /\ first.freed = pump.freed
      /\ first.detached = pump.detached
  BY <1>2 DEF PumpState
<1> HIDE DEF first
<1>4. /\ second \in PumpState /\ second.cb = new /\ second.pending_destroy = cb
      /\ second.freed = pump.freed /\ second.detached = pump.detached
  BY <1>3 DEF PumpState
<1> HIDE DEF second
<1>5. /\ third \in PumpState /\ third.cb = new /\ third.pending_destroy = cb
      /\ third.in_dispatch = TRUE
      /\ third.freed = pump.freed /\ third.detached = pump.detached
  BY <1>4 DEF PumpState
<1> HIDE DEF third
<1> QED
  BY <1>1, <1>5 DEF new

LEMMA SyncDoneStep == ASSUME Obedient, PumpInv, SyncDone PROVE PumpInv'
<1>1. /\ fired # <<>> /\ fired' = Tail(fired) /\ (alive \/ KeepsDisplay) /\ ~locked
      /\ UNCHANGED <<sent, unread, answers, broken, routed, alive, frames, locked, stop, worker,
                     delivered, dropped>>
  BY DEF SyncDone
<1>2. stack = <<>> /\ Len(stack) = 0
  BY Callers, EmptyStack DEF SyncDone, PumpInv
<1>3. pump \in PumpState /\ fired \in Seq(Callbacks)
  BY DEF PumpInv, StateTypes, QueueTypes
<1>4. CASE ~alive
  <2>1. pump.freed /\ KeepsDisplay
    BY <1>1, <1>2, <1>4 DEF PumpInv, Owned, InHandler
  <2>2. UNCHANGED <<callbacks, events, garbage, pump, stack, asked>>
    BY <2>1 DEF SyncDone
  <2>3. QueueTypes' /\ StateTypes'
    BY <1>1, <1>3, <2>2 DEF PumpInv, QueueTypes, StateTypes
  <2>4. /\ Nested' /\ CallbacksAccounted' /\ Owned' /\ Locking' /\ Gone' /\ Ordered'
        /\ Numbered'
    BY <1>1, <2>2, Stable
  <2>5. Armed' /\ Sound'
    BY <1>1, <1>4, <2>1 DEF Armed, Sound
  <2> QED
    BY <2>3, <2>4, <2>5 DEF PumpInv
<1>5. CASE alive
  <2> DEFINE cb == Head(fired)
             new == NewCallback
             call == Calling("sync_done", "deliver", events, cb)
  <2>1. ~pump.freed /\ ~pump.detached
    BY <1>5 DEF PumpInv, Owned
  <2>2. /\ Followed # Callbacks
        /\ garbage' = (garbage \cup Spent) \ Leaked /\ pump' = Rearmed(cb)
        /\ callbacks' = Followed \cup ({pump'.cb} \ {NoCallback})
        /\ asked' = IF pump'.cb = NoCallback THEN asked ELSE Append(asked, pump'.cb)
        /\ events' = Drained /\ Push(call) /\ UNCHANGED faults
    BY <2>1 DEF SyncDone
  <2>3. asked = <<>> /\ answers = <<>> /\ fired = <<pump.cb>> /\ pump.cb \in Callbacks
    BY <1>1, <1>5 DEF PumpInv, Armed, Single
  <2>4. cb = pump.cb /\ fired' = <<>> /\ cb \in Optional /\ cb # NoCallback
    BY <1>1, <2>3 DEF Optional, Callbacks, NoCallback
  <2>5. new \in Callbacks \ Followed /\ new \in Optional /\ new # NoCallback
    BY <2>2, NewCallbackFree DEF PumpInv, Optional, Callbacks, NoCallback
  <2>6. /\ pump' \in PumpState /\ pump'.cb = new /\ pump'.pending_destroy = cb
        /\ pump'.in_dispatch = TRUE /\ pump'.freed = pump.freed
        /\ pump'.detached = pump.detached
    BY <1>3, <2>2, <2>4, <2>5, PumpRearmed
  <2>7. callbacks' = (callbacks \ Leaked) \cup {new}
    BY <2>2, <2>5, <2>6 DEF Followed
  <2>8. asked' = <<new>>
    <3>1. asked' = Append(asked, new)
      BY <2>2, <2>5, <2>6
    <3> QED
      BY <2>3, <3>1
  <2>9. events \in Seq(Nat) /\ events' = <<>> /\ Rising(events)
    BY <2>2 DEF PumpInv, QueueTypes, Ordered, Drained
  <2>10. /\ call \in Call /\ call.fn = "sync_done" /\ call.at = "deliver" /\ call.batch = events
         /\ call.cb = cb
    BY <2>4, <2>9, CallType
  <2> HIDE DEF cb, new, call
  <2>11. /\ stack' \in Seq(Call) /\ Len(stack') = 1 /\ stack'[1] = call
         /\ DOMAIN stack' = {1}
    <3>1. /\ stack' \in Seq(Call) /\ Len(stack') = Len(stack) + 1
          /\ stack'[Len(stack) + 1] = call /\ DOMAIN stack' = 1 .. Len(stack) + 1
      BY <2>2, <2>10, Pushed DEF PumpInv
    <3> QED
      BY <1>2, <3>1
  <2> DEFINE handed == garbage \cup ({pump.pending_destroy} \ {NoCallback})
  <2>12. garbage' = handed \ Leaked /\ Leaked \subseteq handed
    BY <2>2 DEF Spent, Leaked
  <2>13. /\ callbacks = {cb} \cup handed /\ cb \notin handed
         /\ new \notin callbacks \ Leaked
    <3>1. /\ callbacks = ({pump.cb, pump.pending_destroy} \ {NoCallback}) \cup garbage
          /\ ({pump.cb, pump.pending_destroy} \ {NoCallback}) \cap garbage = {}
          /\ pump.cb # pump.pending_destroy
      BY <1>5 DEF PumpInv, CallbacksAccounted
    <3> QED
      BY <2>4, <2>5, <3>1 DEF Followed
  <2> HIDE DEF handed
  <2>14. CallbacksAccounted'
    <3>1. /\ callbacks' = {new, cb} \cup garbage'
          /\ {new, cb} \cap garbage' = {} /\ new # cb
      BY <2>7, <2>12, <2>13
    <3>2. {pump'.cb, pump'.pending_destroy} \ {NoCallback} = {new, cb}
      BY <2>4, <2>5, <2>6
    <3> QED
      BY <2>6, <3>1, <3>2 DEF CallbacksAccounted
  <2>15. QueueTypes'
    BY <1>1, <2>3, <2>4, <2>5, <2>8, <2>9 DEF PumpInv, QueueTypes
  <2>16. StateTypes'
    <3>1. callbacks' \subseteq Callbacks /\ garbage' \subseteq callbacks'
      BY <2>5, <2>7, <2>12, <2>13 DEF PumpInv, StateTypes
    <3> QED
      BY <1>1, <2>6, <2>11, <3>1 DEF PumpInv, StateTypes
  <2>17. Nested'
    BY <2>4, <2>10, <2>11 DEF Nested, Shaped
  <2>18. Armed'
    BY <1>1, <2>3, <2>4, <2>5, <2>6, <2>8 DEF Armed, Single
  <2>19. Owned'
    BY <1>1, <1>5, <2>1, <2>6, <2>10, <2>11 DEF Owned, InHandler
  <2>20. Locking' /\ Gone'
    BY <1>1, <1>5, <2>10, <2>11 DEF Locking, Gone
  <2>21. Ordered' /\ Numbered'
    <3>1. Delivering' = events
      BY <2>10, <2>11 DEF Delivering
    <3>2. ToSet(events') = {} /\ Rising(events')
      BY <2>9, MembersType DEF Rising
    <3> QED
      BY <1>1, <3>1, <3>2 DEF PumpInv, Ordered, Numbered, Before
  <2>22. Sound'
    BY <2>2, Stable
  <2> QED
    BY <2>14, <2>15, <2>16, <2>17, <2>18, <2>19, <2>20, <2>21, <2>22 DEF PumpInv
<1> QED
  BY <1>4, <1>5

-----------------------------------------------------------------------------
(* Delivery. *)
Continued(call, at, batch, event) ==
    [call EXCEPT !.at = at, !.batch = batch, !.event = event]

LEMMA ContinuedFields ==
    ASSUME NEW call \in Call, NEW at, NEW batch, NEW event
    PROVE  /\ Continued(call, at, batch, event).fn = call.fn
           /\ Continued(call, at, batch, event).cb = call.cb
           /\ Continued(call, at, batch, event).at = at
           /\ Continued(call, at, batch, event).batch = batch
           /\ Continued(call, at, batch, event).event = event
BY DEF Continued, Call

LEMMA ContinuedType ==
    ASSUME NEW call \in Call, NEW at \in {"deliver", "callback", "reading", "joining"},
           NEW batch \in Seq(Nat), NEW event \in Nat
    PROVE  Continued(call, at, batch, event) \in Call
<1> DEFINE first == [call EXCEPT !.at = at]
           second == [first EXCEPT !.batch = batch]
           third == [second EXCEPT !.event = event]
<1>1. Continued(call, at, batch, event) = third
  BY DEF Continued
<1>2. first \in Call
  BY DEF Call
<1> HIDE DEF first
<1>3. second \in Call
  BY <1>2 DEF Call
<1> HIDE DEF second
<1>4. third \in Call
  BY <1>3 DEF Call
<1> HIDE DEF third
<1> QED
  BY <1>1, <1>4

LEMMA DeliverStep == ASSUME PumpInv, Deliver PROVE PumpInv'
<1>1. /\ stack # <<>> /\ Top.at = "deliver" /\ Top.batch # <<>>
      /\ UNCHANGED <<compositor, routed, fired, callbacks, alive, frames, events, locked, stop,
                     worker, garbage, pump>>
  BY DEF Deliver
<1>2. Len(stack) = 1 /\ Top = stack[1] /\ Top \in Call /\ Shaped(Top)
  BY <1>1, Innermost DEF PumpInv
<1>3. alive
  BY <1>1, <1>2 DEF PumpInv, Gone
<1>4. /\ Delivering = Top.batch /\ Top.batch \in Seq(Nat) /\ Rising(Top.batch)
      /\ ToSet(Top.batch) \subseteq DOMAIN sent
  BY <1>2 DEF Delivering, Call, PumpInv, Ordered, Numbered
<1>5. PICK n \in Nat : n = Head(Top.batch)
  BY <1>1, <1>4, MembersTail
<1>6. PICK rest \in Seq(Nat) : rest = Rest(n, Top.batch)
  <2>1. Tail(Top.batch) \in Seq(Nat) /\ <<>> \in Seq(Nat)
    BY <1>1, <1>4, MembersTail
  <2>2. CASE sent[n].kind = "Close"
    BY <2>1, <2>2 DEF Rest
  <2>3. CASE sent[n].kind # "Close"
    BY <2>1, <2>3 DEF Rest
  <2> QED
    BY <2>2, <2>3
<1>7. PICK known \in BOOLEAN : known = (alive /\ sent[n].frame \in frames)
  OBVIOUS
<1>8. PICK at \in {"deliver", "callback"} : at = IF known THEN "callback" ELSE "deliver"
  OBVIOUS
<1> DEFINE call == Continued(Top, at, rest, n)
<1>9. /\ SetTop(call)
      /\ delivered' = IF known THEN Append(delivered, n) ELSE delivered
      /\ faults' = faults \cup Fault(~alive, "context used after free")
  BY <1>5, <1>6, <1>7, <1>8 DEF Deliver, Continued
<1>10. /\ n \in ToSet(Top.batch) /\ ToSet(rest) \subseteq ToSet(Top.batch) /\ Rising(rest)
       /\ sent[n].kind = "Close" => rest = <<>>
  <2>1. ToSet(<<>>) = {} /\ Rising(<<>>)
    BY MembersType DEF Rising
  <2>2. /\ n \in ToSet(Top.batch) /\ Rising(Tail(Top.batch))
        /\ ToSet(Tail(Top.batch)) \subseteq ToSet(Top.batch)
    BY <1>1, <1>4, <1>5, MembersTail, RisingTail
  <2> QED
    BY <1>6, <2>1, <2>2 DEF Rest
<1>11. /\ call \in Call /\ call.fn = Top.fn /\ call.cb = Top.cb
       /\ call.at = at /\ call.batch = rest /\ call.event = n
  <2>1. call \in Call
    BY <1>2, <1>5, <1>6, <1>8, ContinuedType
  <2> QED
    BY <1>2, <2>1, ContinuedFields
<1> HIDE DEF call
<1>12. stack' \in Seq(Call) /\ Len(stack') = 1 /\ stack'[1] = call /\ DOMAIN stack' = {1}
  BY <1>2, <1>9, <1>11, Set DEF PumpInv
<1>13. UNCHANGED <<sent, unread, events, routed>>
  BY <1>1 DEF compositor
<1>14. QueueTypes' /\ StateTypes'
  <2>1. delivered' \in Seq(Nat)
    <3>1. delivered \in Seq(Nat) /\ Append(delivered, n) \in Seq(Nat)
      BY <1>5 DEF PumpInv, QueueTypes
    <3>2. CASE known
      BY <1>9, <3>1, <3>2
    <3>3. CASE ~known
      BY <1>9, <3>1, <3>3
    <3> QED
      BY <3>2, <3>3
  <2> QED
    BY <1>1, <1>12, <2>1 DEF PumpInv, QueueTypes, StateTypes, compositor
<1>15. Nested'
  BY <1>1, <1>2, <1>4, <1>5, <1>8, <1>10, <1>11, <1>12, <1>13 DEF Nested, Shaped
<1>16. Armed' /\ CallbacksAccounted'
  BY <1>1, Stable DEF compositor
<1>17. Owned'
  BY <1>1, <1>2, <1>3, <1>8, <1>11, <1>12 DEF PumpInv, Owned, InHandler
<1>18. Locking' /\ Gone'
  BY <1>1, <1>2, <1>3, <1>8, <1>11, <1>12 DEF PumpInv, Locking, Gone
<1>19. Ordered' /\ Numbered'
  <2>1. Delivering' = rest
    BY <1>11, <1>12 DEF Delivering
  <2> QED
    BY <1>4, <1>10, <1>13, <2>1 DEF PumpInv, Ordered, Numbered, Before
<1>20. Sound'
  BY <1>3, <1>9 DEF PumpInv, Sound, NoFault, Fault
<1> QED
  BY <1>14, <1>15, <1>16, <1>17, <1>18, <1>19, <1>20 DEF PumpInv

LEMMA CallbackReturnsStep == ASSUME PumpInv, CallbackReturns PROVE PumpInv'
<1> DEFINE call == [Top EXCEPT !.at = "deliver"]
<1>1. /\ stack # <<>> /\ Top.at = "callback" /\ SetTop(call)
      /\ UNCHANGED <<compositor, routed, fired, callbacks, alive, frames, events, locked, stop,
                     worker, garbage, pump, history>>
  BY DEF CallbackReturns
<1>2. Len(stack) = 1 /\ Top = stack[1] /\ Top \in Call /\ Shaped(Top)
  BY <1>1, Innermost DEF PumpInv
<1>3. /\ call \in Call /\ call.fn = Top.fn /\ call.cb = Top.cb /\ call.at = "deliver"
      /\ call.batch = Top.batch
  BY <1>2 DEF Call
<1> HIDE DEF call
<1>4. stack' \in Seq(Call) /\ Len(stack') = 1 /\ stack'[1] = call /\ DOMAIN stack' = {1}
  BY <1>1, <1>2, <1>3, Set DEF PumpInv
<1>5. QueueTypes' /\ StateTypes'
  BY <1>1, <1>4 DEF PumpInv, QueueTypes, StateTypes, compositor, history
<1>6. Nested'
  BY <1>1, <1>2, <1>3, <1>4 DEF Nested, Shaped
<1>7. Armed' /\ CallbacksAccounted' /\ Sound'
  BY <1>1, Stable DEF compositor, history
<1>8. Owned'
  BY <1>1, <1>2, <1>3, <1>4 DEF PumpInv, Owned, InHandler
<1>9. Locking' /\ Gone'
  BY <1>1, <1>2, <1>3, <1>4 DEF PumpInv, Locking, Gone
<1>10. Ordered' /\ Numbered'
  <2>1. Delivering' = Delivering /\ UNCHANGED <<events, routed, unread, sent>>
    BY <1>1, <1>2, <1>3, <1>4 DEF Delivering, compositor
  <2> QED
    BY <2>1 DEF PumpInv, Ordered, Numbered
<1> QED
  BY <1>5, <1>6, <1>7, <1>8, <1>9, <1>10 DEF PumpInv

LEMMA FinishStep == ASSUME PumpInv, Finish PROVE PumpInv'
<1>1. /\ stack # <<>> /\ Top.at = "deliver" /\ Top.batch = <<>> /\ Pop
      /\ UNCHANGED <<compositor, routed, fired, callbacks, alive, frames, events, locked, stop,
                     worker, garbage, delivered, dropped>>
  BY DEF Finish
<1>2. Len(stack) = 1 /\ Top = stack[1] /\ (Top.fn = "sync_done" <=> pump.in_dispatch)
  BY <1>1, Innermost DEF PumpInv, Owned, InHandler
<1>3. stack' = <<>> /\ Len(stack') = 0 /\ DOMAIN stack' = {} /\ stack' \in Seq(Call)
  BY <1>1, <1>2, Popped DEF PumpInv
<1>4. pump \in PumpState
  BY DEF PumpInv, StateTypes
<1>5. /\ pump' \in PumpState /\ pump'.cb = pump.cb
      /\ pump'.pending_destroy = pump.pending_destroy
      /\ pump'.detached = pump.detached /\ ~pump'.in_dispatch
      /\ pump'.freed <=> pump.freed \/ (pump.in_dispatch /\ pump.detached)
      /\ (pump.in_dispatch /\ pump.freed) \/ faults' = faults
  <2>1. CASE Top.fn = "sync_done"
    <3> DEFINE freed == pump.freed \/ pump.detached
               first == [pump EXCEPT !.in_dispatch = FALSE]
    <3>1. first \in PumpState /\ first.cb = pump.cb /\ first.in_dispatch = FALSE
          /\ first.pending_destroy = pump.pending_destroy /\ first.detached = pump.detached
          /\ first.freed = pump.freed
      BY <1>4 DEF PumpState
    <3>2. pump' = [first EXCEPT !.freed = first.freed \/ pump.detached]
      BY <2>1 DEF Finish
    <3>3. freed \in BOOLEAN /\ pump' = [first EXCEPT !.freed = freed]
      BY <3>1, <3>2
    <3> HIDE DEF first, freed
    <3>4. /\ pump' \in PumpState /\ pump'.cb = pump.cb
          /\ pump'.pending_destroy = pump.pending_destroy
          /\ pump'.detached = pump.detached /\ pump'.in_dispatch = FALSE
          /\ pump'.freed = freed
      BY <3>1, <3>3 DEF PumpState
    <3>5. pump.freed \/ faults' = faults
      BY <2>1 DEF Finish, Fault
    <3> QED
      BY <1>2, <2>1, <3>4, <3>5 DEF freed
  <2>2. CASE Top.fn # "sync_done"
    BY <1>2, <1>4, <2>2 DEF Finish
  <2> QED
    BY <2>1, <2>2
<1>6. QueueTypes' /\ StateTypes'
  BY <1>1, <1>3, <1>5 DEF PumpInv, QueueTypes, StateTypes, compositor
<1>7. Nested'
  BY <1>3 DEF Nested
<1>8. Armed'
  BY <1>1, <1>5 DEF PumpInv, Armed, Single, compositor
<1>9. CallbacksAccounted'
  BY <1>1, <1>5 DEF PumpInv, CallbacksAccounted
<1>10. Owned'
  BY <1>1, <1>3, <1>5 DEF PumpInv, Owned, InHandler
<1>11. Locking' /\ Gone'
  BY <1>1, <1>2, <1>3 DEF PumpInv, Locking, Gone
<1>12. Ordered' /\ Numbered'
  <2>1. /\ Delivering' = <<>> /\ Delivering = <<>>
        /\ UNCHANGED <<events, routed, unread, sent>>
    BY <1>1, <1>2, <1>3 DEF Delivering, compositor
  <2> QED
    BY <2>1 DEF PumpInv, Ordered, Numbered
<1>13. Sound'
  BY <1>5 DEF PumpInv, Sound, NoFault, Owned
<1> QED
  BY <1>6, <1>7, <1>8, <1>9, <1>10, <1>11, <1>12, <1>13 DEF PumpInv

-----------------------------------------------------------------------------
(* libdecor_dispatch. *)
LEMMA DispatchStep == ASSUME Obedient, PumpInv, Dispatch \/ DispatchFails PROVE PumpInv'
<1>1. /\ alive /\ ~locked /\ routed' \in {<<>>, routed}
      /\ UNCHANGED <<compositor, fired, callbacks, alive, frames, stop, worker, garbage, pump,
                     history>>
  BY DEF Dispatch, DispatchFails
<1>2. stack = <<>> /\ Len(stack) = 0 /\ ~pump.in_dispatch
  BY Callers, EmptyStack DEF Dispatch, DispatchFails, PumpInv, Owned, InHandler
<1>3. PICK at \in {"deliver", "reading"}, batch \in Seq(Nat) :
          /\ Push(Calling("dispatch", at, batch, NoCallback))
          /\ locked' = (at = "reading") /\ (at = "reading" => batch = <<>>)
          /\ events' \in Seq(Nat) /\ Rising(events') /\ Rising(batch)
          /\ ToSet(events') \subseteq ToSet(events)
          /\ ToSet(batch) \subseteq ToSet(events) \cup ToSet(routed)
          /\ batch = <<>> \/ events' = <<>>
          /\ routed' = <<>> \/ (at = "deliver" /\ ToSet(batch) \subseteq ToSet(events))
  <2>1. CASE Dispatch /\ routed # <<>>
    <3> DEFINE batch == Dispatched(routed)
    <3>1. /\ events' = <<>> /\ Push(Calling("dispatch", "deliver", batch, NoCallback))
          /\ locked' = FALSE /\ routed' = <<>>
      BY <1>1, <2>1 DEF Dispatch, Drained, PumpInv, StateTypes
    <3>2. /\ batch \in Seq(Nat) /\ Rising(batch)
          /\ ToSet(batch) \subseteq ToSet(events) \cup ToSet(routed)
      <4>1. Before(ToSet(events), ToSet(routed)) /\ routed \in Seq(Nat) /\ Rising(routed)
        BY DEF PumpInv, QueueTypes, Ordered, Before
      <4> QED
        BY <4>1, DispatchedEvents
    <3> HIDE DEF batch
    <3>3. events' \in Seq(Nat) /\ Rising(events') /\ ToSet(events') = {}
      BY <3>1, MembersType DEF Rising
    <3> QED
      BY <3>1, <3>2, <3>3
  <2>2. CASE Dispatch /\ routed = <<>>
    <3>1. /\ events' = events /\ Push(Calling("dispatch", "reading", <<>>, NoCallback))
          /\ locked' = TRUE /\ routed' = <<>>
      BY <2>2 DEF Dispatch
    <3>2. events' \in Seq(Nat) /\ Rising(events')
      BY <3>1 DEF PumpInv, QueueTypes, Ordered
    <3>3. <<>> \in Seq(Nat) /\ Rising(<<>>) /\ ToSet(<<>>) = {}
      BY MembersType DEF Rising
    <3> QED
      BY <3>1, <3>2, <3>3
  <2>3. CASE DispatchFails
    <3>1. /\ events' = <<>> /\ Push(Calling("dispatch", "deliver", events, NoCallback))
          /\ locked' = FALSE
      BY <1>1, <2>3 DEF DispatchFails, Drained
    <3>2. events \in Seq(Nat) /\ Rising(events)
      BY DEF PumpInv, QueueTypes, Ordered
    <3>3. events' \in Seq(Nat) /\ Rising(events') /\ ToSet(events') = {}
      BY <3>1, MembersType DEF Rising
    <3> QED
      BY <3>1, <3>2, <3>3
  <2> QED
    BY <2>1, <2>2, <2>3
<1> DEFINE call == Calling("dispatch", at, batch, NoCallback)
<1>4. /\ call \in Call /\ call.fn = "dispatch" /\ call.at = at /\ call.batch = batch
      /\ call.cb = NoCallback
  BY <1>3, CallType DEF Optional
<1> HIDE DEF call
<1>5. stack' \in Seq(Call) /\ Len(stack') = 1 /\ stack'[1] = call /\ DOMAIN stack' = {1}
  <2>1. Push(call)
    BY <1>3 DEF call
  <2>2. /\ stack' \in Seq(Call) /\ Len(stack') = Len(stack) + 1
        /\ stack'[Len(stack) + 1] = call /\ DOMAIN stack' = 1 .. Len(stack) + 1
    BY <1>4, <2>1, Pushed DEF PumpInv
  <2> QED
    BY <1>2, <2>2
<1>6. QueueTypes' /\ StateTypes'
  <2>1. routed' \in Seq(Nat) /\ locked' \in BOOLEAN
    BY <1>1, <1>3 DEF PumpInv, QueueTypes
  <2> QED
    BY <1>1, <1>3, <1>5, <2>1 DEF PumpInv, QueueTypes, StateTypes, compositor, history
<1>7. Nested'
  BY <1>3, <1>4, <1>5 DEF Nested, Shaped
<1>8. Armed' /\ CallbacksAccounted' /\ Sound'
  BY <1>1, Stable DEF compositor, history
<1>9. Owned'
  BY <1>1, <1>2, <1>4, <1>5 DEF PumpInv, Owned, InHandler
<1>10. Locking' /\ Gone'
  <2>1. (locked' <=> at = "reading") /\ (locked' => routed' = <<>>) /\ alive'
    BY <1>1, <1>3
  <2>2. Len(stack') = 1 /\ stack'[1].at = at
    BY <1>4, <1>5
  <2> QED
    BY <2>1, <2>2 DEF Locking, Gone
<1>11. Ordered' /\ Numbered'
  <2>1. Delivering' = batch /\ unread' = unread /\ sent' = sent
    BY <1>1, <1>4, <1>5 DEF Delivering, compositor
  <2>2. ToSet(<<>>) = {} /\ Rising(<<>>)
    BY MembersType DEF Rising
  <2>3. /\ Before(ToSet(events), ToSet(unread)) /\ Before(ToSet(routed), ToSet(unread))
        /\ Before(ToSet(events), ToSet(routed)) /\ Rising(routed)
        /\ ToSet(events) \cup ToSet(routed) \cup ToSet(unread) \subseteq DOMAIN sent
        /\ Rising(unread)
    BY DEF PumpInv, Ordered, Numbered, Before
  <2>4. Before(ToSet(batch), ToSet(events') \cup ToSet(routed') \cup ToSet(unread'))
    BY <1>1, <1>3, <2>1, <2>2, <2>3 DEF Before
  <2>5. Before(ToSet(events'), ToSet(routed') \cup ToSet(unread')) /\ Before(ToSet(routed'), ToSet(unread'))
    BY <1>1, <1>3, <2>1, <2>2, <2>3 DEF Before
  <2>6. Rising(batch) /\ Rising(events') /\ Rising(routed') /\ Rising(unread')
    BY <1>1, <1>3, <2>1, <2>2, <2>3
  <2>7. ToSet(batch) \cup ToSet(events') \cup ToSet(routed') \cup ToSet(unread') \subseteq DOMAIN sent'
    BY <1>1, <1>3, <2>1, <2>2, <2>3
  <2> QED
    BY <2>1, <2>4, <2>5, <2>6, <2>7 DEF Ordered, Numbered
<1> QED
  BY <1>6, <1>7, <1>8, <1>9, <1>10, <1>11 DEF PumpInv

LEMMA DispatchReturnsStep == ASSUME PumpInv, DispatchReturns PROVE PumpInv'
<1>1. /\ stack # <<>> /\ Top.at = "reading" /\ locked' = FALSE /\ events' = <<>>
      /\ UNCHANGED <<sent, asked, broken, routed, callbacks, alive, frames, stop, worker,
                     garbage, pump, history>>
  BY DEF DispatchReturns, DispatchReads, DispatchEnds, Drained, compositor
<1>2. /\ Len(stack) = 1 /\ Top = stack[1] /\ Top \in Call /\ Shaped(Top)
      /\ Top.batch = <<>> /\ Top.fn = "dispatch" /\ alive /\ routed = <<>>
  BY <1>1, Innermost DEF PumpInv, Shaped, Locking, Gone
<1>3. PICK batch \in Seq(Nat) :
          /\ SetTop([Top EXCEPT !.at = "deliver", !.batch = batch])
          /\ Rising(batch)
          /\ \/ unread' = <<>> /\ ToSet(batch) \subseteq ToSet(events) \cup ToSet(unread)
             \/ unread' = unread /\ ToSet(batch) \subseteq ToSet(events)
          /\ Armed' /\ answers' \in Seq(Callbacks) /\ fired' \in Seq(Callbacks)
          /\ unread' \in Seq(Nat)
  <2>1. CASE DispatchReads
    <3>1. Read /\ SetTop([Top EXCEPT !.at = "deliver", !.batch = Dispatched(unread)])
      BY <2>1 DEF DispatchReads
    <3>2. unread \in Seq(Nat) /\ Rising(unread) /\ Before(ToSet(events), ToSet(unread))
      BY DEF PumpInv, QueueTypes, Ordered, Before
    <3>3. /\ Dispatched(unread) \in Seq(Nat) /\ Rising(Dispatched(unread))
          /\ ToSet(Dispatched(unread)) \subseteq ToSet(events) \cup ToSet(unread)
      BY <3>2, DispatchedEvents
    <3>4. /\ Armed' /\ answers' \in Seq(Callbacks) /\ fired' \in Seq(Callbacks)
          /\ unread' \in Seq(Nat) /\ unread' = <<>>
      BY <1>1, <3>1, ReadArmed DEF Read
    <3> QED
      BY <3>1, <3>3, <3>4
  <2>2. CASE DispatchEnds
    <3>1. /\ UNCHANGED <<unread, answers, fired>>
          /\ SetTop([Top EXCEPT !.at = "deliver", !.batch = events])
      BY <2>2 DEF DispatchEnds, compositor
    <3>2. events \in Seq(Nat) /\ Rising(events)
      BY DEF PumpInv, QueueTypes, Ordered
    <3>3. Armed'
      BY <1>1, <3>1, Stable
    <3>4. answers' \in Seq(Callbacks) /\ fired' \in Seq(Callbacks) /\ unread' \in Seq(Nat)
      BY <3>1 DEF PumpInv, QueueTypes
    <3> QED
      BY <3>1, <3>2, <3>3, <3>4
  <2> QED
    BY <2>1, <2>2 DEF DispatchReturns
<1> DEFINE first == [Top EXCEPT !.at = "deliver"]
           call == [first EXCEPT !.batch = batch]
<1>4. SetTop(call)
  BY <1>3
<1>5. first \in Call /\ first.fn = Top.fn /\ first.cb = Top.cb /\ first.at = "deliver"
  BY <1>2 DEF Call
<1> HIDE DEF first
<1>6. /\ call \in Call /\ call.fn = Top.fn /\ call.cb = Top.cb /\ call.at = "deliver"
      /\ call.batch = batch
  BY <1>3, <1>5 DEF Call
<1> HIDE DEF call
<1>7. stack' \in Seq(Call) /\ Len(stack') = 1 /\ stack'[1] = call /\ DOMAIN stack' = {1}
  BY <1>2, <1>4, <1>6, Set DEF PumpInv
<1>8. QueueTypes' /\ StateTypes'
  <2>1. events' \in Seq(Nat) /\ locked' \in BOOLEAN
    <3>1. events' = <<>> /\ locked' = FALSE
      BY <1>1
    <3>2. <<>> \in Seq(Nat)
      OBVIOUS
    <3> QED
      BY <3>1, <3>2
  <2> QED
    BY <1>1, <1>3, <1>7, <2>1 DEF PumpInv, QueueTypes, StateTypes, history
<1>9. Nested'
  BY <1>1, <1>2, <1>6, <1>7 DEF Nested, Shaped
<1>10. CallbacksAccounted' /\ Sound'
  BY <1>1, Stable DEF history
<1>11. Owned'
  BY <1>1, <1>2, <1>6, <1>7 DEF PumpInv, Owned, InHandler
<1>12. Locking' /\ Gone'
  BY <1>1, <1>2, <1>6, <1>7 DEF Locking, Gone
<1>13. Ordered' /\ Numbered'
  <2>1. Delivering' = batch
    BY <1>6, <1>7 DEF Delivering
  <2>2. ToSet(<<>>) = {} /\ Rising(<<>>)
    BY MembersType DEF Rising
  <2>3. /\ ToSet(events') = {} /\ Rising(events') /\ ToSet(routed') = {} /\ Rising(routed')
        /\ sent' = sent
    BY <1>1, <1>2, <2>2
  <2>4. /\ Before(ToSet(events), ToSet(unread)) /\ Rising(unread)
        /\ ToSet(events) \cup ToSet(unread) \subseteq DOMAIN sent
    BY DEF PumpInv, Ordered, Numbered, Before
  <2>5. CASE unread' = <<>> /\ ToSet(batch) \subseteq ToSet(events) \cup ToSet(unread)
    <3>1. ToSet(unread') = {} /\ Rising(unread')
      BY <2>2, <2>5
    <3> QED
      BY <1>3, <2>1, <2>3, <2>4, <2>5, <3>1 DEF Ordered, Numbered, Before
  <2>6. CASE unread' = unread /\ ToSet(batch) \subseteq ToSet(events)
    BY <1>3, <2>1, <2>3, <2>4, <2>6 DEF Ordered, Numbered, Before
  <2> QED
    BY <1>3, <2>5, <2>6
<1> QED
  BY <1>3, <1>8, <1>9, <1>10, <1>11, <1>12, <1>13 DEF PumpInv

-----------------------------------------------------------------------------
(* The end of a context. *)
LEMMA UnrefStep == ASSUME Obedient, PumpInv, Unref PROVE PumpInv'
<1> DEFINE call == Calling("unref", "joining", <<>>, NoCallback)
<1>1. /\ alive /\ stop' = TRUE /\ Push(call)
      /\ stack # <<>> => sent[Top.event].kind = "Close"
      /\ UNCHANGED <<compositor, routed, fired, callbacks, alive, frames, events, locked, worker,
                     garbage, pump, history>>
  BY DEF Unref
<1>2. stack # <<>> => /\ Len(stack) = 1 /\ Top = stack[1] /\ stack[1].at = "callback"
                      /\ stack[1].batch = <<>>
  <2> SUFFICES ASSUME stack # <<>>
               PROVE  /\ Len(stack) = 1 /\ Top = stack[1] /\ stack[1].at = "callback"
                      /\ stack[1].batch = <<>>
    OBVIOUS
  <2>1. MayCall("unref")
    BY DEF Unref
  <2>2. Len(stack) = 1 /\ Top = stack[1] /\ stack[1].at = "callback"
    BY <2>1, Callers DEF PumpInv
  <2>3. Shaped(Top)
    BY Innermost DEF PumpInv
  <2> QED
    BY <1>1, <2>2, <2>3 DEF Shaped
<1>3. /\ call \in Call /\ call.fn = "unref" /\ call.at = "joining" /\ call.batch = <<>>
      /\ call.cb = NoCallback
  <2>1. <<>> \in Seq(Nat) /\ NoCallback \in Optional
    BY DEF Optional
  <2> QED
    BY <2>1 DEF Calling, Call
<1> HIDE DEF call
<1>4. /\ stack' \in Seq(Call) /\ Len(stack') = Len(stack) + 1 /\ stack'[Len(stack) + 1] = call
      /\ DOMAIN stack = 1 .. Len(stack) /\ DOMAIN stack' = 1 .. Len(stack) + 1
      /\ \A i \in 1 .. Len(stack) : stack'[i] = stack[i]
  BY <1>1, <1>3, Pushed DEF PumpInv
<1>5. Len(stack) \in {0, 1}
  BY <1>2, EmptyStack DEF PumpInv
<1>6. Len(stack) = 1 => stack[1].at = "callback" /\ stack[1].batch = <<>>
  BY <1>2, EmptyStack DEF PumpInv
<1>7. QueueTypes' /\ StateTypes'
  BY <1>1, <1>4 DEF PumpInv, QueueTypes, StateTypes, compositor, history
<1>8. ASSUME Len(stack) = 0
      PROVE  Nested' /\ Owned' /\ Locking' /\ Gone' /\ Delivering' = <<>> /\ Delivering = <<>>
  <2>1. Len(stack') = 1 /\ stack'[1] = call /\ DOMAIN stack' = {1}
    BY <1>4, <1>8
  <2>2. Nested'
    BY <1>3, <2>1 DEF Nested, Shaped
  <2>3. Owned'
    BY <1>1, <1>3, <1>8, <2>1 DEF PumpInv, Owned, InHandler
  <2>4. Locking' /\ Gone'
    BY <1>1, <1>3, <1>8, <2>1 DEF PumpInv, Locking, Gone
  <2>5. Delivering' = <<>> /\ Delivering = <<>>
    BY <1>3, <1>8, <2>1 DEF Delivering
  <2> QED
    BY <2>2, <2>3, <2>4, <2>5
<1>9. ASSUME Len(stack) = 1
      PROVE  Nested' /\ Owned' /\ Locking' /\ Gone' /\ Delivering' = <<>> /\ Delivering = <<>>
  <2>1. /\ Len(stack') = 2 /\ stack'[1] = stack[1] /\ stack'[2] = call
        /\ DOMAIN stack = {1} /\ DOMAIN stack' = {1, 2}
    BY <1>4, <1>9
  <2>2. Nested'
    <3>1. Shaped(stack[1])
      BY <2>1 DEF PumpInv, Nested
    <3> QED
      BY <1>1, <1>3, <1>6, <1>9, <2>1, <3>1 DEF Nested, Shaped, compositor
  <2>3. Owned'
    BY <1>1, <1>9, <2>1 DEF PumpInv, Owned, InHandler
  <2>4. Locking' /\ Gone'
    BY <1>1, <1>9, <2>1 DEF PumpInv, Locking, Gone
  <2>5. Delivering' = <<>> /\ Delivering = <<>>
    BY <1>6, <1>9, <2>1 DEF Delivering
  <2> QED
    BY <2>2, <2>3, <2>4, <2>5
<1>10. Nested' /\ Owned' /\ Locking' /\ Gone' /\ Delivering' = Delivering
  BY <1>5, <1>8, <1>9
<1>11. Armed' /\ CallbacksAccounted' /\ Sound'
  BY <1>1, Stable DEF compositor, history
<1>12. Ordered' /\ Numbered'
  BY <1>1, <1>10 DEF PumpInv, Ordered, Numbered, compositor
<1> QED
  BY <1>7, <1>10, <1>11, <1>12 DEF PumpInv

(* detach destroys callbacks that are allocated, and none whose handler runs. *)
LEMMA ReleasedSafe ==
    ASSUME PumpInv, alive
    PROVE  /\ DestroyFaults(Released) = {} /\ Released \subseteq callbacks
           /\ Released \cap garbage = {}
<1>1. Running \subseteq {pump.pending_destroy} /\ (~pump.in_dispatch => Running = {})
  BY RunningIs DEF PumpInv
<1>2. Released \subseteq callbacks /\ Released \cap garbage = {}
  BY DEF PumpInv, CallbacksAccounted, Released
<1>3. Released \cap Running = {}
  BY <1>1 DEF Released
<1> QED
  BY <1>2, <1>3 DEF DestroyFaults, Fault

LEMMA UnreferencedStep == ASSUME PumpInv, Unreferenced PROVE PumpInv'
<1>1. /\ stack # <<>> /\ Top.at = "joining" /\ worker = "exited" /\ Pop
      /\ ~alive' /\ alive' = FALSE /\ callbacks' = callbacks \ Released
      /\ pump' = [pump EXCEPT !.detached = TRUE, !.freed = ~pump.in_dispatch]
      /\ faults' = faults \cup DestroyFaults(Released)
      /\ fired' = Filter(fired, Callbacks \ Released)
      /\ asked' = Filter(asked, Callbacks \ Released)
      /\ answers' = Filter(answers, Callbacks \ Released)
      /\ frames' = {} /\ events' = <<>> /\ routed' = <<>>
      /\ UNCHANGED <<sent, unread, broken, locked, stop, worker, garbage, delivered, dropped>>
  BY DEF Unreferenced, Joined
<1>2. /\ Len(stack) \in {1, 2} /\ DOMAIN stack = 1 .. Len(stack) /\ Shaped(Top)
      /\ Len(stack) = 1 => Top = stack[1]
  BY <1>1, Innermost DEF PumpInv
<1>3. alive
  BY <1>1, <1>2 DEF PumpInv, Gone
<1>4. /\ Len(stack) = 1 => stack[1].at = "joining" /\ stack[1].fn = "unref" /\ stack[1].batch = <<>>
      /\ Len(stack) = 2 => stack[1].at = "callback" /\ stack[1].batch = <<>>
  BY <1>1, <1>2 DEF PumpInv, Nested, Shaped
<1>5. /\ stack' \in Seq(Call)
      /\ Len(stack) = 1 => stack' = <<>> /\ Len(stack') = 0 /\ DOMAIN stack' = {}
      /\ Len(stack) = 2 => Len(stack') = 1 /\ DOMAIN stack' = {1} /\ stack'[1] = stack[1]
  BY <1>1, <1>2, Popped DEF PumpInv
<1>6. /\ pump' \in PumpState /\ pump'.detached /\ pump'.in_dispatch = pump.in_dispatch
      /\ pump'.freed <=> ~pump.in_dispatch
  <2> DEFINE freed == ~pump.in_dispatch
             first == [pump EXCEPT !.detached = TRUE]
  <2>1. pump \in PumpState /\ freed \in BOOLEAN
    BY DEF PumpInv, StateTypes
  <2>2. pump' = [first EXCEPT !.freed = freed]
    BY <1>1
  <2>3. first \in PumpState /\ first.detached = TRUE /\ first.in_dispatch = pump.in_dispatch
    BY <2>1 DEF PumpState
  <2> HIDE DEF first, freed
  <2>4. /\ pump' \in PumpState /\ pump'.detached = TRUE /\ pump'.in_dispatch = pump.in_dispatch
        /\ pump'.freed = freed
    BY <2>1, <2>2, <2>3 DEF PumpState
  <2> QED
    BY <2>4 DEF freed
<1>7. QueueTypes'
  <2>1. /\ fired' \in Seq(Callbacks) /\ asked' \in Seq(Callbacks) /\ answers' \in Seq(Callbacks)
    BY <1>1, FilterMembers DEF PumpInv, QueueTypes
  <2>2. events' \in Seq(Nat) /\ routed' \in Seq(Nat)
    <3>1. <<>> \in Seq(Nat)
      OBVIOUS
    <3> QED
      BY <1>1, <3>1
  <2> QED
    BY <1>1, <2>1, <2>2 DEF PumpInv, QueueTypes
<1>8. StateTypes'
  <2>1. callbacks' \subseteq Callbacks /\ garbage' \subseteq callbacks'
    BY <1>1, <1>3, ReleasedSafe DEF PumpInv, StateTypes
  <2> QED
    BY <1>1, <1>5, <1>6, <2>1 DEF PumpInv, StateTypes
<1>9. Nested'
  <2>1. CASE Len(stack) = 1
    BY <1>5, <2>1 DEF Nested
  <2>2. CASE Len(stack) = 2
    <3>1. Shaped(stack[1])
      BY <1>2, <2>2 DEF PumpInv, Nested
    <3>2. sent' = sent
      BY <1>1
    <3> QED
      BY <1>5, <2>2, <3>1, <3>2 DEF Nested, Shaped
  <2> QED
    BY <1>2, <2>1, <2>2
<1>10. Armed' /\ CallbacksAccounted'
  <2>1. pump'.cb = pump.cb /\ pump'.pending_destroy = pump.pending_destroy
    BY <1>1 DEF PumpInv, StateTypes, PumpState
  <2> QED
    BY <1>1, <2>1 DEF Armed, PumpInv, CallbacksAccounted
<1>11. Owned'
  <2>1. InHandler' <=> InHandler
    BY <1>2, <1>4, <1>5 DEF InHandler
  <2> QED
    BY <1>1, <1>6, <2>1 DEF PumpInv, Owned
<1>12. Locking'
  <2>1. locked' = locked /\ routed' = <<>>
    BY <1>1
  <2>2. ~locked
    BY <1>2, <1>4 DEF PumpInv, Locking
  <2>3. ~(Len(stack') > 0 /\ stack'[1].at = "reading")
    BY <1>2, <1>4, <1>5
  <2> QED
    BY <2>1, <2>2, <2>3 DEF Locking
<1>13. Gone'
  <2>1. worker' = "exited" /\ frames' = {} /\ events' = <<>> /\ routed' = <<>>
    BY <1>1
  <2>2. CASE Len(stack) = 1
    BY <1>5, <2>1, <2>2 DEF Gone
  <2>3. CASE Len(stack) = 2
    <3>1. Len(stack') = 1 /\ stack'[1].at = "callback" /\ stack'[1].batch = <<>>
      BY <1>4, <1>5, <2>3
    <3> QED
      BY <2>1, <3>1 DEF Gone
  <2> QED
    BY <1>2, <2>2, <2>3
<1>14. Ordered' /\ Numbered'
  <2>1. Delivering' = <<>>
    BY <1>2, <1>4, <1>5 DEF Delivering
  <2>2. ToSet(<<>>) = {} /\ Rising(<<>>)
    BY MembersType DEF Rising
  <2>3. ToSet(Delivering') = {} /\ ToSet(events') = {} /\ ToSet(routed') = {}
    BY <1>1, <2>1, <2>2
  <2>4. Rising(Delivering') /\ Rising(events') /\ Rising(routed')
    BY <1>1, <2>1, <2>2
  <2> QED
    BY <1>1, <2>3, <2>4 DEF PumpInv, Ordered, Numbered, Before
<1>15. Sound'
  BY <1>1, <1>3, ReleasedSafe DEF PumpInv, Sound, NoFault
<1> QED
  BY <1>7, <1>8, <1>9, <1>10, <1>11, <1>12, <1>13, <1>14, <1>15 DEF PumpInv

-----------------------------------------------------------------------------
LEMMA PumpInit == Init => PumpInv
<1> SUFFICES ASSUME Init
             PROVE  PumpInv
  OBVIOUS
<1>1. 1 \in Callbacks /\ 1 # NoCallback /\ 0 \in Optional /\ 1 \in Optional
  BY PumpAssumption DEF Callbacks, NoCallback, Optional
<1>2. ToSet(<<>>) = {} /\ Rising(<<>>)
  BY MembersType DEF Rising
<1>3. Len(stack) = 0 /\ DOMAIN stack = {} /\ stack \in Seq(Call)
  BY DEF Init
<1>4. pump \in PumpState /\ pump.cb = 1 /\ pump.pending_destroy = NoCallback
      /\ ~pump.in_dispatch /\ ~pump.freed /\ ~pump.detached
  BY <1>1 DEF Init, PumpState, NoCallback
<1>5. QueueTypes
  BY <1>1 DEF Init, QueueTypes
<1>6. StateTypes
  BY <1>1, <1>3, <1>4 DEF Init, StateTypes
<1>7. Nested /\ Locking /\ Gone
  BY <1>3 DEF Init, Nested, Locking, Gone
<1>8. Armed /\ CallbacksAccounted
  BY <1>1, <1>4 DEF Init, Armed, Single, CallbacksAccounted
<1>9. Owned
  BY <1>3, <1>4 DEF Init, Owned, InHandler
<1>10. Ordered /\ Numbered
  <2>1. Delivering = <<>>
    BY <1>3 DEF Delivering
  <2> QED
    BY <1>2, <2>1 DEF Init, Ordered, Numbered, Before
<1>11. Sound
  BY DEF Init, Sound, NoFault
<1> QED
  BY <1>5, <1>6, <1>7, <1>8, <1>9, <1>10, <1>11 DEF PumpInv

LEMMA PumpStep == ASSUME Obedient, PumpInv, [Next]_vars PROVE PumpInv'
<1>1. ASSUME Compositor
      PROVE  PumpInv'
  BY <1>1, AnswerStep, SendStep DEF Compositor
<1>2. ASSUME ReadSocket \/ Break
      PROVE  PumpInv'
  BY <1>2, ReadSocketStep, BreakStep
<1>3. ASSUME Worker
      PROVE  PumpInv'
  BY <1>3, WorkerCheckStep, WorkerTickStep DEF Worker
<1>4. ASSUME SyncDone
      PROVE  PumpInv'
  BY <1>4, SyncDoneStep
<1>5. ASSUME Unwind
      PROVE  PumpInv'
  BY <1>5, DeliverStep, CallbackReturnsStep, FinishStep, DispatchReturnsStep, UnreferencedStep
     DEF Unwind
<1>6. ASSUME AppCall
      PROVE  PumpInv'
  BY <1>6, DispatchStep, UnrefStep, FramesStep DEF AppCall
<1>7. ASSUME UNCHANGED vars
      PROVE  PumpInv'
  <2>1. QueueTypes' /\ StateTypes'
    BY <1>7 DEF vars, compositor, history, PumpInv, QueueTypes, StateTypes
  <2> QED
    BY <1>7, <2>1, Stable DEF vars, compositor, history, PumpInv
<1> QED
  BY <1>1, <1>2, <1>3, <1>4, <1>5, <1>6, <1>7 DEF Next

LEMMA PumpInvariant == ASSUME Obedient PROVE Spec => []PumpInv
<1>1. PumpInv /\ [Next]_vars => PumpInv'
  BY PumpStep
<1> QED
  BY <1>1, PumpInit, PTL DEF Spec

(***************************************************************************)
(* The queues, the calls and the pump keep their types, and what waits for *)
(* the worker is still allocated, whatever callbacks drop or free.         *)
(***************************************************************************)
THEOREM PumpTyped == ASSUME Obedient PROVE Spec => []TypeOK
<1>1. PumpInv => TypeOK
  BY DEF PumpInv, QueueTypes, StateTypes, TypeOK, Events
<1> QED
  BY <1>1, PumpInvariant, PTL

(***************************************************************************)
(* No freed pump or context is used, and no wl_callback is destroyed twice *)
(* or in its own handler, if callbacks do not dispatch and the default     *)
(* queue goes away with the context (sync_done, detach, deliver_events,    *)
(* collect_garbage).                                                       *)
(***************************************************************************)
THEOREM PumpSafe == ASSUME Obedient, ~KeepsDisplay PROVE Spec => []NoFault
<1>1. PumpInv => NoFault
  BY DEF PumpInv, Sound
<1> QED
  BY <1>1, PumpInvariant, PTL

(***************************************************************************)
(* A freed context has a worker that has exited and a pump that is         *)
(* detached, and freed once no call of the application runs (shutdown,     *)
(* detach, sync_done).                                                     *)
(***************************************************************************)
THEOREM PumpTornDown == ASSUME Obedient PROVE Spec => []TornDown
<1>1. PumpInv => TornDown
  <2> SUFFICES ASSUME PumpInv, ~alive
               PROVE  worker = "exited" /\ pump.detached /\ (stack = <<>> => pump.freed)
    BY DEF TornDown
  <2>1. stack = <<>> => Len(stack) = 0
    BY EmptyStack DEF PumpInv
  <2> QED
    BY <2>1 DEF PumpInv, Owned, InHandler, Gone
<1> QED
  BY <1>1, PumpInvariant, PTL

(***************************************************************************)
(* The pump of a live context never runs dry: its sync is asked for,       *)
(* answered or waiting to be handled, and no one destroys it first (arm,   *)
(* sync_done, collect_garbage).                                            *)
(***************************************************************************)
THEOREM PumpArmed == ASSUME Obedient PROVE Spec => []AlwaysArmed
<1>1. PumpInv => AlwaysArmed
  <2> SUFFICES ASSUME PumpInv, alive
               PROVE  pump.cb \in callbacks \ garbage /\ OnItsWay(pump.cb)
    BY DEF AlwaysArmed
  <2>1. pump.cb \in Callbacks /\ Single(pump.cb) /\ pump.cb # NoCallback
    BY DEF PumpInv, Armed, Callbacks, NoCallback
  <2>2. pump.cb \in callbacks \ garbage
    BY <2>1 DEF PumpInv, CallbacksAccounted
  <2>3. pump.cb \in ToSet(<<pump.cb>>)
    BY DEF ToSet
  <2>4. OnItsWay(pump.cb)
    BY <2>1, <2>3 DEF Single, OnItsWay
  <2> QED
    BY <2>2, <2>4
<1> QED
  BY <1>1, PumpInvariant, PTL

(***************************************************************************)
(* While the context lives, the armed wl_callback, the deferred one and    *)
(* those that wait for the worker are distinct and allocated; dead or      *)
(* alive, it leaves no other one behind, but for those that were handed to *)
(* a worker that is gone (sync_done, queue_destroy, collect_garbage,       *)
(* detach).                                                                *)
(***************************************************************************)
THEOREM PumpAccounted == ASSUME Obedient PROVE Spec => []CallbacksAccounted
<1>1. PumpInv => CallbacksAccounted
  BY DEF PumpInv
<1> QED
  BY <1>1, PumpInvariant, PTL

-----------------------------------------------------------------------------
(***************************************************************************)
(* Pump implements Mailbox, for any number of frames and events: queues,   *)
(* thread, pump and calls hand every event on, in order.                   *)
(***************************************************************************)
(* The events on their way, wherever they are. *)
InLine == ToSet(Delivering) \cup ToSet(events) \cup ToSet(routed) \cup ToSet(unread)

LEMMA PendingIs == PumpInv => Pending = InLine
<1> SUFFICES ASSUME PumpInv
             PROVE  UNION {ToSet(stack[i].batch) : i \in DOMAIN stack} = ToSet(Delivering)
  BY DEF Pending, InLine
<1> DEFINE Batches == UNION {ToSet(stack[i].batch) : i \in DOMAIN stack}
<1>1. ToSet(<<>>) = {}
  BY MembersType
<1>2. CASE stack = <<>>
  <2>1. DOMAIN stack = {} /\ Delivering = <<>>
    BY <1>2, EmptyStack DEF PumpInv, Delivering
  <2> QED
    BY <1>1, <2>1
<1>3. CASE stack # <<>>
  <2>1. /\ DOMAIN stack = 1 .. Len(stack) /\ Len(stack) \in {1, 2}
        /\ Len(stack) = 2 => stack[2] = Top /\ Shaped(Top) /\ Top.at = "joining"
    BY <1>3, Innermost DEF PumpInv
  <2>2. Delivering = stack[1].batch
    BY <2>1 DEF Delivering
  <2>3. Len(stack) = 2 => ToSet(stack[2].batch) = {}
    BY <1>1, <2>1 DEF Shaped
  <2>4. Batches \subseteq ToSet(stack[1].batch)
    BY <2>1, <2>3
  <2>5. 1 \in DOMAIN stack
    BY <2>1
  <2>6. ToSet(stack[1].batch) \subseteq Batches
    BY <2>5
  <2> QED
    BY <2>2, <2>4, <2>6
<1> QED
  BY <1>2, <1>3

(* What a step must show of its frames and events. *)
LEMMA Withdraws ==
    ASSUME Pending = InLine, Pending' = InLine', frames' \subseteq frames, InLine' \subseteq InLine,
           \A n \in InLine \ InLine' : sent[n].frame \notin frames',
           sent' = sent, delivered' = delivered
    PROVE  Mail!Withdraw
BY DEF Mail!Withdraw

LEMMA Stays ==
    ASSUME UNCHANGED <<frames, sent, delivered>>, Pending = InLine, Pending' = InLine',
           InLine' = InLine
    PROVE  UNCHANGED Mail!vars
BY DEF Mail!vars

-----------------------------------------------------------------------------
LEMMA SendPosts ==
    ASSUME PumpInv, NEW f \in Frames, NEW kind \in Kinds, Send(f, kind),
           Pending = InLine, Pending' = InLine'
    PROVE  Mail!Post(f, kind)
<1> DEFINE n == Len(sent) + 1
<1>1. /\ f \in frames /\ Len(sent) < MaxSent
      /\ sent' = Append(sent, [frame |-> f, kind |-> kind]) /\ unread' = Append(unread, n)
      /\ UNCHANGED <<frames, delivered, stack, events, routed>>
  BY DEF Send, history
<1>2. n \in Nat /\ unread \in Seq(Nat)
  BY DEF PumpInv, QueueTypes
<1>3. ToSet(unread') = ToSet(unread) \cup {n}
  <2> HIDE DEF n
  <2>1. ToSet(Append(unread, n)) = ToSet(unread) \cup {n}
    BY <1>2, MembersAppend
  <2> QED
    BY <1>1, <2>1
<1>4. Delivering' = Delivering
  BY <1>1 DEF Delivering
<1>5. InLine' = InLine \cup {n}
  BY <1>1, <1>3, <1>4 DEF InLine
<1> QED
  BY <1>1, <1>5 DEF Mail!Post

LEMMA ReadSocketWithdraws ==
    ASSUME PumpInv, ReadSocket, Pending = InLine, Pending' = InLine'
    PROVE  Mail!Withdraw
<1>1. /\ unread' = <<>> /\ routed' = (IF alive THEN routed \o unread ELSE <<>>)
      /\ UNCHANGED <<frames, sent, delivered, stack, events>>
  BY DEF ReadSocket, Read, history
<1>2. ToSet(<<>>) = {}
  BY MembersType
<1>3. ToSet(unread') = {} /\ Delivering' = Delivering
  BY <1>1, <1>2 DEF Delivering
<1>4. CASE alive
  <2>1. ToSet(routed') = ToSet(routed) \cup ToSet(unread)
    <3>1. routed' = routed \o unread
      BY <1>1, <1>4
    <3>2. ToSet(routed \o unread) = ToSet(routed) \cup ToSet(unread)
      BY MembersConcat DEF PumpInv, QueueTypes
    <3> QED
      BY <3>1, <3>2
  <2>2. InLine' = InLine
    BY <1>1, <1>3, <2>1 DEF InLine
  <2> QED
    BY <1>1, <2>2, Withdraws
<1>5. CASE ~alive
  <2>1. frames' = {} /\ ToSet(routed') = {}
    BY <1>1, <1>2, <1>5 DEF PumpInv, Gone
  <2>2. InLine' \subseteq InLine
    BY <1>1, <1>3, <2>1 DEF InLine
  <2> QED
    BY <1>1, <2>1, <2>2, Withdraws
<1> QED
  BY <1>4, <1>5

(* An event is taken away from libwayland when its frame is gone, and only then. *)
LEMMA Unwanted ==
    ASSUME PumpInv, NEW n \in InLine, n \notin Wanted
    PROVE  sent[n].frame \notin frames
BY DEF PumpInv, Numbered, InLine, Wanted

LEMMA WorkerTickWithdraws ==
    ASSUME PumpInv, WorkerTick, Pending = InLine, Pending' = InLine'
    PROVE  Mail!Withdraw
<1>1. UNCHANGED <<frames, sent, unread, delivered, stack>> /\ Delivering' = Delivering
  BY DEF WorkerTick, compositor, Delivering
<1>2. CASE UNCHANGED <<routed, events>>
  <2>1. InLine' = InLine
    BY <1>1, <1>2 DEF InLine
  <2> QED
    BY <1>1, <2>1, Withdraws
<1>3. CASE events' = Dispatched(routed) /\ routed' = <<>>
  <2>1. events' = Dispatched(routed) /\ routed' = <<>>
    BY <1>3
  <2>2. routed \in Seq(Nat) /\ Rising(routed) /\ Before(ToSet(events), ToSet(routed))
    BY DEF PumpInv, QueueTypes, Ordered, Before
  <2>3. ToSet(events') = ToSet(events) \cup (ToSet(routed) \cap Wanted)
    BY <2>1, <2>2, DispatchedEvents
  <2>4. ToSet(routed') = {}
    BY <2>1, MembersType
  <2>5. InLine' \subseteq InLine /\ InLine \ InLine' \subseteq InLine \ Wanted
    BY <1>1, <2>3, <2>4 DEF InLine
  <2> QED
    BY <1>1, <2>5, Unwanted, Withdraws
<1> QED
  BY <1>2, <1>3 DEF WorkerTick

LEMMA FramesChange ==
    ASSUME PumpInv, NEW f \in Frames, Pending = InLine, Pending' = InLine'
    PROVE  /\ Decorate(f) => Mail!Open(f)
           /\ DropFrame(f) => Mail!Withdraw
<1>1. ASSUME Decorate(f) \/ DropFrame(f)
      PROVE  UNCHANGED <<sent, delivered>> /\ InLine' = InLine
  BY <1>1 DEF Decorate, DropFrame, compositor, history, InLine, Delivering
<1>2. ASSUME Decorate(f)
      PROVE  Mail!Open(f)
  BY <1>1, <1>2 DEF Decorate, Mail!Open
<1>3. ASSUME DropFrame(f)
      PROVE  Mail!Withdraw
  <2>1. frames' \subseteq frames
    BY <1>3 DEF DropFrame
  <2> QED
    BY <1>1, <1>3, <2>1, Withdraws
<1> QED
  BY <1>2, <1>3

-----------------------------------------------------------------------------
LEMMA SyncDoneStays ==
    ASSUME Obedient, PumpInv, SyncDone, Pending = InLine, Pending' = InLine'
    PROVE  UNCHANGED Mail!vars
<1>1. UNCHANGED <<sent, unread, routed, frames, delivered>>
  BY DEF SyncDone
<1>2. stack = <<>> /\ Len(stack) = 0 /\ Delivering = <<>>
  BY Callers, EmptyStack DEF SyncDone, PumpInv, Delivering
<1>3. CASE UNCHANGED <<events, stack>>
  <2>1. InLine' = InLine
    BY <1>1, <1>3 DEF InLine, Delivering
  <2> QED
    BY <1>1, <2>1, Stays
<1>4. CASE /\ events' = Drained
           /\ Push(Calling("sync_done", "deliver", events, Head(fired)))
           /\ fired # <<>>
  <2> DEFINE call == Calling("sync_done", "deliver", events, Head(fired))
  <2>1. events \in Seq(Nat) /\ Head(fired) \in Optional
    <3>1. fired \in Seq(Callbacks)
      BY DEF PumpInv, QueueTypes
    <3>2. Head(fired) \in Callbacks
      BY <1>4, <3>1, MembersTail
    <3> QED
      BY <3>2 DEF PumpInv, QueueTypes, Optional
  <2>2. call \in Call /\ call.batch = events
    BY <2>1, CallType
  <2> HIDE DEF call
  <2>3. Len(stack') = 1 /\ stack'[1] = call
    <3>1. Push(call)
      BY <1>4 DEF call
    <3>2. Len(stack') = Len(stack) + 1 /\ stack'[Len(stack) + 1] = call
      BY <2>2, <3>1, Pushed DEF PumpInv
    <3> QED
      BY <1>2, <3>2
  <2>4. Delivering' = events
    BY <2>2, <2>3 DEF Delivering
  <2>5. events' = <<>> /\ ToSet(<<>>) = {}
    BY <1>4, MembersType DEF Drained
  <2>6. InLine' = InLine
    BY <1>1, <1>2, <2>4, <2>5 DEF InLine
  <2> QED
    BY <1>1, <2>6, Stays
<1>5. \/ UNCHANGED <<events, stack>>
      \/ /\ events' = Drained
         /\ Push(Calling("sync_done", "deliver", events, Head(fired)))
         /\ fired # <<>>
  BY DEF SyncDone
<1> QED
  BY <1>3, <1>4, <1>5

(* The event at the head of the batch is older than all others on their way. *)
LEMMA DeliverTakes ==
    ASSUME PumpInv, Deliver, Pending = InLine, Pending' = InLine'
    PROVE  \E n \in Pending : Mail!Take(n)
<1> DEFINE others == ToSet(events) \cup ToSet(routed) \cup ToSet(unread)
           n == Head(Top.batch)
           at == IF alive /\ sent[n].frame \in frames THEN "callback" ELSE "deliver"
           call == Continued(Top, at, Rest(n, Top.batch), n)
<1>1. /\ stack # <<>> /\ Top.at = "deliver" /\ Top.batch # <<>> /\ SetTop(call)
      /\ delivered' = IF alive /\ sent[n].frame \in frames THEN Append(delivered, n) ELSE delivered
      /\ UNCHANGED <<sent, unread, routed, frames, events>>
  BY DEF Deliver, Continued, compositor
<1>2. Len(stack) = 1 /\ Top = stack[1] /\ Top \in Call
  BY <1>1, Innermost DEF PumpInv
<1>3. alive
  BY <1>1, <1>2 DEF PumpInv, Gone
<1>4. Delivering = Top.batch /\ Top.batch \in Seq(Nat) /\ Rising(Top.batch)
  BY <1>2 DEF Delivering, Call, PumpInv, Ordered
<1>5. /\ n \in Nat /\ Tail(Top.batch) \in Seq(Nat)
      /\ ToSet(Top.batch) = {n} \cup ToSet(Tail(Top.batch))
  BY <1>1, <1>4, MembersTail
<1>6. \A x \in ToSet(Tail(Top.batch)) : x \in Nat /\ n < x
  BY <1>1, <1>4, <1>5, RisingTail, MembersType
<1>7. InLine = {n} \cup ToSet(Tail(Top.batch)) \cup others
  BY <1>4, <1>5 DEF InLine
<1>8. \A x \in others : x \in Nat /\ n < x
  <2>1. Before(ToSet(Top.batch), others) /\ n \in ToSet(Top.batch)
    BY <1>4, <1>5 DEF PumpInv, Ordered
  <2>2. others \subseteq Nat
    BY MembersType DEF PumpInv, QueueTypes
  <2> QED
    BY <2>1, <2>2 DEF Before
<1>9. Delivering' = Rest(n, Top.batch)
  <2>1. stack' = [stack EXCEPT ![1] = call] /\ stack \in Seq(Call)
    BY <1>1, <1>2 DEF SetTop, PumpInv, StateTypes
  <2>2. call.batch = Rest(n, Top.batch)
    BY <1>2, ContinuedFields
  <2> HIDE DEF call
  <2>3. Len(stack') = 1 /\ stack'[1] = call
    BY <1>2, <2>1
  <2> QED
    BY <2>2, <2>3 DEF Delivering
<1>10. /\ ToSet(Delivering') \subseteq ToSet(Tail(Top.batch))
       /\ ToSet(Delivering') = ToSet(Tail(Top.batch)) \/ sent[n].kind = "Close"
  <2>1. CASE sent[n].kind = "Close"
    <3>1. Delivering' = <<>>
      BY <1>9, <2>1 DEF Rest
    <3>2. ToSet(Delivering') = {}
      BY <3>1, MembersType
    <3> QED
      BY <2>1, <3>2
  <2>2. CASE sent[n].kind # "Close"
    BY <1>9, <2>2 DEF Rest
  <2> QED
    BY <2>1, <2>2
<1>11. InLine' = ToSet(Delivering') \cup others
  BY <1>1 DEF InLine
<1>12. n \in InLine /\ n \notin ToSet(Tail(Top.batch)) \cup others
  BY <1>5, <1>6, <1>7, <1>8
<1>13. /\ InLine' \subseteq InLine \ {n}
       /\ InLine' # InLine \ {n} => sent[n].kind = "Close"
  BY <1>7, <1>10, <1>11, <1>12
<1>14. \A m \in InLine : ~(m < n)
  BY <1>5, <1>6, <1>7, <1>8
<1>15. Mail!Take(n)
  BY <1>1, <1>3, <1>13, <1>14 DEF Mail!Take, Mail!Deliverable
<1> QED
  BY <1>12, <1>15

LEMMA ReturnsStay ==
    ASSUME PumpInv, CallbackReturns \/ Finish, Pending = InLine, Pending' = InLine'
    PROVE  UNCHANGED Mail!vars
<1>1. UNCHANGED <<sent, unread, routed, frames, events, delivered>>
  BY DEF CallbackReturns, Finish, compositor, history
<1>2. Delivering' = Delivering
  <2>1. CASE CallbackReturns
    <3> DEFINE call == [Top EXCEPT !.at = "deliver"]
    <3>1. stack # <<>> /\ Top.at = "callback" /\ SetTop(call)
      BY <2>1 DEF CallbackReturns
    <3>2. Len(stack) = 1 /\ Top = stack[1] /\ Top \in Call
      BY <3>1, Innermost DEF PumpInv
    <3>3. call \in Call /\ call.batch = Top.batch
      BY <3>2 DEF Call
    <3> HIDE DEF call
    <3>4. Len(stack') = 1 /\ stack'[1] = call
      BY <3>1, <3>2, <3>3, Set DEF PumpInv
    <3> QED
      BY <3>2, <3>3, <3>4 DEF Delivering
  <2>2. CASE Finish
    <3>1. stack # <<>> /\ Top.at = "deliver" /\ Top.batch = <<>> /\ Pop
      BY <2>2 DEF Finish
    <3>2. Len(stack) = 1 /\ Top = stack[1]
      BY <3>1, Innermost DEF PumpInv
    <3>3. Len(stack') = 0
      BY <3>1, <3>2, Popped DEF PumpInv
    <3> QED
      BY <3>1, <3>2, <3>3 DEF Delivering
  <2> QED
    BY <2>1, <2>2
<1>3. InLine' = InLine
  BY <1>1, <1>2 DEF InLine
<1> QED
  BY <1>1, <1>3, Stays

LEMMA DispatchWithdraws ==
    ASSUME Obedient, PumpInv, Dispatch \/ DispatchFails, Pending = InLine, Pending' = InLine'
    PROVE  Mail!Withdraw
<1>1. UNCHANGED <<sent, unread, frames, delivered>>
  BY DEF Dispatch, DispatchFails, compositor, history
<1>2. stack = <<>> /\ Len(stack) = 0 /\ Delivering = <<>>
  BY Callers, EmptyStack DEF Dispatch, DispatchFails, PumpInv, Delivering
<1>3. ToSet(<<>>) = {}
  BY MembersType
<1>4. ASSUME NEW at \in {"deliver", "reading"}, NEW batch \in Seq(Nat),
             Push(Calling("dispatch", at, batch, NoCallback))
      PROVE  Delivering' = batch
  <2> DEFINE call == Calling("dispatch", at, batch, NoCallback)
  <2>1. call \in Call /\ call.batch = batch
    BY <1>4, CallType DEF Optional
  <2> HIDE DEF call
  <2>2. Len(stack') = Len(stack) + 1 /\ stack'[Len(stack) + 1] = call
    <3>1. Push(call)
      BY <1>4 DEF call
    <3> QED
      BY <2>1, <3>1, Pushed DEF PumpInv
  <2>3. Len(stack') = 1 /\ stack'[1] = call
    BY <1>2, <2>2
  <2> QED
    BY <2>1, <2>3 DEF Delivering
<1>5. CASE Dispatch /\ routed # <<>>
  <2> DEFINE batch == Dispatched(routed)
  <2>1. /\ events' = <<>> /\ routed' = <<>>
        /\ Push(Calling("dispatch", "deliver", batch, NoCallback))
    BY <1>5 DEF Dispatch, Drained
  <2>2. routed \in Seq(Nat) /\ Rising(routed) /\ Before(ToSet(events), ToSet(routed))
    BY DEF PumpInv, QueueTypes, Ordered, Before
  <2>3. batch \in Seq(Nat) /\ ToSet(batch) = ToSet(events) \cup (ToSet(routed) \cap Wanted)
    BY <2>2, DispatchedEvents
  <2> HIDE DEF batch
  <2>4. Delivering' = batch
    BY <1>4, <2>1, <2>3
  <2>5. InLine' \subseteq InLine /\ InLine \ InLine' \subseteq InLine \ Wanted
    BY <1>1, <1>2, <1>3, <2>1, <2>3, <2>4 DEF InLine
  <2> QED
    BY <1>1, <2>5, Unwanted, Withdraws
<1>6. CASE Dispatch /\ routed = <<>>
  <2>1. /\ events' = events /\ routed' = routed
        /\ Push(Calling("dispatch", "reading", <<>>, NoCallback))
    BY <1>6 DEF Dispatch
  <2>2. Delivering' = <<>>
    <3>1. <<>> \in Seq(Nat)
      OBVIOUS
    <3> QED
      BY <1>4, <2>1, <3>1
  <2>3. InLine' = InLine
    BY <1>1, <1>2, <1>6, <2>1, <2>2 DEF InLine
  <2> QED
    BY <1>1, <2>3, Withdraws
<1>7. CASE DispatchFails
  <2>1. /\ events' = <<>> /\ routed' = routed
        /\ Push(Calling("dispatch", "deliver", events, NoCallback))
    BY <1>7 DEF DispatchFails, Drained
  <2>2. Delivering' = events
    BY <1>4, <2>1 DEF PumpInv, QueueTypes
  <2>3. InLine' = InLine
    BY <1>1, <1>2, <1>3, <2>1, <2>2 DEF InLine
  <2> QED
    BY <1>1, <2>3, Withdraws
<1> QED
  BY <1>5, <1>6, <1>7

LEMMA DispatchReturnsWithdraws ==
    ASSUME PumpInv, DispatchReturns, Pending = InLine, Pending' = InLine'
    PROVE  Mail!Withdraw
<1>1. /\ stack # <<>> /\ Top.at = "reading" /\ events' = <<>>
      /\ UNCHANGED <<sent, routed, frames, delivered>>
  BY DEF DispatchReturns, DispatchReads, DispatchEnds, Drained, compositor, history
<1>2. /\ Len(stack) = 1 /\ Top = stack[1] /\ Top \in Call /\ Top.batch = <<>>
      /\ Delivering = <<>>
  BY <1>1, Innermost DEF PumpInv, Shaped, Delivering
<1>3. ToSet(<<>>) = {}
  BY MembersType
<1>4. ASSUME NEW batch \in Seq(Nat), SetTop([Top EXCEPT !.at = "deliver", !.batch = batch])
      PROVE  Delivering' = batch
  <2> DEFINE first == [Top EXCEPT !.at = "deliver"]
             call == [first EXCEPT !.batch = batch]
  <2>1. SetTop(call)
    BY <1>4
  <2>2. first \in Call
    BY <1>2 DEF Call
  <2> HIDE DEF first
  <2>3. call \in Call /\ call.batch = batch
    BY <1>4, <2>2 DEF Call
  <2> HIDE DEF call
  <2>4. Len(stack') = 1 /\ stack'[1] = call
    BY <1>2, <2>1, <2>3, Set DEF PumpInv
  <2> QED
    BY <2>3, <2>4 DEF Delivering
<1>5. CASE DispatchReads
  <2> DEFINE batch == Dispatched(unread)
  <2>1. unread' = <<>> /\ SetTop([Top EXCEPT !.at = "deliver", !.batch = batch])
    BY <1>5 DEF DispatchReads, Read
  <2>2. unread \in Seq(Nat) /\ Rising(unread) /\ Before(ToSet(events), ToSet(unread))
    BY DEF PumpInv, QueueTypes, Ordered, Before
  <2>3. batch \in Seq(Nat) /\ ToSet(batch) = ToSet(events) \cup (ToSet(unread) \cap Wanted)
    BY <2>2, DispatchedEvents
  <2> HIDE DEF batch
  <2>4. Delivering' = batch
    BY <1>4, <2>1, <2>3
  <2>5. InLine' \subseteq InLine /\ InLine \ InLine' \subseteq InLine \ Wanted
    BY <1>1, <1>2, <1>3, <2>1, <2>3, <2>4 DEF InLine
  <2> QED
    BY <1>1, <2>5, Unwanted, Withdraws
<1>6. CASE DispatchEnds
  <2>1. unread' = unread /\ SetTop([Top EXCEPT !.at = "deliver", !.batch = events])
    BY <1>6 DEF DispatchEnds, compositor
  <2>2. Delivering' = events
    BY <1>4, <2>1 DEF PumpInv, QueueTypes
  <2>3. InLine' = InLine
    BY <1>1, <1>2, <1>3, <2>1, <2>2 DEF InLine
  <2> QED
    BY <1>1, <2>3, Withdraws
<1> QED
  BY <1>5, <1>6 DEF DispatchReturns

(* Nothing is in a batch when a callback frees the context. *)
LEMMA EndWithdraws ==
    ASSUME Obedient, PumpInv, PumpInv', Pending = InLine, Pending' = InLine'
    PROVE  /\ Unref => UNCHANGED Mail!vars
           /\ Unreferenced => Mail!Withdraw
<1>1. ToSet(<<>>) = {}
  BY MembersType
<1>2. ASSUME Unref
      PROVE  UNCHANGED Mail!vars
  <2>1. UNCHANGED <<sent, unread, routed, frames, events, delivered>>
    BY <1>2 DEF Unref, compositor, history
  <2>2. Delivering' = Delivering
    <3> DEFINE call == Calling("unref", "joining", <<>>, NoCallback)
    <3>1. call \in Call /\ call.batch = <<>>
      <4>1. <<>> \in Seq(Nat) /\ NoCallback \in Optional
        BY DEF Optional
      <4> QED
        BY <4>1 DEF Calling, Call
    <3>2. Push(call) /\ MayCall("unref") /\ (stack # <<>> => sent[Top.event].kind = "Close")
      BY <1>2 DEF Unref
    <3> HIDE DEF call
    <3>3. /\ Len(stack') = Len(stack) + 1 /\ stack'[Len(stack) + 1] = call
          /\ \A i \in 1 .. Len(stack) : stack'[i] = stack[i]
      BY <3>1, <3>2, Pushed DEF PumpInv
    <3>4. CASE stack = <<>>
      <4>1. Len(stack) = 0
        BY <3>4, EmptyStack DEF PumpInv
      <4>2. Len(stack') = 1 /\ stack'[1] = call
        BY <3>3, <4>1
      <4> QED
        BY <3>1, <4>1, <4>2 DEF Delivering
    <3>5. CASE stack # <<>>
      <4>1. Len(stack) = 1
        BY <3>2, <3>5, Callers DEF PumpInv
      <4>2. Len(stack') = 2 /\ stack'[1] = stack[1]
        BY <3>3, <4>1
      <4> QED
        BY <4>1, <4>2 DEF Delivering
    <3> QED
      BY <3>4, <3>5
  <2>3. InLine' = InLine
    BY <2>1, <2>2 DEF InLine
  <2> QED
    BY <2>1, <2>3, Stays
<1>3. ASSUME Unreferenced
      PROVE  Mail!Withdraw
  <2>1. /\ ~alive' /\ frames' = {} /\ events' = <<>> /\ routed' = <<>>
        /\ UNCHANGED <<sent, unread, delivered>>
    BY <1>3 DEF Unreferenced
  <2>2. ToSet(Delivering') = {}
    <3>1. Len(stack') \in Nat /\ Len(stack') <= 1 /\ (Len(stack') = 1 => stack'[1].batch = <<>>)
      BY <2>1 DEF PumpInv, Gone, StateTypes
    <3>2. Delivering' = <<>>
      BY <3>1 DEF Delivering
    <3> QED
      BY <1>1, <3>2
  <2>3. InLine' \subseteq InLine
    BY <1>1, <2>1, <2>2 DEF InLine
  <2>4. frames' \subseteq frames /\ \A n \in InLine \ InLine' : sent[n].frame \notin frames'
    BY <2>1
  <2> QED
    BY <2>1, <2>3, <2>4, Withdraws
<1> QED
  BY <1>2, <1>3

-----------------------------------------------------------------------------
LEMMA MailInit == Init => Mail!Init
<1> SUFFICES ASSUME Init
             PROVE  Mail!Init
  OBVIOUS
<1>1. ToSet(unread) = {} /\ ToSet(routed) = {} /\ ToSet(events) = {}
  BY MembersType DEF Init
<1>2. UNION {ToSet(stack[i].batch) : i \in DOMAIN stack} = {}
  BY DEF Init
<1> QED
  BY <1>1, <1>2 DEF Init, Mail!Init, Pending

LEMMA MailStep ==
    ASSUME Obedient, PumpInv, PumpInv', [Next]_vars, Pending = InLine, Pending' = InLine'
    PROVE  [Mail!Next]_(Mail!vars)
<1>1. Mail!Withdraw => Mail!Next
  BY DEF Mail!Next
<1>2. ASSUME Answer \/ Break \/ WorkerCheck \/ UNCHANGED vars
      PROVE  UNCHANGED Mail!vars
  <2>1. UNCHANGED <<sent, unread, routed, frames, events, delivered, stack>>
    BY <1>2 DEF Answer, Break, WorkerCheck, vars, compositor, history
  <2>2. InLine' = InLine
    BY <2>1 DEF InLine, Delivering
  <2> QED
    BY <2>1, <2>2, Stays
<1>3. ASSUME Compositor
      PROVE  [Mail!Next]_(Mail!vars)
  <2>1. ASSUME NEW f \in Frames, NEW kind \in Kinds, Send(f, kind)
        PROVE  Mail!Next
    BY <2>1, SendPosts DEF Mail!Next
  <2> QED
    BY <1>2, <1>3, <2>1 DEF Compositor
<1>4. ASSUME ReadSocket \/ WorkerTick
      PROVE  Mail!Next
  BY <1>1, <1>4, ReadSocketWithdraws, WorkerTickWithdraws
<1>5. ASSUME SyncDone
      PROVE  UNCHANGED Mail!vars
  BY <1>5, SyncDoneStays
<1>6. ASSUME Unwind
      PROVE  [Mail!Next]_(Mail!vars)
  <2>1. ASSUME Deliver
        PROVE  Mail!Next
    BY <2>1, DeliverTakes DEF Mail!Next
  <2>2. ASSUME CallbackReturns \/ Finish
        PROVE  UNCHANGED Mail!vars
    BY <2>2, ReturnsStay
  <2>3. ASSUME DispatchReturns \/ Unreferenced
        PROVE  Mail!Next
    BY <1>1, <2>3, DispatchReturnsWithdraws, EndWithdraws
  <2> QED
    BY <1>6, <2>1, <2>2, <2>3 DEF Unwind
<1>7. ASSUME AppCall
      PROVE  [Mail!Next]_(Mail!vars)
  <2>1. ASSUME NEW f \in Frames, Decorate(f) \/ DropFrame(f)
        PROVE  Mail!Next
    BY <1>1, <2>1, FramesChange DEF Mail!Next
  <2>2. ASSUME Dispatch \/ DispatchFails
        PROVE  Mail!Next
    BY <1>1, <2>2, DispatchWithdraws
  <2>3. ASSUME Unref
        PROVE  UNCHANGED Mail!vars
    BY <2>3, EndWithdraws
  <2> QED
    BY <1>7, <2>1, <2>2, <2>3 DEF AppCall
<1> QED
  BY <1>2, <1>3, <1>4, <1>5, <1>6, <1>7 DEF Next, Worker

(***************************************************************************)
(* Whatever thread or call hands them on, events are delivered oldest      *)
(* first and at most once, and none goes missing but with its frame or     *)
(* behind a Close, if callbacks do not dispatch (dispatch_pending, drain,  *)
(* sync_done, libdecor_dispatch, deliver_events).                          *)
(***************************************************************************)
THEOREM PumpRefines == ASSUME Obedient PROVE Spec => Mailbox
<1>1. Spec => []PumpInv
  BY PumpInvariant
<1>2. PumpInv' => (Pending = InLine)'
  BY PendingIs, PTL
<1>3. PumpInv /\ PumpInv' /\ [Next]_vars => [Mail!Next]_(Mail!vars)
  BY <1>2, PendingIs, MailStep
<1> QED
  BY <1>1, <1>3, MailInit, PTL DEF Spec, Mailbox, Mail!Spec
=============================================================================
