-------------------------------- MODULE Pump --------------------------------
(***************************************************************************)
(* The threads of the C library (c-api/src): how Configure and Close reach *)
(* the application's callbacks.                                            *)
(*                                                                         *)
(* libdecor's proxies live on a private queue that the application never   *)
(* dispatches.  A worker thread dispatches it under the context's lock;    *)
(* a sync callback on the default queue, which the application does        *)
(* dispatch, drains the events, re-arms itself and delivers.               *)
(* libdecor_dispatch drains too.  The application's callbacks may call     *)
(* back, and a close callback may free the context under the handler that  *)
(* called it.                                                              *)
(*                                                                         *)
(* The application is one thread, `stack' its calls, the innermost last.   *)
(* The worker holds the lock only inside a tick, which is one action; the  *)
(* application holds it while it blocks in libdecor_dispatch.  Timers and  *)
(* the wake-up only set the pace and are left out.  `faults' collects the  *)
(* uses of memory that was freed.                                          *)
(***************************************************************************)
EXTENDS Queues

CONSTANTS
    Frames,        \* frames that may be decorated
    Kinds,         \* events the frames get: of {"Configure", "Close"}
    Reentry,       \* calls made from callbacks: of {"dispatch", "default", "drop", "unref"}
    KeepsDisplay,  \* the default queue is dispatched after the context was freed
    CanBreak,      \* the connection may break
    CanFail,       \* a flush may find the socket full, and a poll fail, on a live connection
    MaxSent,       \* bound: events sent
    MaxDepth,      \* bound: calls on the stack
    MaxCallbacks   \* bound: wl_callbacks allocated at a time

ASSUME PumpAssumption ==
    /\ Kinds \subseteq {"Configure", "Close"}
    /\ Reentry \subseteq {"dispatch", "default", "drop", "unref"}
    /\ {KeepsDisplay, CanBreak, CanFail} \subseteq BOOLEAN
    /\ MaxSent \in Nat /\ MaxDepth \in Nat /\ MaxCallbacks \in Nat \ {0}

VARIABLES
    sent,       \* the compositor: events sent; an event is its index
    asked,      \* the compositor: syncs not answered
    unread,     \* events it wrote and nobody read
    answers,    \* done callbacks it wrote and nobody read
    broken,     \* the connection is broken
    routed,     \* libwayland: events on the private queue
    fired,      \* libwayland: done callbacks on the default queue
    callbacks,  \* wl_callbacks allocated
    alive,      \* the ContextBox is allocated
    frames,     \* ContextBox::frames, and the frames of its Context
    events,     \* Inner::events
    locked,     \* the application holds the context's lock across steps
    stop,       \* ContextHandle::stop
    worker,     \* where the worker is: "check", "tick" or "exited"
    garbage,    \* ContextHandle::garbage
    pump,       \* PumpState
    stack,      \* calls of the application's thread
    delivered,  \* events whose callback was invoked, in order
    dropped,    \* events discarded behind a Close
    faults      \* uses of freed memory

compositor == <<sent, asked, unread, answers, broken>>
history == <<delivered, dropped, faults>>
vars == <<compositor, routed, fired, callbacks, alive, frames, events, locked, stop, worker,
          garbage, pump, stack, history>>

NoCallback == 0
Callbacks == 1 .. MaxCallbacks

Top == stack[Len(stack)]
Push(call) == stack' = Append(stack, call)
Pop == stack' = Front(stack)
SetTop(call) == stack' = [stack EXCEPT ![Len(stack)] = call]

Calling(fn, at, batch, cb) == [fn |-> fn, at |-> at, batch |-> batch, cb |-> cb, event |-> 0]

(* The application is not inside the library, or in a callback that may call. *)
MayCall(call) ==
    /\ Len(stack) < MaxDepth
    /\ stack # <<>> => Top.at = "callback" /\ call \in Reentry

(* wl_callbacks whose handler is running. *)
Running == {stack[i].cb : i \in DOMAIN stack} \ {NoCallback}

Fault(condition, name) == IF condition THEN {name} ELSE {}
DestroyFaults(cbs) ==
    Fault(cbs \cap Running # {}, "callback destroyed in its handler")
    \cup Fault(~(cbs \subseteq callbacks), "callback destroyed twice")

-----------------------------------------------------------------------------
(***************************************************************************)
(* The compositor, libwayland, and whoever reads the socket.               *)
(***************************************************************************)
Send(f, kind) ==
    /\ ~broken /\ alive /\ f \in frames
    /\ Len(sent) < MaxSent
    /\ sent' = Append(sent, [frame |-> f, kind |-> kind])
    /\ unread' = Append(unread, Len(sent) + 1)
    /\ UNCHANGED <<asked, answers, broken, routed, fired, callbacks, alive, frames, events, locked, stop,
                   worker, garbage, pump, stack, history>>

Answer ==
    /\ ~broken /\ asked # <<>>
    /\ asked' = Tail(asked)
    /\ answers' = Append(answers, Head(asked))
    /\ UNCHANGED <<sent, unread, broken, routed, fired, callbacks, alive, frames, events, locked, stop,
                   worker, garbage, pump, stack, history>>

(***************************************************************************)
(* Whoever reads takes all of the socket and puts it on the two queues; so *)
(* what was written for one is in no order with what was for the other.    *)
(* The queue of a freed context is gone.                                   *)
(***************************************************************************)
Readable == unread # <<>> \/ answers # <<>>

Read ==
    /\ unread' = <<>> /\ answers' = <<>>
    /\ fired' = fired \o answers

(* The application or Mesa reads, outside of libdecor. *)
ReadSocket ==
    /\ ~broken /\ Readable /\ ~locked
    /\ Read
    /\ routed' = IF alive THEN routed \o unread ELSE <<>>
    /\ UNCHANGED <<sent, asked, broken, callbacks, alive, frames, events, locked, stop, worker,
                   garbage, pump, stack, history>>

Break ==
    /\ CanBreak /\ ~broken
    /\ broken' = TRUE
    /\ UNCHANGED <<sent, asked, unread, answers, routed, fired, callbacks, alive, frames, events, locked,
                   stop, worker, garbage, pump, stack, history>>

-----------------------------------------------------------------------------
(***************************************************************************)
(* The worker: run and collect_garbage.  An error of dispatch_pending,     *)
(* which flushes first, or of the wait behind a tick ends it for good,     *)
(* whether or not the connection would have recovered.                     *)
(***************************************************************************)
(* What drain leaves of Inner::events. *)
Drained_copied == events
Drained == <<>>

(* Events of a frame that is gone are dispatched to nothing. *)
Wanted == {n \in DOMAIN sent : sent[n].frame \in frames}
Dispatched_in_place(queue) == Filter(queue, Wanted)
Dispatched(queue) == events \o Filter(queue, Wanted)

Fails == broken \/ CanFail

StopSeen_never == FALSE
StopSeen == stop

WorkerCheck ==
    /\ worker = "check"
    /\ worker' = IF StopSeen THEN "exited" ELSE "tick"
    /\ UNCHANGED <<compositor, routed, fired, callbacks, alive, frames, events, locked, stop,
                   garbage, pump, stack, history>>

WorkerTick ==
    /\ worker = "tick" /\ ~locked
    /\ \/ /\ Fails
          /\ worker' = "exited"
          /\ UNCHANGED <<routed, events, garbage, callbacks, faults>>
       \/ /\ ~broken
          /\ worker' \in {"check"} \cup (IF CanFail THEN {"exited"} ELSE {})
          /\ events' = Dispatched(routed) /\ routed' = <<>>
          /\ garbage' = {} /\ callbacks' = callbacks \ garbage
          /\ faults' = faults \cup DestroyFaults(garbage)
    /\ UNCHANGED <<compositor, fired, alive, frames, locked, stop, pump, stack,
                   delivered, dropped>>

-----------------------------------------------------------------------------
(***************************************************************************)
(* The pump: create, arm, sync_done, detach.                               *)
(***************************************************************************)
(* What is handed to the worker for destruction; a null is not queued. *)
Spent_or_null == {pump.pending_destroy}
Spent_forgotten == {}
Spent == {pump.pending_destroy} \ {NoCallback}

(* A worker that is gone destroys nothing: what it was handed leaks, one *)
(* callback a round, and is not followed further.                        *)
Leaked == IF worker = "exited" THEN (garbage \cup Spent) \ Running ELSE {}
Followed == callbacks \ Leaked

NewCallback == CHOOSE cb \in Callbacks \ Followed : \A c \in Callbacks \ Followed : cb <= c

(* The pump of the next round: the spent callback is handed over a round later. *)
Rearmed_never(cb) == [pump EXCEPT !.cb = NoCallback, !.pending_destroy = cb, !.in_dispatch = TRUE]
Rearmed(cb) == [pump EXCEPT !.cb = NewCallback, !.pending_destroy = cb, !.in_dispatch = TRUE]

SyncDone ==
    /\ fired # <<>> /\ MayCall("default") /\ (alive \/ KeepsDisplay) /\ ~locked
    /\ fired' = Tail(fired)
    /\ LET cb == Head(fired) IN
       \/ /\ pump.freed
          /\ faults' = faults \cup {"pump used after free"}
          /\ UNCHANGED <<callbacks, events, garbage, pump, stack, asked>>
       \/ /\ ~pump.freed /\ pump.detached
          /\ pump' = [pump EXCEPT !.freed = TRUE]
          /\ UNCHANGED <<callbacks, events, garbage, stack, asked, faults>>
       \/ /\ ~pump.freed /\ ~pump.detached
          /\ Followed # Callbacks
          /\ garbage' = (garbage \cup Spent) \ Leaked
          /\ pump' = Rearmed(cb)
          /\ callbacks' = Followed \cup ({pump'.cb} \ {NoCallback})
          /\ asked' = IF pump'.cb = NoCallback THEN asked ELSE Append(asked, pump'.cb)
          /\ events' = Drained
          /\ Push(Calling("sync_done", "deliver", events, cb))
          /\ UNCHANGED faults
    /\ UNCHANGED <<sent, unread, answers, broken, routed, alive, frames, locked, stop, worker,
                   delivered, dropped>>

(***************************************************************************)
(* deliver_events, for sync_done and libdecor_dispatch: one event, or the  *)
(* callback's return.  What follows a Close is discarded.                  *)
(***************************************************************************)
Rest_after_close(n, batch) == Tail(batch)
Rest(n, batch) == IF sent[n].kind = "Close" THEN <<>> ELSE Tail(batch)

Deliver ==
    /\ stack # <<>> /\ Top.at = "deliver" /\ Top.batch # <<>>
    /\ LET n == Head(Top.batch)
           rest == Rest(n, Top.batch)
           known == alive /\ sent[n].frame \in frames
       IN  /\ SetTop([Top EXCEPT !.at = IF known THEN "callback" ELSE "deliver",
                                 !.batch = rest, !.event = n])
           /\ delivered' = IF known THEN Append(delivered, n) ELSE delivered
           /\ dropped' = dropped \cup (ToSet(Tail(Top.batch)) \ ToSet(rest))
           /\ faults' = faults \cup Fault(~alive, "context used after free")
    /\ UNCHANGED <<compositor, routed, fired, callbacks, alive, frames, events, locked, stop,
                   worker, garbage, pump>>

CallbackReturns ==
    /\ stack # <<>> /\ Top.at = "callback"
    /\ SetTop([Top EXCEPT !.at = "deliver"])
    /\ UNCHANGED <<compositor, routed, fired, callbacks, alive, frames, events, locked, stop,
                   worker, garbage, pump, history>>

(* The handler unwinds; the last user of a detached pump frees it. *)
Finish ==
    /\ stack # <<>> /\ Top.at = "deliver" /\ Top.batch = <<>>
    /\ Pop
    /\ IF Top.fn = "sync_done"
       THEN /\ faults' = faults \cup Fault(pump.freed, "pump used after free")
            /\ pump' = [pump EXCEPT !.in_dispatch = FALSE, !.freed = @ \/ pump.detached]
       ELSE UNCHANGED <<pump, faults>>
    /\ UNCHANGED <<compositor, routed, fired, callbacks, alive, frames, events, locked, stop,
                   worker, garbage, delivered, dropped>>

-----------------------------------------------------------------------------
(***************************************************************************)
(* libdecor_dispatch: dispatch_read keeps the lock while it blocks.  An    *)
(* error is dropped, and what was dispatched before is delivered.          *)
(***************************************************************************)
DispatchFails ==
    /\ alive /\ MayCall("dispatch") /\ ~locked /\ Fails
    /\ events' = Drained
    /\ Push(Calling("dispatch", "deliver", events, NoCallback))
    /\ UNCHANGED <<compositor, routed, fired, callbacks, alive, frames, locked, stop, worker,
                   garbage, pump, history>>

Dispatch ==
    /\ alive /\ MayCall("dispatch") /\ ~locked /\ ~broken
    /\ routed' = <<>>
    /\ IF routed # <<>>
       THEN /\ events' = Drained
            /\ Push(Calling("dispatch", "deliver", Dispatched(routed), NoCallback))
            /\ UNCHANGED locked
       ELSE /\ locked' = TRUE
            /\ Push(Calling("dispatch", "reading", <<>>, NoCallback))
            /\ UNCHANGED events
    /\ UNCHANGED <<compositor, fired, callbacks, alive, frames, stop, worker, garbage, pump,
                   history>>

(* Something to read; or the timeout, or an error. *)
DispatchReads ==
    /\ stack # <<>> /\ Top.at = "reading"
    /\ ~broken /\ Readable
    /\ Read
    /\ locked' = FALSE
    /\ events' = Drained
    /\ SetTop([Top EXCEPT !.at = "deliver", !.batch = Dispatched(unread)])
    /\ UNCHANGED <<sent, asked, broken, routed, callbacks, alive, frames, stop, worker, garbage,
                   pump, history>>

DispatchEnds ==
    /\ stack # <<>> /\ Top.at = "reading"
    /\ Fails \/ ~Readable
    /\ locked' = FALSE
    /\ events' = Drained
    /\ SetTop([Top EXCEPT !.at = "deliver", !.batch = events])
    /\ UNCHANGED <<compositor, routed, fired, callbacks, alive, frames, stop, worker, garbage,
                   pump, history>>

DispatchReturns == DispatchReads \/ DispatchEnds

(***************************************************************************)
(* libdecor_decorate; libdecor_frame_close and libdecor_frame_unref.       *)
(***************************************************************************)
Decorate(f) ==
    /\ alive /\ stack = <<>> /\ ~broken
    /\ f \notin frames /\ \A i \in DOMAIN sent : sent[i].frame # f
    /\ frames' = frames \cup {f}
    /\ UNCHANGED <<compositor, routed, fired, callbacks, alive, events, locked, stop, worker,
                   garbage, pump, stack, history>>

DropFrame(f) ==
    /\ alive /\ MayCall("drop") /\ f \in frames
    /\ frames' = frames \ {f}
    /\ UNCHANGED <<compositor, routed, fired, callbacks, alive, events, locked, stop, worker,
                   garbage, pump, stack, history>>

(***************************************************************************)
(* The last libdecor_unref: stop the worker and join it, then detach the   *)
(* pump and free the context.  A callback may call it for a Close.         *)
(***************************************************************************)
Unref ==
    /\ alive /\ MayCall("unref")
    /\ stack # <<>> => sent[Top.event].kind = "Close"
    /\ stop' = TRUE
    /\ Push(Calling("unref", "joining", <<>>, NoCallback))
    /\ UNCHANGED <<compositor, routed, fired, callbacks, alive, frames, events, locked, worker,
                   garbage, pump, history>>

Joined_without_waiting == TRUE
Joined == worker = "exited"

(* The callbacks detach destroys: none while sync_done still runs. *)
Released == IF pump.in_dispatch THEN {} ELSE {pump.cb, pump.pending_destroy} \ {NoCallback}

Unreferenced ==
    /\ stack # <<>> /\ Top.at = "joining" /\ Joined
    /\ Pop
    /\ alive' = FALSE
    /\ pump' = [pump EXCEPT !.detached = TRUE, !.freed = ~pump.in_dispatch]
    /\ faults' = faults \cup DestroyFaults(Released)
    /\ callbacks' = callbacks \ Released
    /\ fired' = Filter(fired, Callbacks \ Released)
    /\ asked' = Filter(asked, Callbacks \ Released)
    /\ answers' = Filter(answers, Callbacks \ Released)
    /\ frames' = {} /\ events' = <<>> /\ routed' = <<>>
    /\ UNCHANGED <<sent, unread, broken, locked, stop, worker, garbage, delivered, dropped>>

-----------------------------------------------------------------------------
(* libdecor_new: the worker runs, and the first sync is on its way. *)
Init ==
    /\ sent = <<>> /\ asked = <<1>> /\ unread = <<>> /\ answers = <<>> /\ broken = FALSE
    /\ routed = <<>> /\ fired = <<>> /\ callbacks = {1}
    /\ alive = TRUE /\ frames = {} /\ events = <<>> /\ locked = FALSE
    /\ stop = FALSE /\ worker = "check" /\ garbage = {}
    /\ pump = [freed |-> FALSE, detached |-> FALSE, cb |-> 1,
               pending_destroy |-> NoCallback, in_dispatch |-> FALSE]
    /\ stack = <<>>
    /\ delivered = <<>> /\ dropped = {} /\ faults = {}

Compositor == Answer \/ \E f \in Frames, kind \in Kinds : Send(f, kind)
Worker == WorkerCheck \/ WorkerTick
Unwind == Deliver \/ CallbackReturns \/ Finish \/ DispatchReturns \/ Unreferenced
AppCall == Dispatch \/ DispatchFails \/ Unref \/ \E f \in Frames : Decorate(f) \/ DropFrame(f)

Next == Compositor \/ ReadSocket \/ Break \/ Worker \/ SyncDone \/ Unwind \/ AppCall

(***************************************************************************)
(* The compositor answers, the worker is scheduled, and the application    *)
(* runs its event loop: it reads, dispatches the default queue, and its    *)
(* callbacks return.  It need not call libdecor_dispatch, ever.            *)
(***************************************************************************)
Fairness ==
    /\ WF_vars(Answer) /\ SF_vars(ReadSocket)
    /\ WF_vars(WorkerCheck) /\ SF_vars(WorkerTick)
    /\ SF_vars(SyncDone)
    /\ WF_vars(Deliver) /\ WF_vars(CallbackReturns) /\ WF_vars(Finish)
    /\ WF_vars(DispatchReturns) /\ WF_vars(Unreferenced)

Spec == Init /\ [][Next]_vars /\ Fairness

(* An application that never calls libdecor_dispatch. *)
LoopingSpec == Init /\ [][Next /\ ~Dispatch /\ ~DispatchFails]_vars /\ Fairness

-----------------------------------------------------------------------------
(***************************************************************************)
(* Correctness.                                                            *)
(***************************************************************************)
TypeOK ==
    /\ sent \in Seq([frame : Frames, kind : Kinds])
    /\ {asked, answers, fired} \subseteq Seq(Callbacks)
    /\ {unread, routed, events, delivered} \subseteq Seq(Nat)
    /\ callbacks \subseteq Callbacks /\ garbage \subseteq callbacks
    /\ frames \subseteq Frames
    /\ worker \in {"check", "tick", "exited"}
    /\ {broken, alive, locked, stop} \subseteq BOOLEAN

(***************************************************************************)
(* No step uses memory that was freed, destroys a wl_callback twice or     *)
(* destroys it inside its own handler (sync_done and detach, with a close  *)
(* callback that frees the context).                                       *)
(***************************************************************************)
NoFault == faults = {}

(***************************************************************************)
(* The context is freed only when nobody can reach it: the worker has      *)
(* exited, and the pump goes with it, at the latest when the handler that  *)
(* called the application unwinds (shutdown, detach, sync_done).           *)
(***************************************************************************)
TornDown ==
    ~alive => /\ worker = "exited"
              /\ pump.detached
              /\ stack = <<>> => pump.freed

(***************************************************************************)
(* The pump never runs dry: while the context lives, one callback is armed *)
(* and on its way back, so delivery does not depend on libdecor_dispatch.  *)
(***************************************************************************)
OnItsWay(cb) == cb \in ToSet(asked) \cup ToSet(answers) \cup ToSet(fired)

AlwaysArmed == alive => pump.cb \in callbacks \ garbage /\ OnItsWay(pump.cb)

(***************************************************************************)
(* While the context lives, the armed wl_callback, the one deferred by a   *)
(* round and those that wait for the worker are distinct and allocated;    *)
(* and at no time is another one allocated, so that the context leaves     *)
(* behind these three kinds at most, next to what a worker that was gone   *)
(* leaked (sync_done, queue_destroy, collect_garbage, detach).             *)
(***************************************************************************)
CallbacksAccounted ==
    LET kept == {pump.cb, pump.pending_destroy} \ {NoCallback}
    IN  /\ callbacks \subseteq kept \cup garbage
        /\ alive => /\ kept \cup garbage \subseteq callbacks
                    /\ kept \cap garbage = {} /\ pump.cb # pump.pending_destroy

(***************************************************************************)
(* Two queues, a thread and two calls hand the events on; together they    *)
(* are a mailbox: oldest first, at most once, and none goes missing that   *)
(* the documentation of deliver_events does not give up (dispatch_pending, *)
(* drain, sync_done, libdecor_dispatch, deliver_events).                   *)
(***************************************************************************)
Pending ==
    ToSet(unread) \cup ToSet(routed) \cup ToSet(events)
        \cup UNION {ToSet(stack[i].batch) : i \in DOMAIN stack}

Mail == INSTANCE Mailbox WITH open <- frames, posted <- sent, pending <- Pending

Mailbox == Mail!Spec

(***************************************************************************)
(* Every event is delivered: unless its frame or the context goes first,   *)
(* or the event is discarded behind a Close of the same round.             *)
(***************************************************************************)
Delivered(n) ==
    n \in ToSet(delivered) \cup dropped \/ sent[n].frame \notin frames \/ ~alive

(***************************************************************************)
(* Every event is delivered as long as the connection lives.  So           *)
(* libdecor_get_fd says, even to applications that never call              *)
(* libdecor_dispatch: they "are still served".  doc_worker_gone shows that *)
(* one failed flush of the worker ends that (LoopingSpec).                 *)
(***************************************************************************)
EventuallyDelivered ==
    \A n \in 1 .. MaxSent :
        n \in DOMAIN sent ~> (n \in DOMAIN sent /\ Delivered(n)) \/ broken

(***************************************************************************)
(* So it is for whoever is served: by the worker as long as that lives,    *)
(* and by its own calls of libdecor_dispatch, not all of them met by a     *)
(* full socket, once the worker has ended (run, sync_done,                 *)
(* libdecor_dispatch).                                                     *)
(***************************************************************************)
Served == <>[](worker = "exited") => []<><<Dispatch>>_vars

DeliveredIfServed == Served => EventuallyDelivered

(* libdecor_unref returns, whatever the worker was doing. *)
Joining == stack # <<>> /\ Top.at = "joining"
UnrefReturns == Joining ~> ~Joining

=============================================================================
