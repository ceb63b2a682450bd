------------------------------- MODULE Handles -------------------------------
(***************************************************************************)
(* The memory behind the C handles (c-api/src): the boxes of the context,  *)
(* of its frames, of the configuration lent to a callback, and the strings *)
(* that libdecor_frame_get_title lends.                                    *)
(*                                                                         *)
(* C frees nothing by itself, so what is allocated depends on the order of *)
(* the calls: a frame may be closed and still be referenced, may be        *)
(* dropped from inside its own callback, and goes with the context         *)
(* whatever its count says.  All of it happens on the application's        *)
(* thread.  Pump has the threads and the order of delivery; here an event  *)
(* for any frame may be delivered at any time, one callback at a time.     *)
(*                                                                         *)
(* The application is one that obeys the documentation: it uses a handle   *)
(* while it owns a reference and the context lives, and a close callback   *)
(* is the only one that frees the context.  `faults' collects the uses of  *)
(* memory that is not allocated.  (The box of a frame that was closed but  *)
(* not dropped outlives the context, and then nothing can free it:         *)
(* libdecor_frame_unref goes through the context.)                         *)
(***************************************************************************)
EXTENDS Maps, Sequences

CONSTANTS
    Titles,      \* titles an application sets
    Addresses,   \* where strings may be allocated
    MaxFrames,   \* bound: frames decorated
    MaxRefs,     \* bound: references to a frame
    MaxLent      \* bound: titles got between two title changes

ASSUME HandlesAssumption ==
    MaxFrames \in Nat /\ MaxRefs \in Nat /\ MaxLent \in Nat

VARIABLES
    context,       \* the ContextBox is allocated
    next_id,       \* Inner::next_id
    titles,        \* Inner::frames: live frame id -> its title, an Option
    boxes,         \* the FrameBoxes allocated: frame id -> FrameBox::refs
    registered,    \* ContextBox::frames: ids whose box the context points to
    title_cache,   \* ContextBox::title_cache: frame id -> address of a string
    strings,       \* the strings allocated: address -> text
    configuration, \* the ConfigurationBox of the running callback is allocated
    callback,      \* the callback that runs, an Option
    owned,         \* the application: frame id -> references it owns
    closed,        \* the application: frames it closed
    lent,          \* the application: frame id -> titles got since the last change
    faults         \* uses of memory that is not allocated

library == <<context, next_id, titles, boxes, registered, title_cache, strings, configuration>>
application == <<callback, owned, closed, lent>>
vars == <<library, application, faults>>

FrameIds == 0 .. MaxFrames - 1
live == DOMAIN titles

Fault(condition, what) == IF condition THEN {what} ELSE {}

(* FrameBox::as_mut reads a box; what it is read for mostly needs the context. *)
ReadsBox(ids) == Fault(~(ids \subseteq DOMAIN boxes), "frame used after free")
ReadsContext == Fault(~context, "context used after free")

(* What the application may name: it owns a reference. *)
MayUse(id) == owned[id] > 0 /\ context

-----------------------------------------------------------------------------
(***************************************************************************)
(* libdecor_decorate.  When it fails it returns NULL and leaves no trace.  *)
(***************************************************************************)
Decorate ==
    /\ context /\ next_id < MaxFrames
    /\ next_id' = next_id + 1
    /\ titles' = Put(titles, next_id, None)
    /\ boxes' = Put(boxes, next_id, 1)
    /\ registered' = registered \cup {next_id}
    /\ owned' = [owned EXCEPT ![next_id] = 1]
    /\ UNCHANGED <<context, title_cache, strings, configuration, callback, closed, lent, faults>>

FrameRef(id) ==
    /\ MayUse(id) /\ owned[id] < MaxRefs
    /\ owned' = [owned EXCEPT ![id] = @ + 1]
    /\ boxes' = IF id \in DOMAIN boxes THEN [boxes EXCEPT ![id] = @ + 1] ELSE boxes
    /\ faults' = faults \cup ReadsBox({id})
    /\ UNCHANGED <<context, next_id, titles, registered, title_cache, strings, configuration,
                   callback, closed, lent>>

(* The frame is destroyed, if it was not closed before, and its box freed. *)
Dropped_but_registered(id) == UNCHANGED registered /\ titles' = Without(titles, {id})
Dropped(id) == registered' = registered \ {id} /\ titles' = Without(titles, {id})

Shared_or_last(id) == id \in DOMAIN boxes /\ boxes[id] >= 1
Shared(id) == id \in DOMAIN boxes /\ boxes[id] > 1

FrameUnref(id) ==
    /\ MayUse(id)
    /\ owned' = [owned EXCEPT ![id] = @ - 1]
    /\ \/ /\ Shared(id)
          /\ boxes' = [boxes EXCEPT ![id] = @ - 1]
          /\ UNCHANGED <<titles, registered, faults>>
       \/ /\ ~Shared(id)
          /\ Dropped(id)
          /\ boxes' = Without(boxes, {id})
          /\ faults' = faults \cup ReadsBox({id}) \cup ReadsContext
    /\ UNCHANGED <<context, next_id, title_cache, strings, configuration, callback, closed, lent>>

(* libdecor_frame_close: the window goes, the handle stays. *)
Closed_but_registered(id) == UNCHANGED registered /\ titles' = Without(titles, {id})
Closed(id) == registered' = registered \ {id} /\ titles' = Without(titles, {id})

FrameClose(id) ==
    /\ MayUse(id)
    /\ Closed(id)
    /\ closed' = closed \cup {id}
    /\ faults' = faults \cup ReadsBox({id}) \cup ReadsContext
    /\ UNCHANGED <<context, next_id, boxes, title_cache, strings, configuration, callback, owned,
                   lent>>

-----------------------------------------------------------------------------
(***************************************************************************)
(* Titles.  A title that is got is copied to a string of its own, which    *)
(* takes the place of the one got before; it may be put where an earlier   *)
(* string was.                                                             *)
(***************************************************************************)
SetTitle(id, text) ==
    /\ MayUse(id)
    /\ titles' = IF id \in live THEN Put(titles, id, Some(text)) ELSE titles
    /\ lent' = IF id \in live THEN [lent EXCEPT ![id] = <<>>] ELSE lent
    /\ faults' = faults \cup ReadsBox({id}) \cup ReadsContext
    /\ UNCHANGED <<context, next_id, boxes, registered, title_cache, strings, configuration,
                   callback, owned, closed>>

Cached(id) == IF id \in DOMAIN title_cache THEN {title_cache[id]} ELSE {}

(* What an assignment to the cache frees. *)
Replaced_of_any_frame(id) == {title_cache[f] : f \in DOMAIN title_cache}
Replaced_none(id) == {}
Replaced(id) == Cached(id)

GetTitle(id) ==
    /\ MayUse(id)
    /\ \/ /\ id \in live /\ titles[id] # None
          /\ Len(lent[id]) < MaxLent
          /\ \E at \in Addresses \ DOMAIN strings :
                /\ strings' = Put(Without(strings, Replaced(id)), at, titles[id][1])
                /\ title_cache' = Put(title_cache, id, at)
                /\ lent' = [lent EXCEPT ![id] = Append(@, [at |-> at, text |-> titles[id][1]])]
       \/ /\ id \in live => titles[id] = None
          /\ UNCHANGED <<strings, title_cache, lent>>
    /\ faults' = faults \cup ReadsBox({id}) \cup ReadsContext
    /\ UNCHANGED <<context, next_id, titles, boxes, registered, configuration, callback, owned,
                   closed>>

(***************************************************************************)
(* The calls that with_frame and with_frame_ret forward to the frame.      *)
(* What they do to a live frame is in Libdecor; for a closed one they do   *)
(* nothing and answer with a fallback.                                     *)
(***************************************************************************)
WithFrame(id) ==
    /\ MayUse(id)
    /\ faults' = faults \cup ReadsBox({id}) \cup ReadsContext
    /\ UNCHANGED <<library, application>>

(* The parent is a handle of its own, which may have been closed. *)
FrameSetParent(id, parent) ==
    /\ MayUse(id) /\ MayUse(parent)
    /\ faults' = faults \cup ReadsBox({id, parent}) \cup ReadsContext
    /\ UNCHANGED <<library, application>>

(* The state is copied; the configuration is the callback's, or NULL. *)
FrameCommit(id, configured) ==
    /\ MayUse(id)
    /\ configured => callback # None /\ callback[1].kind = "Configure"
    /\ faults' = faults \cup ReadsBox({id}) \cup ReadsContext
                    \cup Fault(configured /\ ~configuration, "configuration used after free")
    /\ UNCHANGED <<library, application>>

-----------------------------------------------------------------------------
(***************************************************************************)
(* deliver_events: the callback of a frame that is still registered.       *)
(* After a Configure it goes on with the context, after a Close it         *)
(* returns.                                                                *)
(***************************************************************************)
Deliver(id, kind) ==
    /\ context /\ callback = None
    /\ id \in registered
    /\ callback' = Some([frame |-> id, kind |-> kind])
    /\ configuration' = (kind = "Configure")
    /\ faults' = faults \cup ReadsBox({id})
    /\ UNCHANGED <<context, next_id, titles, boxes, registered, title_cache, strings, owned,
                   closed, lent>>

CallbackReturns ==
    /\ callback # None
    /\ callback' = None
    /\ configuration' = FALSE
    /\ faults' = faults \cup (IF callback[1].kind = "Configure" THEN ReadsContext ELSE {})
    /\ UNCHANGED <<context, next_id, titles, boxes, registered, title_cache, strings, owned,
                   closed, lent>>

(***************************************************************************)
(* libdecor_unref, with the only reference there is: nothing takes a       *)
(* second one.  The frames go with the context, dropped or not.            *)
(***************************************************************************)
FreedWithContext_none == {}
FreedWithContext == registered

ContextUnref ==
    /\ context
    /\ callback # None => callback[1].kind = "Close"
    /\ context' = FALSE
    /\ boxes' = Without(boxes, FreedWithContext)
    /\ faults' = faults \cup ReadsBox(FreedWithContext)
    /\ titles' = <<>> /\ registered' = {} /\ title_cache' = <<>> /\ strings' = <<>>
    /\ lent' = [id \in FrameIds |-> <<>>]
    /\ UNCHANGED <<next_id, configuration, callback, owned, closed>>

-----------------------------------------------------------------------------
(* libdecor_new *)
Init ==
    /\ context = TRUE /\ next_id = 0
    /\ titles = <<>> /\ boxes = <<>> /\ registered = {}
    /\ title_cache = <<>> /\ strings = <<>>
    /\ configuration = FALSE /\ callback = None
    /\ owned = [id \in FrameIds |-> 0] /\ closed = {}
    /\ lent = [id \in FrameIds |-> <<>>]
    /\ faults = {}

Call(id) ==
    \/ FrameRef(id) \/ FrameUnref(id) \/ FrameClose(id)
    \/ \E text \in Titles : SetTitle(id, text)
    \/ GetTitle(id)
    \/ WithFrame(id)
    \/ \E parent \in FrameIds : FrameSetParent(id, parent)
    \/ \E configured \in BOOLEAN : FrameCommit(id, configured)

Next ==
    \/ Decorate
    \/ \E id \in FrameIds : Call(id)
    \/ \E id \in FrameIds, kind \in {"Configure", "Close"} : Deliver(id, kind)
    \/ CallbackReturns
    \/ ContextUnref

Spec == Init /\ [][Next]_vars

-----------------------------------------------------------------------------
(***************************************************************************)
(* Correctness.                                                            *)
(***************************************************************************)
TypeOK ==
    /\ {context, configuration} \subseteq BOOLEAN
    /\ next_id \in 0 .. MaxFrames
    /\ titles \in [live -> Option(Titles)] /\ live \subseteq FrameIds
    /\ boxes \in [DOMAIN boxes -> Nat \ {0}] /\ DOMAIN boxes \subseteq FrameIds
    /\ registered \subseteq FrameIds /\ closed \subseteq FrameIds
    /\ title_cache \in [DOMAIN title_cache -> Addresses] /\ DOMAIN title_cache \subseteq FrameIds
    /\ strings \in [DOMAIN strings -> Titles] /\ DOMAIN strings \subseteq Addresses
    /\ callback \in Option([frame : FrameIds, kind : {"Configure", "Close"}])
    /\ owned \in [FrameIds -> Nat]
    /\ lent \in [FrameIds -> Seq([at : Addresses, text : Titles])]

(***************************************************************************)
(* No call of an obedient application touches memory that was freed,       *)
(* whatever it drops, closes or frees from inside its callbacks            *)
(* (FrameBox::as_mut, deliver_events, libdecor_unref).                     *)
(***************************************************************************)
NoUseAfterFree == faults = {}

(***************************************************************************)
(* Boxes, references and windows agree.  While the context lives, a box is *)
(* allocated exactly while it is referenced, counts the references, and is *)
(* registered for callbacks exactly while its window exists, which is      *)
(* until it is closed.  Afterwards only closed frames still have one       *)
(* (libdecor_frame_unref, libdecor_frame_close, libdecor_unref).           *)
(***************************************************************************)
HandlesExact ==
    /\ context =>
        /\ DOMAIN boxes = {id \in FrameIds : owned[id] > 0}
        /\ \A id \in DOMAIN boxes : boxes[id] = owned[id]
        /\ registered = DOMAIN boxes \ closed
        /\ live = registered
    /\ ~context => DOMAIN boxes \subseteq closed

(***************************************************************************)
(* The title got last for a frame stays where it is and reads as it did,   *)
(* whatever happens to other titles, and to the frame; and no string is    *)
(* kept that is not the last one of its frame (libdecor_frame_get_title).  *)
(***************************************************************************)
LastTitleStands ==
    /\ \A id \in FrameIds : lent[id] # <<>> =>
          LET last == lent[id][Len(lent[id])] IN
          last.at \in DOMAIN strings /\ strings[last.at] = last.text
    /\ DOMAIN strings = {title_cache[id] : id \in DOMAIN title_cache}
    /\ IsInjective(title_cache)

-----------------------------------------------------------------------------
(***************************************************************************)
(* A promise of the documentation that the code does not keep; the run     *)
(* doc_title_pointer shows how it breaks.  libdecor_frame_get_title: the   *)
(* pointer is valid until the next title change.                           *)
(***************************************************************************)
TitleUntilChange ==
    \A id \in FrameIds : \A i \in DOMAIN lent[id] :
        lent[id][i].at \in DOMAIN strings /\ strings[lent[id][i].at] = lent[id][i].text
=============================================================================
