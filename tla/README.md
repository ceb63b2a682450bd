# libdecor-rs in TLA+

A verification development kept beside `libdecor-rs`, a Rust library that gives
Wayland windows their decorations, and its C library (`c-api/`). It models the
dispatcher and the frames (`src/`), the buffers behind a decoration, the session
between a compositor and an application, and the threads, callbacks and handles
of the C library; it model-checks them with TLC and proves their safety
properties and refinements with TLAPS, for every value of the constants.

Paths below are relative to the repository. `tlc -config X.cfg M` checks a run,
`tlapm M.tla` the proofs of a module: `LibdecorProofs`, `TitlebarProofs`,
`SessionProofs`, `SettledProofs`, `BuffersProofs`, `HandlesProofs`,
`QueueLemmas` and `PumpProofs`.

## 1. The system

| Component | State | Operations | Talks to |
|---|---|---|---|
| **Inner** (`src/inner.rs`), the Wayland dispatcher | frame slots, surface registry, pointer focus, seats, event queue, `force_csd` | one `Dispatch::event` per protocol object; `ensure_csd`, (un)register a surface | called by `Context::dispatch`; queues events for the application; makes Wayland requests |
| **Context** (`src/context.rs`) | owns Inner, the queue, the next frame id | connect, dispatch, `poll_event`, `create_frame`, `decorate`, `destroy_frame`, force CSD | application, Inner |
| **Frame** (`src/frame.rs`) | a borrowed slot | `commit`, `map`, capabilities, visibility, toplevel requests, hints | application, Inner, CSD |
| **CSD** (`src/csd.rs`) | six subsurfaces, hover, press, buttons, width, buffers | new, destroy, render, hit test | called by Inner's handlers and `Frame::commit`; SHM |
| **Input types** (`src/input.rs`) | none | parts, edges, focus | Inner |
| **Events, configurations** (`src/event.rs`, `configuration.rs`, `id.rs`) | records | content size, states | queue between Inner and the application |
| **State and flags** (`src/state.rs`) | bit sets | flag algebra, edge conversion | everywhere |
| **SHM, theme, font** (`src/shm.rs`, `theme.rs`, `font.rs`) | pools; colours; glyphs | allocate; parse settings; rasterise | CSD |
| **Pump** (`c-api/src/pump.rs`) | the armed callback, the spent one, "in dispatch", the context or null | `create`, `arm`, `sync_done`, `detach`, `deliver_events` | application's default queue, context lock, callbacks |
| **Worker** (`c-api/src/dispatch.rs`) | thread, stop flag, garbage list, lock | tick, collect garbage, shut down | the context, under its lock |
| **C contexts and frames** (`c-api/src/context.rs`, `frame.rs`) | reference counts, frame map, user data | new, ref, unref, dispatch, decorate, callbacks, forwarding calls | Pump, Worker, Context |
| **C states and configurations** (`c-api/src/state_config.rs`, `types.rs`) | boxed values | make, read, free | C application |
| **Example** (`examples/demo.rs`) | a loop | dispatch, poll, commit | Context |

What is hard, and what makes each part correct:

- *Inner and Context* are single threaded, but their order of steps is open:
  events reach a handler after the frame or surface they name was destroyed; a
  decoration may appear between a configure and the answer to it; pointers come
  and go with their seat. Correct: the surface registry is exactly the input
  surfaces of live frames, the focus agrees with what the compositor said,
  state of one configure batch does not leak into another.
- *CSD and input* keep feedback (hover, press) per titlebar, while pointers act
  one each, a resize moves the buttons under a still pointer and an allocation
  may fail. Correct: what a click does is what was painted, and feedback belongs
  to a pointer's visit and ends with the leave.
- *CSD and SHM* paint six synchronized subsurfaces one after the other; any
  allocation may fail, and the application may commit its surface halfway
  through a repaint that another thread makes. Correct: what is shown tiles the
  window, no buffer leaks or is painted after its end.
- *The session* must obey xdg-shell: destroy in order, acknowledge each
  configure once and in order, and answer all. Correct: no protocol error, no
  leaked object, settled windows have the size and decoration asked for.
- *The C library* has two threads and callbacks that may call back and free the
  context under the handler that called them. Correct: no freed memory is used,
  delivery is in order and keeps going, freeing returns.
- *C handles* are freed by C, in any order: a frame is closed and still
  referenced, dropped inside its own callback, or goes with the context.
  Correct: a box lives exactly as long as somebody may use it, and a string
  that was lent stays where it is.
- *Pure algorithms* (settings parser, state decoding, flags, icons and text)
  are sequential, hold no state and have unit tests.

Every hazard is in `PROJECT.json` at its line, with its properties.

## 2. Modules

    Maps           Rust's Option and HashMap
    Csd            EXTENDS Maps: geometry, buttons and one render; no state
    Libdecor       EXTENDS Csd: the dispatcher, frames and titlebars
    Session        EXTENDS Libdecor: with a compositor and an application
    Handshake      abstract: what xdg-shell asks of a client; Session implements it
    Buffers        EXTENDS Csd: a decoration part by part, its buffers, the screen
    Queues         queues of numbered events
    Pump           EXTENDS Queues: the threads of the C library
    Mailbox        abstract: what the C library promises of events; Pump implements it
    Handles        EXTENDS Maps: the memory behind the C handles
    LibdecorProofs theorems about Libdecor: types, registry and focus
    TitlebarProofs EXTENDS LibdecorProofs: the titlebar's picture, feedback, clicks
    SessionProofs  EXTENDS LibdecorProofs: protocol, objects, Handshake
    SettledProofs  EXTENDS SessionProofs: configurations, and what is settled
    HandlesProofs  theorems about Handles
    BuffersProofs  theorems about Buffers
    QueueLemmas    lemmas about queues of any length
    PumpProofs     EXTENDS QueueLemmas: theorems about Pump, and Mailbox
    MC*            values of constants for the runs

How they fit: Libdecor takes a render for one step, `Csd!Render`, which paints
or fails as a whole. Buffers has the same render part by part and shows, as the
property `RendersAsLibdecor`, that each of its steps changes what Libdecor sees
of the titlebar as `Csd!Render` does, or not at all (proved for content of every
size, section 4). Session adds the other
side of the wire to Libdecor. Pump has the threads and the order of delivery of
the C library and takes a frame for a name; Handles takes any order of delivery
and has the frames' memory.

### Csd

`hit_test`, `button_x`, `resize_edge`, `cursor_shape`, `compute_buttons`,
`decoration_overhead`, and the two conversions between a window and its content
(`ContentOf` is what `xdg_surface.configure` computes, `GeometryOf` what
`Frame::commit` sends). `Render` is a whole `Decoration::render` as the rest of
the library sees it; `TitlebarFits` says which titlebars `fill_rect` can paint.
Pointer positions are integers: the code compares an
`f64` with integer edges only, so one integer stands for its half-open pixel.

### Libdecor

| Variable | In the code |
|---|---|
| `next_id`, `frames`, `surface_targets`, `pointer_focus`, `seats`, `force_csd`, `events` | the fields of `Inner`; `frames` are the slots without `csd` |
| `csd` | the `Decoration` of the slots that have one; `drawn` is the picture last painted |
| `requests` | what the last step asked of the compositor, in order |
| `held` | the application: the configuration polled and not committed |
| `pointers`, `over` | the compositor: pointers created, where it last sent each |

One action per handler (`XdgSurfaceConfigure`, `ToplevelConfigure`,
`DecorationConfigure`, `SeatGainsPointer`, `PointerButton`, ...) and per call
(`CreateFrame`, `DestroyFrame`, `Commit`, ...). The environment is open: any
event for any frame id ever allocated, in any order. Its only limits are the
protocol's, on pointers: one enters when it is over nothing or over a surface
that died, and leaves what it entered; both may still arrive after the surface
is dead or the pointer released. A handler that does nothing for a dead frame
is modelled as that no-op. A call on a dead frame returns `UnknownFrame`
without effect and is no action.

A render of a window too narrow for its buttons panics (section 6). What comes
after a panic is not this model's: `Fits'` keeps such steps out of `Next`, and
Buffers has them.

Abstractions: pixels are one `Picture` of the state they are painted from; an
allocation fails for the titlebar or not (`painted`); of the hints (title, app
id, size limits) there is the request (`Hints`), not the value; subsurface
positions and damage are left out; state flags are the
ones the code reads. `StateSets` leaves out flags nothing depends on.

### Session

Adds `wire` (events in order), `sent` (configure batches, the serial is the
index), `acked`, `geometry`, `objects` and `protocol_ok`. `Receive` reads the
step's requests in order: `Exists` and `Acked` say what is so once the first n
are read, and `Legal` judges each by what is so before it: an object is made
once, destroyed once and before what it was made from, a configure is
acknowledged by its frame, once and in order. (A fold would say the same; a
count of requests is what the proofs can follow.) The application is the loop of `examples/demo.rs` with all other
calls in between; like the example it commits its surface after
`Frame::commit`, so geometry applies at once. A frame is configured after it
was mapped. The queue stops taking configures and closes at `MaxEvents`.

`Handshake` is the abstract specification: per frame a set of outstanding
serials; `Issue`, `Acknowledge` (settles the older ones), `Abandon`. Session
maps `outstanding[id]` to the serials sent to a live frame above its last
acknowledged one. `Order` is its safety part, without the fairness that every
configure is settled some time.

### Buffers

| Variable | In the code |
|---|---|
| `dec`, `content` | what the titlebar is painted from, `FrameSlot::content_size` |
| `subs` | the six `Subsurface`s: buffer, size, and where they were put last |
| `buffers` | the `wl_buffer`s that exist, each with its pool and its `ShmBuffer` |
| `rendering`, `outcome` | the render under way, by the application or the worker, and how the last one ended |
| `drawn`, `staged`, `screen`, `applied` | the compositor: the picture attached, what waits for the parent's commit, what is shown, and the content size it was rendered for |

`StartRender` is the call with what it paints already set (`Frame::commit`, or a
pointer handler); `PaintPart` one `render_subsurface` or
`render_invisible_border`; `PaintFails` one whose `ShmBuffer::new` returns an
error, which ends the render; `PaintPanics` the titlebar's `fill_rect` running
out of its row. `SurfaceCommit` is the application's commit of its own surface,
which applies what is staged: between any two steps of a render by the worker,
never inside a call of its own. An attached buffer that is destroyed before it
is shown is shown as nothing.

### Pump

`unread` and `answers` are what waits in the socket, events and sync callbacks;
one read takes both, so their order there cannot be told. `routed` and `fired`
are libwayland's two queues;
`stack` holds the application's calls: the handler of a sync callback, a
`libdecor_dispatch`, a `libdecor_unref` waiting for the worker. The worker
holds the lock inside one tick only, so a tick is one action; `locked` is the
lock held by an application blocked in `dispatch_read`. The worker's loop ends
on any error of `dispatch_pending`, which flushes first, and on a failing poll.
`CanFail` says whether such errors happen on a connection that lives; then a
tick may end the worker before or after it dispatched, and `libdecor_dispatch`
may give up with nothing but what was drained before (`DispatchFails`). What is
handed to a worker that is gone is never destroyed; such callbacks are no longer
followed (`Leaked`), or every round would add one. `sync_done` is
`SyncDone` (phase one, under the lock), `Deliver`/`CallbackReturns` per event,
`Finish` (the end of the handler). `Unref` stops the worker, `Unreferenced` is
what follows the join: detach and free. Uses of freed memory and destructions
of a running or dead `wl_callback` are collected in `faults`. A callback may
drop frames, may free the context from a Close, may dispatch: `Reentry` says
which of them a run allows.

`Mailbox` is the abstract specification: events are posted, taken in order,
each delivered at most once, and taken away undelivered only with their frame or
behind a Close. Pump maps `pending` to what is anywhere between the socket and
the callbacks (`Pending`).

`KeepsDisplay` says whether the default queue is dispatched after the context
was freed. The comments of `sync_done` take it that the display goes away
(`c-api/src/pump.rs:132`, `:171`), and so do the runs; the model keeps the null
check of `sync_done` that the comments are about.

### Handles

| Variable | In the code |
|---|---|
| `context`, `boxes`, `configuration` | the `ContextBox`, `FrameBox`es (with `refs`) and `ConfigurationBox` that are allocated |
| `registered`, `title_cache` | `ContextBox::frames`, `ContextBox::title_cache` |
| `next_id`, `titles` | `Inner`: the next id, the live frames and their titles |
| `strings` | the C strings allocated, by address |
| `callback` | the callback that runs |
| `owned`, `closed`, `lent` | the application: references it owns, frames it closed, titles it got |
| `faults` | uses of memory that is not allocated |

One action per call that allocates, frees or names memory (`Decorate`,
`FrameRef`, `FrameUnref`, `FrameClose`, `SetTitle`, `GetTitle`, `FrameCommit`,
`FrameSetParent`, `ContextUnref`); `WithFrame` is any of the calls that only
forward to the frame. `Deliver` and `CallbackReturns` are the two ends of a
callback, with any of the calls in between. The application obeys the header: it
uses a handle while it owns a reference and the context lives, and frees the
context outside of callbacks or inside a close callback (the one
`c-api/src/pump.rs:231` allows for). A string may be allocated at any free
address, also where one was freed, so a dangling pointer may read another text.

## 3. Runs

| Run | Question | Bounds | States |
|---|---|---|---|
| `registry` | registry and focus through creation, late decoration, destruction | 2 frames, 1 of them on an application surface, 2 pointers on one seat in turn | 196 k |
| `titlebar` | what is painted is current, a click does what was painted, no press or highlight outlives the visit of its pointer | 1 frame, 2 seats with a pointer each (symmetric), 2 widths, 2 positions | 138 k |
| `session` | no protocol error, no leak; settled size and decoration, batches kept apart, Handshake implemented | 2 frames, 1 of them on an application surface, 2 batches, both modes, 2 sizes, one too small for decorations | 298 k |
| `calls` | the same core under every call, without a decoration manager, with failing buffers | 1 frame, 1 batch, 2 events, 2 widths | 192 k |
| `pump_safety` | memory, arming, account of callbacks, Mailbox implemented | 2 frames, 2 events, depth 2, 4 callbacks, full socket | 1.4 M |
| `pump_liveness` | delivery by the worker while it lives, then by `libdecor_dispatch`; `libdecor_unref` returns | 1 frame, 2 events, 3 callbacks, broken connection, full socket | 102 k |
| `handles` | memory of the handles | 2 frames, 3 references each, 2 titles, 4 addresses (symmetric) | 17 k |
| `buffers` | leaks, layout on screen, one-step render | 3 sizes (fits; too narrow for three buttons; empty), 2 looks, 2 states, 2 failures | 750 k |
| `doc_*` | a documented promise that the code breaks (section 6) | as small as shows it | |

Why these bounds are enough for what they ask:

- *registry*: a second frame is what a stale entry could be confused with; one
  is made by libdecor and one on a surface the application takes back, which
  can be decorated again. Two pointer objects let a seat lose one and gain
  another. No click is needed for registry and focus, so the queue is empty
  (`MaxEvents = 0` keeps configures and clicks out).
- *titlebar*: at `x = 180` the rightmost button of a 200 wide titlebar lies
  where the second of a 224 wide one does, so a resize swaps what is under the
  pointer. The other position is no button.
  Hover and press of one titlebar are shared by two pointers that come and go
  with their seats; a third adds no new pair. Window states and capabilities
  are left to `calls` and to the proofs.
- *session*: two batches are the one in hand and the next: a mode switch
  may fall before, between and after the poll and the commit of the other. They
  go to one frame or to two, where a serial could be taken for the other's.
- *pump*: an event delivered and one in the same batch; depth 2 is a callback
  inside a handler and the call it makes. A callback number may be reused once
  destroyed, so a stale one shows. For safety a broken connection is one on which
  every call fails from now on, which a full socket allows already, so
  `pump_safety` leaves `Break` to `pump_liveness`.
- *handles*: a second frame is the parent, or the one whose title or box another
  call could take along; two references are one dropped and one kept, the third
  one more than that. Four addresses are two cached titles, a new one and one
  that was freed.
- *buffers*: two failures can hit two renders of one size, and the old and the
  new buffer of a part. Two serials are the buffer replaced and its successor:
  the code destroys the old one first, so that a third is never needed.

Deadlock is checked where the system never stops (`registry`, `titlebar`). In the
others the bounds on batches or events, or the freed context, end a behaviour.

### Fairness

- *Session* (`Loop`): weak fairness of `Deliver`, `Poll` and of committing what
  is held: the loop of `examples/demo.rs:73-99`, which dispatches, drains the
  queue and commits. Neither the compositor nor other calls are fair.
- *Pump*: the compositor answers a sync; the application reads the socket and
  dispatches its default queue; callbacks and unwinding go on; the worker is
  scheduled. `WorkerTick` is strongly fair: it waits for a mutex that the
  application takes again and again. `ReadSocket` is too: a `libdecor_dispatch`
  may hold the lock, or read first, in between. `SyncDone` is strongly fair: the
  handler runs when the application is in its event loop, which it returns to again and
  again. `DispatchReturns` is weakly fair: a timeout, data or an error. So an
  application that calls `libdecor_dispatch(-1)` and is never sent anything is
  out of what the liveness runs say. No errors are fair: the worker may end or
  go on for ever. `Spec` has no fairness of `libdecor_dispatch`, which the
  application need not call; `Served` makes it a condition of delivery, once the
  worker has ended, that the call is made again and again and not met by a full
  socket every time. `LoopingSpec` is the application that never makes it.

### What they show

- `RegistryExact`, `FocusTracksCompositor`: see the proofs.
- `DrawingCurrent`, `ClickMatchesPicture`: every handler that changes what the
  titlebar stands for repaints it, and a release fires the button that was
  painted pressed, under the pointer. `DrawingCurrent` also under failing
  allocations, for the width that clicks are judged by (`calls`). Both speak of
  the picture attached last. The titlebar is a synchronized subsurface
  (`src/csd.rs:334`), so the user sees that picture only after the next commit of
  the main surface, and nothing asks the application for one (section 6):
  in between, a click is judged by a picture newer than the one on screen.
- `FeedbackHasPointer`: leaving clears both hover and press, so none outlives
  the visit of its pointer, whatever the other pointer does. A visit ends with
  a leave; a pointer that is released over the titlebar gets none, and what it
  left stays (section 6).
- `SettledGeometry`, `SettledDecoration`: in a quiet state the titlebar is there
  and, unless the content is empty, painted for it; the window has the
  configured size, though a decoration that appears between configure and
  commit breaks it for a while (section 6); a window too small for
  its decoration comes out larger, never smaller.
- `ConfigurationsFaithful`: `PendingConfigure` is taken whole and once. Size and
  states are compared, the bounds are not.
- `NoProtocolError`, `ObjectsExact`: destruction order, acknowledgements, and
  an exact account of objects.
- `Handshake`: configures are answered in order, and each is answered or its
  frame is gone.
- `BuffersOwned`: an old buffer is destroyed before its successor is asked for,
  so neither a failure nor a panic leaves one behind.
- `WindowTiled`: after a complete render, the commit of the application shows
  titlebar, borders and content without gap or overlap, exactly the geometry
  that `Frame::commit` announced. A repaint in the worker does not disturb it,
  because it is laid out for the size committed last and reuses the buffers.
- `RendersAsLibdecor`: the width by which clicks are judged changes with the
  picture and only with it, wherever a render stops.
- `Mailbox`: pump, worker and `libdecor_dispatch` together deliver in order and
  lose nothing but what the abstract specification names.
- `CallbacksAccounted`: while the context lives, the armed `wl_callback`, the one
  a round deferred and the worker's garbage are allocated and distinct. There is
  never another one, besides what a worker that was gone leaked; after the
  context is freed, those of the three kinds that nobody destroyed are left.
- `NoUseAfterFree`, `HandlesExact`, `LastTitleStands`: see the proofs for the
  first two. The title got last stays readable until it is replaced, also when
  its frame is dropped; an earlier one does not (`doc_title_pointer`).
- `NoFault`, `TornDown`, `AlwaysArmed`: the deferred destruction of
  callbacks works as `pump.rs` argues, as long as callbacks do not dispatch
  themselves; the context is freed after the worker has exited, and the pump
  with it or when the last handler unwinds; a live context always has a sync
  on its way.
- `DeliveredIfServed`, `UnrefReturns`: as long as the connection lives, every
  event is delivered: an application that never calls `libdecor_dispatch` has it
  from the worker while that lives, one that does from its own calls too. Joining
  ends. Without the condition this is `EventuallyDelivered`, and false: a single
  failed flush of the worker ends delivery to an application that only runs its
  loop (`doc_worker_gone`).

Every property of a passing run comes with a mutant in `PROJECT.json`: a
plausible slip in one definition that makes that run fail.

## 4. Proofs

For every value of the constants, under assumptions that the constants'
declaration states and every run evaluates: `SurfaceAssumption` (the
application's surfaces are not libdecor's own: surfaces are distinct objects),
`ConstantAssumption`, and for Session, Handles, Buffers and Pump
`SessionAssumption`, `HandlesAssumption`, `BuffersAssumption` and
`PumpAssumption` (the constants are typed; a part may have one buffer at least;
there is a serial for every batch). Bounds on frames, batches or callbacks are
constants like others, so nothing rests on their size.

### Libdecor (LibdecorProofs, TitlebarProofs)

1. `TypeCorrect`: `Spec => []TypeOK`. `TypeOK` is not inductive: a release of
   the pointer capability must find a pointer to release, and a request about a
   seat needs one. `TypeInv == TypeOK /\ PointersExist` is. Options, hits,
   paints and content sizes have a lemma each; each action has one.
2. `RegistryCorrect`: `Spec => []RegistryExact` and
3. `FocusCorrect`: `Spec => []FocusTracksCompositor`. The two are proved
   together, from `RegistryInv`, the conjunction of `TypeInv` with
   - `Ownership`: a slot's surface is libdecor's own for that frame, or the
     application's, so that a surface says whose it is (`InputsDisjoint`);
   - `OneFrameEach`: no two live frames share a surface, so that destroying one
     takes nothing from the other;
   - `OverNameable`: a pointer is over a surface of the application, or of a
     frame already allocated, so that a decoration made now is under no pointer
     (`CsdFresh`) and the focus need not know it;
   - `RegistryExact` and `FocusTracksCompositor` themselves: the focus is
     exact because the registry it was copied from is.

   Most actions leave all of it unchanged (`RegistryStable`). The work is in
   `ensure_csd` and creation (new surfaces are fresh), `PointerEnter` and
   `PointerLeave` (focus follows), and `DestroyFrame` (all six surfaces go, and
   nothing else).

4. `PictureCorrect`: `Spec => []DrawingCurrent`, from `TypeInv`. One decoration
   at a time (`CurrentAt`), a render at a size leaves it current at that size
   whatever was changed before (`RenderCurrent`): it paints, unless there is
   nothing to paint or the allocation failed, and then the width stays that of
   the last paint. So it is enough that every handler that changes a hover, a
   press, the focus or the buttons renders (`Repaint`), and that only a commit
   changes a content size. The theorem is about what was painted last, not
   about what the compositor shows of it.
5. `FeedbackCorrect`: `Spec => []FeedbackHasPointer`, inductive with
   `RegistryInv`. `FocusTracksCompositor` says that an entering pointer has no
   focus to lose; `RegistryExact` that a destroyed frame takes only the focuses
   on its own surfaces (`DestroyFeedback`). The rest is that a leave clears
   both hover and press (`LeaveFeedback`) and that a press is held by the
   pointer that made it until the release (`ButtonFeedback`). The focus entry
   that a released pointer leaves behind counts: its visit was not ended.

6. `ClickCorrect`: `Spec => ClickMatchesPicture`, an action property, from
   `TitlebarsCurrent` and `FeedbackCorrect`. A release fires what was pressed;
   the picture is current, so that press was painted, unless nothing was ever
   painted at all. So `CurrentAt` also says that while no allocation fails a
   titlebar never painted has nothing pressed: a press is on a button of some width, and
   widths come from a paint.

### Session (SessionProofs, SettledProofs)

7. `ProtocolKept` and `ObjectsCorrect`: `SessionSpec => []` of
   `NoProtocolError` and `ObjectsExact`, from
   `SessionInv == RegistryInv /\ InOrder /\ ObjectsExact /\ NoProtocolError`.
   That an acknowledgement is legal follows from where the serials are
   (`InOrder`): of each frame, the last acknowledged comes before the one held,
   that before those queued as events, and those before the ones on the wire.
   That making and destroying is legal follows from `ObjectsExact`: the
   requests of a step are a concatenation of lists, and lemmas say what a list
   that makes (`Making`) or frees (`Freeing`) things, in order, leaves.
8. `HandshakeOrder`: `SessionSpec => H!Order`. Step by step: `SendConfigure` is
   `Issue`, `CommitConfigured` is `Acknowledge`, `DestroyFrame` is `Abandon`,
   and all else stutters. Needs `SentAllocated`: nothing was sent to an id not
   allocated yet, so a new frame has nothing outstanding.
9. `ConfigurationsCorrect`: `SessionSpec => []ConfigurationsFaithful`, from
   `FaithfulInv`. On the wire, the toplevel part of a batch comes right before
   its configure, and a configure without one is of a batch that had none
   (`BatchesWhole`). So a frame has pending what the configure dispatched next
   carries, and nothing if another event is next (`PendingDue`); and what was
   queued or held carries what its own batch said (`AllCarried`).
10. `GeometrySettled` and `DecorationSettled`: `SessionSpec => []` of
    `SettledGeometry` and `SettledDecoration`, from `SettledInv`. Neither is
    near inductive: while a configure is under way, size and decoration may be
    wrong. So each part of `SettledParts` says of one stage that it agrees with
    what was sent, *or that something is coming that will set it right*:
    - `NoneLost`: each batch to a live frame is on the wire, queued, held or
      acknowledged, or a later one is. `AckedIssued`: what was acknowledged was
      issued. In a quiet state the two say that the last batch is acknowledged.
    - `EventsLaid`, `HeldLaid`, `GeometryLaid`: a queued or held configuration
      was computed for the decorations there are now, and the geometry shown
      for the size last acknowledged; or a newer configure follows. A
      decoration appears only at the dispatch of a mode, whose batch has its
      configure still to come (`ModeFollowed`), or of a configure, which queues
      a configuration made with it. `LaidHolds` is the arithmetic: taking the
      decorations off a size and adding them again gives it back, or a larger
      one where there was no room.
    - `ModeDue`: the mode in use is the last one sent, or the last on the wire
      is. `NoMode`, `CsdMade`: without a manager there is no mode; a
      client-side mode, or without a manager any configure dispatched, has made
      the decoration.
    - `Painted`: a decoration is painted for its content, or something is
      coming, whose commit paints it.

    `GeometrySettled` is about applications that do not resize by themselves,
    as the property says. `DecorationSettled` needs content that is not empty:
    an empty one is never painted (`Decoration::render` returns early), and
    nothing keeps an application from committing one.

### Buffers (BuffersProofs)

11. `BuffersTyped` and `NoLeaks`: `Spec => []` of Buffers' `TypeOK` and
    `BuffersOwned`, together. A buffer that is replaced may be taken from
    `buffers` only if no other part has it; that follows from the names
    (`NamedIn`: a part's buffer is named by that part), which also leave a
    serial free for the new one. That no buffer is of size zero needs that a
    render is never under way for empty content.
12. `Tiled`: `Spec => []WindowTiled`, for content of every size. `LayoutTiles`
    is the geometry, by arithmetic alone. `LayoutInv` says when the screen has
    it: a part is `Ready` when its buffer has the right size and place and is
    staged and alive, or shown already. All parts are ready while the last
    render that ended was complete, those behind it while one is under way. The
    worker's repaints, at the size committed last, leave a ready part ready, so
    a commit of the surface in the middle of one shows nothing torn.
13. `RenderRefines`: `Spec => RendersAsLibdecor`. Only the step that paints the
    titlebar changes width or picture (`NotPainted`), it changes both, and it
    comes once in a render (`TitlebarOnce`), with what the render was asked for.

### Handles (HandlesProofs)

14. `HandlesTyped`, `HandlesCorrect` and `MemorySafe`: `Spec => []` of `TypeOK`,
    `HandlesExact` and `NoUseAfterFree`, proved together from `HandlesInv`, which
    adds
    - `Unborn`: an id not allocated yet is owned by nobody and was never closed,
      so that a new frame starts from nothing;
    - `ConfigureAlive`: while a configure callback runs, the context and the
      configuration are allocated. Only a close callback frees the context, so
      delivery may go on with it after a configure (`deliver_events`).

    From `HandlesExact` follows what every call reads: an owned frame has a box
    (`UsableBox`), a registered one too, and while the context lives the frames
    it would free with itself are exactly those not closed. Each action has one
    lemma; most leave the three parts alone (`HandlesStable`).
15. `TitleStands`: `Spec => []LastTitleStands`, from `TitlesInv`: the string got
    last is the cached one of its frame (`LastCached`), the strings allocated
    are exactly the cached ones (`Pointed`), and no two frames share one. So
    what another call frees is another string.

### Pump (QueueLemmas, PumpProofs)

The theorems are about applications whose callbacks drop frames, free the
context or do nothing, but dispatch nothing (`Obedient`): with callbacks that
dispatch, `NoFault` is false (run `doc_reenter`). The documentation allows those
too (`c-api/src/pump.rs:163-164`), so the theorems say less than it does.

16. `PumpTyped`, `PumpTornDown`, `PumpArmed`, `PumpAccounted`: `Spec => []` of
    `TypeOK`, `TornDown`, `AlwaysArmed` and `CallbacksAccounted`, together, from
    `PumpInv`, with a worker that any error may end. `PumpTornDown` says that a
    freed context has no worker, and no pump once the stack is empty.
    `PumpAccounted` is exact while the context lives, and bounds what may be
    left afterwards. Besides them `PumpInv` says which calls nest and where each is
    (`Nested`), who owns the pump (`Owned`: only the handler on the stack sees a
    pump freed), who has the lock (`Locking`), what is over when the context is
    gone (`Gone`), and that the armed callback is queued at one place once
    (`Armed`, `Single`). Each action has one lemma.
17. `PumpSafe`: `Spec => []NoFault`, if the display goes with the context
    (`~KeepsDisplay`), as the comments of `sync_done` take it. With a display
    that lives on, the sync that was re-armed refers to a freed pump
    (section 6).
18. `PumpRefines`: `Spec => Mailbox`. Step by step: `Send` is `Post`, `Deliver`
    is `Take`, `Decorate` is `Open`; `WorkerTick`, `ReadSocket`, `Dispatch`,
    `DispatchReturns`, `DropFrame` and `Unreferenced` are `Withdraw`, when they
    take anything away; the rest stutters, `DispatchFails` too, which only moves
    what was drained. Needs `Ordered` and `Numbered`: what
    the application is being given is older than what is queued, that older
    than what is routed, and that older than what is unread. `Filter` is a
    recursive function; what it keeps is proved by well-founded induction over
    a set (`Induction`), the one form of it that the provers can use.

Only model-checked: liveness, that is `DeliveredIfServed`, `UnrefReturns`, and
in `Handshake` that every configure is settled some time. Fairness and `ENABLED`
are out of the prover's reach. The four runs that expect a violation show
counterexamples; there is nothing to prove. Every other property of a run is a
theorem.

## 5. Not modelled

- Pixels, shadows, icons, text, fonts, colours: nothing else depends on them.
- SHM system calls: a failed allocation is `PaintFails`. That a buffer is
  repainted while the compositor reads it only tears. Widths near 2^31, where
  `width * 4` overflows, are more than a compositor shows.
- Wire decoding, pings, `flush`, hints, and arithmetic overflow at 2^31 pixels
  or frames.
- Themes and fonts (`src/theme.rs`, `src/font.rs`): read once, without effect
  on any state. Flag sets (`src/state.rs`) are sets.
- C states and the getters of `c-api/src/state_config.rs`: a state belongs to
  the application alone, which makes, reads and frees it. User data and the
  interface struct are passed through.
- The compositor's screen between a repaint of the titlebar and the commit that
  shows it, in Libdecor. Buffers has it, for the layout.
- A protocol error found in the middle of a batch, after which the rest of the
  batch stays queued on a connection that is broken anyway.
- Misuse of handles: a call with a handle that is not owned any more.
- Allocation failure inside libwayland (`arm` returns without a callback, and
  delivery ends silently).

## 6. Divergences from the documentation

Each has a run whose counterexample shows it:

| Run | Documented | The code |
|---|---|---|
| `doc_narrow_titlebar` | `src/frame.rs:282-283`: the titlebar is re-rendered at the new width | a button that lies wholly left of a narrow titlebar gives `fill_rect` a row that ends before it starts, and the paint panics (`src/csd.rs:564`), in the application's commit or in the worker |
| `doc_title_pointer` | `c-api/src/frame.rs:221-222`: valid until the next title change | every `libdecor_frame_get_title` frees the string of the one before (`c-api/src/frame.rs:242`) |
| `doc_reenter` | `c-api/src/pump.rs:163-164`: callbacks may re-enter the C ABI and tear the context down | a nested dispatch whose Close frees the context leaves the outer delivery with freed memory (`c-api/src/pump.rs:215`) |
| `doc_worker_gone` | `c-api/src/context.rs:137-140`: an application that never calls `libdecor_dispatch` is still served | the worker exits on any error, a full socket at its flush included (`c-api/src/dispatch.rs:158`, `:188`); what is on the private queue then waits for a `libdecor_dispatch` that never comes |

Seen besides while modelling, each in the definition named, without a run of
its own:

- `src/csd.rs:3-5` and `README.md:9-11` say libdecor draws where the compositor
  does not; a switch to server-side leaves the client-side decoration in place,
  and the window is decorated twice (`src/inner.rs:333`, `ensure_csd`).
- `src/configuration.rs:25-27` calls the content size the expected one; the
  overhead at dispatch and the one at commit differ when a decoration appears in
  between, and the window comes out larger (`src/frame.rs:298`, `Configuration`).
- `c-api/src/context.rs:178-179` says events are delivered exactly once; what was
  drained behind a Close is dropped, for other frames too
  (`c-api/src/pump.rs:232`, `Rest`).
- A title set after the last commit goes to the compositor at once, but is not
  painted in libdecor's titlebar until something else repaints (`src/frame.rs:82`).
- `src/frame.rs:99` sets the minimum content size; it goes out as the minimum size
  of the window, decoration included (`src/frame.rs:103`), so that a decorated
  window at its minimum has 8 by 40 pixels less content. The same for the
  maximum.
- A frame that was closed and not dropped keeps its box when the context is freed;
  nothing can free it then, as `libdecor_frame_unref` goes through the context
  (`c-api/src/frame.rs:107`, `FreedWithContext`). `libdecor_unref` itself sends no
  destroy requests for the frames (`c-api/src/context.rs:98`).
- `src/event.rs:31-33` says the application is asked to commit its surface when
  the decoration uses synchronous subsurfaces. It does, and the pointer's repaints
  wait for that commit, but no handler queues the event (`src/inner.rs:632`,
  `HoverAt`). `Event::Commit` and `Event::DismissPopup` are never produced.
- `src/context.rs:83-84` limits `force_client_side_decorations` to later frames; `ensure_csd` reads the flag for all (`src/inner.rs:950`, `NeedsCsd`).
- `src/frame.rs:170-174` says the decoration's visibility is toggled; the flag
  is only stored (`src/frame.rs:177`, `SetVisibility`).
- `src/state.rs:174-180` ties an action to its capability; a border press
  resizes without RESIZE (`src/inner.rs:808`, `BorderPress`).
- `src/csd.rs:68` calls `hover` the button under the pointer; a resize moves
  the buttons and does not recompute it (`src/frame.rs:316`, `Commit`).
- `src/inner.rs:164` calls `pointer_focus` current; a released pointer keeps
  its entry, and the titlebar it was over its highlight and press, though
  `src/csd.rs:67` calls `hover` what the pointer is currently hovering
  (`src/inner.rs:380`, `SeatLosesPointer`).
- After a click, the serial passed to `set_shape` on a motion is the button's
  (`src/inner.rs:520`, `:482`, `PointerMotion`), which compositors ignore.
- A callback that dispatches the default queue makes `sync_done` hand a
  callback whose handler still runs to the worker (`c-api/src/pump.rs:151`;
  `Reentry` with "default").
- A callback that calls `libdecor_dispatch` is delivered newer events before
  the rest of its own batch (`c-api/src/context.rs:181`; "dispatch").
- After a context was freed in a callback, the re-armed sync refers to the
  freed pump, should the display live on (`KeepsDisplay`).
- A callback queued after the worker's last tick is never destroyed
  (`c-api/src/dispatch.rs:151`, `WorkerCheck`). While a worker that ended by
  itself is gone, that is one callback per round of the pump
  (`c-api/src/dispatch.rs:82`, `Leaked`).

## 7. Plan

Done, in this order: Csd and Libdecor (the core), Session and Handshake, Pump,
the proofs of types, registry and focus, of the picture and of its feedback;
Handles and Buffers with their proofs, and Mailbox; then the proofs of the
titles, of the clicks, of Pump and its refinement of Mailbox, and of Session:
protocol, objects, the order of Handshake, configurations, and what is settled.

Next:

1. Theorems about the callbacks that do dispatch: which part of `PumpInv` is
   left for each kind of `Reentry`, so that section 6 says exactly what they
   cost.
2. That `Buffers` and `Libdecor` agree on more than the titlebar: the size of
   the content rendered for, and which picture is on screen, so that clicks can
   be compared with what the user sees.
3. The bounds of a configure, as part of what a batch carries.
4. The model: a user who clicks maximize on a committed state that lags behind
   the compositor's; the serials of enter and button events.
