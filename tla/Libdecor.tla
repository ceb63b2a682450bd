------------------------------ MODULE Libdecor ------------------------------
(***************************************************************************)
(* The core of libdecor-rs: the dispatcher state of src/inner.rs, changed  *)
(* by the Wayland events it dispatches and by the calls an application     *)
(* makes on Context (src/context.rs) and Frame (src/frame.rs).             *)
(*                                                                         *)
(* The crate is single threaded: a handler or a call is one action.  What  *)
(* makes it hard is the order of the actions.  Events reach the dispatcher *)
(* after the application destroyed the frame or the surface they name,     *)
(* decorations appear in the middle of a configure cycle, pointers come    *)
(* and go while they hover, and application calls fall between any two     *)
(* events.  The environment here is therefore open: every event the        *)
(* compositor may send for an object it knows, at any time, including the  *)
(* late ones.                                                              *)
(***************************************************************************)
EXTENDS Csd, Sequences

CONSTANTS
    Seats,           \* the wl_seat globals bound at start-up
    Pointers,        \* wl_pointer objects that may be created: bounds get_pointer
    NoPointer,       \* a seat without a pointer
    AppSurfaces,     \* wl_surfaces the application owns and may decorate
    DecorationMgr,   \* zxdg_decoration_manager_v1 is advertised
    Subcompositor,   \* wl_subcompositor is advertised
    CursorShapeMgr,  \* wp_cursor_shape_manager_v1 is advertised
    EnvForceCsd,     \* LIBDECOR_FORCE_CSD is set
    Modes,           \* decoration modes the compositor may configure
    WindowSizes,     \* window sizes it may configure
    StateSets,       \* toplevel states it may configure
    WmCapSets,       \* wm_capabilities it may announce
    BoundSizes,      \* bounds it may announce
    Positions,       \* surface-local pointer positions
    Serials,         \* serials of configures and of pointer events
    AppSizes,        \* content sizes the application may choose by itself
    CapSets,         \* capabilities it may set and unset
    AppCalls,        \* the calls it makes besides creating, destroying and polling
    ShmMayFail,      \* allocating a buffer may fail
    MaxFrames,       \* bound: frames created in a behaviour
    MaxEvents        \* bound: events queued and not polled

OwnSurface(id, part) == <<id, part>>
SurfaceParts == DecorationParts \cup {"Shadow"}

(* The application's surfaces are not libdecor's own. *)
ASSUME SurfaceAssumption ==
    AppSurfaces \cap (Nat \X SurfaceParts) = {}

ASSUME ConstantAssumption ==
    /\ NoPointer \notin Pointers
    /\ {DecorationMgr, Subcompositor, CursorShapeMgr, EnvForceCsd, ShmMayFail} \subseteq BOOLEAN
    /\ Modes \subseteq {"ClientSide", "ServerSide"}
    /\ \A size \in WindowSizes \cup BoundSizes \cup AppSizes : size \in Int \X Int
    /\ \A at \in Positions : at \in Int \X Int
    /\ \A caps \in CapSets : caps \subseteq {"CLOSE", "FULLSCREEN", "MINIMIZE", "MOVE", "RESIZE"}
    /\ \A ws \in StateSets : ws \subseteq {"ACTIVE", "MAXIMIZED"}
    /\ \A wm \in WmCapSets : wm \subseteq {"MAXIMIZE", "MINIMIZE"}
    /\ MaxFrames \in Nat /\ MaxEvents \in Nat

VARIABLES
    next_id,          \* Inner::next_id
    frames,           \* Inner::frames: live frame id -> FrameSlot without its csd
    csd,              \* frame id -> Decoration, for the slots whose csd is Some
    surface_targets,  \* Inner::surface_targets: surface -> frame and part
    pointer_focus,    \* Inner::pointer_focus: pointer -> PointerFocus
    seats,            \* Inner::seats: seat -> its pointer or NoPointer
    force_csd,        \* Inner::force_csd
    events,           \* Inner::events
    requests,         \* the Wayland requests the last step made, in order
    held,             \* the application: frame -> configuration polled, not committed
    pointers,         \* the compositor: the wl_pointers created so far
    over              \* the compositor: pointer -> surface it was last sent into

inner == <<next_id, frames, csd, surface_targets, pointer_focus, seats, force_csd, events>>
vars == <<inner, requests, held, pointers, over>>

live == DOMAIN frames
Allocated == 0 .. next_id - 1
SeatOf(p) == {s \in Seats : seats[s] = p}

(***************************************************************************)
(* Requests.  Protocol objects are named <<interface, name>>.  Requests    *)
(* that only set a hint (title, app id, size limits), and the positions    *)
(* and damage of subsurfaces, are left out.                                *)
(***************************************************************************)
New(object) == [req |-> "new", object |-> object]
Destroy(object) == [req |-> "destroy", object |-> object]

(* Decoration::new and Decoration::destroy make and free these in order. *)
CsdParts == <<"Shadow", "Top", "Bottom", "Left", "Right", "Titlebar">>

(* A wl_surface and its wl_subsurface role come and go together. *)
CsdRequests(req, id) ==
    [i \in 1 .. 6 |-> [req |-> req, object |-> <<"subsurface", OwnSurface(id, CsdParts[i])>>]]

(***************************************************************************)
(* Drawing a titlebar too narrow for its buttons panics, which ends the    *)
(* program: a step that paints one is no step of it.  Buffers has the      *)
(* panic as an outcome.                                                    *)
(***************************************************************************)
Fits ==
    \A id \in DOMAIN csd : csd[id].drawn # None =>
        TitlebarFits(csd[id].drawn[1].buttons, csd[id].drawn[1].width)

(* Whether a render reaches the titlebar's buffer. *)
Paints == IF ShmMayFail THEN BOOLEAN ELSE {TRUE}

HitAt(id, x, y) == hit_test(csd[id].buttons, csd[id].width, x, y)

(***************************************************************************)
(* Frames.                                                                 *)
(***************************************************************************)
NoPending == [size |-> None, window_state |-> None, bounds |-> None]

NewSlot(surface, owns, decoration) ==
    [surface |-> surface, owns |-> owns, decoration |-> decoration,
     capabilities |-> {"CLOSE", "FULLSCREEN", "MINIMIZE", "MOVE", "RESIZE"},
     wm_capabilities |-> {}, wm_known |-> FALSE, window_state |-> {},
     content_size |-> <<0, 0>>, decoration_mode |-> None,
     visible |-> TRUE, mapped |-> FALSE, pending |-> NoPending]

Target(id, part) == [frame |-> id, part |-> part]

(* The surfaces of a frame that take input; the shadow takes none. *)
CsdSurfaces(id) == {OwnSurface(id, part) : part \in Edges \cup {"Titlebar"}}

(* register_surface and unregister_surface, for the surfaces of a frame. *)
register_only_titlebar(targets) ==
    LET titlebar == {s \in DOMAIN targets : targets[s].part \notin Edges}
    IN  surface_targets' = Merge(surface_targets, Restrict(targets, titlebar))

register_surfaces(targets) == surface_targets' = Merge(surface_targets, targets)

unregister_but_keep_focus(surfaces) ==
    /\ surface_targets' = Without(surface_targets, surfaces)
    /\ UNCHANGED pointer_focus

unregister_surfaces(surfaces) ==
    /\ surface_targets' = Without(surface_targets, surfaces)
    /\ pointer_focus' = Restrict(pointer_focus,
            {p \in DOMAIN pointer_focus : pointer_focus[p].surface \notin surfaces})

(***************************************************************************)
(* ensure_csd, called with the decoration mode the slot has by then.       *)
(***************************************************************************)
NeedsCsd_of_any_id(id, mode) ==
    id \notin DOMAIN csd /\ (force_csd \/ mode = Some("ClientSide"))

NeedsCsd_without_manager(id, mode) ==
    id \in live /\ id \notin DOMAIN csd /\ ~DecorationMgr

NeedsCsd(id, mode) ==
    /\ id \in live
    /\ id \notin DOMAIN csd
    /\ \/ force_csd
       \/ mode = Some("ClientSide")
       \/ mode = None /\ ~DecorationMgr

ensure_csd(id, mode) ==
    IF NeedsCsd(id, mode) /\ Subcompositor
    THEN /\ csd' = Put(csd, id, NewDecoration)
         /\ register_surfaces([s \in CsdSurfaces(id) |-> Target(id, s[2])])
         /\ requests' = CsdRequests("new", id)
    ELSE /\ UNCHANGED <<csd, surface_targets>>
         /\ requests' = <<>>

-----------------------------------------------------------------------------
(***************************************************************************)
(* Events of the compositor, as the handlers of src/inner.rs dispatch      *)
(* them.  `id' is the key the event's proxy was created with: the frame    *)
(* may be gone by the time its event is dispatched.                        *)
(***************************************************************************)
Configuration(serial, pending, has_csd) ==
    [serial |-> serial,
     size |-> IF pending.size = None THEN None
              ELSE Some(ContentOf(pending.size[1], has_csd)),
     window_state |-> pending.window_state,
     bounds |-> pending.bounds]

(* std::mem::take of the pending state. *)
TakePending_copied(id) == frames
TakePending(id) == [frames EXCEPT ![id].pending = NoPending]

XdgSurfaceConfigure(id, serial) ==
    /\ Len(events) < MaxEvents
    /\ ensure_csd(id, IF id \in live THEN frames[id].decoration_mode ELSE None)
    /\ IF id \in live
       THEN /\ frames' = TakePending(id)
            /\ events' = Append(events, [type |-> "Configure", frame |-> id,
                    configuration |->
                        Configuration(serial, frames[id].pending, id \in DOMAIN csd')])
       ELSE UNCHANGED <<frames, events>>
    /\ UNCHANGED <<next_id, pointer_focus, seats, force_csd, held, pointers, over>>

(* The four events of xdg_toplevel return at once for a frame that is gone. *)
ToplevelConfigure(id, size, states) ==
    /\ frames' = IF id \in live
                 THEN [frames EXCEPT
                        ![id].pending.size = IF size[1] > 0 /\ size[2] > 0
                                             THEN Some(size) ELSE None,
                        ![id].pending.window_state = Some(states)]
                 ELSE frames
    /\ requests' = <<>>
    /\ UNCHANGED <<next_id, csd, surface_targets, pointer_focus, seats, force_csd, events,
                   held, pointers, over>>

ToplevelClose(id) ==
    /\ Len(events) < MaxEvents
    /\ events' = IF id \in live THEN Append(events, [type |-> "Close", frame |-> id])
                                 ELSE events
    /\ requests' = <<>>
    /\ UNCHANGED <<next_id, frames, csd, surface_targets, pointer_focus, seats, force_csd,
                   held, pointers, over>>

ToplevelConfigureBounds(id, size) ==
    /\ Len(events) < MaxEvents
    /\ IF id \in live
       THEN /\ frames' = [frames EXCEPT ![id].pending.bounds = Some(size)]
            /\ events' = Append(events, [type |-> "Bounds", frame |-> id, size |-> size])
       ELSE UNCHANGED <<frames, events>>
    /\ requests' = <<>>
    /\ UNCHANGED <<next_id, csd, surface_targets, pointer_focus, seats, force_csd,
                   held, pointers, over>>

ToplevelWmCapabilities(id, wm) ==
    /\ frames' = IF id \in live
                 THEN [frames EXCEPT ![id].wm_capabilities = wm, ![id].wm_known = TRUE]
                 ELSE frames
    /\ requests' = <<>>
    /\ UNCHANGED <<next_id, csd, surface_targets, pointer_focus, seats, force_csd, events,
                   held, pointers, over>>

DecorationConfigure(id, mode) ==
    /\ DecorationMgr
    /\ id \in live => frames[id].decoration
    /\ frames' = IF id \in live THEN [frames EXCEPT ![id].decoration_mode = Some(mode)]
                                 ELSE frames
    /\ ensure_csd(id, Some(mode))
    /\ UNCHANGED <<next_id, pointer_focus, seats, force_csd, events, held, pointers, over>>

(***************************************************************************)
(* wl_seat.capabilities.  A new pointer is a new object; losing the        *)
(* capability releases it.                                                 *)
(***************************************************************************)
SeatGainsPointer(seat, p) ==
    /\ seats[seat] = NoPointer
    /\ p \in Pointers \ pointers
    /\ seats' = [seats EXCEPT ![seat] = p]
    /\ pointers' = pointers \cup {p}
    /\ requests' = <<New(<<"wl_pointer", p>>)>> \o
                    (IF CursorShapeMgr THEN <<New(<<"cursor_shape_device", p>>)>> ELSE <<>>)
    /\ UNCHANGED <<next_id, frames, csd, surface_targets, pointer_focus, force_csd, events,
                   held, over>>

SeatLosesPointer(seat) ==
    /\ seats[seat] # NoPointer
    /\ seats' = [seats EXCEPT ![seat] = NoPointer]
    /\ requests' = <<Destroy(<<"wl_pointer", seats[seat]>>)>> \o
                    (IF CursorShapeMgr THEN <<Destroy(<<"cursor_shape_device", seats[seat]>>)>>
                                       ELSE <<>>)
    /\ UNCHANGED <<next_id, frames, csd, surface_targets, pointer_focus, force_csd, events,
                   held, pointers, over>>

(***************************************************************************)
(* wl_pointer.  `over' is what the compositor has told: a pointer of a     *)
(* seat that has one enters when it is over nothing, or over a surface     *)
(* that was destroyed under it; it moves and clicks where it entered, and  *)
(* leaves that surface.  Motions, clicks and the leave may still come      *)
(* after the pointer was released.                                         *)
(***************************************************************************)
Dead(s) == s \notin AppSurfaces /\ s \notin DOMAIN surface_targets

(* Surfaces the compositor may still name: those that exist, and the dead ones. *)
NameableSurfaces ==
    AppSurfaces \cup DOMAIN surface_targets
        \cup {OwnSurface(id, part) : id \in Allocated \ live, part \in DecorationParts}

ContentSize(id) == IF id \in live THEN frames[id].content_size ELSE <<0, 0>>

(* apply_cursor_shape *)
SetShape(p, part, x, y, content, serial) ==
    IF SeatOf(p) = {} \/ ~CursorShapeMgr THEN <<>>
    ELSE <<[req |-> "set_shape", pointer |-> p, serial |-> serial,
            shape |-> cursor_shape(part, x, y, content)]>>

(* update_titlebar_hover: repaint when the button under the pointer changes. *)
HoverAt_not_repainted(id, x, y, painted) ==
    IF id \notin DOMAIN csd THEN csd ELSE [csd EXCEPT ![id].hover = HitAt(id, x, y)]

HoverAt(id, x, y, painted) ==
    IF id \notin DOMAIN csd \/ HitAt(id, x, y) = csd[id].hover
    THEN csd
    ELSE [csd EXCEPT ![id] =
            Render([@ EXCEPT !.hover = HitAt(id, x, y)], ContentSize(id), painted)]

PointerEnter(p, s, at, serial, painted) ==
    /\ SeatOf(p) # {}
    /\ p \in DOMAIN over => Dead(over[p].surface)
    /\ over' = Put(over, p, [surface |-> s, serial |-> serial])
    /\ IF s \in DOMAIN surface_targets
       THEN LET target == surface_targets[s] IN
            /\ pointer_focus' = Put(pointer_focus, p,
                    [target |-> target, surface |-> s, serial |-> serial,
                     at |-> at, button_down |-> FALSE])
            /\ requests' = SetShape(p, target.part, at[1], at[2],
                                    ContentSize(target.frame), serial)
            /\ csd' = IF target.part = "Titlebar"
                      THEN HoverAt(target.frame, at[1], at[2], painted)
                      ELSE csd
       ELSE /\ UNCHANGED <<pointer_focus, csd>>
            /\ requests' = <<>>
    /\ UNCHANGED <<next_id, frames, surface_targets, seats, force_csd, events, held, pointers>>

(* What a leave resets. *)
Left_still_pressed(d) == [d EXCEPT !.hover = None]
Left(d) == [d EXCEPT !.hover = None, !.pressed = None]

PointerLeave(p, painted) ==
    /\ p \in DOMAIN over
    /\ over' = Without(over, {p})
    /\ IF p \in DOMAIN pointer_focus /\ pointer_focus[p].surface = over[p].surface
       THEN LET target == pointer_focus[p].target IN
            /\ pointer_focus' = Without(pointer_focus, {p})
            /\ csd' = IF target.part = "Titlebar" /\ target.frame \in DOMAIN csd
                      THEN [csd EXCEPT ![target.frame] =
                                Render(Left(@), ContentSize(target.frame), painted)]
                      ELSE csd
       ELSE UNCHANGED <<pointer_focus, csd>>
    /\ requests' = <<>>
    /\ UNCHANGED <<next_id, frames, surface_targets, seats, force_csd, events, held, pointers>>

PointerMotion(p, at, painted) ==
    /\ p \in DOMAIN over
    /\ IF p \in DOMAIN pointer_focus
       THEN LET target == pointer_focus[p].target IN
            /\ pointer_focus' = [pointer_focus EXCEPT ![p].at = at]
            /\ csd' = IF target.part = "Titlebar"
                      THEN HoverAt(target.frame, at[1], at[2], painted)
                      ELSE csd
            /\ requests' = IF target.part \in Edges
                           THEN SetShape(p, target.part, at[1], at[2],
                                         ContentSize(target.frame), pointer_focus[p].serial)
                           ELSE <<>>
       ELSE /\ UNCHANGED <<pointer_focus, csd>>
            /\ requests' = <<>>
    /\ UNCHANGED <<next_id, frames, surface_targets, seats, force_csd, events, held,
                   pointers, over>>

(***************************************************************************)
(* wl_pointer.button, primary button only: the others return at once.      *)
(***************************************************************************)
TitlebarPress(id, p, at, serial, painted) ==
    /\ UNCHANGED events
    /\ IF id \notin DOMAIN csd
       THEN UNCHANGED csd /\ requests' = <<>>
       ELSE LET hit == HitAt(id, at[1], at[2]) IN
            /\ csd' = [csd EXCEPT ![id] =
                        Render([@ EXCEPT !.pressed = hit], ContentSize(id), painted)]
            /\ requests' = IF hit = None /\ SeatOf(p) # {}
                           THEN <<[req |-> "move", frame |-> id,
                                   seat |-> CHOOSE s \in SeatOf(p) : TRUE, serial |-> serial]>>
                           ELSE <<>>

TitlebarAction(id, kind) ==
    CASE kind = "Close"    -> /\ events' = Append(events, [type |-> "Close", frame |-> id])
                              /\ requests' = <<>>
      [] kind = "Maximize" -> /\ UNCHANGED events
                              /\ requests' = <<[req |-> IF "MAXIMIZED" \in frames[id].window_state
                                                       THEN "unset_maximized" ELSE "set_maximized",
                                               frame |-> id]>>
      [] kind = "Minimize" -> /\ UNCHANGED events
                              /\ requests' = <<[req |-> "set_minimized", frame |-> id]>>

TitlebarRelease(id, at, painted) ==
    IF id \notin DOMAIN csd
    THEN UNCHANGED <<csd, events>> /\ requests' = <<>>
    ELSE LET released_on == HitAt(id, at[1], at[2])
             pressed == csd[id].pressed
         IN  /\ csd' = [csd EXCEPT ![id] =
                         Render([@ EXCEPT !.pressed = None], ContentSize(id), painted)]
             /\ IF pressed # None /\ pressed = released_on
                THEN TitlebarAction(id, pressed[1])
                ELSE UNCHANGED events /\ requests' = <<>>

BorderPress(id, p, edge, at, serial) ==
    /\ UNCHANGED <<csd, events>>
    /\ requests' = IF id \notin live \/ SeatOf(p) = {} THEN <<>>
                   ELSE <<[req |-> "resize", frame |-> id,
                           seat |-> CHOOSE s \in SeatOf(p) : TRUE, serial |-> serial,
                           edge |-> resize_edge(edge, at[1], at[2], ContentSize(id))]>>

PointerButton(p, down, serial, painted) ==
    /\ Len(events) < MaxEvents
    /\ p \in DOMAIN over
    /\ IF p \in DOMAIN pointer_focus
       THEN LET target == pointer_focus[p].target
                at == pointer_focus[p].at
            IN  /\ pointer_focus' = [pointer_focus EXCEPT ![p].serial = serial,
                                                         ![p].button_down = down]
                /\ \/ /\ target.part = "Titlebar" /\ down
                      /\ TitlebarPress(target.frame, p, at, serial, painted)
                   \/ /\ target.part = "Titlebar" /\ ~down
                      /\ TitlebarRelease(target.frame, at, painted)
                   \/ /\ target.part \in Edges /\ down
                      /\ BorderPress(target.frame, p, target.part, at, serial)
                   \/ /\ target.part # "Titlebar" /\ (down => target.part = "Content")
                      /\ UNCHANGED <<csd, events>>
                      /\ requests' = <<>>
       ELSE /\ UNCHANGED <<pointer_focus, csd, events>>
            /\ requests' = <<>>
    /\ UNCHANGED <<next_id, frames, surface_targets, seats, force_csd, held, pointers, over>>

-----------------------------------------------------------------------------
(***************************************************************************)
(* Calls of the application.  A call on a frame that is gone returns       *)
(* UnknownFrame and changes nothing, so it is not an action.               *)
(***************************************************************************)
ForceClientSideDecorations(force) ==
    /\ "force" \in AppCalls
    /\ force_csd' = force
    /\ requests' = <<>>
    /\ UNCHANGED <<next_id, frames, csd, surface_targets, pointer_focus, seats, events,
                   held, pointers, over>>

(* Context::poll_event.  The application keeps the configuration it was given. *)
Popped_newest_first == <<events[Len(events)], SubSeq(events, 1, Len(events) - 1)>>
Popped == <<Head(events), Tail(events)>>

PollEvent ==
    /\ events # <<>>
    /\ events' = Popped[2]
    /\ LET event == Popped[1] IN
       held' = IF event.type = "Configure" /\ event.frame \in live
               THEN Put(held, event.frame, event.configuration)
               ELSE held
    /\ requests' = <<>>
    /\ UNCHANGED <<next_id, frames, csd, surface_targets, pointer_focus, seats, force_csd,
                   pointers, over>>

(* Context::decorate_inner *)
decorate_inner(surface, owns, creation) ==
    LET id == next_id
        decoration == ~force_csd /\ DecorationMgr
    IN  /\ next_id < MaxFrames
        /\ next_id' = next_id + 1
        /\ frames' = Put(frames, id, NewSlot(surface, owns, decoration))
        /\ surface_targets' = Put(surface_targets, surface, Target(id, "Content"))
        /\ requests' = creation
                \o <<New(<<"xdg_surface", id>>), New(<<"xdg_toplevel", id>>)>>
                \o (IF decoration
                    THEN <<New(<<"xdg_toplevel_decoration", id>>),
                           [req |-> "set_mode", frame |-> id, mode |-> "ClientSide"]>>
                    ELSE <<>>)
        /\ UNCHANGED <<csd, pointer_focus, seats, force_csd, events, held, pointers, over>>

CreateFrame ==
    LET surface == OwnSurface(next_id, "Content")
    IN  decorate_inner(surface, TRUE, <<New(<<"wl_surface", surface>>)>>)

(* The application gives a surface that has no role yet, or no longer. *)
Decorate(surface) ==
    /\ \A id \in live : frames[id].surface # surface
    /\ decorate_inner(surface, FALSE, <<>>)

(* Context::destroy_frame and Frame::close.  Queued events stay queued. *)
DestroyDecorations(id) ==
    (IF id \in DOMAIN csd THEN CsdRequests("destroy", id) ELSE <<>>)
    \o (IF frames[id].decoration THEN <<Destroy(<<"xdg_toplevel_decoration", id>>)>> ELSE <<>>)

DestroyOwnSurface(id) ==
    IF frames[id].owns THEN <<Destroy(<<"wl_surface", frames[id].surface>>)>> ELSE <<>>

DestroyRequests_xdg_surface_first(id) ==
    DestroyDecorations(id)
    \o <<Destroy(<<"xdg_surface", id>>), Destroy(<<"xdg_toplevel", id>>)>>
    \o DestroyOwnSurface(id)

DestroyRequests_leaving_surface(id) ==
    DestroyDecorations(id)
    \o <<Destroy(<<"xdg_toplevel", id>>), Destroy(<<"xdg_surface", id>>)>>

DestroyRequests(id) ==
    DestroyDecorations(id)
    \o <<Destroy(<<"xdg_toplevel", id>>), Destroy(<<"xdg_surface", id>>)>>
    \o DestroyOwnSurface(id)

DestroyFrame(id) ==
    /\ frames' = Without(frames, {id})
    /\ csd' = Without(csd, {id})
    /\ unregister_surfaces({frames[id].surface}
            \cup (IF id \in DOMAIN csd THEN CsdSurfaces(id) ELSE {}))
    /\ requests' = DestroyRequests(id)
    /\ held' = Without(held, {id})
    /\ UNCHANGED <<next_id, seats, force_csd, events, pointers, over>>

Map(id) ==
    /\ "map" \in AppCalls
    /\ frames' = [frames EXCEPT ![id].mapped = TRUE]
    /\ requests' = IF frames[id].mapped THEN <<>>
                   ELSE <<[req |-> "commit", surface |-> frames[id].surface]>>
    /\ UNCHANGED <<next_id, csd, surface_targets, pointer_focus, seats, force_csd, events,
                   held, pointers, over>>

SetCapabilities(id, caps) ==
    /\ "capabilities" \in AppCalls
    /\ frames' = [frames EXCEPT ![id].capabilities = @ \cup caps]
    /\ requests' = <<>>
    /\ UNCHANGED <<next_id, csd, surface_targets, pointer_focus, seats, force_csd, events,
                   held, pointers, over>>

UnsetCapabilities(id, caps) ==
    /\ "capabilities" \in AppCalls
    /\ frames' = [frames EXCEPT ![id].capabilities = @ \ caps]
    /\ requests' = <<>>
    /\ UNCHANGED <<next_id, csd, surface_targets, pointer_focus, seats, force_csd, events,
                   held, pointers, over>>

SetVisibility(id, visible) ==
    /\ "visibility" \in AppCalls
    /\ frames' = [frames EXCEPT ![id].visible = visible]
    /\ requests' = <<>>
    /\ UNCHANGED <<next_id, csd, surface_targets, pointer_focus, seats, force_csd, events,
                   held, pointers, over>>

(***************************************************************************)
(* Frame::commit, with the configuration last polled for the frame or      *)
(* without one.  The result of the render is the only error; what precedes *)
(* it stands either way.                                                   *)
(***************************************************************************)
Commit(id, size, configurations, painted) ==
    LET cfg == configurations
        window_state == IF cfg = None \/ cfg[1].window_state = None
                        THEN frames[id].window_state ELSE cfg[1].window_state[1]
        has_csd == id \in DOMAIN csd
    IN  /\ frames' = [frames EXCEPT ![id].window_state = window_state,
                                    ![id].content_size = size]
        /\ requests' =
              (IF cfg = None THEN <<>>
               ELSE <<[req |-> "ack_configure", frame |-> id, serial |-> cfg[1].serial]>>)
              \o (IF has_csd
                  THEN <<[req |-> "set_window_geometry", frame |-> id,
                          size |-> GeometryOf(size, TRUE)]>>
                  ELSE <<>>)
        /\ csd' = IF has_csd
                  THEN [csd EXCEPT ![id] =
                          Render([@ EXCEPT !.active = "ACTIVE" \in window_state,
                                           !.buttons = compute_buttons(frames[id].capabilities,
                                                frames[id].wm_capabilities, frames[id].wm_known)],
                                 size, painted)]
                  ELSE csd
        /\ held' = IF cfg = None THEN held ELSE Without(held, {id})
        /\ UNCHANGED <<next_id, surface_targets, pointer_focus, seats, force_csd, events,
                       pointers, over>>

(* The size the application commits: the one configured, or one of its own. *)
CommitConfigured(id, painted) ==
    /\ id \in DOMAIN held
    /\ \E size \in IF held[id].size = None THEN AppSizes ELSE {held[id].size[1]} :
            Commit(id, size, Some(held[id]), painted)

CommitResized(id, painted) ==
    /\ "resize" \in AppCalls
    /\ \E size \in AppSizes : Commit(id, size, None, painted)

(***************************************************************************)
(* The requests Frame passes on to the toplevel as they are.  What a hint  *)
(* stores besides is for its getter alone, and the title for the painter.  *)
(***************************************************************************)
Hints == {"set_title", "set_app_id", "set_min_size", "set_max_size"}
Forwarded == {"set_maximized", "unset_maximized", "set_fullscreen", "unset_fullscreen",
              "set_minimized", "move", "resize", "show_window_menu"}

ToplevelRequest(id, name) ==
    /\ "toplevel" \in AppCalls
    /\ requests' = <<[req |-> name, frame |-> id]>>
    /\ UNCHANGED <<inner, held, pointers, over>>

SetParent(id, parent) ==
    /\ "toplevel" \in AppCalls
    /\ parent # None => parent[1] \in live
    /\ requests' = <<[req |-> "set_parent", frame |-> id, parent |-> parent]>>
    /\ UNCHANGED <<inner, held, pointers, over>>

-----------------------------------------------------------------------------
Init ==
    /\ next_id = 0
    /\ frames = <<>> /\ csd = <<>>
    /\ surface_targets = <<>> /\ pointer_focus = <<>>
    /\ seats = [s \in Seats |-> NoPointer]
    /\ force_csd = EnvForceCsd
    /\ events = <<>> /\ requests = <<>>
    /\ held = <<>> /\ pointers = {} /\ over = <<>>

FrameEvent(id) ==
    \/ \E serial \in Serials : XdgSurfaceConfigure(id, serial)
    \/ \E size \in WindowSizes \cup {<<0, 0>>}, states \in StateSets :
            ToplevelConfigure(id, size, states)
    \/ ToplevelClose(id)
    \/ \E size \in BoundSizes : ToplevelConfigureBounds(id, size)
    \/ \E wm \in WmCapSets : ToplevelWmCapabilities(id, wm)
    \/ \E mode \in Modes : DecorationConfigure(id, mode)

SeatEvent(seat) ==
    \/ \E p \in Pointers : SeatGainsPointer(seat, p)
    \/ SeatLosesPointer(seat)

PointerEvent(p) ==
    \/ \E s \in NameableSurfaces, at \in Positions, serial \in Serials, painted \in Paints :
            PointerEnter(p, s, at, serial, painted)
    \/ \E painted \in Paints : PointerLeave(p, painted)
    \/ \E at \in Positions, painted \in Paints : PointerMotion(p, at, painted)
    \/ \E down \in BOOLEAN, serial \in Serials, painted \in Paints :
            PointerButton(p, down, serial, painted)

FrameCall(id) ==
    \/ DestroyFrame(id)
    \/ Map(id)
    \/ \E caps \in CapSets : SetCapabilities(id, caps) \/ UnsetCapabilities(id, caps)
    \/ \E visible \in BOOLEAN : SetVisibility(id, visible)
    \/ \E painted \in Paints : CommitConfigured(id, painted) \/ CommitResized(id, painted)
    \/ \E name \in Hints \cup Forwarded : ToplevelRequest(id, name)
    \/ \E parent \in Option(Allocated) : SetParent(id, parent)

Call ==
    \/ \E force \in BOOLEAN : ForceClientSideDecorations(force)
    \/ PollEvent
    \/ CreateFrame
    \/ \E surface \in AppSurfaces : Decorate(surface)
    \/ \E id \in live : FrameCall(id)

Next ==
    /\ \/ \E id \in Allocated : FrameEvent(id)
       \/ \E seat \in Seats : SeatEvent(seat)
       \/ \E p \in Pointers : PointerEvent(p)
       \/ Call
    /\ Fits'

Spec == Init /\ [][Next]_vars

-----------------------------------------------------------------------------
(***************************************************************************)
(* Correctness.                                                            *)
(***************************************************************************)
Surfaces == AppSurfaces \cup (Nat \X SurfaceParts)
Size == Int \X Int
TargetType == [frame : Nat, part : DecorationParts]
Configurations == [serial : Serials, size : Option(Size), window_state : Option(SUBSET {"ACTIVE", "MAXIMIZED"}),
                   bounds : Option(Size)]
Pending == [size : Option(Size), window_state : Option(SUBSET {"ACTIVE", "MAXIMIZED"}),
            bounds : Option(Size)]
Slot == [surface : Surfaces, owns : BOOLEAN, decoration : BOOLEAN,
         capabilities : SUBSET {"CLOSE", "FULLSCREEN", "MINIMIZE", "MOVE", "RESIZE"},
         wm_capabilities : SUBSET {"MAXIMIZE", "MINIMIZE"}, wm_known : BOOLEAN,
         window_state : SUBSET {"ACTIVE", "MAXIMIZED"}, content_size : Size,
         decoration_mode : Option({"ClientSide", "ServerSide"}),
         visible : BOOLEAN, mapped : BOOLEAN,
         pending : Pending]
PictureType == [active : BOOLEAN, hover : Option(ButtonKinds), pressed : Option(ButtonKinds),
                buttons : SUBSET ButtonKinds, width : Int]
Decoration == [active : BOOLEAN, hover : Option(ButtonKinds), pressed : Option(ButtonKinds),
               buttons : SUBSET ButtonKinds, width : Int, drawn : Option(PictureType)]
PointerFocus == [target : TargetType, surface : Surfaces, serial : Serials, at : Size,
                 button_down : BOOLEAN]
EventType == [type : {"Close"}, frame : Nat]
    \cup [type : {"Bounds"}, frame : Nat, size : Size]
    \cup [type : {"Configure"}, frame : Nat, configuration : Configurations]

(* The type of the variables; decorations and held configurations belong to *)
(* live frames, and the ids of frames have been allocated.                  *)
TypeOK ==
    /\ next_id \in Nat
    /\ live \subseteq Allocated /\ frames \in [live -> Slot]
    /\ DOMAIN csd \subseteq live /\ csd \in [DOMAIN csd -> Decoration]
    /\ DOMAIN surface_targets \subseteq Surfaces
    /\ surface_targets \in [DOMAIN surface_targets -> TargetType]
    /\ DOMAIN pointer_focus \subseteq pointers
    /\ pointer_focus \in [DOMAIN pointer_focus -> PointerFocus]
    /\ seats \in [Seats -> Pointers \cup {NoPointer}]
    /\ force_csd \in BOOLEAN
    /\ events \in Seq(EventType)
    /\ DOMAIN held \subseteq live /\ held \in [DOMAIN held -> Configurations]
    /\ pointers \subseteq Pointers
    /\ DOMAIN over \subseteq pointers
    /\ over \in [DOMAIN over -> [surface : Surfaces, serial : Serials]]

(* The surfaces of a frame that are registered for input. *)
InputSurfaces(id) ==
    {frames[id].surface} \cup (IF id \in DOMAIN csd THEN CsdSurfaces(id) ELSE {})

(***************************************************************************)
(* The surface registry is exactly the input surfaces of the live frames,  *)
(* each with the frame and the part it is: nothing is left behind by a     *)
(* destroyed frame, and no decoration is deaf (register_surface,           *)
(* unregister_surface, ensure_csd, destroy_frame).                         *)
(***************************************************************************)
RegistryExact ==
    /\ DOMAIN surface_targets = UNION {InputSurfaces(id) : id \in live}
    /\ \A id \in live : surface_targets[frames[id].surface] = Target(id, "Content")
    /\ \A id \in DOMAIN csd : \A s \in CsdSurfaces(id) : surface_targets[s] = Target(id, s[2])

(***************************************************************************)
(* A focus entry names the surface the compositor last sent the pointer    *)
(* into, and the frame and part that this surface still stands for; and a  *)
(* pointer over a decoration always has its entry, so that no click on a   *)
(* titlebar or a border is lost (the WlPointer handler against             *)
(* unregister_surface).                                                    *)
(***************************************************************************)
FocusTracksCompositor ==
    /\ \A p \in DOMAIN pointer_focus :
          LET focus == pointer_focus[p] IN
          /\ p \in DOMAIN over /\ over[p].surface = focus.surface
          /\ focus.surface \in DOMAIN surface_targets
          /\ focus.target = surface_targets[focus.surface]
    /\ \A p \in DOMAIN over, id \in DOMAIN csd :
          over[p].surface \in CsdSurfaces(id) => p \in DOMAIN pointer_focus

(***************************************************************************)
(* What the titlebar shows of a pointer belongs to a visit of a pointer to *)
(* that titlebar which no leave and no destroyed surface has ended: a      *)
(* pressed button to one that holds the button down, a highlight to any.   *)
(* Hence feedback does not outlive the visit it came from                  *)
(* (handle_titlebar_press, update_titlebar_hover, wl_pointer.leave).  A    *)
(* pointer that a seat loses does not leave: its focus entry and feedback  *)
(* stay, and this takes its visit as going on (SeatLosesPointer).          *)
(***************************************************************************)
FeedbackHasPointer ==
    \A id \in DOMAIN csd :
        /\ csd[id].pressed # None =>
              \E p \in DOMAIN pointer_focus :
                  pointer_focus[p].target = Target(id, "Titlebar") /\ pointer_focus[p].button_down
        /\ csd[id].hover # None =>
              \E p \in DOMAIN pointer_focus : pointer_focus[p].target = Target(id, "Titlebar")

(***************************************************************************)
(* Clicks are judged by the width of the titlebar that was painted last,   *)
(* also after an allocation failed. While none fails, the picture painted  *)
(* last has all the state that the next click is judged by: every handler  *)
(* that changes the hover, the press, the focus or the buttons repaints.   *)
(* It is attached to a synchronized subsurface: what is on screen follows  *)
(* at the application's next commit of its surface, and is not compared    *)
(* (csd.rs, make_subsurface).                                              *)
(***************************************************************************)
DrawingCurrent ==
    \A id \in DOMAIN csd : csd[id].drawn # None =>
        LET size == frames[id].content_size
            shown == csd[id].drawn[1]
        IN  /\ shown.width = csd[id].width
            /\ ~ShmMayFail /\ size[1] > 0 /\ size[2] > 0 => shown = Picture(csd[id])

TitlebarRequests == {"set_maximized", "unset_maximized", "set_minimized"}

Fired ==
    \/ \E i \in DOMAIN requests' : requests'[i].req \in TitlebarRequests
    \/ Len(events') > Len(events)

ShownButton(id, p) ==
    LET shown == csd[id].drawn[1]
        at == pointer_focus[p].at
    IN  hit_test(shown.buttons, shown.width, at[1], at[2])

(***************************************************************************)
(* The titlebar acts on what it painted: when a release fires a button,    *)
(* the picture painted last has this button pressed, under the position of *)
(* a pointer on that titlebar (hit_test, handle_titlebar_release and the   *)
(* repaints before).                                                       *)
(***************************************************************************)
ClickAt(id) ==
    LET size == frames[id].content_size IN
    /\ csd[id].pressed # None /\ csd'[id].pressed = None /\ Fired
    /\ ~ShmMayFail /\ size[1] > 0 /\ size[2] > 0
    => /\ csd[id].drawn[1].pressed = csd[id].pressed
       /\ \E p \in DOMAIN pointer_focus :
             /\ pointer_focus[p].target = Target(id, "Titlebar")
             /\ csd[id].drawn[1].pressed = ShownButton(id, p)

ClickMatchesPicture == [][\A id \in DOMAIN csd \cap DOMAIN csd' : ClickAt(id)]_vars

=============================================================================
