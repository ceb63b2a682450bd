------------------------------ MODULE Session -------------------------------
(***************************************************************************)
(* A libdecor context between a compositor and an application: Libdecor's  *)
(* handlers and calls, with the compositor that sends their events and     *)
(* judges their requests.                                                  *)
(*                                                                         *)
(* The compositor sends configures in batches: a decoration mode, a size   *)
(* with states, bounds, each of them or not, closed by the                 *)
(* xdg_surface.configure whose serial is the batch's index in `sent'.      *)
(* Events travel in order on `wire' and may find their frame destroyed.    *)
(* Requests are judged in the order they were made; a commit of the        *)
(* application's surface follows each Frame::commit, so what it staged is  *)
(* applied at once.                                                        *)
(***************************************************************************)
EXTENDS Libdecor, SequencesExt

CONSTANT MaxConfigures   \* bound: configure batches sent in a behaviour

ASSUME SessionAssumption ==
    MaxConfigures \in Nat /\ 1 .. MaxConfigures \subseteq Serials

VARIABLES
    wire,        \* events on their way to libdecor
    sent,        \* the batches sent so far; the serial is the index
    acked,       \* frame id -> the serial it acknowledged last
    geometry,    \* frame id -> its window geometry, None before the first
    objects,     \* the protocol objects that exist
    protocol_ok  \* no request broke the protocol

compositor == <<wire, sent, acked, geometry, objects, protocol_ok>>
session_vars == <<vars, compositor>>

FrameIds == 0 .. MaxFrames - 1

(***************************************************************************)
(* The compositor's judgement of a request.                                *)
(***************************************************************************)
(* An object must outlive the objects made from it. *)
Dependents(object) ==
    CASE object[1] = "wl_surface" ->
            {<<"xdg_surface", id>> : id \in {i \in live : frames[i].surface = object[2]}}
      [] object[1] = "xdg_surface" -> {<<"xdg_toplevel", object[2]>>}
      [] object[1] = "xdg_toplevel" -> {<<"xdg_toplevel_decoration", object[2]>>}
      [] OTHER -> {}

Makes(i, object) == requests'[i].req = "new" /\ requests'[i].object = object
Frees(i, object) == requests'[i].req = "destroy" /\ requests'[i].object = object
Answers(i, id) == requests'[i].req = "ack_configure" /\ requests'[i].frame = id

(* What is so once the first n requests of a step were read: which objects *)
(* exist, and which serial a frame acknowledged last.                      *)
Exists(object, n) ==
    \/ object \in objects /\ \A i \in 1 .. n : ~Frees(i, object)
    \/ \E i \in 1 .. n : Makes(i, object) /\ \A j \in i + 1 .. n : ~Frees(j, object)

Acked(id, n) ==
    LET answers == {i \in 1 .. n : Answers(i, id)}
    IN  IF answers = {} THEN acked[id] ELSE requests'[Max(answers)].serial

Legal(r, before) ==
    CASE r.req = "new" -> ~Exists(r.object, before)
      [] r.req = "destroy" ->
            /\ Exists(r.object, before)
            /\ \A dependent \in Dependents(r.object) : ~Exists(dependent, before)
      [] r.req = "ack_configure" ->
            /\ r.serial \in DOMAIN sent
            /\ sent[r.serial].frame = r.frame
            /\ r.serial > Acked(r.frame, before)
      [] OTHER -> TRUE

Receive ==
    LET n == Len(requests')
        made == {requests'[i].object : i \in {i \in 1 .. n : requests'[i].req = "new"}}
    IN  /\ objects' = {object \in objects \cup made : Exists(object, n)}
        /\ acked' = [id \in FrameIds |-> Acked(id, n)]
        /\ protocol_ok' = (protocol_ok /\ \A i \in 1 .. n : Legal(requests'[i], i - 1))

(***************************************************************************)
(* The compositor sends to toplevels that were committed and not destroyed.*)
(***************************************************************************)
Addressable(id) == id \in live /\ frames[id].mapped

Message(type, id, value) == [type |-> type, frame |-> id, value |-> value]
Part(type, id, option) == IF option = None THEN <<>> ELSE <<Message(type, id, option[1])>>

SendConfigure(id, mode, toplevel, bounds) ==
    /\ Addressable(id)
    /\ Len(sent) < MaxConfigures
    /\ mode # None => <<"xdg_toplevel_decoration", id>> \in objects
    /\ sent' = Append(sent, [frame |-> id, mode |-> mode, toplevel |-> toplevel])
    /\ wire' = wire \o Part("bounds", id, bounds) \o Part("mode", id, mode)
                    \o Part("toplevel", id, toplevel)
                    \o <<Message("configure", id, Len(sent) + 1)>>
    /\ UNCHANGED <<vars, acked, geometry, objects, protocol_ok>>

SendOther(id, message) ==
    /\ Addressable(id)
    /\ Len(wire) < MaxEvents
    /\ wire' = Append(wire, message)
    /\ UNCHANGED <<vars, sent, acked, geometry, objects, protocol_ok>>

ToplevelStates == [size : WindowSizes \cup {<<0, 0>>}, states : StateSets]

Send(id) ==
    \/ \E mode \in Option(Modes), toplevel \in Option(ToplevelStates),
          bounds \in Option(BoundSizes) : SendConfigure(id, mode, toplevel, bounds)
    \/ \E wm \in WmCapSets : SendOther(id, Message("wm", id, wm))
    \/ "close" \in AppCalls /\ SendOther(id, Message("close", id, {}))

(***************************************************************************)
(* Context::dispatch hands the events to the handlers in order.            *)
(***************************************************************************)
Deliver ==
    /\ wire # <<>>
    /\ wire' = Tail(wire)
    /\ LET m == Head(wire) IN
       \/ m.type = "configure" /\ XdgSurfaceConfigure(m.frame, m.value)
       \/ m.type = "toplevel" /\ ToplevelConfigure(m.frame, m.value.size, m.value.states)
       \/ m.type = "mode" /\ DecorationConfigure(m.frame, m.value)
       \/ m.type = "bounds" /\ ToplevelConfigureBounds(m.frame, m.value)
       \/ m.type = "wm" /\ ToplevelWmCapabilities(m.frame, m.value)
       \/ m.type = "close" /\ ToplevelClose(m.frame)
    /\ Receive
    /\ UNCHANGED <<sent, geometry>>

(***************************************************************************)
(* The application.  It commits its surface right after Frame::commit; a   *)
(* frame whose geometry was never set has the size of its surface.         *)
(***************************************************************************)
CommitsSurface(id) ==
    geometry' = [geometry EXCEPT ![id] =
        Some(GeometryOf(frames'[id].content_size, id \in DOMAIN csd))]

CommitFrame(id) ==
    /\ \E painted \in Paints : CommitConfigured(id, painted)
    /\ Fits'
    /\ CommitsSurface(id)
    /\ Receive
    /\ UNCHANGED <<wire, sent>>

(* An application may resize by itself once it has answered a configure. *)
ResizeFrame(id) ==
    /\ acked[id] > 0
    /\ \E painted \in Paints : CommitResized(id, painted)
    /\ Fits'
    /\ CommitsSurface(id)
    /\ Receive
    /\ UNCHANGED <<wire, sent>>

Poll == PollEvent /\ Receive /\ UNCHANGED <<wire, sent, geometry>>

OtherCall ==
    /\ \/ CreateFrame
       \/ \E surface \in AppSurfaces : Decorate(surface)
       \/ \E id \in live : DestroyFrame(id) \/ Map(id)
       \/ \E id \in live, caps \in CapSets :
              SetCapabilities(id, caps) \/ UnsetCapabilities(id, caps)
       \/ \E id \in live, visible \in BOOLEAN : SetVisibility(id, visible)
       \/ \E force \in BOOLEAN : ForceClientSideDecorations(force)
       \/ \E id \in live, name \in {"set_maximized", "set_title"} : ToplevelRequest(id, name)
       \/ \E id \in live, parent \in Option(Allocated) : SetParent(id, parent)
    /\ Receive
    /\ UNCHANGED <<wire, sent, geometry>>

SessionInit ==
    /\ Init
    /\ wire = <<>> /\ sent = <<>>
    /\ acked = [id \in FrameIds |-> 0]
    /\ geometry = [id \in FrameIds |-> None]
    /\ objects = {<<"wl_surface", surface>> : surface \in AppSurfaces}
    /\ protocol_ok = TRUE

SessionNext ==
    \/ \E id \in live : Send(id)
    \/ Deliver
    \/ Poll
    \/ \E id \in live : CommitFrame(id) \/ ResizeFrame(id)
    \/ OtherCall

(***************************************************************************)
(* The application runs a loop: it dispatches, polls, and answers every    *)
(* configuration it holds.  Nothing else is fair: it may never create a    *)
(* frame, and the compositor may never configure one.                      *)
(***************************************************************************)
Loop ==
    /\ WF_session_vars(Deliver)
    /\ WF_session_vars(Poll)
    /\ \A id \in FrameIds : WF_session_vars(id \in live /\ CommitFrame(id))

SessionSpec == SessionInit /\ [][SessionNext]_session_vars /\ Loop

-----------------------------------------------------------------------------
(***************************************************************************)
(* Correctness.                                                            *)
(***************************************************************************)
(* No request of libdecor breaks the protocol: objects die after what was  *)
(* made from them and only once, and no configure is acknowledged that was *)
(* not sent to the frame or that is already settled.                       *)
NoProtocolError == protocol_ok

(***************************************************************************)
(* No frame leaks a protocol object and none loses one it needs: what      *)
(* exists is what the live frames are made of, and the application's       *)
(* surfaces (decorate_inner, Decoration::new, destroy_frame).              *)
(***************************************************************************)
FrameObjects(id) ==
    {<<"xdg_surface", id>>, <<"xdg_toplevel", id>>, <<"wl_surface", frames[id].surface>>}
    \cup (IF frames[id].decoration THEN {<<"xdg_toplevel_decoration", id>>} ELSE {})
    \cup (IF id \in DOMAIN csd
          THEN {<<"subsurface", s>> : s \in CsdSurfaces(id) \cup {OwnSurface(id, "Shadow")}}
          ELSE {})

ObjectsExact ==
    objects = (UNION {FrameObjects(id) : id \in live})
                \cup {<<"wl_surface", surface>> : surface \in AppSurfaces}

(***************************************************************************)
(* Everything sent is dispatched, polled and answered.                     *)
(***************************************************************************)
Quiet == wire = <<>> /\ events = <<>> /\ held = <<>>

LastBatch(id) ==
    LET batches == {n \in DOMAIN sent : sent[n].frame = id}
    IN  CHOOSE n \in batches : \A m \in batches : m <= n

ModeOf(id) ==
    LET batches == {n \in DOMAIN sent : sent[n].frame = id /\ sent[n].mode # None}
    IN  IF batches = {} THEN None
        ELSE sent[CHOOSE n \in batches : \A m \in batches : m <= n].mode

(* A size that is not up to the client. *)
Named(size) == size[1] > 0 /\ size[2] > 0

(***************************************************************************)
(* Once everything is answered, a frame whose last configure named a size, *)
(* and that the application did not resize since, has that window          *)
(* geometry; with decorations included or without, and however late they   *)
(* appeared (XdgSurface::Configure, ensure_csd, Frame::commit).  Only a    *)
(* window too small for its decorations is larger than it was asked to be. *)
(***************************************************************************)
Sized(n) == sent[n].toplevel # None /\ Named(sent[n].toplevel[1].size)
HasRoom(size) == size[1] > 2 * BORDER_WIDTH /\ size[2] > TITLEBAR_HEIGHT + 2 * BORDER_WIDTH

SettledGeometry ==
    \A id \in live :
        Quiet /\ acked[id] > 0 /\ "resize" \notin AppCalls /\ Sized(LastBatch(id)) =>
            LET size == sent[LastBatch(id)].toplevel[1].size IN
            /\ HasRoom(size) => geometry[id] = Some(size)
            /\ geometry[id][1][1] >= size[1] /\ geometry[id][1][2] >= size[2]

(***************************************************************************)
(* Once everything is answered, a window the compositor does not decorate  *)
(* is decorated by libdecor: the titlebar exists and, unless the content   *)
(* the application committed is empty, is as wide as the content and shows *)
(* whether the window is active (ensure_csd, Frame::commit).               *)
(***************************************************************************)
HasContent(size) == size[1] > 0 /\ size[2] > 0

Shown(id) ==
    /\ csd[id].drawn # None
    /\ csd[id].drawn[1].width = frames[id].content_size[1]
    /\ csd[id].drawn[1].active <=> "ACTIVE" \in frames[id].window_state

SettledDecoration ==
    \A id \in live :
        /\ Quiet /\ acked[id] > 0 /\ Subcompositor /\ ~ShmMayFail
        /\ ModeOf(id) = Some("ClientSide") \/ ~DecorationMgr
        => /\ id \in DOMAIN csd
           /\ HasContent(frames[id].content_size) => Shown(id)

(***************************************************************************)
(* A configuration carries the state of its own batch, whatever was        *)
(* queued, skipped or accumulated before it (PendingConfigure).            *)
(***************************************************************************)
Carries(cfg, toplevel) ==
    /\ cfg.window_state = IF toplevel = None THEN None ELSE Some(toplevel[1].states)
    /\ (cfg.size = None) = (toplevel = None \/ ~Named(toplevel[1].size))
    /\ cfg.size # None =>
          \E has_csd \in BOOLEAN : cfg.size[1] = ContentOf(toplevel[1].size, has_csd)

ConfigurationsFaithful ==
    /\ \A id \in DOMAIN held :
          LET batch == sent[held[id].serial] IN
          Carries(held[id], batch.toplevel) /\ batch.frame = id
    /\ \A i \in DOMAIN events : events[i].type = "Configure" =>
          LET batch == sent[events[i].configuration.serial] IN
          Carries(events[i].configuration, batch.toplevel) /\ batch.frame = events[i].frame

(* The session answers configures as xdg-shell asks. *)
Outstanding(id) ==
    IF id \in live THEN {n \in DOMAIN sent : sent[n].frame = id /\ n > acked[id]} ELSE {}

H == INSTANCE Handshake WITH
        Frames <- FrameIds, last <- Len(sent),
        outstanding <- [id \in FrameIds |-> Outstanding(id)]
Handshake == H!Spec
=============================================================================
