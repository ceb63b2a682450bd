--------------------------- MODULE LibdecorProofs ---------------------------
(***************************************************************************)
(* Theorems about Libdecor, for every value of its constants.              *)
(***************************************************************************)
EXTENDS Libdecor, TLAPS

-----------------------------------------------------------------------------
(***************************************************************************)
(* Options.                                                                *)
(***************************************************************************)
(* Some(v) is an option of v's type. *)
LEMMA SomeType ==
    ASSUME NEW S, NEW v \in S
    PROVE  Some(v) \in Option(S) /\ Some(v) # None /\ Some(v)[1] = v
BY DEF Some, Option, None

(* None is an option of every type. *)
LEMMA NoneType == ASSUME NEW S PROVE None \in Option(S)
BY DEF Option

(* What an option holds has its type. *)
LEMMA OptionValue ==
    ASSUME NEW S, NEW o \in Option(S), o # None
    PROVE  o[1] \in S
BY DEF Option, None

-----------------------------------------------------------------------------
(***************************************************************************)
(* Decorations.                                                            *)
(***************************************************************************)
(* A hit is one of the buttons shown, or none. *)
LEMMA HitType ==
    ASSUME NEW buttons \in SUBSET ButtonKinds, NEW width, NEW x, NEW y
    PROVE  hit_test(buttons, width, x, y) \in Option(ButtonKinds)
<1> DEFINE hit == HitButtons(buttons, width, x, y)
<1>1. hit \subseteq ButtonKinds
  BY DEF HitButtons
<1>2. CASE hit = {}
  BY <1>2, NoneType DEF hit_test
<1>3. CASE hit # {}
  <2>1. (CHOOSE kind \in hit : TRUE) \in ButtonKinds
    BY <1>1, <1>3
  <2>2. hit_test(buttons, width, x, y) = Some(CHOOSE kind \in hit : TRUE)
    BY <1>3 DEF hit_test
  <2> QED
    BY <2>1, <2>2, SomeType
<1> QED
  BY <1>2, <1>3

(* The buttons a frame shows are kinds of buttons (compute_buttons). *)
LEMMA ButtonsType ==
    ASSUME NEW caps, NEW wm, NEW wm_known
    PROVE  compute_buttons(caps, wm, wm_known) \in SUBSET ButtonKinds
BY DEF compute_buttons

(* Decoration::new makes a decoration. *)
LEMMA NewDecorationType == NewDecoration \in Decoration
BY DEF NewDecoration, Decoration, Option, ButtonKinds

(* Painting a decoration keeps its type. *)
LEMMA RenderType ==
    ASSUME NEW d \in Decoration, NEW size \in Size, NEW painted
    PROVE  Render(d, size, painted) \in Decoration
<1> DEFINE sized == [d EXCEPT !.width = size[1]]
<1>1. size[1] \in Int
  BY DEF Size
<1>2. sized \in Decoration
  BY <1>1 DEF Decoration
<1>3. Picture(sized) \in PictureType
  BY <1>2 DEF Picture, Decoration, PictureType
<1>4. Some(Picture(sized)) \in Option(PictureType)
  BY <1>3, SomeType
<1>5. [sized EXCEPT !.drawn = Some(Picture(sized))] \in Decoration
  BY <1>2, <1>4 DEF Decoration
<1> QED
  BY <1>5 DEF Render

(* The content size of a configured window, whatever was configured. *)
LEMMA ContentType ==
    ASSUME NEW size \in Size, NEW has_csd
    PROVE  ContentOf(size, has_csd) \in Size
<1>1. size[1] \in Int /\ size[2] \in Int
  BY DEF Size
<1>2. /\ decoration_overhead(has_csd).top \in Int
      /\ decoration_overhead(has_csd).bottom \in Int
      /\ decoration_overhead(has_csd).left \in Int
      /\ decoration_overhead(has_csd).right \in Int
  BY DEF decoration_overhead, TITLEBAR_HEIGHT, BORDER_WIDTH
<1> QED
  BY <1>1, <1>2 DEF ContentOf, AtLeastOne, Size

-----------------------------------------------------------------------------
(***************************************************************************)
(* Type correctness.  TypeOK is not inductive by itself: an entering       *)
(* pointer gets a focus, and must have been created for that.              *)
(***************************************************************************)
PointersExist == \A s \in Seats : seats[s] # NoPointer => seats[s] \in pointers

TypeInv == TypeOK /\ PointersExist

(* A surface of libdecor's own is a surface. *)
LEMMA SurfaceType ==
    ASSUME NEW id \in Nat, NEW part \in SurfaceParts
    PROVE  OwnSurface(id, part) \in Surfaces /\ OwnSurface(id, part)[2] = part
BY DEF OwnSurface, Surfaces, SurfaceParts

(* The five input surfaces of a decoration, and what they are registered as. *)
LEMMA TargetsType ==
    ASSUME NEW id \in Nat
    PROVE  LET targets == [s \in CsdSurfaces(id) |-> Target(id, s[2])] IN
           /\ DOMAIN targets = CsdSurfaces(id)
           /\ CsdSurfaces(id) \subseteq Surfaces
           /\ targets \in [CsdSurfaces(id) -> TargetType]
<1>1. Edges \cup {"Titlebar"} \subseteq SurfaceParts \cap DecorationParts
  BY DEF SurfaceParts, DecorationParts
<1>2. ASSUME NEW s \in CsdSurfaces(id)
      PROVE  s \in Surfaces /\ Target(id, s[2]) \in TargetType
  <2>1. PICK part \in Edges \cup {"Titlebar"} : s = OwnSurface(id, part)
    BY DEF CsdSurfaces
  <2>2. part \in SurfaceParts /\ part \in DecorationParts
    BY <1>1, <2>1
  <2>3. s \in Surfaces /\ s[2] = part
    BY <2>1, <2>2, SurfaceType
  <2> QED
    BY <2>2, <2>3 DEF Target, TargetType
<1>3. CsdSurfaces(id) \subseteq Surfaces
  BY <1>2
<1>4. [s \in CsdSurfaces(id) |-> Target(id, s[2])] \in [CsdSurfaces(id) -> TargetType]
  BY <1>2
<1> QED
  BY <1>3, <1>4

(* ensure_csd keeps the typed state typed, whether it decorates or not. *)
LEMMA EnsureCsdType ==
    ASSUME TypeOK, NEW id, NEW mode, ensure_csd(id, mode)
    PROVE  /\ DOMAIN csd' \subseteq live
           /\ csd' \in [DOMAIN csd' -> Decoration]
           /\ DOMAIN surface_targets' \subseteq Surfaces
           /\ surface_targets' \in [DOMAIN surface_targets' -> TargetType]
<1>1. /\ DOMAIN csd \subseteq live /\ csd \in [DOMAIN csd -> Decoration]
      /\ DOMAIN surface_targets \subseteq Surfaces
      /\ surface_targets \in [DOMAIN surface_targets -> TargetType]
  BY DEF TypeOK
<1>2. CASE NeedsCsd(id, mode) /\ Subcompositor
  <2> DEFINE targets == [s \in CsdSurfaces(id) |-> Target(id, s[2])]
  <2>1. id \in live /\ id \in Nat
    BY <1>2 DEF NeedsCsd, TypeOK, Allocated
  <2>2. csd' = Put(csd, id, NewDecoration) /\ surface_targets' = Merge(surface_targets, targets)
    BY <1>2 DEF ensure_csd, register_surfaces
  <2>3. /\ DOMAIN csd' = DOMAIN csd \cup {id}
        /\ csd' \in [DOMAIN csd \cup {id} -> Decoration]
    BY <1>1, <2>2, NewDecorationType DEF Put
  <2>4. /\ DOMAIN targets = CsdSurfaces(id)
        /\ CsdSurfaces(id) \subseteq Surfaces
        /\ targets \in [DOMAIN targets -> TargetType]
    BY <2>1, TargetsType
  <2> HIDE DEF targets
  <2>5. /\ DOMAIN surface_targets' = DOMAIN surface_targets \cup DOMAIN targets
        /\ surface_targets' \in [DOMAIN surface_targets \cup DOMAIN targets -> TargetType]
    BY <1>1, <2>2, <2>4 DEF Merge
  <2> QED
    BY <1>1, <2>1, <2>3, <2>4, <2>5
<1>3. CASE ~(NeedsCsd(id, mode) /\ Subcompositor)
  BY <1>1, <1>3 DEF ensure_csd
<1> QED
  BY <1>2, <1>3

(* A repaint after the pointer moved over a titlebar. *)
LEMMA HoverType ==
    ASSUME TypeOK, NEW id \in Nat, NEW x, NEW y, NEW painted
    PROVE  /\ DOMAIN HoverAt(id, x, y, painted) = DOMAIN csd
           /\ HoverAt(id, x, y, painted) \in [DOMAIN csd -> Decoration]
<1>1. csd \in [DOMAIN csd -> Decoration]
  BY DEF TypeOK
<1>2. ContentSize(id) \in Size
  BY DEF TypeOK, ContentSize, Slot, Size
<1>3. CASE id \in DOMAIN csd
  <2>1. csd[id] \in Decoration
    BY <1>1, <1>3
  <2>2. csd[id].buttons \in SUBSET ButtonKinds
    BY <2>1 DEF Decoration
  <2>3. HitAt(id, x, y) \in Option(ButtonKinds)
    BY <2>2, HitType DEF HitAt
  <2>4. [csd[id] EXCEPT !.hover = HitAt(id, x, y)] \in Decoration
    BY <2>1, <2>3 DEF Decoration
  <2>5. Render([csd[id] EXCEPT !.hover = HitAt(id, x, y)], ContentSize(id), painted) \in Decoration
    BY <1>2, <2>4, RenderType
  <2> QED
    BY <1>1, <1>3, <2>5 DEF HoverAt
<1> QED
  BY <1>1, <1>3 DEF HoverAt

(* Flushing the pending state of a slot leaves slots. *)
LEMMA FramesPending ==
    ASSUME TypeInv, NEW id, NEW pending, id \in live => pending \in Pending
    PROVE  LET changed == IF id \in live THEN [frames EXCEPT ![id].pending = pending]
                                          ELSE frames
           IN  DOMAIN changed = live /\ changed \in [live -> Slot]
<1>1. frames \in [live -> Slot] /\ (id \in live => frames[id] \in Slot)
  BY DEF TypeInv, TypeOK
<1>2. id \in live => [frames[id] EXCEPT !.pending = pending] \in Slot
  BY <1>1 DEF Slot
<1> QED
  BY <1>1, <1>2

(* The events of the toplevel only touch a live frame's slot and the queue. *)
LEMMA ToplevelType ==
    ASSUME TypeInv, NEW id \in Allocated
    PROVE  /\ \A size \in WindowSizes \cup {<<0, 0>>}, states \in StateSets :
                  ToplevelConfigure(id, size, states) => TypeInv'
           /\ ToplevelClose(id) => TypeInv'
           /\ \A size \in BoundSizes : ToplevelConfigureBounds(id, size) => TypeInv'
           /\ \A wm \in WmCapSets : ToplevelWmCapabilities(id, wm) => TypeInv'
<1>1. id \in live => frames[id] \in Slot /\ frames[id].pending \in Pending
  BY DEF TypeInv, TypeOK, Slot
<1>2. ASSUME NEW size \in WindowSizes \cup {<<0, 0>>}, NEW states \in StateSets,
             ToplevelConfigure(id, size, states)
      PROVE  TypeInv'
  <2> DEFINE sized == IF size[1] > 0 /\ size[2] > 0 THEN Some(size) ELSE None
             pending == [frames[id].pending EXCEPT !.size = sized,
                                                   !.window_state = Some(states)]
  <2>1. size \in Size /\ states \in SUBSET {"ACTIVE", "MAXIMIZED"}
    BY ConstantAssumption DEF Size
  <2>2. sized \in Option(Size)
    BY <2>1, SomeType, NoneType
  <2>3. Some(states) \in Option(SUBSET {"ACTIVE", "MAXIMIZED"})
    BY <2>1, SomeType
  <2>4. frames' = IF id \in live THEN [frames EXCEPT ![id].pending = pending] ELSE frames
    BY <1>2 DEF ToplevelConfigure
  <2> HIDE DEF sized
  <2>5. id \in live => pending \in Pending
    BY <1>1, <2>2, <2>3 DEF Pending
  <2> HIDE DEF pending
  <2>6. DOMAIN frames' = live /\ frames' \in [live -> Slot]
    BY <2>4, <2>5, FramesPending
  <2> QED
    BY <1>2, <2>6 DEF ToplevelConfigure, TypeInv, TypeOK, PointersExist, live, Allocated
<1>3. ASSUME ToplevelClose(id) PROVE TypeInv'
  <2>1. events' \in Seq(EventType)
    BY <1>3 DEF ToplevelClose, TypeInv, TypeOK, EventType, Allocated
  <2> QED
    BY <1>3, <2>1 DEF ToplevelClose, TypeInv, TypeOK, PointersExist, live, Allocated
<1>4. ASSUME NEW size \in BoundSizes, ToplevelConfigureBounds(id, size) PROVE TypeInv'
  <2>1. size \in Size /\ Some(size) \in Option(Size)
    BY ConstantAssumption, SomeType DEF Size
  <2> DEFINE pending == [frames[id].pending EXCEPT !.bounds = Some(size)]
  <2>2. id \in live => pending \in Pending
    BY <1>1, <2>1 DEF Pending
  <2>3. frames' = IF id \in live THEN [frames EXCEPT ![id].pending = pending] ELSE frames
    BY <1>4 DEF ToplevelConfigureBounds
  <2> HIDE DEF pending
  <2>4. DOMAIN frames' = live /\ frames' \in [live -> Slot]
    BY <2>2, <2>3, FramesPending
  <2>5. [type |-> "Bounds", frame |-> id, size |-> size] \in EventType
    BY <2>1 DEF EventType, TypeInv, TypeOK, Allocated
  <2>6. events' \in Seq(EventType)
    <3>1. events \in Seq(EventType)
      BY DEF TypeInv, TypeOK
    <3>2. Append(events, [type |-> "Bounds", frame |-> id, size |-> size]) \in Seq(EventType)
      BY <2>5, <3>1
    <3> QED
      BY <1>4, <3>1, <3>2 DEF ToplevelConfigureBounds
  <2> QED
    BY <1>4, <2>4, <2>6
       DEF ToplevelConfigureBounds, TypeInv, TypeOK, PointersExist, live, Allocated
<1>5. ASSUME NEW wm \in WmCapSets, ToplevelWmCapabilities(id, wm) PROVE TypeInv'
  <2>1. wm \in SUBSET {"MAXIMIZE", "MINIMIZE"}
    BY ConstantAssumption
  <2>2. frames' \in [live -> Slot]
    BY <1>1, <1>5, <2>1 DEF ToplevelWmCapabilities, TypeInv, TypeOK, Slot
  <2> QED
    BY <1>5, <2>2 DEF ToplevelWmCapabilities, TypeInv, TypeOK, PointersExist, live, Allocated
<1> QED
  BY <1>2, <1>3, <1>4, <1>5

(* The configuration queued by xdg_surface.configure. *)
LEMMA ConfigurationType ==
    ASSUME NEW serial \in Serials, NEW pending \in Pending, NEW has_csd
    PROVE  Configuration(serial, pending, has_csd) \in Configurations
<1> DEFINE size == IF pending.size = None THEN None
                   ELSE Some(ContentOf(pending.size[1], has_csd))
<1>1. /\ pending.size \in Option(Size) /\ pending.bounds \in Option(Size)
      /\ pending.window_state \in Option(SUBSET {"ACTIVE", "MAXIMIZED"})
  BY DEF Pending
<1>2. size \in Option(Size)
  BY <1>1, OptionValue, ContentType, SomeType, NoneType
<1>3. Configuration(serial, pending, has_csd) =
        [serial |-> serial, size |-> size, window_state |-> pending.window_state,
         bounds |-> pending.bounds]
  BY DEF Configuration
<1> HIDE DEF size
<1> QED
  BY <1>1, <1>2, <1>3 DEF Configurations

(* xdg_surface.configure keeps the state typed. *)
LEMMA XdgSurfaceConfigureType ==
    ASSUME TypeInv, NEW id \in Allocated, NEW serial \in Serials,
           XdgSurfaceConfigure(id, serial)
    PROVE  TypeInv'
<1> DEFINE mode == IF id \in live THEN frames[id].decoration_mode ELSE None
           event == [type |-> "Configure", frame |-> id, configuration |->
                        Configuration(serial, frames[id].pending, id \in DOMAIN csd')]
<1>1. TypeOK /\ ensure_csd(id, mode) /\ id \in Nat
  BY DEF XdgSurfaceConfigure, TypeInv, TypeOK, Allocated
<1> HIDE DEF mode
<1>2. /\ DOMAIN csd' \subseteq live /\ csd' \in [DOMAIN csd' -> Decoration]
      /\ DOMAIN surface_targets' \subseteq Surfaces
      /\ surface_targets' \in [DOMAIN surface_targets' -> TargetType]
  BY <1>1, EnsureCsdType
<1>3. events \in Seq(EventType) /\ frames \in [live -> Slot]
  BY DEF TypeInv, TypeOK
<1>4. CASE id \in live
  <2>1. frames[id].pending \in Pending
    BY <1>3, <1>4 DEF Slot
  <2>2. NoPending \in Pending
    BY NoneType DEF NoPending, Pending
  <2>3. frames' = IF id \in live THEN [frames EXCEPT ![id].pending = NoPending] ELSE frames
    BY <1>4 DEF XdgSurfaceConfigure, TakePending
  <2>4. DOMAIN frames' = live /\ frames' \in [live -> Slot]
    BY <2>2, <2>3, FramesPending
  <2>5. event \in EventType
    BY <1>1, <2>1, ConfigurationType DEF EventType
  <2>6. events' = Append(events, event)
    BY <1>4 DEF XdgSurfaceConfigure
  <2> HIDE DEF event
  <2>7. events' \in Seq(EventType)
    BY <1>3, <2>5, <2>6
  <2> QED
    BY <1>2, <2>4, <2>7 DEF XdgSurfaceConfigure, TypeInv, TypeOK, PointersExist, live, Allocated
<1>5. CASE id \notin live
  BY <1>2, <1>5 DEF XdgSurfaceConfigure, TypeInv, TypeOK, PointersExist, live, Allocated
<1> QED
  BY <1>4, <1>5

(* zxdg_toplevel_decoration_v1.configure keeps the state typed. *)
LEMMA DecorationConfigureType ==
    ASSUME TypeInv, NEW id \in Allocated, NEW mode \in Modes, DecorationConfigure(id, mode)
    PROVE  TypeInv'
<1>1. TypeOK /\ ensure_csd(id, Some(mode))
  BY DEF DecorationConfigure, TypeInv
<1>2. /\ DOMAIN csd' \subseteq live /\ csd' \in [DOMAIN csd' -> Decoration]
      /\ DOMAIN surface_targets' \subseteq Surfaces
      /\ surface_targets' \in [DOMAIN surface_targets' -> TargetType]
  BY <1>1, EnsureCsdType
<1>3. Some(mode) \in Option({"ClientSide", "ServerSide"})
  BY ConstantAssumption, SomeType
<1>4. ASSUME id \in live PROVE [frames[id] EXCEPT !.decoration_mode = Some(mode)] \in Slot
  <2>1. frames[id] \in Slot
    BY <1>4 DEF TypeInv, TypeOK
  <2> QED
    BY <1>3, <2>1 DEF Slot
<1>5. DOMAIN frames' = live /\ frames' \in [live -> Slot]
  <2>1. frames \in [live -> Slot]
    BY DEF TypeInv, TypeOK
  <2> QED
    BY <1>4, <2>1 DEF DecorationConfigure
<1> QED
  BY <1>2, <1>5 DEF DecorationConfigure, TypeInv, TypeOK, PointersExist, live, Allocated

(* wl_seat.capabilities keeps the state typed. *)
LEMMA SeatType ==
    ASSUME TypeInv, NEW seat \in Seats
    PROVE  /\ \A p \in Pointers : SeatGainsPointer(seat, p) => TypeInv'
           /\ SeatLosesPointer(seat) => TypeInv'
<1>1. ASSUME NEW p \in Pointers, SeatGainsPointer(seat, p) PROVE TypeInv'
  BY <1>1, ConstantAssumption
     DEF SeatGainsPointer, TypeInv, TypeOK, PointersExist, live, Allocated
<1>2. ASSUME SeatLosesPointer(seat) PROVE TypeInv'
  BY <1>2 DEF SeatLosesPointer, TypeInv, TypeOK, PointersExist, live, Allocated
<1> QED
  BY <1>1, <1>2

(* What a wl_pointer event may name is a surface. *)
LEMMA NameableType == TypeOK => NameableSurfaces \subseteq Surfaces
<1> SUFFICES ASSUME TypeOK PROVE NameableSurfaces \subseteq Surfaces
  OBVIOUS
<1>1. ASSUME NEW id \in Allocated, NEW part \in DecorationParts
      PROVE  OwnSurface(id, part) \in Surfaces
  BY SurfaceType DEF TypeOK, Allocated, SurfaceParts
<1>2. AppSurfaces \cup DOMAIN surface_targets \subseteq Surfaces
  BY DEF TypeOK, Surfaces
<1> QED
  BY <1>1, <1>2 DEF NameableSurfaces

(* A pointer event changes the focuses, the decorations, what the compositor  *)
(* knows and the queue: typed parts make a typed state.                       *)
LEMMA PointerParts ==
    ASSUME TypeInv,
           UNCHANGED <<next_id, frames, surface_targets, seats, force_csd, held, pointers>>,
           DOMAIN pointer_focus' \subseteq pointers,
           pointer_focus' \in [DOMAIN pointer_focus' -> PointerFocus],
           DOMAIN csd' = DOMAIN csd, csd' \in [DOMAIN csd -> Decoration],
           events' \in Seq(EventType),
           DOMAIN over' \subseteq pointers,
           over' \in [DOMAIN over' -> [surface : Surfaces, serial : Serials]]
    PROVE  TypeInv'
BY DEF TypeInv, TypeOK, PointersExist, live, Allocated

(* wl_pointer.enter keeps the state typed. *)
LEMMA PointerEnterType ==
    ASSUME TypeInv, NEW p \in Pointers, NEW s \in NameableSurfaces, NEW at \in Positions,
           NEW serial \in Serials, NEW painted, PointerEnter(p, s, at, serial, painted)
    PROVE  TypeInv'
<1>1. p \in pointers
  BY ConstantAssumption DEF PointerEnter, SeatOf, TypeInv, PointersExist
<1>2. s \in Surfaces /\ at \in Size
  BY NameableType, ConstantAssumption DEF TypeInv, Size
<1>3. /\ DOMAIN over \subseteq pointers
      /\ over \in [DOMAIN over -> [surface : Surfaces, serial : Serials]]
      /\ DOMAIN pointer_focus \subseteq pointers
      /\ pointer_focus \in [DOMAIN pointer_focus -> PointerFocus]
      /\ csd \in [DOMAIN csd -> Decoration]
      /\ events \in Seq(EventType)
      /\ TypeOK
  BY DEF TypeInv, TypeOK
<1>4. /\ DOMAIN over' \subseteq pointers
      /\ over' \in [DOMAIN over' -> [surface : Surfaces, serial : Serials]]
  <2>1. over' = Put(over, p, [surface |-> s, serial |-> serial])
    BY DEF PointerEnter
  <2> QED
    BY <1>1, <1>2, <1>3, <2>1 DEF Put
<1>5. CASE s \in DOMAIN surface_targets
  <2> DEFINE target == surface_targets[s]
             focus == [target |-> target, surface |-> s, serial |-> serial,
                       at |-> at, button_down |-> FALSE]
  <2>1. target \in TargetType /\ target.frame \in Nat
    BY <1>5 DEF TypeInv, TypeOK, TargetType
  <2>2. focus \in PointerFocus
    BY <1>2, <2>1 DEF PointerFocus
  <2>3. pointer_focus' = Put(pointer_focus, p, focus)
    BY <1>5 DEF PointerEnter
  <2>4. \/ csd' = csd
        \/ csd' = HoverAt(target.frame, at[1], at[2], painted)
    BY <1>5 DEF PointerEnter
  <2> HIDE DEF focus, target
  <2>5. DOMAIN csd' = DOMAIN csd /\ csd' \in [DOMAIN csd -> Decoration]
    BY <1>3, <2>1, <2>4, HoverType
  <2>6. /\ DOMAIN pointer_focus' \subseteq pointers
        /\ pointer_focus' \in [DOMAIN pointer_focus' -> PointerFocus]
    BY <1>1, <1>3, <2>2, <2>3 DEF Put
  <2> QED
    BY <1>3, <1>4, <2>5, <2>6, PointerParts DEF PointerEnter
<1>6. CASE s \notin DOMAIN surface_targets
  BY <1>3, <1>4, <1>6, PointerParts DEF PointerEnter
<1> QED
  BY <1>5, <1>6

(* wl_pointer.leave keeps the state typed. *)
LEMMA PointerLeaveType ==
    ASSUME TypeInv, NEW p \in Pointers, NEW painted, PointerLeave(p, painted)
    PROVE  TypeInv'
<1>1. /\ DOMAIN over \subseteq pointers
      /\ over \in [DOMAIN over -> [surface : Surfaces, serial : Serials]]
      /\ DOMAIN pointer_focus \subseteq pointers
      /\ pointer_focus \in [DOMAIN pointer_focus -> PointerFocus]
      /\ csd \in [DOMAIN csd -> Decoration]
      /\ events \in Seq(EventType)
      /\ frames \in [live -> Slot]
  BY DEF TypeInv, TypeOK
<1>2. /\ DOMAIN over' \subseteq pointers
      /\ over' \in [DOMAIN over' -> [surface : Surfaces, serial : Serials]]
  BY <1>1 DEF PointerLeave, Without, Restrict
<1>3. /\ DOMAIN pointer_focus' \subseteq pointers
      /\ pointer_focus' \in [DOMAIN pointer_focus' -> PointerFocus]
  <2>1. pointer_focus' = Without(pointer_focus, {p}) \/ pointer_focus' = pointer_focus
    BY DEF PointerLeave
  <2> QED
    BY <1>1, <2>1 DEF Without, Restrict
<1>4. DOMAIN csd' = DOMAIN csd /\ csd' \in [DOMAIN csd -> Decoration]
  <2>1. ASSUME NEW id \in DOMAIN csd
        PROVE  Render(Left(csd[id]), ContentSize(id), painted) \in Decoration
    <3>1. ContentSize(id) \in Size
      BY <1>1 DEF ContentSize, Slot, Size
    <3>2. csd[id] \in Decoration
      BY <1>1, <2>1
    <3>3. Left(csd[id]) \in Decoration
      BY <3>2, NoneType DEF Left, Decoration
    <3> QED
      BY <3>1, <3>3, RenderType
  <2>2. \/ csd' = csd
        \/ \E id \in DOMAIN csd :
              csd' = [csd EXCEPT ![id] = Render(Left(csd[id]), ContentSize(id), painted)]
    BY DEF PointerLeave
  <2> QED
    BY <1>1, <2>1, <2>2
<1> QED
  BY <1>1, <1>2, <1>3, <1>4, PointerParts DEF PointerLeave

(* wl_pointer.motion keeps the state typed. *)
LEMMA PointerMotionType ==
    ASSUME TypeInv, NEW p \in Pointers, NEW at \in Positions, NEW painted,
           PointerMotion(p, at, painted)
    PROVE  TypeInv'
<1>1. /\ DOMAIN over \subseteq pointers
      /\ over \in [DOMAIN over -> [surface : Surfaces, serial : Serials]]
      /\ DOMAIN pointer_focus \subseteq pointers
      /\ pointer_focus \in [DOMAIN pointer_focus -> PointerFocus]
      /\ csd \in [DOMAIN csd -> Decoration]
      /\ events \in Seq(EventType)
      /\ TypeOK
  BY DEF TypeInv, TypeOK
<1>2. at \in Size
  BY ConstantAssumption DEF Size
<1>3. CASE p \in DOMAIN pointer_focus
  <2>1. /\ pointer_focus[p] \in PointerFocus
        /\ pointer_focus[p].target.frame \in Nat
    BY <1>1, <1>3 DEF PointerFocus, TargetType
  <2>2. [pointer_focus[p] EXCEPT !.at = at] \in PointerFocus
    BY <1>2, <2>1 DEF PointerFocus
  <2>3. pointer_focus' = [pointer_focus EXCEPT ![p] = [pointer_focus[p] EXCEPT !.at = at]]
    BY <1>3 DEF PointerMotion
  <2>4. /\ DOMAIN pointer_focus' \subseteq pointers
        /\ pointer_focus' \in [DOMAIN pointer_focus' -> PointerFocus]
    BY <1>1, <2>2, <2>3
  <2>5. \/ csd' = csd
        \/ csd' = HoverAt(pointer_focus[p].target.frame, at[1], at[2], painted)
    BY <1>3 DEF PointerMotion
  <2>6. DOMAIN csd' = DOMAIN csd /\ csd' \in [DOMAIN csd -> Decoration]
    BY <1>1, <2>1, <2>5, HoverType
  <2> QED
    BY <1>1, <2>4, <2>6, PointerParts DEF PointerMotion
<1>4. CASE p \notin DOMAIN pointer_focus
  BY <1>1, <1>4, PointerParts DEF PointerMotion
<1> QED
  BY <1>3, <1>4

(* A click on a titlebar: the press or its end, and what a button does. *)
LEMMA TitlebarPressType ==
    ASSUME TypeInv, NEW id \in Nat, NEW p, NEW at, NEW serial, NEW painted,
           TitlebarPress(id, p, at, serial, painted)
    PROVE  DOMAIN csd' = DOMAIN csd /\ csd' \in [DOMAIN csd -> Decoration]
<1>1. csd \in [DOMAIN csd -> Decoration] /\ frames \in [live -> Slot]
  BY DEF TypeInv, TypeOK
<1>2. ContentSize(id) \in Size
  BY <1>1 DEF ContentSize, Slot, Size
<1>3. CASE id \in DOMAIN csd
  <2> DEFINE hit == HitAt(id, at[1], at[2])
             pressed == [csd[id] EXCEPT !.pressed = hit]
  <2>1. csd[id] \in Decoration /\ csd[id].buttons \in SUBSET ButtonKinds
    BY <1>1, <1>3 DEF Decoration
  <2>2. hit \in Option(ButtonKinds)
    BY <2>1, HitType DEF HitAt
  <2>3. csd' = [csd EXCEPT ![id] = Render(pressed, ContentSize(id), painted)]
    BY <1>3 DEF TitlebarPress
  <2> HIDE DEF hit
  <2>4. pressed \in Decoration
    BY <2>1, <2>2 DEF Decoration
  <2> HIDE DEF pressed
  <2>5. Render(pressed, ContentSize(id), painted) \in Decoration
    BY <1>2, <2>4, RenderType
  <2> QED
    BY <1>1, <2>3, <2>5
<1>4. CASE id \notin DOMAIN csd
  BY <1>1, <1>4 DEF TitlebarPress
<1> QED
  BY <1>3, <1>4

(* The end of a click keeps decorations and the event queue typed. *)
LEMMA TitlebarReleaseType ==
    ASSUME TypeInv, NEW id \in Nat, NEW at, NEW painted, TitlebarRelease(id, at, painted)
    PROVE  /\ DOMAIN csd' = DOMAIN csd /\ csd' \in [DOMAIN csd -> Decoration]
           /\ events' \in Seq(EventType)
<1>1. /\ csd \in [DOMAIN csd -> Decoration] /\ frames \in [live -> Slot]
      /\ events \in Seq(EventType)
  BY DEF TypeInv, TypeOK
<1>2. ContentSize(id) \in Size
  BY <1>1 DEF ContentSize, Slot, Size
<1>3. CASE id \in DOMAIN csd
  <2> DEFINE released == [csd[id] EXCEPT !.pressed = None]
  <2>1. csd[id] \in Decoration /\ csd[id].pressed \in Option(ButtonKinds)
    BY <1>1, <1>3 DEF Decoration
  <2>2. released \in Decoration
    BY <2>1, NoneType DEF Decoration
  <2>3. csd' = [csd EXCEPT ![id] = Render(released, ContentSize(id), painted)]
    BY <1>3 DEF TitlebarRelease
  <2> HIDE DEF released
  <2>4. Render(released, ContentSize(id), painted) \in Decoration
    BY <1>2, <2>2, RenderType
  <2>5. DOMAIN csd' = DOMAIN csd /\ csd' \in [DOMAIN csd -> Decoration]
    BY <1>1, <2>3, <2>4
  <2> DEFINE close == [type |-> "Close", frame |-> id]
  <2>6. close \in EventType
    BY DEF EventType
  <2> HIDE DEF close
  <2>7. events' = events \/ events' = Append(events, close)
    <3>1. events' = events \/ (csd[id].pressed # None /\ TitlebarAction(id, csd[id].pressed[1]))
      BY <1>3 DEF TitlebarRelease
    <3>2. CASE csd[id].pressed # None /\ TitlebarAction(id, csd[id].pressed[1])
      <4>1. csd[id].pressed[1] \in ButtonKinds
        BY <2>1, <3>2, OptionValue
      <4>2. CASE csd[id].pressed[1] = "Close"
        BY <3>2, <4>2 DEF TitlebarAction, close
      <4>3. CASE csd[id].pressed[1] = "Maximize"
        BY <3>2, <4>3 DEF TitlebarAction
      <4>4. CASE csd[id].pressed[1] = "Minimize"
        BY <3>2, <4>4 DEF TitlebarAction
      <4> QED
        BY <4>1, <4>2, <4>3, <4>4 DEF ButtonKinds
    <3> QED
      BY <3>1, <3>2
  <2>8. events' \in Seq(EventType)
    BY <1>1, <2>6, <2>7
  <2> QED
    BY <2>5, <2>8
<1>4. CASE id \notin DOMAIN csd
  BY <1>1, <1>4 DEF TitlebarRelease
<1> QED
  BY <1>3, <1>4

(* wl_pointer.button keeps the state typed. *)
LEMMA PointerButtonType ==
    ASSUME TypeInv, NEW p \in Pointers, NEW down \in BOOLEAN, NEW serial \in Serials,
           NEW painted, PointerButton(p, down, serial, painted)
    PROVE  TypeInv'
<1>1. /\ DOMAIN over \subseteq pointers
      /\ over \in [DOMAIN over -> [surface : Surfaces, serial : Serials]]
      /\ DOMAIN pointer_focus \subseteq pointers
      /\ pointer_focus \in [DOMAIN pointer_focus -> PointerFocus]
      /\ csd \in [DOMAIN csd -> Decoration]
      /\ events \in Seq(EventType)
  BY DEF TypeInv, TypeOK
<1>2. CASE p \in DOMAIN pointer_focus
  <2> DEFINE target == pointer_focus[p].target
             focus == [pointer_focus[p] EXCEPT !.serial = serial, !.button_down = down]
  <2>1. pointer_focus[p] \in PointerFocus /\ target.frame \in Nat
    BY <1>1, <1>2 DEF PointerFocus, TargetType
  <2>2. focus \in PointerFocus
    BY <2>1 DEF PointerFocus
  <2>3. pointer_focus' = [pointer_focus EXCEPT ![p] = focus]
    BY <1>2 DEF PointerButton
  <2> HIDE DEF focus
  <2>4. /\ DOMAIN pointer_focus' \subseteq pointers
        /\ pointer_focus' \in [DOMAIN pointer_focus' -> PointerFocus]
    BY <1>1, <2>2, <2>3
  <2>5. /\ DOMAIN csd' = DOMAIN csd /\ csd' \in [DOMAIN csd -> Decoration]
        /\ events' \in Seq(EventType)
    <3>1. CASE TitlebarPress(target.frame, p, pointer_focus[p].at, serial, painted)
      <4>1. events' = events
        BY <3>1 DEF TitlebarPress
      <4> QED
        BY <1>1, <2>1, <3>1, <4>1, TitlebarPressType
    <3>2. CASE TitlebarRelease(target.frame, pointer_focus[p].at, painted)
      BY <2>1, <3>2, TitlebarReleaseType
    <3>3. CASE UNCHANGED <<csd, events>>
      BY <1>1, <3>3
    <3> QED
      BY <1>2, <3>1, <3>2, <3>3 DEF PointerButton, BorderPress
  <2> QED
    BY <1>1, <2>4, <2>5, PointerParts DEF PointerButton
<1>3. CASE p \notin DOMAIN pointer_focus
  BY <1>1, <1>3, PointerParts DEF PointerButton
<1> QED
  BY <1>2, <1>3

(***************************************************************************)
(* Calls of the application.                                               *)
(***************************************************************************)
LEMMA PollType == ASSUME TypeInv, PollEvent PROVE TypeInv'
<1>1. events \in Seq(EventType) /\ events # <<>>
  BY DEF TypeInv, TypeOK, PollEvent
<1>2. Head(events) \in EventType /\ Tail(events) \in Seq(EventType)
  BY <1>1
<1>3. /\ DOMAIN held \subseteq live /\ held \in [DOMAIN held -> Configurations]
  BY DEF TypeInv, TypeOK
<1>4. /\ events' = Tail(events)
      /\ held' = IF Head(events).type = "Configure" /\ Head(events).frame \in live
                 THEN Put(held, Head(events).frame, Head(events).configuration)
                 ELSE held
  BY DEF PollEvent, Popped
<1>5. Head(events).type = "Configure" => Head(events).configuration \in Configurations
  BY <1>2 DEF EventType
<1>6. DOMAIN held' \subseteq live /\ held' \in [DOMAIN held' -> Configurations]
  BY <1>3, <1>4, <1>5 DEF Put
<1> QED
  BY <1>2, <1>4, <1>6 DEF PollEvent, TypeInv, TypeOK, PointersExist, live, Allocated

(* Context::decorate_inner keeps the state typed, on any surface. *)
LEMMA DecorateType ==
    ASSUME TypeInv, NEW surface \in Surfaces, NEW owns \in BOOLEAN, NEW creation,
           decorate_inner(surface, owns, creation)
    PROVE  TypeInv'
<1> DEFINE slot == NewSlot(surface, owns, ~force_csd /\ DecorationMgr)
<1>1. next_id \in Nat /\ frames \in [live -> Slot] /\ live \subseteq Allocated
  BY DEF TypeInv, TypeOK
<1>2. (~force_csd /\ DecorationMgr) \in BOOLEAN
  BY ConstantAssumption DEF TypeInv, TypeOK
<1>3. slot \in Slot
  <2>1. NoPending \in Pending
    BY NoneType DEF NoPending, Pending
  <2>2. None \in Option({"ClientSide", "ServerSide"})
    BY NoneType
  <2> QED
    BY <1>2, <2>1, <2>2 DEF NewSlot, Slot, Size
<1>4. frames' = Put(frames, next_id, slot) /\ next_id' = next_id + 1
  BY DEF decorate_inner
<1> HIDE DEF slot
<1>5. live' = live \cup {next_id} /\ frames' \in [live' -> Slot]
  BY <1>1, <1>3, <1>4 DEF Put, live
<1>6. live' \subseteq Allocated'
  BY <1>1, <1>4, <1>5 DEF Allocated
<1>7. Target(next_id, "Content") \in TargetType
  BY <1>1 DEF Target, TargetType, DecorationParts
<1>8. /\ DOMAIN surface_targets' \subseteq Surfaces
      /\ surface_targets' \in [DOMAIN surface_targets' -> TargetType]
  <2>1. /\ DOMAIN surface_targets \subseteq Surfaces
        /\ surface_targets \in [DOMAIN surface_targets -> TargetType]
    BY DEF TypeInv, TypeOK
  <2>2. surface_targets' = Put(surface_targets, surface, Target(next_id, "Content"))
    BY DEF decorate_inner
  <2> QED
    BY <1>7, <2>1, <2>2 DEF Put
<1> QED
  BY <1>1, <1>4, <1>5, <1>6, <1>8 DEF decorate_inner, TypeInv, TypeOK, PointersExist

(* Context::destroy_frame keeps the state typed. *)
LEMMA DestroyType ==
    ASSUME TypeInv, NEW id \in live, DestroyFrame(id)
    PROVE  TypeInv'
<1>1. /\ frames \in [live -> Slot] /\ live \subseteq Allocated
      /\ DOMAIN csd \subseteq live /\ csd \in [DOMAIN csd -> Decoration]
      /\ DOMAIN surface_targets \subseteq Surfaces
      /\ surface_targets \in [DOMAIN surface_targets -> TargetType]
      /\ DOMAIN pointer_focus \subseteq pointers
      /\ pointer_focus \in [DOMAIN pointer_focus -> PointerFocus]
      /\ DOMAIN held \subseteq live /\ held \in [DOMAIN held -> Configurations]
  BY DEF TypeInv, TypeOK
<1>2. live' = live \ {id} /\ frames' \in [live' -> Slot]
  BY <1>1 DEF DestroyFrame, Without, Restrict, live
<1>3. DOMAIN csd' \subseteq live' /\ csd' \in [DOMAIN csd' -> Decoration]
  BY <1>1, <1>2 DEF DestroyFrame, Without, Restrict
<1>4. DOMAIN held' \subseteq live' /\ held' \in [DOMAIN held' -> Configurations]
  BY <1>1, <1>2 DEF DestroyFrame, Without, Restrict
<1>5. PICK surfaces : unregister_surfaces(surfaces)
  BY DEF DestroyFrame
<1>6. /\ DOMAIN surface_targets' \subseteq Surfaces
      /\ surface_targets' \in [DOMAIN surface_targets' -> TargetType]
  BY <1>1, <1>5 DEF unregister_surfaces, Without, Restrict
<1>7. /\ DOMAIN pointer_focus' \subseteq pointers
      /\ pointer_focus' \in [DOMAIN pointer_focus' -> PointerFocus]
  BY <1>1, <1>5 DEF unregister_surfaces, Restrict
<1> QED
  BY <1>1, <1>2, <1>3, <1>4, <1>6, <1>7
     DEF DestroyFrame, TypeInv, TypeOK, PointersExist, Allocated

(* The calls that change one slot and nothing else of the typed state. *)
LEMMA SlotParts ==
    ASSUME TypeInv, NEW id \in live, NEW slot \in Slot,
           frames' = [frames EXCEPT ![id] = slot],
           UNCHANGED <<next_id, csd, surface_targets, pointer_focus, seats, force_csd, events,
                       held, pointers, over>>
    PROVE  TypeInv'
<1>1. live' = live /\ frames' \in [live -> Slot]
  BY DEF TypeInv, TypeOK, live
<1> QED
  BY <1>1 DEF TypeInv, TypeOK, PointersExist, Allocated

(* The calls on a frame other than commit and destroy keep the state typed. *)
LEMMA SlotCallType ==
    ASSUME TypeInv, NEW id \in live
    PROVE  /\ Map(id) => TypeInv'
           /\ \A caps \in CapSets : SetCapabilities(id, caps) => TypeInv'
           /\ \A caps \in CapSets : UnsetCapabilities(id, caps) => TypeInv'
           /\ \A visible \in BOOLEAN : SetVisibility(id, visible) => TypeInv'
<1>1. frames[id] \in Slot
  BY DEF TypeInv, TypeOK
<1>2. ASSUME Map(id) PROVE TypeInv'
  <2>1. [frames[id] EXCEPT !.mapped = TRUE] \in Slot
    BY <1>1 DEF Slot
  <2> QED
    BY <1>2, <2>1, SlotParts DEF Map
<1>3. ASSUME NEW caps \in CapSets, SetCapabilities(id, caps) PROVE TypeInv'
  <2>1. [frames[id] EXCEPT !.capabilities = @ \cup caps] \in Slot
    BY <1>1, ConstantAssumption DEF Slot
  <2> QED
    BY <1>3, <2>1, SlotParts DEF SetCapabilities
<1>4. ASSUME NEW caps \in CapSets, UnsetCapabilities(id, caps) PROVE TypeInv'
  <2>1. [frames[id] EXCEPT !.capabilities = @ \ caps] \in Slot
    BY <1>1 DEF Slot
  <2> QED
    BY <1>4, <2>1, SlotParts DEF UnsetCapabilities
<1>5. ASSUME NEW visible \in BOOLEAN, SetVisibility(id, visible) PROVE TypeInv'
  <2>1. [frames[id] EXCEPT !.visible = visible] \in Slot
    BY <1>1 DEF Slot
  <2> QED
    BY <1>5, <2>1, SlotParts DEF SetVisibility
<1> QED
  BY <1>2, <1>3, <1>4, <1>5

(* Frame::commit keeps the state typed, with a configuration or without. *)
LEMMA CommitType ==
    ASSUME TypeInv, NEW id \in live, NEW size \in Size, NEW cfg \in Option(Configurations),
           NEW painted, Commit(id, size, cfg, painted)
    PROVE  TypeInv'
<1> DEFINE window_state == IF cfg = None \/ cfg[1].window_state = None
                           THEN frames[id].window_state ELSE cfg[1].window_state[1]
           buttons == compute_buttons(frames[id].capabilities, frames[id].wm_capabilities,
                                      frames[id].wm_known)
           slot == [frames[id] EXCEPT !.window_state = window_state, !.content_size = size]
           active == "ACTIVE" \in window_state
<1>1. /\ frames \in [live -> Slot] /\ frames[id] \in Slot
      /\ csd \in [DOMAIN csd -> Decoration]
      /\ held \in [DOMAIN held -> Configurations] /\ DOMAIN held \subseteq live
  BY DEF TypeInv, TypeOK
<1>2. window_state \in SUBSET {"ACTIVE", "MAXIMIZED"}
  <2>1. frames[id].window_state \in SUBSET {"ACTIVE", "MAXIMIZED"}
    BY <1>1 DEF Slot
  <2>2. ASSUME cfg # None, cfg[1].window_state # None
        PROVE  cfg[1].window_state[1] \in SUBSET {"ACTIVE", "MAXIMIZED"}
    <3>1. cfg[1].window_state \in Option(SUBSET {"ACTIVE", "MAXIMIZED"})
      BY <2>2, OptionValue DEF Configurations
    <3> QED
      BY <2>2, <3>1, OptionValue
  <2> QED
    BY <2>1, <2>2
<1>3. frames' = [frames EXCEPT ![id] = slot]
  BY DEF Commit
<1>4. csd' = IF id \in DOMAIN csd
             THEN [csd EXCEPT ![id] =
                     Render([@ EXCEPT !.active = active, !.buttons = buttons], size, painted)]
             ELSE csd
  BY DEF Commit
<1>5. buttons \in SUBSET ButtonKinds
  BY ButtonsType
<1>a. active \in BOOLEAN
  OBVIOUS
<1> HIDE DEF window_state, buttons, active
<1>6. slot \in Slot
  BY <1>1, <1>2 DEF Slot
<1> HIDE DEF slot
<1>7. live' = live /\ frames' \in [live -> Slot]
  BY <1>1, <1>3, <1>6 DEF live
<1>8. DOMAIN csd' = DOMAIN csd /\ csd' \in [DOMAIN csd -> Decoration]
  <2>1. ASSUME id \in DOMAIN csd
        PROVE  Render([csd[id] EXCEPT !.active = active, !.buttons = buttons], size, painted)
                  \in Decoration
    <3>1. csd[id] \in Decoration
      BY <1>1, <2>1
    <3>2. [csd[id] EXCEPT !.active = active, !.buttons = buttons] \in Decoration
      BY <1>5, <1>a, <3>1 DEF Decoration
    <3> QED
      BY <3>2, RenderType
  <2> QED
    BY <1>1, <1>4, <2>1
<1>9. DOMAIN held' \subseteq live /\ held' \in [DOMAIN held' -> Configurations]
  BY <1>1 DEF Commit, Without, Restrict
<1> QED
  BY <1>7, <1>8, <1>9 DEF Commit, TypeInv, TypeOK, PointersExist, Allocated

(* So do the two ways in which an application calls it. *)
LEMMA CommitCallType ==
    ASSUME TypeInv, NEW id \in live, NEW painted
    PROVE  /\ CommitConfigured(id, painted) => TypeInv'
           /\ CommitResized(id, painted) => TypeInv'
<1>1. AppSizes \subseteq Size
  BY ConstantAssumption DEF Size
<1>2. ASSUME CommitConfigured(id, painted) PROVE TypeInv'
  <2>1. held[id] \in Configurations
    BY <1>2 DEF CommitConfigured, TypeInv, TypeOK
  <2>2. held[id].size \in Option(Size)
    BY <2>1 DEF Configurations
  <2>3. (IF held[id].size = None THEN AppSizes ELSE {held[id].size[1]}) \subseteq Size
    BY <1>1, <2>2, OptionValue
  <2>4. PICK size \in Size : Commit(id, size, Some(held[id]), painted)
    BY <1>2, <2>3 DEF CommitConfigured
  <2> QED
    BY <2>1, <2>4, SomeType, CommitType
<1>3. ASSUME CommitResized(id, painted) PROVE TypeInv'
  <2>1. PICK size \in Size : Commit(id, size, None, painted)
    BY <1>1, <1>3 DEF CommitResized
  <2> QED
    BY <2>1, NoneType, CommitType
<1> QED
  BY <1>2, <1>3

(* Every call on a frame keeps the state typed. *)
LEMMA FrameCallType ==
    ASSUME TypeInv, NEW id \in live, FrameCall(id)
    PROVE  TypeInv'
<1>1. CASE DestroyFrame(id)
  BY <1>1, DestroyType
<1>2. CASE Map(id)
  BY <1>2, SlotCallType
<1>3. CASE \E caps \in CapSets : SetCapabilities(id, caps) \/ UnsetCapabilities(id, caps)
  BY <1>3, SlotCallType
<1>4. CASE \E visible \in BOOLEAN : SetVisibility(id, visible)
  BY <1>4, SlotCallType
<1>5. CASE \E painted \in Paints : CommitConfigured(id, painted) \/ CommitResized(id, painted)
  BY <1>5, CommitCallType
<1>6. CASE UNCHANGED <<inner, held, pointers, over>>
  BY <1>6 DEF inner, TypeInv, TypeOK, PointersExist, live, Allocated
<1> QED
  BY <1>1, <1>2, <1>3, <1>4, <1>5, <1>6 DEF FrameCall, ToplevelRequest, SetParent

(* Every call of the application keeps the state typed. *)
LEMMA CallType == ASSUME TypeInv, Call PROVE TypeInv'
<1>1. CASE \E force \in BOOLEAN : ForceClientSideDecorations(force)
  BY <1>1 DEF ForceClientSideDecorations, TypeInv, TypeOK, PointersExist, live, Allocated
<1>2. CASE PollEvent
  BY <1>2, PollType
<1>3. CASE CreateFrame
  <2>1. next_id \in Nat /\ "Content" \in SurfaceParts
    BY DEF TypeInv, TypeOK, SurfaceParts, DecorationParts
  <2>2. OwnSurface(next_id, "Content") \in Surfaces
    BY <2>1, SurfaceType
  <2> QED
    BY <1>3, <2>2, DecorateType DEF CreateFrame
<1>4. CASE \E surface \in AppSurfaces : Decorate(surface)
  BY <1>4, DecorateType DEF Decorate, Surfaces
<1>5. CASE \E id \in live : FrameCall(id)
  BY <1>5, FrameCallType
<1> QED
  BY <1>1, <1>2, <1>3, <1>4, <1>5 DEF Call

(* A context that was just connected is typed. *)
LEMMA TypeInit == Init => TypeInv
<1> SUFFICES ASSUME Init PROVE TypeInv
  OBVIOUS
<1>1. /\ DOMAIN frames = {} /\ DOMAIN csd = {} /\ DOMAIN surface_targets = {}
      /\ DOMAIN pointer_focus = {} /\ DOMAIN held = {} /\ DOMAIN over = {}
  BY DEF Init
<1>2. /\ frames \in [{} -> Slot] /\ csd \in [{} -> Decoration]
      /\ surface_targets \in [{} -> TargetType]
      /\ pointer_focus \in [{} -> PointerFocus] /\ held \in [{} -> Configurations]
      /\ over \in [{} -> [surface : Surfaces, serial : Serials]]
  BY DEF Init
<1>3. events \in Seq(EventType)
  BY DEF Init
<1>4. force_csd \in BOOLEAN
  BY ConstantAssumption DEF Init
<1> QED
  BY <1>1, <1>2, <1>3, <1>4 DEF Init, TypeInv, TypeOK, PointersExist, live

(* Every step keeps the state typed. *)
LEMMA TypeStep == TypeInv /\ [Next]_vars => TypeInv'
<1> SUFFICES ASSUME TypeInv, [Next]_vars PROVE TypeInv'
  OBVIOUS
<1>1. CASE \E id \in Allocated : FrameEvent(id)
  <2>1. PICK id \in Allocated : FrameEvent(id)
    BY <1>1
  <2> QED
    BY <2>1, XdgSurfaceConfigureType, ToplevelType, DecorationConfigureType DEF FrameEvent
<1>2. CASE \E seat \in Seats : SeatEvent(seat)
  BY <1>2, SeatType DEF SeatEvent
<1>3. CASE \E p \in Pointers : PointerEvent(p)
  BY <1>3, PointerEnterType, PointerLeaveType, PointerMotionType, PointerButtonType
     DEF PointerEvent
<1>4. CASE Call
  BY <1>4, CallType
<1>5. CASE UNCHANGED vars
  BY <1>5 DEF vars, inner, TypeInv, TypeOK, PointersExist, live, Allocated
<1> QED
  BY <1>1, <1>2, <1>3, <1>4, <1>5 DEF Next

(***************************************************************************)
(* Whatever events arrive for frames, surfaces and pointers that are gone, *)
(* no handler leaves an entry for a frame that does not live, a focus for  *)
(* a pointer that was never created, or a value of the wrong type.         *)
(***************************************************************************)
THEOREM TypeCorrect == Spec => []TypeOK
<1>1. Spec => []TypeInv
  BY TypeInit, TypeStep, PTL DEF Spec
<1>2. TypeInv => TypeOK
  BY DEF TypeInv
<1> QED
  BY <1>1, <1>2, PTL

-----------------------------------------------------------------------------
(***************************************************************************)
(* The surface registry and the pointer focuses.  RegistryExact and        *)
(* FocusTracksCompositor speak of surfaces; they are inductive together    *)
(* with who owns a frame's surface, with no two frames sharing one, and    *)
(* with what the compositor may have sent a pointer into: were it into a   *)
(* surface that does not exist yet, a decoration could be created under a  *)
(* pointer that has no focus.                                              *)
(***************************************************************************)
Ownership ==
    \A id \in live : IF frames[id].owns THEN frames[id].surface = OwnSurface(id, "Content")
                                        ELSE frames[id].surface \in AppSurfaces

OneFrameEach == \A i, j \in live : frames[i].surface = frames[j].surface => i = j

OverNameable == \A p \in DOMAIN over : over[p].surface \in NameableSurfaces

RegistryInv ==
    TypeInv /\ Ownership /\ OneFrameEach /\ OverNameable /\ RegistryExact /\ FocusTracksCompositor

(* A surface of a decoration is not the application's, nobody's content, and *)
(* names its frame.                                                          *)
LEMMA CsdSurfaceOwn ==
    ASSUME NEW id \in Nat, NEW s \in CsdSurfaces(id)
    PROVE  /\ s \notin AppSurfaces
           /\ \A j : s # OwnSurface(j, "Content")
           /\ \A j : s \in CsdSurfaces(j) => j = id
           /\ \E part \in DecorationParts : s = OwnSurface(id, part)
<1>1. PICK part \in Edges \cup {"Titlebar"} : s = <<id, part>>
  BY DEF CsdSurfaces, OwnSurface
<1>2. part # "Content" /\ part \in DecorationParts /\ part \in SurfaceParts
  BY DEF Edges, DecorationParts, SurfaceParts
<1>3. s \in Nat \X SurfaceParts
  BY <1>1, <1>2
<1>4. ASSUME NEW j, s \in CsdSurfaces(j) PROVE j = id
  BY <1>1, <1>4 DEF CsdSurfaces, OwnSurface
<1> QED
  BY <1>1, <1>2, <1>3, <1>4, SurfaceAssumption DEF OwnSurface

(* The content surface of a frame is not part of any decoration. *)
LEMMA ContentApart ==
    ASSUME TypeInv, Ownership, NEW i \in live, NEW j \in Nat
    PROVE  frames[i].surface \notin CsdSurfaces(j)
BY CsdSurfaceOwn DEF Ownership

(* Two frames have no input surface in common. *)
LEMMA InputsDisjoint ==
    ASSUME TypeInv, Ownership, OneFrameEach, NEW i \in live, NEW j \in live, i # j
    PROVE  InputSurfaces(i) \cap InputSurfaces(j) = {}
<1>1. i \in Nat /\ j \in Nat
  BY DEF TypeInv, TypeOK, Allocated
<1>2. frames[i].surface # frames[j].surface
  BY DEF OneFrameEach
<1>3. frames[i].surface \notin CsdSurfaces(j) /\ frames[j].surface \notin CsdSurfaces(i)
  BY <1>1, ContentApart
<1>4. CsdSurfaces(i) \cap CsdSurfaces(j) = {}
  BY <1>1, CsdSurfaceOwn
<1> QED
  BY <1>2, <1>3, <1>4 DEF InputSurfaces

(* Nothing names the surfaces of a decoration before it is created. *)
LEMMA CsdFresh ==
    ASSUME RegistryInv, NEW id \in live \ DOMAIN csd
    PROVE  CsdSurfaces(id) \cap NameableSurfaces = {}
<1> SUFFICES ASSUME NEW s \in CsdSurfaces(id), s \in NameableSurfaces PROVE FALSE
  OBVIOUS
<1>1. id \in Nat /\ live \subseteq Nat
  BY DEF RegistryInv, TypeInv, TypeOK, Allocated
<1>2. s \notin AppSurfaces
  BY <1>1, CsdSurfaceOwn
<1>3. s \notin DOMAIN surface_targets
  <2>1. SUFFICES ASSUME NEW i \in live, s \in InputSurfaces(i) PROVE FALSE
    BY DEF RegistryInv, RegistryExact
  <2>2. s # frames[i].surface
    BY <1>1, ContentApart DEF RegistryInv
  <2>3. i \in DOMAIN csd /\ s \in CsdSurfaces(i)
    BY <2>1, <2>2 DEF InputSurfaces
  <2> QED
    BY <1>1, <2>3, CsdSurfaceOwn
<1>4. PICK i \in Allocated \ live, part \in DecorationParts : s = OwnSurface(i, part)
  BY <1>2, <1>3 DEF NameableSurfaces
<1>5. i = id
  BY <1>1, <1>4 DEF CsdSurfaces, OwnSurface
<1> QED
  BY <1>4, <1>5

(* A step that keeps the frames' surfaces, which frames are decorated, the    *)
(* registry, what the focuses are about and where the pointers are.           *)
LEMMA RegistryStable ==
    ASSUME RegistryInv, TypeInv',
           UNCHANGED <<next_id, surface_targets, over>>,
           live' = live,
           \A id \in live : /\ frames'[id].surface = frames[id].surface
                            /\ frames'[id].owns = frames[id].owns,
           DOMAIN csd' = DOMAIN csd,
           DOMAIN pointer_focus' = DOMAIN pointer_focus,
           \A p \in DOMAIN pointer_focus :
               /\ pointer_focus'[p].surface = pointer_focus[p].surface
               /\ pointer_focus'[p].target = pointer_focus[p].target
    PROVE  RegistryInv'
<1>1. Ownership' /\ OneFrameEach'
  BY DEF RegistryInv, Ownership, OneFrameEach
<1>2. OverNameable'
  BY DEF RegistryInv, OverNameable, NameableSurfaces, Allocated
<1>3. \A id \in live : InputSurfaces(id)' = InputSurfaces(id)
  BY DEF InputSurfaces
<1>4. RegistryExact'
  <2>1. DOMAIN surface_targets' = UNION {InputSurfaces(id)' : id \in live'}
    BY <1>3 DEF RegistryInv, RegistryExact
  <2>2. \A id \in live' : surface_targets'[frames'[id].surface] = Target(id, "Content")
    BY DEF RegistryInv, RegistryExact
  <2>3. \A id \in DOMAIN csd' : \A s \in CsdSurfaces(id) :
            surface_targets'[s] = Target(id, s[2])
    BY DEF RegistryInv, RegistryExact
  <2> QED
    BY <2>1, <2>2, <2>3 DEF RegistryExact
<1>5. FocusTracksCompositor'
  BY DEF RegistryInv, FocusTracksCompositor
<1> QED
  BY <1>1, <1>2, <1>4, <1>5 DEF RegistryInv

(* Decorations appear: the handlers that call ensure_csd. *)
LEMMA EnsureCsdRegistry ==
    ASSUME RegistryInv, TypeInv', NEW id, NEW mode, ensure_csd(id, mode),
           UNCHANGED <<next_id, pointer_focus, over>>,
           live' = live,
           \A i \in live : /\ frames'[i].surface = frames[i].surface
                           /\ frames'[i].owns = frames[i].owns
    PROVE  RegistryInv'
<1>1. CASE ~(NeedsCsd(id, mode) /\ Subcompositor)
  <2>1. UNCHANGED <<csd, surface_targets>>
    BY <1>1 DEF ensure_csd
  <2> QED
    BY <2>1, RegistryStable
<1>2. CASE NeedsCsd(id, mode) /\ Subcompositor
  <2> DEFINE targets == [s \in CsdSurfaces(id) |-> Target(id, s[2])]
  <2>1. id \in live \ DOMAIN csd
    BY <1>2 DEF NeedsCsd
  <2>2. live \subseteq Nat /\ DOMAIN csd \subseteq live
    BY DEF RegistryInv, TypeInv, TypeOK, Allocated
  <2>3. DOMAIN csd' = DOMAIN csd \cup {id}
    BY <1>2 DEF ensure_csd, Put
  <2>4. /\ DOMAIN surface_targets' = DOMAIN surface_targets \cup CsdSurfaces(id)
        /\ \A s \in CsdSurfaces(id) : surface_targets'[s] = Target(id, s[2])
        /\ \A s \in DOMAIN surface_targets \ CsdSurfaces(id) :
              surface_targets'[s] = surface_targets[s]
    BY <1>2 DEF ensure_csd, register_surfaces, Merge
  <2>5. CsdSurfaces(id) \cap NameableSurfaces = {}
    BY <2>1, CsdFresh
  <2>6. CsdSurfaces(id) \cap DOMAIN surface_targets = {}
    BY <2>5 DEF NameableSurfaces
  <2>7. Ownership' /\ OneFrameEach'
    BY DEF RegistryInv, Ownership, OneFrameEach
  <2>8. OverNameable'
    BY <2>4 DEF RegistryInv, OverNameable, NameableSurfaces, Allocated
  <2>9. RegistryExact'
    <3>1. \A i \in live \ {id} : InputSurfaces(i)' = InputSurfaces(i)
      BY <2>3 DEF InputSurfaces
    <3>2. InputSurfaces(id)' = InputSurfaces(id) \cup CsdSurfaces(id)
      BY <2>1, <2>3 DEF InputSurfaces
    <3>3. DOMAIN surface_targets' = UNION {InputSurfaces(i)' : i \in live'}
      BY <2>1, <2>4, <3>1, <3>2 DEF RegistryInv, RegistryExact
    <3>4. \A i \in live' : surface_targets'[frames'[i].surface] = Target(i, "Content")
      <4>1. SUFFICES ASSUME NEW i \in live
            PROVE  surface_targets'[frames[i].surface] = Target(i, "Content")
        OBVIOUS
      <4>2. frames[i].surface \in DOMAIN surface_targets
        BY DEF RegistryInv, RegistryExact, InputSurfaces
      <4> QED
        BY <2>4, <2>6, <4>2 DEF RegistryInv, RegistryExact
    <3>5. ASSUME NEW i \in DOMAIN csd', NEW s \in CsdSurfaces(i)
          PROVE  surface_targets'[s] = Target(i, s[2])
      <4>1. CASE i = id
        BY <2>4, <4>1
      <4>2. CASE i # id
        <5>1. i \in DOMAIN csd /\ i \in live
          BY <2>2, <2>3, <4>2
        <5>2. s \in DOMAIN surface_targets
          BY <5>1 DEF RegistryInv, RegistryExact, InputSurfaces
        <5> QED
          BY <2>4, <2>6, <5>1, <5>2 DEF RegistryInv, RegistryExact
      <4> QED
        BY <4>1, <4>2
    <3> QED
      BY <3>3, <3>4, <3>5 DEF RegistryExact
  <2>10. FocusTracksCompositor'
    <3>1. \A p \in DOMAIN pointer_focus' :
             /\ p \in DOMAIN over' /\ over'[p].surface = pointer_focus'[p].surface
             /\ pointer_focus'[p].surface \in DOMAIN surface_targets'
             /\ pointer_focus'[p].target = surface_targets'[pointer_focus'[p].surface]
      BY <2>4, <2>6 DEF RegistryInv, FocusTracksCompositor
    <3>2. ASSUME NEW p \in DOMAIN over', NEW i \in DOMAIN csd',
                 over'[p].surface \in CsdSurfaces(i)
          PROVE  p \in DOMAIN pointer_focus'
      <4>1. over[p].surface \in NameableSurfaces
        BY DEF RegistryInv, OverNameable
      <4>2. i # id
        BY <2>5, <3>2, <4>1
      <4> QED
        BY <2>3, <3>2, <4>2 DEF RegistryInv, FocusTracksCompositor
    <3> QED
      BY <3>1, <3>2 DEF FocusTracksCompositor
  <2> QED
    BY <2>7, <2>8, <2>9, <2>10 DEF RegistryInv
<1> QED
  BY <1>1, <1>2

(* A pointer enters: it gets a focus if the surface is registered, and no other. *)
LEMMA PointerEnterRegistry ==
    ASSUME RegistryInv, TypeInv', NEW p, NEW s \in NameableSurfaces, NEW at,
           NEW serial, NEW painted, PointerEnter(p, s, at, serial, painted)
    PROVE  RegistryInv'
<1>1. DOMAIN csd' = DOMAIN csd
  <2>1. csd' = csd \/ \E id \in Nat : csd' = HoverAt(id, at[1], at[2], painted)
    <3>1. s \in DOMAIN surface_targets => surface_targets[s].frame \in Nat
      BY DEF RegistryInv, TypeInv, TypeOK, TargetType
    <3> QED
      BY <3>1 DEF PointerEnter
  <2> QED
    BY <2>1, HoverType DEF RegistryInv, TypeInv
<1>2. /\ DOMAIN over' = DOMAIN over \cup {p}
      /\ over'[p].surface = s
      /\ \A q \in DOMAIN over \ {p} : over'[q] = over[q]
  BY DEF PointerEnter, Put
<1>3. UNCHANGED <<next_id, frames, surface_targets>> /\ live' = live
  BY DEF PointerEnter, live
<1>4. Ownership' /\ OneFrameEach'
  BY <1>3 DEF RegistryInv, Ownership, OneFrameEach
<1>5. OverNameable'
  BY <1>2, <1>3 DEF RegistryInv, OverNameable, NameableSurfaces, Allocated
<1>6. RegistryExact'
  BY <1>1, <1>3 DEF RegistryInv, RegistryExact, InputSurfaces
<1>7. FocusTracksCompositor'
  <2>1. CASE s \in DOMAIN surface_targets
    <3>1. /\ DOMAIN pointer_focus' = DOMAIN pointer_focus \cup {p}
          /\ pointer_focus'[p].surface = s
          /\ pointer_focus'[p].target = surface_targets[s]
          /\ \A q \in DOMAIN pointer_focus \ {p} : pointer_focus'[q] = pointer_focus[q]
      BY <2>1 DEF PointerEnter, Put
    <3> QED
      BY <1>1, <1>2, <1>3, <2>1, <3>1 DEF RegistryInv, FocusTracksCompositor
  <2>2. CASE s \notin DOMAIN surface_targets
    <3>1. pointer_focus' = pointer_focus
      BY <2>2 DEF PointerEnter
    <3>2. p \notin DOMAIN pointer_focus
      BY DEF PointerEnter, Dead, RegistryInv, FocusTracksCompositor
    <3>3. \A i \in DOMAIN csd : s \notin CsdSurfaces(i)
      BY <2>2 DEF RegistryInv, RegistryExact, InputSurfaces, TypeInv, TypeOK
    <3> QED
      BY <1>1, <1>2, <1>3, <3>1, <3>2, <3>3 DEF RegistryInv, FocusTracksCompositor
  <2> QED
    BY <2>1, <2>2
<1> QED
  BY <1>4, <1>5, <1>6, <1>7 DEF RegistryInv

(* A pointer leaves: its focus is dropped if it names the surface it leaves. *)
LEMMA PointerLeaveRegistry ==
    ASSUME RegistryInv, TypeInv', NEW p, NEW painted, PointerLeave(p, painted)
    PROVE  RegistryInv'
<1>1. DOMAIN csd' = DOMAIN csd
  BY DEF PointerLeave
<1>2. /\ DOMAIN over' = DOMAIN over \ {p}
      /\ \A q \in DOMAIN over \ {p} : over'[q] = over[q]
  BY DEF PointerLeave, Without, Restrict
<1>3. UNCHANGED <<next_id, frames, surface_targets>> /\ live' = live
  BY DEF PointerLeave, live
<1>4. /\ DOMAIN pointer_focus' = DOMAIN pointer_focus \ {p}
      /\ \A q \in DOMAIN pointer_focus \ {p} : pointer_focus'[q] = pointer_focus[q]
  <2>1. p \in DOMAIN pointer_focus => pointer_focus[p].surface = over[p].surface
    BY DEF RegistryInv, FocusTracksCompositor
  <2> QED
    BY <2>1 DEF PointerLeave, Without, Restrict
<1>5. Ownership' /\ OneFrameEach'
  BY <1>3 DEF RegistryInv, Ownership, OneFrameEach
<1>6. OverNameable'
  BY <1>2, <1>3 DEF RegistryInv, OverNameable, NameableSurfaces, Allocated
<1>7. RegistryExact'
  BY <1>1, <1>3 DEF RegistryInv, RegistryExact, InputSurfaces
<1>8. FocusTracksCompositor'
  BY <1>1, <1>2, <1>3, <1>4 DEF RegistryInv, FocusTracksCompositor
<1> QED
  BY <1>5, <1>6, <1>7, <1>8 DEF RegistryInv

(* A frame is created on a surface that nothing is registered for. *)
LEMMA DecorateRegistry ==
    ASSUME RegistryInv, TypeInv', NEW surface, NEW owns \in BOOLEAN, NEW creation,
           decorate_inner(surface, owns, creation),
           surface \notin DOMAIN surface_targets,
           IF owns THEN surface = OwnSurface(next_id, "Content") ELSE surface \in AppSurfaces
    PROVE  RegistryInv'
<1> PICK id : id = next_id
  OBVIOUS
<1>1. id \in Nat /\ live \subseteq Allocated /\ id \notin live
  BY DEF RegistryInv, TypeInv, TypeOK, Allocated
<1>2. /\ live' = live \cup {id} /\ next_id' = id + 1
      /\ frames'[id].surface = surface /\ frames'[id].owns = owns
      /\ \A i \in live : frames'[i] = frames[i]
  BY <1>1 DEF decorate_inner, Put, NewSlot, live
<1>3. UNCHANGED <<csd, pointer_focus, over>>
  BY DEF decorate_inner
<1>4. /\ DOMAIN surface_targets' = DOMAIN surface_targets \cup {surface}
      /\ surface_targets'[surface] = Target(id, "Content")
      /\ \A s \in DOMAIN surface_targets : surface_targets'[s] = surface_targets[s]
  BY DEF decorate_inner, Put
<1>5. Ownership'
  BY <1>2 DEF RegistryInv, Ownership
<1>6. OneFrameEach'
  <2>1. \A i \in live : frames[i].surface \in DOMAIN surface_targets
    BY DEF RegistryInv, RegistryExact, InputSurfaces
  <2> QED
    BY <1>2, <2>1 DEF RegistryInv, OneFrameEach
<1>7. OverNameable'
  <2>1. Allocated \ live \subseteq Allocated' \ live'
    BY <1>1, <1>2 DEF Allocated
  <2> QED
    BY <1>3, <1>4, <2>1 DEF RegistryInv, OverNameable, NameableSurfaces
<1>8. RegistryExact'
  <2>1. \A i \in live : InputSurfaces(i)' = InputSurfaces(i)
    BY <1>2, <1>3 DEF InputSurfaces
  <2>2. id \notin DOMAIN csd
    BY <1>1 DEF RegistryInv, TypeInv, TypeOK
  <2>3. InputSurfaces(id)' = {surface}
    BY <1>2, <1>3, <2>2 DEF InputSurfaces
  <2>4. DOMAIN surface_targets' = UNION {InputSurfaces(i)' : i \in live'}
    BY <1>2, <1>4, <2>1, <2>3 DEF RegistryInv, RegistryExact
  <2>5. \A i \in live' : surface_targets'[frames'[i].surface] = Target(i, "Content")
    <3>1. \A i \in live : frames[i].surface \in DOMAIN surface_targets
      BY DEF RegistryInv, RegistryExact, InputSurfaces
    <3> QED
      BY <1>2, <1>4, <3>1 DEF RegistryInv, RegistryExact
  <2>6. ASSUME NEW i \in DOMAIN csd', NEW s \in CsdSurfaces(i)
        PROVE  surface_targets'[s] = Target(i, s[2])
    <3>1. s \in DOMAIN surface_targets
      BY <1>3, <2>6 DEF RegistryInv, RegistryExact, InputSurfaces, TypeInv, TypeOK
    <3> QED
      BY <1>3, <1>4, <3>1 DEF RegistryInv, RegistryExact
  <2> QED
    BY <2>4, <2>5, <2>6 DEF RegistryExact
<1>9. FocusTracksCompositor'
  BY <1>3, <1>4 DEF RegistryInv, FocusTracksCompositor
<1> QED
  BY <1>5, <1>6, <1>7, <1>8, <1>9 DEF RegistryInv

(* Context::create_frame keeps the registry exact. *)
LEMMA CreateRegistry ==
    ASSUME RegistryInv, TypeInv', CreateFrame
    PROVE  RegistryInv'
<1> DEFINE surface == OwnSurface(next_id, "Content")
<1>1. next_id \in Nat /\ next_id \notin live /\ live \subseteq Nat
  BY DEF RegistryInv, TypeInv, TypeOK, Allocated
<1>2. surface \notin AppSurfaces
  BY <1>1, SurfaceAssumption DEF OwnSurface, SurfaceParts, DecorationParts
<1>3. surface \notin DOMAIN surface_targets
  <2>1. SUFFICES ASSUME NEW i \in live, surface \in InputSurfaces(i) PROVE FALSE
    BY DEF RegistryInv, RegistryExact
  <2>2. surface # frames[i].surface
    BY <1>1, <1>2 DEF RegistryInv, Ownership, OwnSurface
  <2>3. surface \notin CsdSurfaces(i)
    BY <1>1, CsdSurfaceOwn
  <2> QED
    BY <2>1, <2>2, <2>3 DEF InputSurfaces
<1> QED
  BY <1>3, DecorateRegistry DEF CreateFrame

(* Context::decorate keeps the registry exact: the surface had no role. *)
LEMMA DecorateSurfaceRegistry ==
    ASSUME RegistryInv, TypeInv', NEW surface \in AppSurfaces, Decorate(surface)
    PROVE  RegistryInv'
<1>1. surface \notin DOMAIN surface_targets
  <2>1. SUFFICES ASSUME NEW i \in live, surface \in InputSurfaces(i) PROVE FALSE
    BY DEF RegistryInv, RegistryExact
  <2>2. surface # frames[i].surface
    BY DEF Decorate
  <2>3. surface \notin CsdSurfaces(i)
    BY CsdSurfaceOwn DEF RegistryInv, TypeInv, TypeOK, Allocated
  <2> QED
    BY <2>1, <2>2, <2>3 DEF InputSurfaces
<1> QED
  BY <1>1, DecorateRegistry DEF Decorate

(* A frame is destroyed with everything registered for it. *)
LEMMA DestroyRegistry ==
    ASSUME RegistryInv, TypeInv', NEW id \in live, DestroyFrame(id)
    PROVE  RegistryInv'
<1>1. id \in Nat /\ live \subseteq Allocated /\ DOMAIN csd \subseteq live
  BY DEF RegistryInv, TypeInv, TypeOK, Allocated
<1>2. /\ live' = live \ {id} /\ \A i \in live' : frames'[i] = frames[i]
      /\ DOMAIN csd' = DOMAIN csd \ {id}
  BY DEF DestroyFrame, Without, Restrict, live
<1>3. unregister_surfaces(InputSurfaces(id))
  BY DEF DestroyFrame, InputSurfaces
<1>4. UNCHANGED <<next_id, over>>
  BY DEF DestroyFrame
<1>5. /\ DOMAIN surface_targets' = DOMAIN surface_targets \ InputSurfaces(id)
      /\ \A s \in DOMAIN surface_targets' : surface_targets'[s] = surface_targets[s]
      /\ DOMAIN pointer_focus' =
            {p \in DOMAIN pointer_focus : pointer_focus[p].surface \notin InputSurfaces(id)}
      /\ \A p \in DOMAIN pointer_focus' : pointer_focus'[p] = pointer_focus[p]
  BY <1>3 DEF unregister_surfaces, Without, Restrict
<1>6. \A i \in live' : InputSurfaces(i)' = InputSurfaces(i)
  BY <1>2 DEF InputSurfaces
<1>7. \A i \in live' : InputSurfaces(i) \cap InputSurfaces(id) = {}
  BY <1>2, InputsDisjoint DEF RegistryInv
<1>8. Ownership' /\ OneFrameEach'
  BY <1>2 DEF RegistryInv, Ownership, OneFrameEach
<1>9. OverNameable'
  <2>1. NameableSurfaces \subseteq NameableSurfaces'
    <3>1. InputSurfaces(id) \subseteq AppSurfaces
                \cup {OwnSurface(id, part) : part \in DecorationParts}
      <4>1. "Content" \in DecorationParts
        BY DEF DecorationParts
      <4> QED
        BY <1>1, <4>1, CsdSurfaceOwn DEF InputSurfaces, RegistryInv, Ownership
    <3>2. id \in Allocated' \ live' /\ Allocated \ live \subseteq Allocated' \ live'
      BY <1>1, <1>2, <1>4 DEF Allocated
    <3> QED
      BY <1>5, <3>1, <3>2 DEF NameableSurfaces
  <2> QED
    BY <1>4, <2>1 DEF RegistryInv, OverNameable
<1>10. RegistryExact'
  <2>1. DOMAIN surface_targets' = UNION {InputSurfaces(i)' : i \in live'}
    BY <1>2, <1>5, <1>6, <1>7 DEF RegistryInv, RegistryExact
  <2>2. \A i \in live' : surface_targets'[frames'[i].surface] = Target(i, "Content")
    <3>1. ASSUME NEW i \in live' PROVE frames[i].surface \in DOMAIN surface_targets'
      BY <1>2, <1>5, <1>7 DEF RegistryInv, RegistryExact, InputSurfaces
    <3> QED
      BY <1>2, <1>5, <3>1 DEF RegistryInv, RegistryExact
  <2>3. ASSUME NEW i \in DOMAIN csd', NEW s \in CsdSurfaces(i)
        PROVE  surface_targets'[s] = Target(i, s[2])
    <3>1. i \in DOMAIN csd /\ i \in live' /\ s \in InputSurfaces(i)
      BY <1>1, <1>2 DEF InputSurfaces
    <3>2. s \in DOMAIN surface_targets'
      BY <1>2, <1>5, <1>7, <3>1 DEF RegistryInv, RegistryExact
    <3> QED
      BY <1>5, <3>1, <3>2 DEF RegistryInv, RegistryExact
  <2> QED
    BY <2>1, <2>2, <2>3 DEF RegistryExact
<1>11. FocusTracksCompositor'
  <2>1. ASSUME NEW p \in DOMAIN pointer_focus'
        PROVE  /\ p \in DOMAIN over' /\ over'[p].surface = pointer_focus'[p].surface
               /\ pointer_focus'[p].surface \in DOMAIN surface_targets'
               /\ pointer_focus'[p].target = surface_targets'[pointer_focus'[p].surface]
    BY <1>4, <1>5 DEF RegistryInv, FocusTracksCompositor
  <2>2. ASSUME NEW p \in DOMAIN over', NEW i \in DOMAIN csd',
               over'[p].surface \in CsdSurfaces(i)
        PROVE  p \in DOMAIN pointer_focus'
    <3>1. i \in DOMAIN csd /\ i \in live' /\ over[p].surface \in InputSurfaces(i)
      BY <1>1, <1>2, <1>4, <2>2 DEF InputSurfaces
    <3>2. p \in DOMAIN pointer_focus /\ pointer_focus[p].surface = over[p].surface
      BY <1>4, <2>2, <3>1 DEF RegistryInv, FocusTracksCompositor
    <3> QED
      BY <1>5, <1>7, <3>1, <3>2
  <2> QED
    BY <2>1, <2>2 DEF FocusTracksCompositor
<1> QED
  BY <1>8, <1>9, <1>10, <1>11 DEF RegistryInv

(* Nothing is registered before the first frame. *)
LEMMA RegistryInit == Init => RegistryInv
<1> SUFFICES ASSUME Init PROVE RegistryInv
  OBVIOUS
<1>1. /\ live = {} /\ DOMAIN csd = {} /\ DOMAIN surface_targets = {}
      /\ DOMAIN pointer_focus = {} /\ DOMAIN over = {}
  BY DEF Init, live
<1> QED
  BY <1>1, TypeInit
     DEF RegistryInv, Ownership, OneFrameEach, OverNameable, RegistryExact, FocusTracksCompositor

(* The events of a frame keep the registry exact. *)
LEMMA FrameEventRegistry ==
    ASSUME RegistryInv, TypeInv', NEW id \in Allocated, FrameEvent(id)
    PROVE  RegistryInv'
<1>1. frames \in [live -> Slot] /\ (id \in live => frames[id] \in Slot)
  BY DEF RegistryInv, TypeInv, TypeOK
<1>2. ASSUME NEW serial, XdgSurfaceConfigure(id, serial) PROVE RegistryInv'
  <2>1. /\ live' = live
        /\ \A i \in live : /\ frames'[i].surface = frames[i].surface
                           /\ frames'[i].owns = frames[i].owns
    BY <1>1, <1>2 DEF XdgSurfaceConfigure, TakePending, live, Slot
  <2> QED
    BY <1>2, <2>1, EnsureCsdRegistry DEF XdgSurfaceConfigure
<1>3. ASSUME NEW size, NEW states, ToplevelConfigure(id, size, states) PROVE RegistryInv'
  <2>1. /\ live' = live
        /\ \A i \in live : /\ frames'[i].surface = frames[i].surface
                           /\ frames'[i].owns = frames[i].owns
    BY <1>1, <1>3 DEF ToplevelConfigure, live, Slot
  <2> QED
    BY <1>3, <2>1, RegistryStable DEF ToplevelConfigure
<1>4. ASSUME ToplevelClose(id) PROVE RegistryInv'
  BY <1>4, RegistryStable DEF ToplevelClose, live
<1>5. ASSUME NEW size, ToplevelConfigureBounds(id, size) PROVE RegistryInv'
  <2>1. /\ live' = live
        /\ \A i \in live : /\ frames'[i].surface = frames[i].surface
                           /\ frames'[i].owns = frames[i].owns
    BY <1>1, <1>5 DEF ToplevelConfigureBounds, live, Slot
  <2> QED
    BY <1>5, <2>1, RegistryStable DEF ToplevelConfigureBounds
<1>6. ASSUME NEW wm, ToplevelWmCapabilities(id, wm) PROVE RegistryInv'
  <2>1. /\ live' = live
        /\ \A i \in live : /\ frames'[i].surface = frames[i].surface
                           /\ frames'[i].owns = frames[i].owns
    BY <1>1, <1>6 DEF ToplevelWmCapabilities, live, Slot
  <2> QED
    BY <1>6, <2>1, RegistryStable DEF ToplevelWmCapabilities
<1>7. ASSUME NEW mode, DecorationConfigure(id, mode) PROVE RegistryInv'
  <2>1. /\ live' = live
        /\ \A i \in live : /\ frames'[i].surface = frames[i].surface
                           /\ frames'[i].owns = frames[i].owns
    BY <1>1, <1>7 DEF DecorationConfigure, live, Slot
  <2> QED
    BY <1>7, <2>1, EnsureCsdRegistry DEF DecorationConfigure
<1> QED
  BY <1>2, <1>3, <1>4, <1>5, <1>6, <1>7 DEF FrameEvent

(* The events of a pointer keep the registry exact and the focus true. *)
LEMMA PointerEventRegistry ==
    ASSUME RegistryInv, TypeInv', NEW p \in Pointers, PointerEvent(p)
    PROVE  RegistryInv'
<1>1. csd \in [DOMAIN csd -> Decoration] /\ TypeInv
      /\ pointer_focus \in [DOMAIN pointer_focus -> PointerFocus]
  BY DEF RegistryInv, TypeInv, TypeOK
<1>2. ASSUME NEW at, NEW painted, PointerMotion(p, at, painted) PROVE RegistryInv'
  <2>1. /\ DOMAIN pointer_focus' = DOMAIN pointer_focus
        /\ \A q \in DOMAIN pointer_focus :
              /\ pointer_focus'[q].surface = pointer_focus[q].surface
              /\ pointer_focus'[q].target = pointer_focus[q].target
    BY <1>1, <1>2 DEF PointerMotion, PointerFocus
  <2>2. DOMAIN csd' = DOMAIN csd
    <3>1. ASSUME p \in DOMAIN pointer_focus
          PROVE  pointer_focus[p].target.frame \in Nat
      BY <1>1, <3>1 DEF PointerFocus, TargetType
    <3> QED
      BY <1>1, <1>2, <3>1, HoverType DEF PointerMotion, TypeInv
  <2> QED
    BY <1>2, <2>1, <2>2, RegistryStable DEF PointerMotion, live
<1>3. ASSUME NEW down, NEW serial, NEW painted, PointerButton(p, down, serial, painted)
      PROVE  RegistryInv'
  <2>1. /\ DOMAIN pointer_focus' = DOMAIN pointer_focus
        /\ \A q \in DOMAIN pointer_focus :
              /\ pointer_focus'[q].surface = pointer_focus[q].surface
              /\ pointer_focus'[q].target = pointer_focus[q].target
    BY <1>1, <1>3 DEF PointerButton, PointerFocus
  <2>2. DOMAIN csd' = DOMAIN csd
    BY <1>3 DEF PointerButton, TitlebarPress, TitlebarRelease, BorderPress
  <2> QED
    BY <1>3, <2>1, <2>2, RegistryStable DEF PointerButton, live
<1> QED
  BY <1>2, <1>3, PointerEnterRegistry, PointerLeaveRegistry DEF PointerEvent

(* The calls on a frame keep the registry exact and the focus true. *)
LEMMA FrameCallRegistry ==
    ASSUME RegistryInv, TypeInv', NEW id \in live, FrameCall(id)
    PROVE  RegistryInv'
<1>1. frames \in [live -> Slot] /\ frames[id] \in Slot
  BY DEF RegistryInv, TypeInv, TypeOK
<1>2. CASE DestroyFrame(id)
  BY <1>2, DestroyRegistry
<1>3. CASE UNCHANGED <<inner, held, pointers, over>>
  BY <1>3, RegistryStable DEF inner, live
<1>4. ASSUME NEW size, NEW cfg, NEW painted, Commit(id, size, cfg, painted)
      PROVE  RegistryInv'
  <2>1. /\ live' = live
        /\ \A i \in live : /\ frames'[i].surface = frames[i].surface
                           /\ frames'[i].owns = frames[i].owns
    BY <1>1, <1>4 DEF Commit, live, Slot
  <2>2. DOMAIN csd' = DOMAIN csd
    BY <1>4 DEF Commit
  <2> QED
    BY <1>4, <2>1, <2>2, RegistryStable DEF Commit
<1>5. CASE \E painted \in Paints : CommitConfigured(id, painted) \/ CommitResized(id, painted)
  BY <1>4, <1>5 DEF CommitConfigured, CommitResized
<1>6. ASSUME NEW slot \in Slot, frames' = [frames EXCEPT ![id] = slot],
             slot.surface = frames[id].surface, slot.owns = frames[id].owns,
             UNCHANGED <<next_id, csd, surface_targets, pointer_focus, over>>
      PROVE  RegistryInv'
  <2>1. /\ live' = live
        /\ \A i \in live : /\ frames'[i].surface = frames[i].surface
                           /\ frames'[i].owns = frames[i].owns
    BY <1>1, <1>6 DEF live
  <2> QED
    BY <1>6, <2>1, RegistryStable
<1>7. CASE Map(id)
  BY <1>1, <1>6, <1>7 DEF Map, Slot
<1>8. CASE \E caps \in CapSets : SetCapabilities(id, caps) \/ UnsetCapabilities(id, caps)
  <2>1. PICK caps \in CapSets : SetCapabilities(id, caps) \/ UnsetCapabilities(id, caps)
    BY <1>8
  <2>2. /\ [frames[id] EXCEPT !.capabilities = @ \cup caps] \in Slot
        /\ [frames[id] EXCEPT !.capabilities = @ \ caps] \in Slot
    BY <1>1, ConstantAssumption DEF Slot
  <2> QED
    BY <1>1, <1>6, <2>1, <2>2 DEF SetCapabilities, UnsetCapabilities, Slot
<1>9. CASE \E visible \in BOOLEAN : SetVisibility(id, visible)
  BY <1>1, <1>6, <1>9 DEF SetVisibility, Slot
<1> QED
  BY <1>2, <1>3, <1>5, <1>7, <1>8, <1>9 DEF FrameCall, ToplevelRequest, SetParent

(* Every step keeps the registry exact and the focus true. *)
LEMMA RegistryStep == RegistryInv /\ [Next]_vars => RegistryInv'
<1> SUFFICES ASSUME RegistryInv, [Next]_vars PROVE RegistryInv'
  OBVIOUS
<1>1. TypeInv'
  BY TypeStep DEF RegistryInv
<1>2. CASE \E id \in Allocated : FrameEvent(id)
  BY <1>1, <1>2, FrameEventRegistry
<1>3. CASE \E seat \in Seats : SeatEvent(seat)
  BY <1>1, <1>3, RegistryStable DEF SeatEvent, SeatGainsPointer, SeatLosesPointer, live
<1>4. CASE \E p \in Pointers : PointerEvent(p)
  BY <1>1, <1>4, PointerEventRegistry
<1>5. CASE Call
  <2>1. CASE \E force \in BOOLEAN : ForceClientSideDecorations(force)
    BY <1>1, <2>1, RegistryStable DEF ForceClientSideDecorations, live
  <2>2. CASE PollEvent
    BY <1>1, <2>2, RegistryStable DEF PollEvent, live
  <2> QED
    BY <1>1, <1>5, <2>1, <2>2, CreateRegistry, DecorateSurfaceRegistry, FrameCallRegistry
       DEF Call
<1>6. CASE UNCHANGED vars
  BY <1>1, <1>6, RegistryStable DEF vars, inner, live
<1> QED
  BY <1>2, <1>3, <1>4, <1>5, <1>6 DEF Next

(***************************************************************************)
(* The registry holds exactly the input surfaces of the live frames, in    *)
(* every behaviour: destroy_frame and ensure_csd miss no surface and leave *)
(* none behind, however many frames there are and in whatever order events *)
(* and calls come.                                                         *)
(***************************************************************************)
THEOREM RegistryCorrect == Spec => []RegistryExact
<1>1. Spec => []RegistryInv
  BY RegistryInit, RegistryStep, PTL DEF Spec
<1>2. RegistryInv => RegistryExact
  BY DEF RegistryInv
<1> QED
  BY <1>1, <1>2, PTL

(***************************************************************************)
(* Every focus is about the surface the compositor sent the pointer into,  *)
(* and what that surface stands for now; no pointer over a decoration goes *)
(* without one.  A frame destroyed under a pointer, or a decoration        *)
(* created late, cannot make a click act on a wrong frame or on none.      *)
(***************************************************************************)
THEOREM FocusCorrect == Spec => []FocusTracksCompositor
<1>1. Spec => []RegistryInv
  BY RegistryInit, RegistryStep, PTL DEF Spec
<1>2. RegistryInv => FocusTracksCompositor
  BY DEF RegistryInv
<1> QED
  BY <1>1, <1>2, PTL
=============================================================================
