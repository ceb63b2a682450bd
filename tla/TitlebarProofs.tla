--------------------------- MODULE TitlebarProofs ---------------------------
(***************************************************************************)
(* Theorems about the titlebar: what it painted is what the next click is  *)
(* judged by, and what it shows of a pointer belongs to a visit of one.    *)
(***************************************************************************)
EXTENDS LibdecorProofs

-----------------------------------------------------------------------------
(***************************************************************************)
(* The picture.  A decoration at the content size of its frame is current  *)
(* when what it shows is what it is; and while no allocation fails, one    *)
(* that was never painted has nothing pressed.  The second is what a click *)
(* needs besides DrawingCurrent: a press that can act has been painted.    *)
(***************************************************************************)
WidthCurrent(d) == d.drawn # None => d.drawn[1].width = d.width

CurrentAt(d, size) ==
    /\ WidthCurrent(d)
    /\ ~ShmMayFail /\ size[1] > 0 /\ size[2] > 0 =>
          IF d.drawn = None THEN d.pressed = None ELSE d.drawn[1] = Picture(d)

TitlebarsCurrent == \A id \in DOMAIN csd : CurrentAt(csd[id], frames[id].content_size)

(* A decoration rendered at a size is current at that size, whatever was   *)
(* changed before: it is painted unless there is nothing to paint or the   *)
(* allocation fails, and then the width stays that of the last paint.      *)
LEMMA RenderCurrent ==
    ASSUME NEW d \in Decoration, WidthCurrent(d), NEW size \in Size, NEW painted \in Paints
    PROVE  CurrentAt(Render(d, size, painted), size)
<1> DEFINE sized == [d EXCEPT !.width = size[1]]
           drawn == [sized EXCEPT !.drawn = Some(Picture(sized))]
<1>1. size[1] \in Int /\ size[2] \in Int
  BY DEF Size
<1>2. CASE size[1] <= 0 \/ size[2] <= 0 \/ ~painted
  <2>1. Render(d, size, painted) = d
    BY <1>2 DEF Render
  <2>2. ~ShmMayFail => painted
    BY Zenon DEF Paints
  <2>3. ShmMayFail \/ ~(size[1] > 0 /\ size[2] > 0)
    BY <1>1, <1>2, <2>2
  <2> QED
    BY <2>1, <2>3 DEF CurrentAt
<1>3. CASE ~(size[1] <= 0 \/ size[2] <= 0 \/ ~painted)
  <2>1. Render(d, size, painted) = drawn
    BY <1>3 DEF Render
  <2>2. drawn.drawn # None /\ drawn.drawn[1] = Picture(sized)
    BY DEF Decoration, Some, None
  <2>3. Picture(drawn) = Picture(sized)
    BY DEF Picture, Decoration
  <2>4. Picture(sized).width = drawn.width
    BY DEF Picture, Decoration
  <2> QED
    BY <2>1, <2>2, <2>3, <2>4 DEF CurrentAt, WidthCurrent
<1> QED
  BY <1>2, <1>3

(* What a render leaves alone: the hover and the press. *)
LEMMA RenderKeeps ==
    ASSUME NEW d \in Decoration, NEW size, NEW painted
    PROVE  /\ Render(d, size, painted).hover = d.hover
           /\ Render(d, size, painted).pressed = d.pressed
BY DEF Render, Decoration

(* A step that paints one decoration at the size its frame has afterwards. *)
LEMMA PaintedCurrent ==
    ASSUME TypeInv, TitlebarsCurrent, NEW id \in DOMAIN csd, NEW d \in Decoration,
           d.drawn = csd[id].drawn, d.width = csd[id].width,
           NEW size \in Size, NEW painted \in Paints,
           csd' = [csd EXCEPT ![id] = Render(d, size, painted)],
           frames'[id].content_size = size,
           \A i \in DOMAIN csd \ {id} : frames'[i].content_size = frames[i].content_size
    PROVE  TitlebarsCurrent'
<1>1. WidthCurrent(d)
  BY DEF TitlebarsCurrent, CurrentAt, WidthCurrent
<1>2. CurrentAt(Render(d, size, painted), size)
  BY <1>1, RenderCurrent
<1>3. DOMAIN csd' = DOMAIN csd /\ csd'[id] = Render(d, size, painted)
      /\ \A i \in DOMAIN csd \ {id} : csd'[i] = csd[i]
  BY DEF TypeInv, TypeOK
<1>4. ASSUME NEW i \in DOMAIN csd PROVE CurrentAt(csd'[i], frames'[i].content_size)
  <2>1. CASE i = id
    BY <1>2, <1>3, <2>1
  <2>2. CASE i # id
    BY <1>3, <2>2 DEF TitlebarsCurrent
  <2> QED
    BY <2>1, <2>2
<1> QED
  BY <1>3, <1>4 DEF TitlebarsCurrent, CurrentAt, WidthCurrent, Picture

(* A step that paints nothing and resizes nothing; new decorations are bare. *)
LEMMA UnpaintedCurrent ==
    ASSUME TitlebarsCurrent,
           \A i \in DOMAIN csd' :
               \/ csd'[i].drawn = None /\ csd'[i].pressed = None
               \/ /\ i \in DOMAIN csd /\ csd'[i] = csd[i]
                  /\ frames'[i].content_size = frames[i].content_size
    PROVE  TitlebarsCurrent'
BY DEF TitlebarsCurrent, CurrentAt, WidthCurrent, Picture

(* Decorations as ensure_csd leaves them: the old ones and a bare one. *)
LEMMA EnsureCsdBare ==
    ASSUME NEW id, NEW mode, ensure_csd(id, mode)
    PROVE  \A i \in DOMAIN csd' : \/ csd'[i] = NewDecoration
                                  \/ i \in DOMAIN csd /\ csd'[i] = csd[i]
BY DEF ensure_csd, Put

-----------------------------------------------------------------------------
(***************************************************************************)
(* What the pointer's handlers do to decorations: nothing, or one of them  *)
(* is rendered with another hover or press.                                *)
(***************************************************************************)
Repaint(painted) ==
    \/ csd' = csd
    \/ \E id \in DOMAIN csd, d \in Decoration :
          /\ d.drawn = csd[id].drawn /\ d.width = csd[id].width
          /\ csd' = [csd EXCEPT ![id] = Render(d, ContentSize(id), painted)]

(* update_titlebar_hover repaints. *)
LEMMA HoverRepaints ==
    ASSUME TypeInv, NEW id, NEW x, NEW y, NEW painted, csd' = HoverAt(id, x, y, painted)
    PROVE  Repaint(painted)
<1>1. CASE csd' = csd
  BY <1>1 DEF Repaint
<1>2. CASE csd' # csd
  <2> DEFINE d == [csd[id] EXCEPT !.hover = HitAt(id, x, y)]
  <2>1. id \in DOMAIN csd /\ csd' = [csd EXCEPT ![id] = Render(d, ContentSize(id), painted)]
    BY <1>2 DEF HoverAt
  <2>2. csd[id] \in Decoration /\ csd[id].buttons \in SUBSET ButtonKinds
    BY <2>1 DEF TypeInv, TypeOK, Decoration
  <2>3. HitAt(id, x, y) \in Option(ButtonKinds)
    BY <2>2, HitType DEF HitAt
  <2>4. d \in Decoration /\ d.drawn = csd[id].drawn /\ d.width = csd[id].width
    BY <2>2, <2>3 DEF Decoration
  <2> HIDE DEF d
  <2> QED
    BY <2>1, <2>4 DEF Repaint
<1> QED
  BY <1>1, <1>2

(* A leave repaints without hover and press. *)
LEMMA LeaveRepaints ==
    ASSUME TypeInv, NEW p, NEW painted, PointerLeave(p, painted)
    PROVE  Repaint(painted)
<1>1. CASE csd' = csd
  BY <1>1 DEF Repaint
<1>2. CASE csd' # csd
  <2>1. PICK id \in DOMAIN csd :
          csd' = [csd EXCEPT ![id] = Render(Left(csd[id]), ContentSize(id), painted)]
    BY <1>2 DEF PointerLeave
  <2>2. csd[id] \in Decoration
    BY DEF TypeInv, TypeOK
  <2>3. /\ Left(csd[id]) \in Decoration
        /\ Left(csd[id]).drawn = csd[id].drawn /\ Left(csd[id]).width = csd[id].width
    BY <2>2, NoneType DEF Left, Decoration
  <2> QED
    BY <2>1, <2>3 DEF Repaint
<1> QED
  BY <1>1, <1>2

(* A press and a release repaint with what is pressed then. *)
LEMMA PressRepaints ==
    ASSUME TypeInv, NEW id \in DOMAIN csd, NEW pressed \in Option(ButtonKinds), NEW painted,
           csd' = [csd EXCEPT ![id] =
                    Render([@ EXCEPT !.pressed = pressed], ContentSize(id), painted)]
    PROVE  Repaint(painted)
<1> DEFINE d == [csd[id] EXCEPT !.pressed = pressed]
<1>1. csd[id] \in Decoration
  BY DEF TypeInv, TypeOK
<1>2. d \in Decoration /\ d.drawn = csd[id].drawn /\ d.width = csd[id].width
  BY <1>1 DEF Decoration
<1>3. csd' = [csd EXCEPT ![id] = Render(d, ContentSize(id), painted)]
  OBVIOUS
<1> HIDE DEF d
<1> QED
  BY <1>2, <1>3 DEF Repaint

(* A button on a titlebar is a press or a release there. *)
LEMMA ButtonRepaints ==
    ASSUME TypeInv, NEW p, NEW down, NEW serial, NEW painted,
           PointerButton(p, down, serial, painted)
    PROVE  Repaint(painted)
<1>1. CASE csd' = csd
  BY <1>1 DEF Repaint
<1>2. CASE csd' # csd
  <2> DEFINE id == pointer_focus[p].target.frame
             at == pointer_focus[p].at
  <2>1. \/ TitlebarPress(id, p, at, serial, painted)
        \/ TitlebarRelease(id, at, painted)
    BY <1>2 DEF PointerButton, BorderPress
  <2>2. id \in DOMAIN csd
    BY <1>2, <2>1 DEF TitlebarPress, TitlebarRelease
  <2>3. csd[id].buttons \in SUBSET ButtonKinds
    BY <2>2 DEF TypeInv, TypeOK, Decoration
  <2>4. HitAt(id, at[1], at[2]) \in Option(ButtonKinds)
    BY <2>3, HitType DEF HitAt
  <2>5. None \in Option(ButtonKinds)
    BY NoneType
  <2>6. \E pressed \in Option(ButtonKinds) :
          csd' = [csd EXCEPT ![id] =
                    Render([@ EXCEPT !.pressed = pressed], ContentSize(id), painted)]
    BY <2>1, <2>2, <2>4, <2>5 DEF TitlebarPress, TitlebarRelease
  <2> HIDE DEF id, at
  <2> QED
    BY <2>2, <2>6, PressRepaints
<1> QED
  BY <1>1, <1>2

(* A repaint leaves the titlebar current. *)
LEMMA RepaintCurrent ==
    ASSUME TypeInv, TitlebarsCurrent, NEW painted \in Paints, Repaint(painted), UNCHANGED frames
    PROVE  TitlebarsCurrent'
<1>1. CASE csd' = csd
  BY <1>1, UnpaintedCurrent
<1>2. CASE csd' # csd
  <2>1. PICK id \in DOMAIN csd, d \in Decoration :
          /\ d.drawn = csd[id].drawn /\ d.width = csd[id].width
          /\ csd' = [csd EXCEPT ![id] = Render(d, ContentSize(id), painted)]
    BY <1>2 DEF Repaint
  <2>2. id \in live /\ ContentSize(id) = frames[id].content_size /\ ContentSize(id) \in Size
    BY DEF TypeInv, TypeOK, ContentSize, Slot
  <2> QED
    BY <2>1, <2>2, PaintedCurrent
<1> QED
  BY <1>1, <1>2

(* The events of a pointer leave the titlebars current. *)
LEMMA PointerCurrent ==
    ASSUME TypeInv, TitlebarsCurrent, NEW p \in Pointers, PointerEvent(p)
    PROVE  TitlebarsCurrent'
<1>1. UNCHANGED frames
  BY DEF PointerEvent, PointerEnter, PointerLeave, PointerMotion, PointerButton
<1>2. \E painted \in Paints : Repaint(painted)
  <2>1. ASSUME NEW s, NEW at, NEW serial, NEW painted \in Paints,
               PointerEnter(p, s, at, serial, painted)
        PROVE  Repaint(painted)
    <3>1. csd' = csd \/ \E id : csd' = HoverAt(id, at[1], at[2], painted)
      BY <2>1 DEF PointerEnter
    <3> QED
      BY <3>1, HoverRepaints DEF Repaint
  <2>2. ASSUME NEW at, NEW painted \in Paints, PointerMotion(p, at, painted)
        PROVE  Repaint(painted)
    <3>1. csd' = csd \/ \E id : csd' = HoverAt(id, at[1], at[2], painted)
      BY <2>2 DEF PointerMotion
    <3> QED
      BY <3>1, HoverRepaints DEF Repaint
  <2> QED
    BY <2>1, <2>2, LeaveRepaints, ButtonRepaints DEF PointerEvent
<1> QED
  BY <1>1, <1>2, RepaintCurrent

(* The events of a frame change no content size; new decorations are bare. *)
LEMMA FrameEventCurrent ==
    ASSUME TypeInv, TitlebarsCurrent, NEW id \in Allocated, FrameEvent(id)
    PROVE  TitlebarsCurrent'
<1>1. /\ frames \in [live -> Slot] /\ (id \in live => frames[id] \in Slot)
      /\ DOMAIN csd \subseteq live
  BY DEF TypeInv, TypeOK
<1>2. ASSUME \A i \in live : frames'[i].content_size = frames[i].content_size, csd' = csd
      PROVE  TitlebarsCurrent'
  BY <1>1, <1>2, UnpaintedCurrent
<1>3. ASSUME \A i \in live : frames'[i].content_size = frames[i].content_size,
             NEW mode, ensure_csd(id, mode)
      PROVE  TitlebarsCurrent'
  <2>1. \A i \in DOMAIN csd' : \/ csd'[i] = NewDecoration
                               \/ i \in DOMAIN csd /\ csd'[i] = csd[i]
    BY <1>3, EnsureCsdBare
  <2>2. NewDecoration.drawn = None /\ NewDecoration.pressed = None
    BY DEF NewDecoration
  <2> QED
    BY <1>1, <1>3, <2>1, <2>2, UnpaintedCurrent
<1>4. ASSUME NEW serial, XdgSurfaceConfigure(id, serial) PROVE TitlebarsCurrent'
  <2>1. \A i \in live : frames'[i].content_size = frames[i].content_size
    BY <1>1, <1>4 DEF XdgSurfaceConfigure, TakePending, Slot
  <2> QED
    BY <1>3, <1>4, <2>1 DEF XdgSurfaceConfigure
<1>5. ASSUME NEW size, NEW states, ToplevelConfigure(id, size, states) PROVE TitlebarsCurrent'
  <2>1. \A i \in live : frames'[i].content_size = frames[i].content_size
    BY <1>1, <1>5 DEF ToplevelConfigure, Slot
  <2> QED
    BY <1>2, <1>5, <2>1 DEF ToplevelConfigure
<1>6. CASE ToplevelClose(id)
  BY <1>2, <1>6 DEF ToplevelClose
<1>7. ASSUME NEW size, ToplevelConfigureBounds(id, size) PROVE TitlebarsCurrent'
  <2>1. \A i \in live : frames'[i].content_size = frames[i].content_size
    BY <1>1, <1>7 DEF ToplevelConfigureBounds, Slot
  <2> QED
    BY <1>2, <1>7, <2>1 DEF ToplevelConfigureBounds
<1>8. ASSUME NEW wm, ToplevelWmCapabilities(id, wm) PROVE TitlebarsCurrent'
  <2>1. \A i \in live : frames'[i].content_size = frames[i].content_size
    BY <1>1, <1>8 DEF ToplevelWmCapabilities, Slot
  <2> QED
    BY <1>2, <1>8, <2>1 DEF ToplevelWmCapabilities
<1>9. ASSUME NEW mode, DecorationConfigure(id, mode) PROVE TitlebarsCurrent'
  <2>1. \A i \in live : frames'[i].content_size = frames[i].content_size
    BY <1>1, <1>9 DEF DecorationConfigure, Slot
  <2> QED
    BY <1>3, <1>9, <2>1 DEF DecorationConfigure
<1> QED
  BY <1>4, <1>5, <1>6, <1>7, <1>8, <1>9 DEF FrameEvent

(* A commit repaints at the size it commits. *)
LEMMA CommitCurrent ==
    ASSUME TypeInv, TitlebarsCurrent, NEW id \in live, NEW size \in Size, NEW cfg,
           NEW painted \in Paints, Commit(id, size, cfg, painted)
    PROVE  TitlebarsCurrent'
<1>1. /\ frames \in [live -> Slot] /\ frames[id] \in Slot /\ DOMAIN csd \subseteq live
      /\ csd \in [DOMAIN csd -> Decoration]
  BY DEF TypeInv, TypeOK
<1>2. /\ frames'[id].content_size = size
      /\ \A i \in live \ {id} : frames'[i].content_size = frames[i].content_size
  BY <1>1 DEF Commit, Slot
<1>3. CASE id \in DOMAIN csd
  <2> DEFINE window_state == IF cfg = None \/ cfg[1].window_state = None
                             THEN frames[id].window_state ELSE cfg[1].window_state[1]
             active == "ACTIVE" \in window_state
             buttons == compute_buttons(frames[id].capabilities, frames[id].wm_capabilities,
                                        frames[id].wm_known)
             d == [csd[id] EXCEPT !.active = active, !.buttons = buttons]
  <2>1. /\ csd' = [csd EXCEPT ![id] = Render(d, size, painted)]
        /\ active \in BOOLEAN /\ buttons \in SUBSET ButtonKinds
    BY <1>3, ButtonsType DEF Commit
  <2> HIDE DEF window_state, active, buttons
  <2>2. d \in Decoration /\ d.drawn = csd[id].drawn /\ d.width = csd[id].width
    BY <1>1, <1>3, <2>1 DEF Decoration
  <2> HIDE DEF d
  <2> QED
    BY <1>1, <1>2, <1>3, <2>1, <2>2, PaintedCurrent
<1>4. CASE id \notin DOMAIN csd
  <2>1. csd' = csd
    BY <1>4 DEF Commit
  <2> QED
    BY <1>1, <1>2, <1>4, <2>1, UnpaintedCurrent
<1> QED
  BY <1>3, <1>4

(* The calls on a frame leave its titlebar current. *)
LEMMA FrameCallCurrent ==
    ASSUME TypeInv, TitlebarsCurrent, NEW id \in live, FrameCall(id)
    PROVE  TitlebarsCurrent'
<1>1. /\ frames \in [live -> Slot] /\ frames[id] \in Slot /\ DOMAIN csd \subseteq live
      /\ held \in [DOMAIN held -> Configurations]
  BY DEF TypeInv, TypeOK
<1>2. CASE DestroyFrame(id)
  <2>1. /\ DOMAIN csd' \subseteq live \ {id}
        /\ \A i \in DOMAIN csd' : i \in DOMAIN csd /\ csd'[i] = csd[i] /\ frames'[i] = frames[i]
    BY <1>1, <1>2 DEF DestroyFrame, Without, Restrict, live
  <2> QED
    BY <2>1, UnpaintedCurrent
<1>3. CASE \E painted \in Paints : CommitConfigured(id, painted)
  <2>1. PICK painted \in Paints : CommitConfigured(id, painted)
    BY <1>3
  <2>2. id \in DOMAIN held /\ held[id].size \in Option(Size)
    BY <1>1, <2>1 DEF CommitConfigured, Configurations
  <2>3. PICK size \in IF held[id].size = None THEN AppSizes ELSE {held[id].size[1]} :
          Commit(id, size, Some(held[id]), painted)
    BY <2>1 DEF CommitConfigured
  <2>4. size \in Size
    BY <2>2, <2>3, OptionValue, ConstantAssumption DEF Size
  <2> QED
    BY <2>3, <2>4, CommitCurrent
<1>4. CASE \E painted \in Paints : CommitResized(id, painted)
  <2>1. AppSizes \subseteq Size
    BY ConstantAssumption DEF Size
  <2> QED
    BY <1>4, <2>1, CommitCurrent DEF CommitResized
<1>5. CASE /\ csd' = csd
           /\ \A i \in live : frames'[i].content_size = frames[i].content_size
  BY <1>1, <1>5, UnpaintedCurrent
<1>6. CASE Map(id)
  BY <1>1, <1>5, <1>6 DEF Map, Slot
<1>7. CASE \E caps \in CapSets : SetCapabilities(id, caps) \/ UnsetCapabilities(id, caps)
  BY <1>1, <1>5, <1>7 DEF SetCapabilities, UnsetCapabilities, Slot
<1>8. CASE \E visible \in BOOLEAN : SetVisibility(id, visible)
  BY <1>1, <1>5, <1>8 DEF SetVisibility, Slot
<1>9. CASE UNCHANGED <<inner, held, pointers, over>>
  BY <1>5, <1>9 DEF inner
<1> QED
  BY <1>2, <1>3, <1>4, <1>6, <1>7, <1>8, <1>9 DEF FrameCall, ToplevelRequest, SetParent

(* Every step leaves the titlebars current. *)
LEMMA CurrentStep == TypeInv /\ TitlebarsCurrent /\ [Next]_vars => TitlebarsCurrent'
<1> SUFFICES ASSUME TypeInv, TitlebarsCurrent, [Next]_vars PROVE TitlebarsCurrent'
  OBVIOUS
<1>1. DOMAIN csd \subseteq live /\ live \subseteq Allocated /\ next_id \in Nat
  BY DEF TypeInv, TypeOK
<1>2. CASE UNCHANGED <<frames, csd>>
  BY <1>2, UnpaintedCurrent
<1>3. ASSUME NEW surface, NEW owns, NEW creation, decorate_inner(surface, owns, creation)
      PROVE  TitlebarsCurrent'
  <2>1. csd' = csd /\ \A i \in live : frames'[i] = frames[i]
    BY <1>1, <1>3 DEF decorate_inner, Put, live, Allocated
  <2> QED
    BY <1>1, <2>1, UnpaintedCurrent
<1>4. CASE Call
  BY <1>2, <1>3, <1>4, FrameCallCurrent
     DEF Call, ForceClientSideDecorations, PollEvent, CreateFrame, Decorate
<1>5. CASE \E seat \in Seats : SeatEvent(seat)
  BY <1>2, <1>5 DEF SeatEvent, SeatGainsPointer, SeatLosesPointer
<1> QED
  BY <1>2, <1>4, <1>5, FrameEventCurrent, PointerCurrent DEF Next, vars, inner

LEMMA CurrentAlways == Spec => []TypeInv /\ []TitlebarsCurrent
<1>1. Init => TitlebarsCurrent
  BY DEF Init, TitlebarsCurrent
<1>2. Init => TypeInv
  BY TypeInit
<1>3. TypeInv /\ [Next]_vars => TypeInv'
  BY TypeStep
<1>4. TypeInv /\ TitlebarsCurrent /\ [Next]_vars => TitlebarsCurrent'
  BY CurrentStep
<1> QED
  BY <1>1, <1>2, <1>3, <1>4, PTL DEF Spec

(***************************************************************************)
(* A click is judged by the titlebar that was painted last: the width is   *)
(* that of the last paint, also when allocations fail; and while none      *)
(* fails every handler that changes what the titlebar is to show repaints  *)
(* it, for every size, every set of buttons and any number of pointers.    *)
(* When the painted picture reaches the screen is not said.                *)
(***************************************************************************)
THEOREM PictureCorrect == Spec => []DrawingCurrent
<1>1. Spec => []TitlebarsCurrent
  BY CurrentAlways
<1>2. TitlebarsCurrent => DrawingCurrent
  BY DEF TitlebarsCurrent, CurrentAt, WidthCurrent, DrawingCurrent
<1> QED
  BY <1>1, <1>2, PTL

-----------------------------------------------------------------------------
(***************************************************************************)
(* Feedback.  FeedbackHasPointer is inductive with RegistryInv: the focus  *)
(* behind a press or a highlight is lost only with the decoration, because *)
(* a focus names a surface of the frame it is about, and a pointer enters  *)
(* a surface only when it has no focus.                                    *)
(***************************************************************************)
OnTitlebar(p, id) == pointer_focus[p].target = Target(id, "Titlebar")

(* A step that shows no new feedback, and that keeps the focuses on the    *)
(* titlebars that still show some, keeps feedback backed.                  *)
LEMMA FeedbackKept ==
    ASSUME FeedbackHasPointer,
           \A id \in DOMAIN csd' :
               /\ csd'[id].hover # None => id \in DOMAIN csd /\ csd[id].hover # None
               /\ csd'[id].pressed # None => id \in DOMAIN csd /\ csd[id].pressed # None,
           \A p \in DOMAIN pointer_focus, id \in DOMAIN csd' :
               /\ OnTitlebar(p, id)
               /\ csd'[id].hover # None \/ csd'[id].pressed # None
               => /\ p \in DOMAIN pointer_focus'
                  /\ pointer_focus'[p].target = pointer_focus[p].target
                  /\ pointer_focus'[p].button_down = pointer_focus[p].button_down
    PROVE  FeedbackHasPointer'
<1> SUFFICES ASSUME NEW id \in DOMAIN csd'
    PROVE  /\ csd'[id].pressed # None =>
                 \E p \in DOMAIN pointer_focus' :
                     /\ pointer_focus'[p].target = Target(id, "Titlebar")
                     /\ pointer_focus'[p].button_down
           /\ csd'[id].hover # None =>
                 \E p \in DOMAIN pointer_focus' :
                     pointer_focus'[p].target = Target(id, "Titlebar")
  BY DEF FeedbackHasPointer, Target
<1>1. ASSUME csd'[id].pressed # None
      PROVE  \E p \in DOMAIN pointer_focus' :
                 /\ pointer_focus'[p].target = Target(id, "Titlebar")
                 /\ pointer_focus'[p].button_down
  <2>1. PICK p \in DOMAIN pointer_focus : OnTitlebar(p, id) /\ pointer_focus[p].button_down
    BY <1>1 DEF FeedbackHasPointer, OnTitlebar
  <2> QED
    BY <1>1, <2>1 DEF OnTitlebar
<1>2. ASSUME csd'[id].hover # None
      PROVE  \E p \in DOMAIN pointer_focus' : pointer_focus'[p].target = Target(id, "Titlebar")
  <2>1. PICK p \in DOMAIN pointer_focus : OnTitlebar(p, id)
    BY <1>2 DEF FeedbackHasPointer, OnTitlebar
  <2> QED
    BY <1>2, <2>1 DEF OnTitlebar
<1> QED
  BY <1>1, <1>2

(* A focus on a titlebar is a target with that part. *)
LEMMA TitlebarTarget ==
    ASSUME NEW target \in TargetType, target.part = "Titlebar"
    PROVE  target = Target(target.frame, "Titlebar")
BY DEF TargetType, Target

(* The feedback of decorations after a hover over one of them. *)
LEMMA HoverFeedback ==
    ASSUME TypeInv, NEW id, NEW x, NEW y, NEW painted, csd' = HoverAt(id, x, y, painted)
    PROVE  /\ DOMAIN csd' = DOMAIN csd
           /\ \A i \in DOMAIN csd : /\ csd'[i].pressed = csd[i].pressed
                                    /\ i # id => csd'[i] = csd[i]
<1>1. CASE csd' = csd
  BY <1>1
<1>2. CASE csd' # csd
  <2> DEFINE d == [csd[id] EXCEPT !.hover = HitAt(id, x, y)]
  <2>1. id \in DOMAIN csd /\ csd' = [csd EXCEPT ![id] = Render(d, ContentSize(id), painted)]
    BY <1>2 DEF HoverAt
  <2>2. csd[id] \in Decoration /\ csd[id].buttons \in SUBSET ButtonKinds
    BY <2>1 DEF TypeInv, TypeOK, Decoration
  <2>3. HitAt(id, x, y) \in Option(ButtonKinds)
    BY <2>2, HitType DEF HitAt
  <2>4. d \in Decoration /\ d.pressed = csd[id].pressed
    BY <2>2, <2>3 DEF Decoration
  <2> HIDE DEF d
  <2>5. Render(d, ContentSize(id), painted).pressed = csd[id].pressed
    BY <2>4, RenderKeeps
  <2> QED
    BY <2>1, <2>5 DEF TypeInv, TypeOK
<1> QED
  BY <1>1, <1>2

(* A pointer enters without a focus, so none is lost; a highlight that      *)
(* appears is under it.                                                     *)
LEMMA EnterFeedback ==
    ASSUME RegistryInv, FeedbackHasPointer, NEW p, NEW s, NEW at, NEW serial, NEW painted,
           PointerEnter(p, s, at, serial, painted)
    PROVE  FeedbackHasPointer'
<1>1. p \notin DOMAIN pointer_focus
  BY DEF PointerEnter, Dead, RegistryInv, FocusTracksCompositor
<1>2. CASE s \notin DOMAIN surface_targets
  <2>1. UNCHANGED <<pointer_focus, csd>>
    BY <1>2 DEF PointerEnter
  <2> QED
    BY <2>1 DEF FeedbackHasPointer
<1>3. CASE s \in DOMAIN surface_targets
  <2> DEFINE target == surface_targets[s]
  <2>1. target \in TargetType /\ TypeInv
    BY <1>3 DEF RegistryInv, TypeInv, TypeOK
  <2>2. /\ DOMAIN pointer_focus' = DOMAIN pointer_focus \cup {p}
        /\ pointer_focus'[p].target = target
        /\ \A q \in DOMAIN pointer_focus : pointer_focus'[q] = pointer_focus[q]
    BY <1>1, <1>3 DEF PointerEnter, Put
  <2>3. csd' = IF target.part = "Titlebar" THEN HoverAt(target.frame, at[1], at[2], painted)
                                           ELSE csd
    BY <1>3 DEF PointerEnter
  <2> HIDE DEF target
  <2>4. CASE target.part # "Titlebar"
    BY <2>2, <2>3, <2>4 DEF FeedbackHasPointer
  <2>5. CASE target.part = "Titlebar"
    <3>1. target = Target(target.frame, "Titlebar")
      BY <2>1, <2>5, TitlebarTarget
    <3>2. /\ DOMAIN csd' = DOMAIN csd
          /\ \A i \in DOMAIN csd : /\ csd'[i].pressed = csd[i].pressed
                                   /\ i # target.frame => csd'[i] = csd[i]
      BY <2>1, <2>3, <2>5, HoverFeedback
    <3> QED
      BY <2>2, <3>1, <3>2 DEF FeedbackHasPointer
  <2> QED
    BY <2>4, <2>5
<1> QED
  BY <1>2, <1>3

(* A leave clears what the pointer's titlebar shows. *)
LEMMA LeaveFeedback ==
    ASSUME RegistryInv, FeedbackHasPointer, NEW p, NEW painted, PointerLeave(p, painted)
    PROVE  FeedbackHasPointer'
<1>1. csd \in [DOMAIN csd -> Decoration]
      /\ (p \in DOMAIN pointer_focus => /\ pointer_focus[p].target \in TargetType
                                        /\ pointer_focus[p].surface = over[p].surface)
  BY DEF RegistryInv, TypeInv, TypeOK, PointerFocus, FocusTracksCompositor
<1>2. CASE p \notin DOMAIN pointer_focus
  <2>1. UNCHANGED <<pointer_focus, csd>>
    BY <1>2 DEF PointerLeave
  <2> QED
    BY <2>1 DEF FeedbackHasPointer
<1>3. CASE p \in DOMAIN pointer_focus
  <2> DEFINE target == pointer_focus[p].target
  <2>1. /\ DOMAIN pointer_focus' = DOMAIN pointer_focus \ {p}
        /\ \A q \in DOMAIN pointer_focus \ {p} : pointer_focus'[q] = pointer_focus[q]
    BY <1>1, <1>3 DEF PointerLeave, Without, Restrict
  <2>2. csd' = IF target.part = "Titlebar" /\ target.frame \in DOMAIN csd
               THEN [csd EXCEPT ![target.frame] =
                        Render(Left(@), ContentSize(target.frame), painted)]
               ELSE csd
    BY <1>1, <1>3 DEF PointerLeave
  <2>3. target \in TargetType
    BY <1>1, <1>3
  <2>4. \A id : OnTitlebar(p, id) => target.part = "Titlebar" /\ target.frame = id
    BY DEF OnTitlebar, Target
  <2> HIDE DEF target
  <2>5. DOMAIN csd' = DOMAIN csd
    BY <2>2
  <2>6. \A id \in DOMAIN csd :
            csd'[id] = csd[id] \/ (csd'[id].hover = None /\ csd'[id].pressed = None)
    <3>1. ASSUME NEW id \in DOMAIN csd
          PROVE  /\ Render(Left(csd[id]), ContentSize(id), painted).hover = None
                 /\ Render(Left(csd[id]), ContentSize(id), painted).pressed = None
      <4>1. csd[id] \in Decoration
        BY <1>1
      <4>2. Left(csd[id]) \in Decoration /\ Left(csd[id]).hover = None
                /\ Left(csd[id]).pressed = None
        BY <4>1, NoneType DEF Left, Decoration
      <4> QED
        BY <4>2, RenderKeeps
    <3> QED
      BY <2>2, <3>1
  <2>7. \A id \in DOMAIN csd : OnTitlebar(p, id) =>
            csd'[id].hover = None /\ csd'[id].pressed = None
    <3>1. SUFFICES ASSUME NEW id \in DOMAIN csd, OnTitlebar(p, id)
          PROVE  csd'[id].hover = None /\ csd'[id].pressed = None
      OBVIOUS
    <3>2. csd[id] \in Decoration
      BY <1>1
    <3>3. Left(csd[id]) \in Decoration /\ Left(csd[id]).hover = None
              /\ Left(csd[id]).pressed = None
      BY <3>2, NoneType DEF Left, Decoration
    <3>4. csd'[id] = Render(Left(csd[id]), ContentSize(id), painted)
      BY <2>2, <2>4, <3>1
    <3> QED
      BY <3>3, <3>4, RenderKeeps
  <2> QED
    BY <2>1, <2>5, <2>6, <2>7, FeedbackKept
<1> QED
  BY <1>2, <1>3

(* A pointer that moves stays on its titlebar. *)
LEMMA MotionFeedback ==
    ASSUME RegistryInv, FeedbackHasPointer, NEW p, NEW at, NEW painted,
           PointerMotion(p, at, painted)
    PROVE  FeedbackHasPointer'
<1>1. TypeInv /\ pointer_focus \in [DOMAIN pointer_focus -> PointerFocus]
  BY DEF RegistryInv, TypeInv, TypeOK
<1>2. CASE p \notin DOMAIN pointer_focus
  <2>1. UNCHANGED <<pointer_focus, csd>>
    BY <1>2 DEF PointerMotion
  <2> QED
    BY <2>1 DEF FeedbackHasPointer
<1>3. CASE p \in DOMAIN pointer_focus
  <2> DEFINE target == pointer_focus[p].target
  <2>1. target \in TargetType
    BY <1>1, <1>3 DEF PointerFocus
  <2>2. /\ DOMAIN pointer_focus' = DOMAIN pointer_focus
        /\ \A q \in DOMAIN pointer_focus :
              /\ pointer_focus'[q].target = pointer_focus[q].target
              /\ pointer_focus'[q].button_down = pointer_focus[q].button_down
    BY <1>1, <1>3 DEF PointerMotion, PointerFocus
  <2>3. csd' = IF target.part = "Titlebar" THEN HoverAt(target.frame, at[1], at[2], painted)
                                           ELSE csd
    BY <1>3 DEF PointerMotion
  <2>4. CASE target.part # "Titlebar"
    BY <2>2, <2>3, <2>4 DEF FeedbackHasPointer
  <2>5. CASE target.part = "Titlebar"
    <3>1. target = Target(target.frame, "Titlebar")
      BY <2>1, <2>5, TitlebarTarget
    <3>2. /\ DOMAIN csd' = DOMAIN csd
          /\ \A i \in DOMAIN csd : /\ csd'[i].pressed = csd[i].pressed
                                   /\ i # target.frame => csd'[i] = csd[i]
      BY <1>1, <2>3, <2>5, HoverFeedback
    <3> QED
      BY <1>3, <2>2, <3>1, <3>2 DEF FeedbackHasPointer
  <2> QED
    BY <2>4, <2>5
<1> QED
  BY <1>2, <1>3

(* A press is held by the pointer that makes it, a release clears it. *)
LEMMA ButtonFeedback ==
    ASSUME RegistryInv, FeedbackHasPointer, NEW p, NEW down \in BOOLEAN, NEW serial, NEW painted,
           PointerButton(p, down, serial, painted)
    PROVE  FeedbackHasPointer'
<1>1. csd \in [DOMAIN csd -> Decoration]
      /\ pointer_focus \in [DOMAIN pointer_focus -> PointerFocus]
  BY DEF RegistryInv, TypeInv, TypeOK
<1>2. CASE p \notin DOMAIN pointer_focus
  <2>1. UNCHANGED <<pointer_focus, csd>>
    BY <1>2 DEF PointerButton
  <2> QED
    BY <2>1 DEF FeedbackHasPointer
<1>3. CASE p \in DOMAIN pointer_focus
  <2> DEFINE target == pointer_focus[p].target
             at == pointer_focus[p].at
  <2>1. target \in TargetType
    BY <1>1, <1>3 DEF PointerFocus
  <2>2. /\ DOMAIN pointer_focus' = DOMAIN pointer_focus
        /\ pointer_focus'[p].target = target /\ pointer_focus'[p].button_down = down
        /\ \A q \in DOMAIN pointer_focus \ {p} : pointer_focus'[q] = pointer_focus[q]
    BY <1>1, <1>3 DEF PointerButton, PointerFocus
  <2>3. \/ target.part # "Titlebar" /\ csd' = csd
        \/ target.part = "Titlebar" /\ down /\ TitlebarPress(target.frame, p, at, serial, painted)
        \/ target.part = "Titlebar" /\ ~down /\ TitlebarRelease(target.frame, at, painted)
    BY <1>3 DEF PointerButton, BorderPress, Edges
  <2> HIDE DEF target, at
  <2>4. CASE target.part # "Titlebar"
    <3>1. \A i : target # Target(i, "Titlebar")
      BY <2>4 DEF Target
    <3>2. csd' = csd /\ target = pointer_focus[p].target
      BY <2>3, <2>4 DEF target
    <3> QED
      BY <2>2, <3>1, <3>2 DEF FeedbackHasPointer
  <2>5. CASE target.part = "Titlebar"
    <3> DEFINE id == target.frame
    <3>1. /\ target = Target(id, "Titlebar") /\ target = pointer_focus[p].target
          /\ \A i : i # id => target # Target(i, "Titlebar")
      BY <2>1, <2>5, TitlebarTarget DEF Target, target
    <3>2. /\ DOMAIN csd' = DOMAIN csd
          /\ \A i \in DOMAIN csd : i # id => csd'[i] = csd[i]
      BY <1>1, <2>3, <2>5 DEF TitlebarPress, TitlebarRelease
    <3>3. ASSUME id \in DOMAIN csd, csd'[id].pressed # None PROVE down
      <4>1. SUFFICES ASSUME TitlebarRelease(id, at, painted) PROVE csd'[id].pressed = None
        BY <2>3, <2>5, <3>3
      <4> DEFINE d == [csd[id] EXCEPT !.pressed = None]
      <4>2. d \in Decoration /\ d.pressed = None
        BY <1>1, <3>3, NoneType DEF Decoration
      <4>3. csd'[id] = Render(d, ContentSize(id), painted)
        BY <3>3, <4>1 DEF TitlebarRelease
      <4> HIDE DEF d
      <4> QED
        BY <4>2, <4>3, RenderKeeps
    <3> HIDE DEF id
    <3>4. ASSUME NEW i \in DOMAIN csd'
          PROVE  /\ csd'[i].pressed # None =>
                       \E q \in DOMAIN pointer_focus' :
                           /\ pointer_focus'[q].target = Target(i, "Titlebar")
                           /\ pointer_focus'[q].button_down
                 /\ csd'[i].hover # None =>
                       \E q \in DOMAIN pointer_focus' :
                           pointer_focus'[q].target = Target(i, "Titlebar")
      <4>1. CASE i = id
        BY <1>3, <2>2, <3>1, <3>2, <3>3, <4>1
      <4>2. CASE i # id
        BY <2>2, <3>1, <3>2, <4>2 DEF FeedbackHasPointer
      <4> QED
        BY <4>1, <4>2
    <3> QED
      BY <3>4 DEF FeedbackHasPointer, Target
  <2> QED
    BY <2>4, <2>5
<1> QED
  BY <1>2, <1>3

(* A frame takes with it only the focuses on its own surfaces. *)
LEMMA DestroyFeedback ==
    ASSUME RegistryInv, FeedbackHasPointer, NEW id \in live, DestroyFrame(id)
    PROVE  FeedbackHasPointer'
<1>1. unregister_surfaces(InputSurfaces(id))
      /\ DOMAIN csd' = DOMAIN csd \ {id} /\ \A i \in DOMAIN csd' : csd'[i] = csd[i]
  BY DEF DestroyFrame, InputSurfaces, Without, Restrict
<1>2. ASSUME NEW p \in DOMAIN pointer_focus, NEW i \in DOMAIN csd', OnTitlebar(p, i)
      PROVE  pointer_focus[p].surface \notin InputSurfaces(id)
  <2>1. surface_targets[pointer_focus[p].surface] = Target(i, "Titlebar") /\ i # id
    BY <1>1, <1>2 DEF OnTitlebar, RegistryInv, FocusTracksCompositor
  <2>2. \A s \in InputSurfaces(id) : surface_targets[s].frame = id
    <3>1. surface_targets[frames[id].surface].frame = id
      <4>1. surface_targets[frames[id].surface] = Target(id, "Content")
        BY DEF RegistryInv, RegistryExact
      <4> QED
        BY <4>1 DEF Target
    <3>2. ASSUME NEW s \in CsdSurfaces(id), id \in DOMAIN csd
          PROVE  surface_targets[s].frame = id
      <4>1. surface_targets[s] = Target(id, s[2])
        BY <3>2 DEF RegistryInv, RegistryExact
      <4> QED
        BY <4>1 DEF Target
    <3> QED
      BY <3>1, <3>2 DEF InputSurfaces
  <2> QED
    BY <2>1, <2>2 DEF Target
<1>3. \A p \in DOMAIN pointer_focus :
          pointer_focus[p].surface \notin InputSurfaces(id) =>
              p \in DOMAIN pointer_focus' /\ pointer_focus'[p] = pointer_focus[p]
  BY <1>1 DEF unregister_surfaces, Restrict
<1> QED
  BY <1>1, <1>2, <1>3, FeedbackKept

(* A step that keeps the focuses and what the decorations show of them. *)
LEMMA FeedbackStable ==
    ASSUME FeedbackHasPointer, UNCHANGED pointer_focus,
           \A i \in DOMAIN csd' :
               \/ csd'[i].hover = None /\ csd'[i].pressed = None
               \/ /\ i \in DOMAIN csd
                  /\ csd'[i].hover = csd[i].hover /\ csd'[i].pressed = csd[i].pressed
    PROVE  FeedbackHasPointer'
BY FeedbackKept

(* A commit repaints with the same hover and press. *)
LEMMA CommitFeedback ==
    ASSUME TypeInv, FeedbackHasPointer, NEW id \in live, NEW size, NEW cfg, NEW painted,
           Commit(id, size, cfg, painted)
    PROVE  FeedbackHasPointer'
<1>1. CASE id \notin DOMAIN csd
  BY <1>1, FeedbackStable DEF Commit
<1>2. CASE id \in DOMAIN csd
  <2>1. PICK active \in BOOLEAN, buttons \in SUBSET ButtonKinds :
            csd' = [csd EXCEPT ![id] =
                       Render([@ EXCEPT !.active = active, !.buttons = buttons], size, painted)]
    <3> DEFINE window_state == IF cfg = None \/ cfg[1].window_state = None
                               THEN frames[id].window_state ELSE cfg[1].window_state[1]
               active == "ACTIVE" \in window_state
               buttons == compute_buttons(frames[id].capabilities,
                              frames[id].wm_capabilities, frames[id].wm_known)
    <3>1. csd' = [csd EXCEPT ![id] =
                     Render([@ EXCEPT !.active = active, !.buttons = buttons], size, painted)]
      BY <1>2 DEF Commit
    <3>2. active \in BOOLEAN
      OBVIOUS
    <3>3. buttons \in SUBSET ButtonKinds
      BY ButtonsType
    <3> HIDE DEF active, buttons
    <3> QED
      BY <3>1, <3>2, <3>3
  <2> DEFINE d == [csd[id] EXCEPT !.active = active, !.buttons = buttons]
  <2>2. csd \in [DOMAIN csd -> Decoration]
    BY DEF TypeInv, TypeOK
  <2>3. d \in Decoration /\ d.hover = csd[id].hover /\ d.pressed = csd[id].pressed
    BY <1>2, <2>2 DEF Decoration
  <2>4. /\ DOMAIN csd' = DOMAIN csd /\ csd'[id] = Render(d, size, painted)
        /\ \A i \in DOMAIN csd \ {id} : csd'[i] = csd[i]
    BY <1>2, <2>1, <2>2
  <2> HIDE DEF d
  <2>5. csd'[id].hover = csd[id].hover /\ csd'[id].pressed = csd[id].pressed
    BY <2>3, <2>4, RenderKeeps
  <2>6. UNCHANGED pointer_focus
    BY DEF Commit
  <2> QED
    BY <2>4, <2>5, <2>6, FeedbackStable
<1> QED
  BY <1>1, <1>2

(* Every step keeps feedback backed by a pointer. *)
LEMMA FeedbackStep ==
    RegistryInv /\ FeedbackHasPointer /\ [Next]_vars => FeedbackHasPointer'
<1> SUFFICES ASSUME RegistryInv, FeedbackHasPointer, [Next]_vars PROVE FeedbackHasPointer'
  OBVIOUS
<1>1. TypeInv
  BY DEF RegistryInv
<1>2. CASE UNCHANGED <<pointer_focus, csd>>
  BY <1>2, FeedbackStable
<1>3. ASSUME NEW id, NEW mode, ensure_csd(id, mode), UNCHANGED pointer_focus
      PROVE  FeedbackHasPointer'
  <2>1. \A i \in DOMAIN csd' : \/ csd'[i] = NewDecoration
                               \/ i \in DOMAIN csd /\ csd'[i] = csd[i]
    BY <1>3, EnsureCsdBare
  <2>2. NewDecoration.hover = None /\ NewDecoration.pressed = None
    BY DEF NewDecoration
  <2> QED
    BY <1>3, <2>1, <2>2, FeedbackStable
<1>4. CASE \E id \in Allocated : FrameEvent(id)
  <2>1. PICK id \in Allocated : FrameEvent(id)
    BY <1>4
  <2>2. ASSUME NEW serial, XdgSurfaceConfigure(id, serial) PROVE FeedbackHasPointer'
    BY <1>3, <2>2 DEF XdgSurfaceConfigure
  <2>3. ASSUME NEW mode, DecorationConfigure(id, mode) PROVE FeedbackHasPointer'
    BY <1>3, <2>3 DEF DecorationConfigure
  <2> QED
    BY <1>2, <2>1, <2>2, <2>3
       DEF FrameEvent, ToplevelConfigure, ToplevelClose, ToplevelConfigureBounds,
           ToplevelWmCapabilities
<1>5. CASE \E p \in Pointers : PointerEvent(p)
  BY <1>5, EnterFeedback, LeaveFeedback, MotionFeedback, ButtonFeedback DEF PointerEvent
<1>6. CASE Call
  <2>1. ASSUME NEW id \in live, FrameCall(id) PROVE FeedbackHasPointer'
    <3>1. CASE DestroyFrame(id)
      BY <3>1, DestroyFeedback
    <3>2. CASE \E painted \in Paints : CommitConfigured(id, painted) \/ CommitResized(id, painted)
      BY <1>1, <3>2, CommitFeedback DEF CommitConfigured, CommitResized
    <3> QED
      BY <1>2, <2>1, <3>1, <3>2
         DEF FrameCall, Map, SetCapabilities, UnsetCapabilities, SetVisibility,
             ToplevelRequest, SetParent, inner
  <2> QED
    BY <1>2, <1>6, <2>1
       DEF Call, ForceClientSideDecorations, PollEvent, CreateFrame, Decorate, decorate_inner
<1>7. CASE \E seat \in Seats : SeatEvent(seat)
  BY <1>2, <1>7 DEF SeatEvent, SeatGainsPointer, SeatLosesPointer
<1> QED
  BY <1>2, <1>4, <1>5, <1>6, <1>7 DEF Next, vars, inner

(***************************************************************************)
(* A press or a highlight that a titlebar shows belongs to a visit of a    *)
(* pointer to it that was not ended by a leave, whatever is destroyed,     *)
(* decorated or committed meanwhile and however many pointers there are.   *)
(* The visit of a pointer that was released is such a visit: feedback may  *)
(* outlive the pointer, not the visit.                                     *)
(***************************************************************************)
THEOREM FeedbackCorrect == Spec => []FeedbackHasPointer
<1>1. Init => FeedbackHasPointer
  BY DEF Init, FeedbackHasPointer
<1>2. Init => RegistryInv
  BY RegistryInit
<1>3. RegistryInv /\ [Next]_vars => RegistryInv'
  BY RegistryStep
<1>4. RegistryInv /\ FeedbackHasPointer /\ [Next]_vars => FeedbackHasPointer'
  BY FeedbackStep
<1> QED
  BY <1>1, <1>2, <1>3, <1>4, PTL DEF Spec

-----------------------------------------------------------------------------
(***************************************************************************)
(* Clicks.  Only a leave, a press and a release end a press; only the      *)
(* release asks the compositor or the application for something then, and  *)
(* only when the button it is on is the one that is pressed.               *)
(***************************************************************************)
(* Requests that are no click's. *)
LEMMA NothingFired ==
    ASSUME TypeInv, UNCHANGED events,
           \/ requests' = <<>>
           \/ \E r : requests' = <<r>> /\ r.req \notin TitlebarRequests
    PROVE  ~Fired
<1>1. Len(events) \in Nat
  BY DEF TypeInv, TypeOK
<1> QED
  BY <1>1 DEF Fired

(* A press repaints with what it hit, and asks for a move or for nothing. *)
LEMMA PressFires ==
    ASSUME TypeInv, NEW id, NEW p, NEW at, NEW serial, NEW painted,
           TitlebarPress(id, p, at, serial, painted)
    PROVE  ~Fired
<1>1. UNCHANGED events /\ (requests' = <<>> \/ \E r : requests' = <<r>> /\ r.req = "move")
  BY DEF TitlebarPress
<1> QED
  BY <1>1, NothingFired DEF TitlebarRequests

(* A release on another button than the pressed one does nothing. *)
LEMMA ReleaseFires ==
    ASSUME TypeInv, NEW id \in DOMAIN csd, NEW at, NEW painted,
           TitlebarRelease(id, at, painted), Fired
    PROVE  csd[id].pressed = HitAt(id, at[1], at[2])
<1> SUFFICES ASSUME csd[id].pressed # HitAt(id, at[1], at[2]) PROVE FALSE
  OBVIOUS
<1>1. UNCHANGED events /\ requests' = <<>>
  BY DEF TitlebarRelease
<1> QED
  BY <1>1, NothingFired

(* A click of a pointer on a titlebar is made on what was shown there. *)
LEMMA ButtonClicks ==
    ASSUME TypeInv, TitlebarsCurrent, NEW p, NEW down, NEW serial, NEW painted,
           PointerButton(p, down, serial, painted), NEW id \in DOMAIN csd
    PROVE  ClickAt(id)
<1> DEFINE shown == csd[id].drawn[1]
           target == pointer_focus[p].target
           at == pointer_focus[p].at
<1> SUFFICES ASSUME csd[id].pressed # None, csd'[id].pressed = None, Fired, ~ShmMayFail,
                    frames[id].content_size[1] > 0, frames[id].content_size[2] > 0
    PROVE  /\ shown.pressed = csd[id].pressed
           /\ \E q \in DOMAIN pointer_focus : /\ pointer_focus[q].target = Target(id, "Titlebar")
                                              /\ shown.pressed = ShownButton(id, q)
  BY DEF ClickAt
<1>1. /\ csd \in [DOMAIN csd -> Decoration]
      /\ p \in DOMAIN pointer_focus => target \in TargetType
  BY DEF TypeInv, TypeOK, PointerFocus
<1>2. p \in DOMAIN pointer_focus /\ csd' # csd
  BY DEF PointerButton
<1>3. \/ TitlebarPress(target.frame, p, at, serial, painted)
      \/ target.part = "Titlebar" /\ TitlebarRelease(target.frame, at, painted)
  BY <1>2 DEF PointerButton, BorderPress
<1>4. target.part = "Titlebar" /\ TitlebarRelease(target.frame, at, painted)
  BY <1>3, PressFires
<1>5. target = Target(target.frame, "Titlebar")
  BY <1>1, <1>2, <1>4, TitlebarTarget
<1>6. target.frame = id
  <2>1. \A i \in DOMAIN csd : i # target.frame => csd'[i] = csd[i]
    BY <1>4 DEF TitlebarRelease
  <2> QED
    BY <2>1
<1>7. csd[id].pressed = HitAt(id, at[1], at[2])
  BY <1>4, <1>6, ReleaseFires
<1>8. shown = Picture(csd[id])
  BY DEF TitlebarsCurrent, CurrentAt
<1>9. /\ shown.pressed = csd[id].pressed /\ shown.buttons = csd[id].buttons
      /\ shown.width = csd[id].width
  BY <1>8 DEF Picture
<1>10. shown.pressed = ShownButton(id, p)
  BY <1>7, <1>9 DEF HitAt, ShownButton
<1> HIDE DEF shown
<1> QED
  BY <1>2, <1>5, <1>6, <1>9, <1>10

(* A step that keeps what is pressed is no click. *)
PressesKept == \A i \in DOMAIN csd \cap DOMAIN csd' : csd'[i].pressed = csd[i].pressed

LEMMA PressesStable ==
    ASSUME \A i \in DOMAIN csd \cap DOMAIN csd' : csd'[i] = csd[i]
    PROVE  PressesKept
BY DEF PressesKept

LEMMA EnsureCsdKeeps ==
    ASSUME NEW id, NEW mode, ensure_csd(id, mode)
    PROVE  PressesKept
BY DEF ensure_csd, NeedsCsd, Put, PressesKept

LEMMA CommitKeeps ==
    ASSUME TypeInv, NEW id \in live, NEW size, NEW cfg, NEW painted, Commit(id, size, cfg, painted)
    PROVE  PressesKept
<1>1. CASE id \notin DOMAIN csd
  BY <1>1 DEF Commit, PressesKept
<1>2. CASE id \in DOMAIN csd
  <2> DEFINE window_state == IF cfg = None \/ cfg[1].window_state = None
                             THEN frames[id].window_state ELSE cfg[1].window_state[1]
             active == "ACTIVE" \in window_state
             buttons == compute_buttons(frames[id].capabilities,
                            frames[id].wm_capabilities, frames[id].wm_known)
             d == [csd[id] EXCEPT !.active = active, !.buttons = buttons]
  <2>1. csd' = [csd EXCEPT ![id] = Render(d, size, painted)] /\ csd[id] \in Decoration
    BY <1>2 DEF Commit, TypeInv, TypeOK
  <2>2. active \in BOOLEAN /\ buttons \in SUBSET ButtonKinds
    BY ButtonsType
  <2> HIDE DEF active, buttons
  <2>3. d \in Decoration /\ d.pressed = csd[id].pressed
    BY <2>1, <2>2 DEF Decoration
  <2> HIDE DEF d
  <2> QED
    BY <2>1, <2>3, RenderKeeps DEF PressesKept
<1> QED
  BY <1>1, <1>2

(* Every step: a click is made by a button event, on what was shown. *)
LEMMA ClickStep ==
    ASSUME TypeInv, TitlebarsCurrent, [Next]_vars, NEW id \in DOMAIN csd \cap DOMAIN csd'
    PROVE  ClickAt(id)
<1>1. ASSUME PressesKept PROVE ClickAt(id)
  BY <1>1 DEF PressesKept, ClickAt
<1>2. ASSUME csd' = csd PROVE ClickAt(id)
  BY <1>1, <1>2, PressesStable
<1>3. CASE \E i \in Allocated : FrameEvent(i)
  <2>1. PICK i \in Allocated : FrameEvent(i)
    BY <1>3
  <2>2. ASSUME NEW serial, XdgSurfaceConfigure(i, serial) PROVE ClickAt(id)
    BY <1>1, <2>2, EnsureCsdKeeps DEF XdgSurfaceConfigure
  <2>3. ASSUME NEW mode, DecorationConfigure(i, mode) PROVE ClickAt(id)
    BY <1>1, <2>3, EnsureCsdKeeps DEF DecorationConfigure
  <2> QED
    BY <1>2, <2>1, <2>2, <2>3
       DEF FrameEvent, ToplevelConfigure, ToplevelClose, ToplevelConfigureBounds,
           ToplevelWmCapabilities
<1>4. CASE \E p \in Pointers : PointerEvent(p)
  <2>1. PICK p \in Pointers : PointerEvent(p)
    BY <1>4
  <2>2. ASSUME NEW i, NEW x, NEW y, NEW painted, csd' = HoverAt(i, x, y, painted)
        PROVE  ClickAt(id)
    BY <1>1, <2>2, HoverFeedback DEF PressesKept
  <2>3. ASSUME NEW s, NEW at, NEW serial, NEW painted, PointerEnter(p, s, at, serial, painted)
        PROVE  ClickAt(id)
    <3>1. csd' = csd \/ \E i : csd' = HoverAt(i, at[1], at[2], painted)
      BY <2>3 DEF PointerEnter
    <3> QED
      BY <1>2, <2>2, <3>1
  <2>4. ASSUME NEW at, NEW painted, PointerMotion(p, at, painted) PROVE ClickAt(id)
    <3>1. csd' = csd \/ \E i : csd' = HoverAt(i, at[1], at[2], painted)
      BY <2>4 DEF PointerMotion
    <3> QED
      BY <1>2, <2>2, <3>1
  <2>5. ASSUME NEW painted, PointerLeave(p, painted) PROVE ClickAt(id)
    <3>1. ~Fired
      BY <2>5, NothingFired DEF PointerLeave
    <3> QED
      BY <3>1 DEF ClickAt
  <2> QED
    BY <2>1, <2>3, <2>4, <2>5, ButtonClicks DEF PointerEvent
<1>5. CASE Call
  <2>1. ASSUME NEW i \in live, FrameCall(i) PROVE ClickAt(id)
    <3>1. CASE DestroyFrame(i)
      <4>1. \A j \in DOMAIN csd' : csd'[j] = csd[j]
        BY <3>1 DEF DestroyFrame, Without, Restrict
      <4> QED
        BY <1>1, <4>1, PressesStable
    <3>2. CASE \E painted \in Paints : CommitConfigured(i, painted) \/ CommitResized(i, painted)
      BY <1>1, <3>2, CommitKeeps DEF CommitConfigured, CommitResized
    <3> QED
      BY <1>2, <2>1, <3>1, <3>2
         DEF FrameCall, Map, SetCapabilities, UnsetCapabilities, SetVisibility,
             ToplevelRequest, SetParent, inner
  <2> QED
    BY <1>2, <1>5, <2>1
       DEF Call, ForceClientSideDecorations, PollEvent, CreateFrame, Decorate, decorate_inner
<1>6. CASE \E seat \in Seats : SeatEvent(seat)
  BY <1>2, <1>6 DEF SeatEvent, SeatGainsPointer, SeatLosesPointer
<1>7. CASE UNCHANGED vars
  BY <1>2, <1>7 DEF vars, inner
<1> QED
  BY <1>3, <1>4, <1>5, <1>6, <1>7 DEF Next

(***************************************************************************)
(* The titlebar acts on what it painted: while no allocation fails, a      *)
(* release that closes, maximizes or minimizes a window does what the      *)
(* button did that was painted pressed, under a pointer on that titlebar,  *)
(* however the window was resized and the buttons moved in between.        *)
(***************************************************************************)
THEOREM ClickCorrect == Spec => ClickMatchesPicture
<1>1. TypeInv /\ TitlebarsCurrent /\ [Next]_vars =>
          [\A id \in DOMAIN csd \cap DOMAIN csd' : ClickAt(id)]_vars
  BY ClickStep
<1> QED
  BY <1>1, CurrentAlways, PTL DEF Spec, ClickMatchesPicture
=============================================================================
