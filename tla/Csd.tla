-------------------------------- MODULE Csd ---------------------------------
(***************************************************************************)
(* The stateless half of src/csd.rs, src/frame.rs and src/inner.rs: the    *)
(* geometry of a client-drawn decoration.  Every operator is a function of *)
(* its arguments; the state machine that calls them is Libdecor.           *)
(*                                                                         *)
(* Lengths are surface-local pixels.  Pointer positions are f64 in the     *)
(* code; they are compared with integer pixel edges only, so an integer    *)
(* stands for every position of its half-open pixel.                       *)
(***************************************************************************)
EXTENDS Integers, FiniteSets, Maps

TITLEBAR_HEIGHT == 32
BORDER_WIDTH == 4
CORNER_SIZE == 20
BUTTON_SIZE == 22
BUTTON_RIGHT_PADDING == 6
BUTTON_GAP == 2

Edges == {"Top", "Bottom", "Left", "Right"}
DecorationParts == {"Content", "Titlebar"} \cup Edges

(* A ButtonSet is the set of the kinds that are shown. *)
ButtonKinds == {"Close", "Maximize", "Minimize"}

(* The left edge of the idx-th button from the right, counted from 0. *)
button_x(width, idx) ==
    width - BUTTON_RIGHT_PADDING - (idx + 1) * BUTTON_SIZE - idx * BUTTON_GAP

(***************************************************************************)
(* The place of a shown button, counted from 0 at the right end: Close,    *)
(* Maximize, Minimize is the order of visible_right_to_left, and a hidden  *)
(* button leaves no gap.                                                   *)
(***************************************************************************)
RightOf(kind) == CASE kind = "Close"    -> {}
                   [] kind = "Maximize" -> {"Close"}
                   [] kind = "Minimize" -> {"Close", "Maximize"}

ButtonIndex(buttons, kind) == Cardinality(buttons \cap RightOf(kind))

(***************************************************************************)
(* fill_rect clips a button at the left end of the titlebar, but casts a   *)
(* right end that is negative to an unsigned index: drawing a button that  *)
(* lies wholly outside panics.                                             *)
(***************************************************************************)
TitlebarFits(buttons, width) ==
    \A kind \in buttons : button_x(width, ButtonIndex(buttons, kind)) + BUTTON_SIZE >= 0

(* The buttons under a titlebar-local position: at most one. *)
HitButtons(buttons, width, x, y) ==
    LET by == (TITLEBAR_HEIGHT - BUTTON_SIZE) \div 2
    IN  {kind \in buttons :
            LET bx == button_x(width, ButtonIndex(buttons, kind))
            IN  x \in bx .. bx + BUTTON_SIZE - 1 /\ y \in by .. by + BUTTON_SIZE - 1}

(* Decoration::hit_test, as an Option. *)
hit_test(buttons, width, x, y) ==
    LET hit == HitButtons(buttons, width, x, y)
    IN  IF hit = {} THEN None ELSE Some(CHOOSE kind \in hit : TRUE)

(***************************************************************************)
(* The corner that each end of a border stands for: First towards the top  *)
(* or the left end of the border, Last towards the other.                  *)
(***************************************************************************)
FirstCorner == [Top |-> "TopLeft", Bottom |-> "BottomLeft",
                Left |-> "TopLeft", Right |-> "TopRight"]
LastCorner == [Top |-> "TopRight", Bottom |-> "BottomRight",
               Left |-> "BottomLeft", Right |-> "BottomRight"]

(* The resize edge that a press at <<x, y>> on a border asks for. *)
resize_edge(edge, x, y, content) ==
    LET horizontal == edge \in {"Top", "Bottom"}
        at == IF horizontal THEN x ELSE y
        span == IF horizontal THEN content[1] + 2 * BORDER_WIDTH
                              ELSE TITLEBAR_HEIGHT + content[2]
    IN  IF at < CORNER_SIZE THEN FirstCorner[edge]
        ELSE IF at >= span - CORNER_SIZE THEN LastCorner[edge]
        ELSE edge

(***************************************************************************)
(* The cursor shape over a part: chosen apart from resize_edge in the      *)
(* code, from the same corners.                                            *)
(***************************************************************************)
FirstShape == [Top |-> "NwResize", Bottom |-> "SwResize",
               Left |-> "NwResize", Right |-> "NeResize"]
MiddleShape == [Top |-> "NResize", Bottom |-> "SResize",
                Left |-> "WResize", Right |-> "EResize"]
LastShape == [Top |-> "NeResize", Bottom |-> "SeResize",
              Left |-> "SwResize", Right |-> "SeResize"]

cursor_shape(part, x, y, content) ==
    LET h_span == content[1] + 2 * BORDER_WIDTH
        v_span == TITLEBAR_HEIGHT + content[2]
        Shape(at, span) == CASE at < CORNER_SIZE -> FirstShape[part]
                             [] at >= CORNER_SIZE /\ at >= span - CORNER_SIZE -> LastShape[part]
                             [] OTHER -> MiddleShape[part]
    IN  CASE part \in {"Content", "Titlebar"} -> "Default"
          [] part \in {"Top", "Bottom"} -> Shape(x, h_span)
          [] part \in {"Left", "Right"} -> Shape(y, v_span)

(* compute_buttons of src/frame.rs. *)
compute_buttons(caps, wm, wm_known) ==
    {kind \in ButtonKinds :
        CASE kind = "Close"    -> "CLOSE" \in caps
          [] kind = "Maximize" -> "FULLSCREEN" \in caps /\ (wm_known => "MAXIMIZE" \in wm)
          [] kind = "Minimize" -> "MINIMIZE" \in caps /\ (wm_known => "MINIMIZE" \in wm)}

(* FrameSlot::decoration_overhead. *)
decoration_overhead(has_csd) ==
    IF has_csd
    THEN [top |-> TITLEBAR_HEIGHT + BORDER_WIDTH, bottom |-> BORDER_WIDTH,
          left |-> BORDER_WIDTH, right |-> BORDER_WIDTH]
    ELSE [top |-> 0, bottom |-> 0, left |-> 0, right |-> 0]

AtLeastOne(n) == IF n < 1 THEN 1 ELSE n

(* The content size that a configured window size leaves. *)
ContentOf_without_borders(size, has_csd) ==
    << AtLeastOne(size[1]), AtLeastOne(size[2] - decoration_overhead(has_csd).top) >>

ContentOf(size, has_csd) ==
    LET o == decoration_overhead(has_csd)
    IN  << AtLeastOne(size[1] - o.left - o.right), AtLeastOne(size[2] - o.top - o.bottom) >>

(* The window geometry that a content size is given. *)
GeometryOf(content, has_csd) ==
    LET o == decoration_overhead(has_csd)
    IN  << content[1] + o.left + o.right, content[2] + o.top + o.bottom >>

(***************************************************************************)
(* Drawing.  `drawn' is what the titlebar buffer last painted shows, and   *)
(* `width' the titlebar width that hit_test uses.  A failed allocation     *)
(* leaves both as they were.                                               *)
(***************************************************************************)
Picture(d) == [active |-> d.active, hover |-> d.hover, pressed |-> d.pressed,
               buttons |-> d.buttons, width |-> d.width]

NewDecoration == [active |-> FALSE, hover |-> None, pressed |-> None,
                  buttons |-> ButtonKinds, width |-> 0, drawn |-> None]

Render_on_resize_only(d, size, painted) ==
    IF size[1] <= 0 \/ size[2] <= 0 \/ size[1] = d.width
    THEN d
    ELSE LET sized == [d EXCEPT !.width = size[1]]
         IN  [sized EXCEPT !.drawn = Some(Picture(sized))]

Render_sized_before_allocation(d, size, painted) ==
    LET sized == [d EXCEPT !.width = size[1]]
    IN  IF painted THEN [sized EXCEPT !.drawn = Some(Picture(sized))] ELSE sized

Render(d, size, painted) ==
    IF size[1] <= 0 \/ size[2] <= 0 \/ ~painted
    THEN d
    ELSE LET sized == [d EXCEPT !.width = size[1]]
         IN  [sized EXCEPT !.drawn = Some(Picture(sized))]
=============================================================================
