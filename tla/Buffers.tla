------------------------------- MODULE Buffers -------------------------------
(***************************************************************************)
(* How a decoration gets to the screen: Decoration::render of src/csd.rs,  *)
(* the shared-memory buffers it paints, and the six subsurfaces it paints  *)
(* them for.  Libdecor takes a render for one step, Csd!Render; here it is *)
(* taken part by part, with what may go wrong between two of them.         *)
(*                                                                         *)
(* The subsurfaces are synchronized: what is attached to them, and where   *)
(* they are put, is staged and takes effect with the application's next    *)
(* commit of its own surface.  A Frame::commit is made by the thread that  *)
(* commits the surface; the repaints of the pointer's handlers are the     *)
(* worker's in the C library, and the application may commit halfway.      *)
(* A buffer, its pool and its mapping live and die together.               *)
(***************************************************************************)
EXTENDS Csd, Sequences

CONSTANTS
    Sizes,       \* content sizes the application commits
    Looks,       \* what pointers do to a titlebar: its hover and pressed buttons
    States,      \* window states it commits: activated, and the buttons shown
    Serials,     \* bound: buffers of a part that exist at a time
    MaxFailures  \* bound: allocations that fail

SHADOW_RADIUS == 16

(* Decoration::render takes the parts in this order. *)
RenderOrder == <<"Shadow", "Titlebar", "Top", "Bottom", "Left", "Right">>
Parts == {RenderOrder[i] : i \in DOMAIN RenderOrder}

ASSUME BuffersAssumption ==
    /\ \A size \in Sizes : size \in Int \X Int
    /\ \A look \in Looks : look \in [hover : Option(ButtonKinds), pressed : Option(ButtonKinds)]
    /\ \A state \in States : state \in [active : BOOLEAN, buttons : SUBSET ButtonKinds]
    /\ Serials \subseteq Nat /\ IsFiniteSet(Serials) /\ Serials # {}
    /\ MaxFailures \in Nat

VARIABLES
    dec,        \* FrameSlot::csd, an Option: what the titlebar is painted from
    content,    \* FrameSlot::content_size
    subs,       \* Decoration: part -> its Subsurface, and where it was last put
    buffers,    \* the wl_buffers that exist
    drawn,      \* the picture last painted and attached to the titlebar
    rendering,  \* the render that is under way, an Option
    outcome,    \* how the last render ended
    failures,   \* allocations that failed
    staged,     \* the compositor: part -> the buffer that waits to be shown
    screen,     \* the compositor: part -> what it shows of the part
    applied     \* the content size shown, when it was completely rendered

vars == <<dec, content, subs, buffers, drawn, rendering, outcome, failures, staged, screen,
          applied>>

Nothing == [part \in Parts |-> None]
Unpainted == [part \in Parts |-> [buffer |-> None, size |-> <<0, 0>>, at |-> <<0, 0>>]]

(***************************************************************************)
(* The layout: the size and the place, relative to the content, of a part. *)
(***************************************************************************)
PartSize_side_by_content(part, size) ==
    CASE part = "Shadow"   -> << size[1] + 2 * SHADOW_RADIUS,
                                 TITLEBAR_HEIGHT + size[2] + 2 * SHADOW_RADIUS >>
      [] part = "Titlebar" -> << size[1], TITLEBAR_HEIGHT >>
      [] part \in {"Top", "Bottom"} -> << size[1] + 2 * BORDER_WIDTH, BORDER_WIDTH >>
      [] part \in {"Left", "Right"} -> << BORDER_WIDTH, size[2] >>

PartSize(part, size) ==
    CASE part = "Shadow"   -> << size[1] + 2 * SHADOW_RADIUS,
                                 TITLEBAR_HEIGHT + size[2] + 2 * SHADOW_RADIUS >>
      [] part = "Titlebar" -> << size[1], TITLEBAR_HEIGHT >>
      [] part \in {"Top", "Bottom"} -> << size[1] + 2 * BORDER_WIDTH, BORDER_WIDTH >>
      [] part \in {"Left", "Right"} -> << BORDER_WIDTH, TITLEBAR_HEIGHT + size[2] >>

PartPlace(part, size) ==
    CASE part = "Shadow"   -> << -SHADOW_RADIUS, -TITLEBAR_HEIGHT - SHADOW_RADIUS >>
      [] part = "Titlebar" -> << 0, -TITLEBAR_HEIGHT >>
      [] part = "Top"      -> << -BORDER_WIDTH, -TITLEBAR_HEIGHT - BORDER_WIDTH >>
      [] part = "Bottom"   -> << -BORDER_WIDTH, size[2] >>
      [] part = "Left"     -> << -BORDER_WIDTH, -TITLEBAR_HEIGHT >>
      [] part = "Right"    -> << size[1], -TITLEBAR_HEIGHT >>

-----------------------------------------------------------------------------
(***************************************************************************)
(* The decoration comes (Decoration::new) and goes (Decoration::destroy).  *)
(* Its subsurfaces are unmapped with it at once.                           *)
(***************************************************************************)
Running == outcome # "panic"

NewDecorationAppears ==
    /\ Running /\ dec = None
    /\ dec' = Some([active |-> FALSE, hover |-> None, pressed |-> None, buttons |-> ButtonKinds])
    /\ outcome' = "none"
    /\ UNCHANGED <<content, subs, buffers, drawn, rendering, failures, staged, screen, applied>>

OwnedBy(parts) == UNION {{subs[part].buffer[i] : i \in DOMAIN subs[part].buffer} : part \in parts}

DestroyDecoration ==
    /\ Running /\ dec # None /\ rendering = None
    /\ dec' = None /\ drawn' = None
    /\ buffers' = buffers \ OwnedBy(Parts)
    /\ subs' = Unpainted /\ staged' = Nothing /\ screen' = Nothing /\ applied' = None
    /\ UNCHANGED <<content, rendering, outcome, failures>>

(***************************************************************************)
(* A render begins, with what it paints already set; one of an empty       *)
(* content ends right there.                                               *)
(***************************************************************************)
Empty_without_height(size) == size[2] <= 0
Empty(size) == size[1] <= 0 \/ size[2] <= 0

StartRender(by, painted, size) ==
    /\ Running /\ dec # None /\ rendering = None
    /\ dec' = Some(painted)
    /\ content' = size
    /\ IF Empty(size)
       THEN /\ outcome' = "skipped"
            /\ UNCHANGED rendering
       ELSE /\ rendering' = Some([by |-> by, todo |-> RenderOrder, before |-> dec[1]])
            /\ UNCHANGED outcome
    /\ UNCHANGED <<subs, buffers, drawn, failures, staged, screen, applied>>

(* Frame::commit; without a decoration it only sets the content size. *)
FrameCommit(size, state) ==
    StartRender("application",
                [dec[1] EXCEPT !.active = state.active, !.buttons = state.buttons], size)

FrameCommitBare(size) ==
    /\ Running /\ dec = None
    /\ content' = size
    /\ UNCHANGED <<dec, subs, buffers, drawn, rendering, outcome, failures, staged, screen, applied>>

(* The handlers of the pointer repaint at the size committed last. *)
PointerRepaint(look) ==
    StartRender("worker", [dec[1] EXCEPT !.hover = look.hover, !.pressed = look.pressed], content)

-----------------------------------------------------------------------------
(***************************************************************************)
(* paint_subsurface and the commit after it, for the next part.            *)
(***************************************************************************)
Rendering(part) ==
    Running /\ rendering # None /\ part = Head(rendering[1].todo)

FreshEnough(part, size) == subs[part].buffer # None /\ subs[part].size = size

Placed(part) == [subs[part] EXCEPT !.at = PartPlace(part, content)]

(* A buffer destroyed before it is shown leaves its surface without one. *)
Unstaged(part) ==
    IF staged[part] = None THEN staged ELSE [staged EXCEPT ![part][1].alive = FALSE]

Attached_not_committed(part) == Unstaged(part)
Attached(part) ==
    [staged EXCEPT ![part] = Some([size |-> PartSize(part, content), alive |-> TRUE])]

(* What the buffer that is replaced leaves of the others. *)
Replaced_but_kept(part) == buffers
Replaced(part) == buffers \ OwnedBy({part})

(* A buffer is named by the part it was made for and a serial. *)
BufferIds == Parts \X Serials

(* The buffer that is painted: the one there is, or a new one. *)
Backed(part) ==
    LET size == PartSize(part, content)
        new == CHOOSE b \in {part} \X Serials : b \notin Replaced(part)
    IN  IF FreshEnough(part, size)
        THEN /\ subs' = [subs EXCEPT ![part] = Placed(part)]
             /\ UNCHANGED buffers
        ELSE /\ subs' = [subs EXCEPT ![part] =
                            [Placed(part) EXCEPT !.buffer = Some(new), !.size = size]]
             /\ buffers' = Replaced(part) \cup {new}

TitlebarPicture == Picture(
    [active |-> dec[1].active, hover |-> dec[1].hover, pressed |-> dec[1].pressed,
     buttons |-> dec[1].buttons, width |-> content[1]])

PaintPart(part) ==
    /\ Rendering(part)
    /\ part = "Titlebar" => TitlebarFits(dec[1].buttons, content[1])
    /\ Backed(part)
    /\ staged' = Attached(part)
    /\ drawn' = IF part = "Titlebar" THEN Some(TitlebarPicture) ELSE drawn
    /\ LET todo == Tail(rendering[1].todo) IN
       IF todo = <<>> THEN rendering' = None /\ outcome' = "ok"
                      ELSE rendering' = Some([rendering[1] EXCEPT !.todo = todo])
                           /\ UNCHANGED outcome
    /\ UNCHANGED <<dec, content, failures, screen, applied>>

(* fill_rect panics over a button that lies wholly outside. *)
PaintPanics ==
    /\ Rendering("Titlebar")
    /\ ~TitlebarFits(dec[1].buttons, content[1])
    /\ Backed("Titlebar")
    /\ staged' = IF FreshEnough("Titlebar", PartSize("Titlebar", content)) THEN staged
                                                                       ELSE Unstaged("Titlebar")
    /\ outcome' = "panic"
    /\ UNCHANGED <<dec, content, drawn, rendering, failures, screen, applied>>

(* The old buffer is gone when the new one cannot be had; the render ends. *)
UnderSize_new(part) ==
    subs' = [subs EXCEPT ![part] =
                [Placed(part) EXCEPT !.buffer = None, !.size = PartSize(part, content)]]
UnderSize(part) == subs' = [subs EXCEPT ![part] = [Placed(part) EXCEPT !.buffer = None]]

PaintFails(part) ==
    /\ failures < MaxFailures
    /\ Rendering(part)
    /\ ~FreshEnough(part, PartSize(part, content))
    /\ UnderSize(part)
    /\ buffers' = Replaced(part)
    /\ staged' = IF subs[part].buffer = None THEN staged ELSE Unstaged(part)
    /\ rendering' = None
    /\ outcome' = "error" /\ failures' = failures + 1
    /\ UNCHANGED <<dec, content, drawn, screen, applied>>

-----------------------------------------------------------------------------
(***************************************************************************)
(* The application commits its own surface; not between two steps of a     *)
(* call of its own.                                                        *)
(***************************************************************************)
SurfaceCommit ==
    /\ Running
    /\ rendering # None => rendering[1].by = "worker"
    /\ screen' = [part \in Parts |->
            IF staged[part] # None /\ staged[part][1].alive
            THEN Some([size |-> staged[part][1].size, at |-> subs[part].at])
            ELSE IF staged[part] # None \/ screen[part] = None THEN None
            ELSE Some([screen[part][1] EXCEPT !.at = subs[part].at])]
    /\ staged' = Nothing
    /\ applied' = IF dec # None /\ outcome = "ok" THEN Some(content) ELSE None
    /\ UNCHANGED <<dec, content, subs, buffers, drawn, rendering, outcome, failures>>

Init ==
    /\ dec = None /\ content = <<0, 0>>
    /\ subs = Unpainted /\ buffers = {} /\ drawn = None
    /\ rendering = None /\ outcome = "none" /\ failures = 0
    /\ staged = Nothing /\ screen = Nothing /\ applied = None

Next ==
    \/ NewDecorationAppears
    \/ DestroyDecoration
    \/ \E size \in Sizes, state \in States : FrameCommit(size, state)
    \/ \E size \in Sizes : FrameCommitBare(size)
    \/ \E look \in Looks : PointerRepaint(look)
    \/ \E part \in Parts : PaintPart(part) \/ PaintFails(part)
    \/ PaintPanics
    \/ SurfaceCommit

Spec == Init /\ [][Next]_vars

-----------------------------------------------------------------------------
(***************************************************************************)
(* Correctness.                                                            *)
(***************************************************************************)
Point == Int \X Int
Painted == [active : BOOLEAN, hover : Option(ButtonKinds), pressed : Option(ButtonKinds),
            buttons : SUBSET ButtonKinds]
Positive(size) == size[1] > 0 /\ size[2] > 0
Steps == {SubSeq(RenderOrder, n, Len(RenderOrder)) : n \in DOMAIN RenderOrder}

(* No buffer is of size zero, which wl_shm does not allow. *)
TypeOK ==
    /\ dec \in Option(Painted) /\ content \in Point
    /\ subs \in [Parts -> [buffer : Option(BufferIds), size : Point, at : Point]]
    /\ \A part \in Parts : subs[part].buffer # None => Positive(subs[part].size)
    /\ buffers \subseteq BufferIds
    /\ rendering \in Option([by : {"application", "worker"}, todo : Steps, before : Painted])
    /\ outcome \in {"none", "ok", "skipped", "error", "panic"} /\ failures \in 0 .. MaxFailures
    /\ staged \in [Parts -> Option([size : Point, alive : BOOLEAN])]
    /\ screen \in [Parts -> Option([size : Point, at : Point])]
    /\ applied \in Option(Point)

(***************************************************************************)
(* Every buffer that exists is the current one of a part, and every        *)
(* current one exists: none leaks when a window is resized, a render fails *)
(* halfway, or the decoration goes, and none is painted after it was       *)
(* destroyed (paint_subsurface, Decoration::destroy).                      *)
(***************************************************************************)
BuffersOwned == buffers = OwnedBy(Parts)

(***************************************************************************)
(* On the screen, a decoration that was completely rendered tiles the      *)
(* window geometry that Frame::commit announces: titlebar, borders and     *)
(* content overlap nowhere, leave no gap and reach nowhere beyond, and the *)
(* shadow surrounds them; whatever renders failed before, and although the *)
(* application may commit its surface in the middle of a repaint.  No part *)
(* is missing because its buffer was destroyed before it was shown         *)
(* (Decoration::render, paint_subsurface, render_subsurface).              *)
(***************************************************************************)
Inside(in, out) ==
    \A i \in 1 .. 2 : out.at[i] <= in.at[i] /\ in.at[i] + in.size[i] <= out.at[i] + out.size[i]

Disjoint(a, b) ==
    \E i \in 1 .. 2 : a.at[i] + a.size[i] <= b.at[i] \/ b.at[i] + b.size[i] <= a.at[i]

Area(rect) == rect.size[1] * rect.size[2]

Window(size) ==
    LET o == decoration_overhead(TRUE)
    IN  [at |-> << -o.left, -o.top >>, size |-> GeometryOf(size, TRUE)]

WindowTiled ==
    applied # None =>
        LET size == applied[1]
            Tile(part) == IF part = "Content" THEN [at |-> <<0, 0>>, size |-> size]
                                              ELSE screen[part][1]
        IN  /\ \A part \in Parts : screen[part] # None
            /\ \A p, q \in DecorationParts : p # q => Disjoint(Tile(p), Tile(q))
            /\ \A part \in DecorationParts : Inside(Tile(part), Window(size))
            /\ Area(Window(size)) =
                    Area(Tile("Content")) + Area(Tile("Titlebar")) + Area(Tile("Top"))
                        + Area(Tile("Bottom")) + Area(Tile("Left")) + Area(Tile("Right"))
            /\ Inside(Window(size), screen["Shadow"][1])

(***************************************************************************)
(* Part by part, a render does what Libdecor takes it to do in one step:   *)
(* the titlebar's width, by which clicks are judged, and the picture       *)
(* change together when the titlebar is painted, or both stay, wherever an *)
(* allocation fails (Decoration::render against Csd!Render).               *)
(***************************************************************************)
Abstract ==
    LET ahead == rendering # None /\ \E i \in DOMAIN rendering[1].todo :
                                          rendering[1].todo[i] = "Titlebar"
        look == IF ahead THEN rendering[1].before ELSE dec[1]
    IN  IF dec = None THEN NewDecoration
        ELSE [active |-> look.active, hover |-> look.hover, pressed |-> look.pressed,
              buttons |-> look.buttons, drawn |-> drawn,
              width |-> IF Running THEN subs["Titlebar"].size[1] ELSE 0]

RendersAsLibdecor ==
    [][dec # None /\ dec' # None /\ outcome' # "panic" =>
        LET asked == [Abstract' EXCEPT !.width = Abstract.width, !.drawn = Abstract.drawn]
        IN  \E painted \in BOOLEAN : Abstract' = Render(asked, content', painted)]_Abstract

-----------------------------------------------------------------------------
(***************************************************************************)
(* A promise of the documentation that the code does not keep; the run     *)
(* doc_narrow_titlebar shows how it breaks.  Frame::commit: if libdecor is *)
(* drawing the decorations, the titlebar is re-rendered at the new width.  *)
(***************************************************************************)
Rerendered ==
    dec # None /\ outcome \in {"ok", "panic"} /\ (rendering = None \/ ~Running)
        => drawn # None /\ drawn[1].width = content[1]
=============================================================================
