--------------------------- MODULE BuffersProofs ----------------------------
(***************************************************************************)
(* Theorems about Buffers: no buffer leaks, the parts of a decoration tile *)
(* the window, and a render does what Libdecor takes it to do, for content *)
(* of any size and whatever allocations fail.                              *)
(***************************************************************************)
EXTENDS Buffers, TLAPS

(* Options. *)
LEMMA SomeValue == ASSUME NEW v PROVE Some(v) # None /\ Some(v)[1] = v
BY DEF Some, None

LEMMA SomeType == ASSUME NEW S, NEW v \in S PROVE Some(v) \in Option(S)
BY DEF Some, Option

LEMMA NoneType == ASSUME NEW S PROVE None \in Option(S)
BY DEF Option

LEMMA OptionValue ==
    ASSUME NEW S, NEW o \in Option(S), o # None
    PROVE  o[1] \in S /\ o = Some(o[1])
BY DEF Option, None, Some

-----------------------------------------------------------------------------
(***************************************************************************)
(* The layout.                                                             *)
(***************************************************************************)
PartNames == {"Shadow", "Titlebar", "Top", "Bottom", "Left", "Right"}

LEMMA PartsNamed == Parts = PartNames
<1> DEFINE order == RenderOrder
<1>1. DOMAIN order = 1 .. 6
  BY DEF RenderOrder
<1>2. order[1] = "Shadow" /\ order[2] = "Titlebar" /\ order[3] = "Top"
      /\ order[4] = "Bottom" /\ order[5] = "Left" /\ order[6] = "Right"
  BY DEF RenderOrder
<1>3. 1 .. 6 = {1, 2, 3, 4, 5, 6}
  OBVIOUS
<1> HIDE DEF order
<1>4. {order[i] : i \in DOMAIN order} = PartNames
  BY <1>1, <1>2, <1>3 DEF PartNames
<1> QED
  BY <1>4 DEF Parts, order

LEMMA SizeType ==
    ASSUME NEW part \in Parts, NEW size \in Point
    PROVE  PartSize(part, size) \in Point /\ PartPlace(part, size) \in Point
<1>1. size[1] \in Int /\ size[2] \in Int
  BY DEF Point
<1> QED
  BY <1>1, PartsNamed DEF PartNames, PartSize, PartPlace, Point, TITLEBAR_HEIGHT, BORDER_WIDTH,
                     SHADOW_RADIUS

LEMMA SizePositive ==
    ASSUME NEW part \in Parts, NEW size \in Point, ~Empty(size)
    PROVE  Positive(PartSize(part, size))
<1>1. size[1] \in Int /\ size[2] \in Int /\ size[1] > 0 /\ size[2] > 0
  BY DEF Point, Empty
<1> QED
  BY <1>1, PartsNamed DEF PartNames, PartSize, Positive, TITLEBAR_HEIGHT, BORDER_WIDTH,
                     SHADOW_RADIUS

-----------------------------------------------------------------------------
(***************************************************************************)
(* What is left to paint.                                                  *)
(***************************************************************************)
Elems(todo) == {todo[i] : i \in DOMAIN todo}

LEMMA OrderType == RenderOrder \in Seq(Parts) /\ Len(RenderOrder) = 6
<1>1. RenderOrder \in Seq(PartNames)
  BY DEF RenderOrder, PartNames
<1> QED
  BY <1>1, PartsNamed DEF RenderOrder

(* Every suffix of the order is given by its length; its head and tail. *)
LEMMA StepsFrom ==
    ASSUME NEW todo \in Steps
    PROVE  \E n \in 1 .. 6 : todo = SubSeq(RenderOrder, n, 6)
<1>1. DOMAIN RenderOrder = 1 .. 6
  BY DEF RenderOrder
<1> QED
  BY <1>1, OrderType DEF Steps

LEMMA Suffix ==
    ASSUME NEW S, NEW order \in Seq(S), NEW size \in Nat, Len(order) = size, NEW n \in 1 .. size
    PROVE  /\ SubSeq(order, n, size) \in Seq(S)
           /\ Len(SubSeq(order, n, size)) = size + 1 - n
           /\ \A i \in 1 .. size + 1 - n : SubSeq(order, n, size)[i] = order[n + i - 1]
           /\ Tail(SubSeq(order, n, size)) = SubSeq(order, n + 1, size)
           /\ n = size => Tail(SubSeq(order, n, size)) = <<>>
OBVIOUS

LEMMA StepsParts ==
    ASSUME NEW todo \in Steps
    PROVE  todo \in Seq(Parts) /\ todo # <<>>
<1>1. PICK n \in 1 .. 6 : todo = SubSeq(RenderOrder, n, 6)
  BY StepsFrom
<1>2. RenderOrder \in Seq(Parts) /\ Len(RenderOrder) = 6 /\ 6 \in Nat
  BY OrderType
<1>3. todo \in Seq(Parts)
  BY <1>1, <1>2, Suffix
<1>4. Len(todo) = 6 + 1 - n
  BY <1>1, <1>2, Suffix
<1>5. Len(todo) # 0
  BY <1>4
<1> QED
  BY <1>3, <1>5

LEMMA StepsTail ==
    ASSUME NEW todo \in Steps, Tail(todo) # <<>>
    PROVE  Tail(todo) \in Steps
<1>1. PICK n \in 1 .. 6 : todo = SubSeq(RenderOrder, n, 6)
  BY StepsFrom
<1>2. Tail(todo) = SubSeq(RenderOrder, n + 1, 6) /\ n # 6
  BY <1>1, Suffix, OrderType
<1>3. n + 1 \in DOMAIN RenderOrder
  BY <1>2 DEF RenderOrder
<1> QED
  BY <1>2, <1>3, OrderType DEF Steps

LEMMA TodoSplit ==
    ASSUME NEW todo \in Seq(Parts), todo # <<>>
    PROVE  /\ Head(todo) \in Elems(todo)
           /\ Elems(todo) = {Head(todo)} \cup Elems(Tail(todo))
           /\ Tail(todo) \in Seq(Parts)
<1>1. /\ DOMAIN todo = 1 .. Len(todo) /\ Len(todo) \in Nat \ {0} /\ Tail(todo) \in Seq(Parts)
      /\ Head(todo) = todo[1]
  OBVIOUS
<1>2. DOMAIN Tail(todo) = 1 .. Len(todo) - 1
      /\ \A i \in 1 .. Len(todo) - 1 : Tail(todo)[i] = todo[i + 1]
  BY <1>1
<1>3. ASSUME NEW i \in 1 .. Len(todo)
      PROVE  todo[i] \in {Head(todo)} \cup Elems(Tail(todo))
  <2>1. CASE i = 1
    BY <1>1, <2>1
  <2>2. CASE i # 1
    <3>1. i - 1 \in 1 .. Len(todo) - 1 /\ todo[i] = Tail(todo)[i - 1]
      BY <1>1, <1>2, <2>2
    <3> QED
      BY <1>2, <3>1 DEF Elems
  <2> QED
    BY <2>1, <2>2
<1>4. ASSUME NEW i \in 1 .. Len(todo) - 1
      PROVE  Tail(todo)[i] \in Elems(todo)
  BY <1>1, <1>2 DEF Elems
<1>5. Head(todo) \in Elems(todo)
  BY <1>1 DEF Elems
<1>6. Elems(todo) \subseteq {Head(todo)} \cup Elems(Tail(todo))
  BY <1>1, <1>3 DEF Elems
<1>7. Elems(Tail(todo)) \subseteq Elems(todo)
  BY <1>2, <1>4 DEF Elems
<1> QED
  BY <1>1, <1>5, <1>6, <1>7

(* The titlebar is painted once. *)
LEMMA TitlebarOnce ==
    ASSUME NEW todo \in Steps, Head(todo) = "Titlebar"
    PROVE  "Titlebar" \notin Elems(Tail(todo))
<1> DEFINE order == RenderOrder
<1>1. PICK n \in 1 .. 6 : todo = SubSeq(order, n, 6)
  BY StepsFrom
<1>2. order \in Seq(Parts) /\ Len(order) = 6
  BY OrderType
<1>3. \A i \in 1 .. 6 : order[i] = "Titlebar" <=> i = 2
  BY DEF RenderOrder
<1> HIDE DEF order
<1>4. n = 2
  BY <1>1, <1>2, <1>3
<1>5. DOMAIN Tail(todo) = 1 .. 4 /\ \A i \in 1 .. 4 : Tail(todo)[i] = order[i + 2]
  BY <1>1, <1>2, <1>4
<1>6. \A i \in 1 .. 4 : order[i + 2] # "Titlebar"
  BY <1>3
<1> QED
  BY <1>5, <1>6 DEF Elems

-----------------------------------------------------------------------------
(***************************************************************************)
(* Types.  TypeOK needs that a render has a decoration to paint and room   *)
(* for it, so that no buffer of size zero is made.                         *)
(***************************************************************************)
Subsurface == [buffer : Option(BufferIds), size : Point, at : Point]
Staged == [size : Point, alive : BOOLEAN]
Shown == [size : Point, at : Point]
RenderState == [by : {"application", "worker"}, todo : Steps, before : Painted]

DecTypes == dec \in Option(Painted) /\ content \in Point
SubTypes ==
    /\ subs \in [Parts -> Subsurface] /\ buffers \subseteq BufferIds
    /\ \A part \in Parts : subs[part].buffer # None => Positive(subs[part].size)
RenderTypes ==
    /\ rendering \in Option(RenderState)
    /\ outcome \in {"none", "ok", "skipped", "error", "panic"} /\ failures \in 0 .. MaxFailures
    /\ rendering # None => dec # None /\ ~Empty(content)
ScreenTypes ==
    /\ staged \in [Parts -> Option(Staged)]
    /\ screen \in [Parts -> Option(Shown)]
    /\ applied \in Option(Point)

TypeInv == DecTypes /\ SubTypes /\ RenderTypes /\ ScreenTypes

LEMMA TypeParts == TypeInv => TypeOK
BY DEF TypeInv, TypeOK, DecTypes, SubTypes, RenderTypes, ScreenTypes, Subsurface, Staged, Shown,
       RenderState

LEMMA NothingTyped ==
    /\ Nothing \in [Parts -> Option(Staged)] /\ Nothing \in [Parts -> Option(Shown)]
    /\ Unpainted \in [Parts -> Subsurface]
    /\ \A part \in Parts : Nothing[part] = None /\ Unpainted[part].buffer = None
<1>1. None \in Option(Staged) /\ None \in Option(Shown) /\ None \in Option(BufferIds)
  BY NoneType
<1>2. <<0, 0>> \in Point
  BY DEF Point
<1>3. [buffer |-> None, size |-> <<0, 0>>, at |-> <<0, 0>>] \in Subsurface
  BY <1>1, <1>2 DEF Subsurface
<1> QED
  BY <1>1, <1>3 DEF Nothing, Unpainted

LEMMA TypeInit == Init => TypeInv
<1> SUFFICES ASSUME Init PROVE TypeInv
  OBVIOUS
<1>1. DecTypes
  BY NoneType DEF Init, DecTypes, Point
<1>2. SubTypes
  BY NothingTyped DEF Init, SubTypes
<1>3. RenderTypes
  BY NoneType, BuffersAssumption DEF Init, RenderTypes, BuffersAssumption
<1>4. ScreenTypes
  BY NothingTyped, NoneType DEF Init, ScreenTypes
<1> QED
  BY <1>1, <1>2, <1>3, <1>4 DEF TypeInv

LEMMA AppearsType == ASSUME TypeInv, NewDecorationAppears PROVE TypeInv'
<1> DEFINE fresh == [active |-> FALSE, hover |-> None, pressed |-> None, buttons |-> ButtonKinds]
<1>1. fresh \in Painted
  BY NoneType DEF Painted
<1>2. dec' = Some(fresh) /\ dec' \in Option(Painted) /\ dec' # None
  BY <1>1, SomeType, SomeValue DEF NewDecorationAppears
<1> QED
  BY <1>2 DEF NewDecorationAppears, TypeInv, DecTypes, SubTypes, RenderTypes, ScreenTypes

LEMMA DestroyType == ASSUME TypeInv, DestroyDecoration PROVE TypeInv'
<1>1. DecTypes'
  BY NoneType DEF DestroyDecoration, TypeInv, DecTypes
<1>2. SubTypes'
  BY NothingTyped DEF DestroyDecoration, TypeInv, SubTypes
<1>3. RenderTypes'
  BY DEF DestroyDecoration, TypeInv, RenderTypes
<1>4. ScreenTypes'
  BY NothingTyped, NoneType DEF DestroyDecoration, ScreenTypes
<1> QED
  BY <1>1, <1>2, <1>3, <1>4 DEF TypeInv

(* A render begins. *)
LEMMA StartType ==
    ASSUME TypeInv, NEW by \in {"application", "worker"}, NEW painted \in Painted,
           NEW size \in Point, StartRender(by, painted, size)
    PROVE  TypeInv'
<1>1. DecTypes' /\ dec' # None
  BY SomeType, SomeValue DEF StartRender, DecTypes
<1>2. SubTypes' /\ ScreenTypes'
  BY DEF StartRender, TypeInv, SubTypes, ScreenTypes
<1>3. RenderTypes'
  <2>1. CASE Empty(size)
    BY <2>1 DEF StartRender, TypeInv, RenderTypes
  <2>2. CASE ~Empty(size)
    <3>1. dec[1] \in Painted
      BY OptionValue DEF StartRender, TypeInv, DecTypes
    <3>2. RenderOrder \in Steps
      <4>1. RenderOrder = SubSeq(RenderOrder, 1, Len(RenderOrder)) /\ 1 \in DOMAIN RenderOrder
        BY OrderType
      <4> QED
        BY <4>1 DEF Steps
    <3>3. [by |-> by, todo |-> RenderOrder, before |-> dec[1]] \in RenderState
      BY <3>1, <3>2 DEF RenderState
    <3>4. rendering' \in Option(RenderState)
      BY <2>2, <3>3, SomeType DEF StartRender
    <3> QED
      BY <1>1, <2>2, <3>4 DEF StartRender, TypeInv, RenderTypes
  <2> QED
    BY <2>1, <2>2
<1> QED
  BY <1>1, <1>2, <1>3 DEF TypeInv

LEMMA StartsType ==
    ASSUME TypeInv,
           \/ \E size \in Sizes, state \in States : FrameCommit(size, state)
           \/ \E look \in Looks : PointerRepaint(look)
    PROVE  TypeInv'
<1>1. ASSUME NEW size \in Sizes, NEW state \in States, FrameCommit(size, state)
      PROVE  TypeInv'
  <2>1. size \in Point
    BY BuffersAssumption DEF BuffersAssumption, Point
  <2>2. dec[1] \in Painted
    BY <1>1, OptionValue DEF FrameCommit, StartRender, TypeInv, DecTypes
  <2>3. state \in [active : BOOLEAN, buttons : SUBSET ButtonKinds]
    BY BuffersAssumption DEF BuffersAssumption
  <2>4. [dec[1] EXCEPT !.active = state.active, !.buttons = state.buttons] \in Painted
    BY <2>2, <2>3 DEF Painted
  <2> QED
    BY <1>1, <2>1, <2>4, StartType DEF FrameCommit
<1>2. ASSUME NEW look \in Looks, PointerRepaint(look)
      PROVE  TypeInv'
  <2>1. content \in Point
    BY DEF TypeInv, DecTypes
  <2>2. dec[1] \in Painted
    BY <1>2, OptionValue DEF PointerRepaint, StartRender, TypeInv, DecTypes
  <2>3. look \in [hover : Option(ButtonKinds), pressed : Option(ButtonKinds)]
    BY BuffersAssumption DEF BuffersAssumption
  <2>4. [dec[1] EXCEPT !.hover = look.hover, !.pressed = look.pressed] \in Painted
    BY <2>2, <2>3 DEF Painted
  <2> QED
    BY <1>2, <2>1, <2>4, StartType DEF PointerRepaint
<1> QED
  BY <1>1, <1>2

LEMMA CommitBareType ==
    ASSUME TypeInv, NEW size \in Sizes, FrameCommitBare(size)
    PROVE  TypeInv'
<1>1. size \in Point
  BY BuffersAssumption DEF BuffersAssumption, Point
<1> QED
  BY <1>1 DEF FrameCommitBare, TypeInv, DecTypes, SubTypes, RenderTypes, ScreenTypes

-----------------------------------------------------------------------------
(***************************************************************************)
(* Who owns the buffers.  BuffersOwned alone is not inductive: a buffer    *)
(* that is replaced may go only if no other part has it, which follows     *)
(* from the parts that buffers are named by.                               *)
(***************************************************************************)
Ids(sb, parts) == {sb[p].buffer[1] : p \in {q \in parts : sb[q].buffer # None}}

NamedIn(sb) == \A p \in Parts : sb[p].buffer # None => sb[p].buffer[1] \in {p} \X Serials

LEMMA OwnedIds ==
    ASSUME NEW sb \in [Parts -> Subsurface], NEW parts \in SUBSET Parts
    PROVE  UNION {{sb[part].buffer[i] : i \in DOMAIN sb[part].buffer} : part \in parts}
                = Ids(sb, parts)
<1> DEFINE Have(part) == {sb[part].buffer[i] : i \in DOMAIN sb[part].buffer}
<1>1. ASSUME NEW part \in parts
      PROVE  Have(part) = IF sb[part].buffer = None THEN {} ELSE {sb[part].buffer[1]}
  <2>1. sb[part].buffer \in Option(BufferIds)
    BY DEF Subsurface
  <2>2. CASE sb[part].buffer = None
    <3>1. DOMAIN sb[part].buffer = {}
      BY <2>2 DEF None
    <3> QED
      BY <2>2, <3>1
  <2>3. CASE sb[part].buffer # None
    <3>1. PICK b \in BufferIds : sb[part].buffer = <<b>>
      BY <2>1, <2>3 DEF Option, Some, None
    <3>2. DOMAIN sb[part].buffer = {1}
      BY <3>1
    <3> QED
      BY <2>3, <3>2
  <2> QED
    BY <2>2, <2>3
<1> HIDE DEF Have
<1>2. UNION {Have(part) : part \in parts} = Ids(sb, parts)
  BY <1>1 DEF Ids
<1> QED
  BY <1>2 DEF Have

LEMMA IdsSplit ==
    ASSUME NEW sb, NamedIn(sb), NEW part \in Parts
    PROVE  /\ Ids(sb, Parts) \ Ids(sb, {part}) = Ids(sb, Parts \ {part})
           /\ \A s \in Serials : <<part, s>> \notin Ids(sb, Parts \ {part})
<1>1. ASSUME NEW p \in Parts, sb[p].buffer # None
      PROVE  sb[p].buffer[1][1] = p
  BY <1>1 DEF NamedIn
<1> QED
  BY <1>1 DEF Ids

LEMMA IdsUpdate ==
    ASSUME NEW sb \in [Parts -> Subsurface], NEW part \in Parts, NEW new
    PROVE  Ids([sb EXCEPT ![part] = new], Parts)
                = Ids(sb, Parts \ {part})
                    \cup (IF new.buffer = None THEN {} ELSE {new.buffer[1]})
BY DEF Ids

SubInv == SubTypes /\ NamedIn(subs) /\ buffers = Ids(subs, Parts)

LEMMA OwnedMeaning == ASSUME SubTypes PROVE BuffersOwned <=> buffers = Ids(subs, Parts)
BY OwnedIds DEF SubTypes, BuffersOwned, OwnedBy

LEMMA ReplacedIds ==
    ASSUME SubInv, NEW part \in Parts
    PROVE  /\ Replaced(part) = Ids(subs, Parts \ {part})
           /\ \A s \in Serials : <<part, s>> \notin Replaced(part)
<1>1. OwnedBy({part}) = Ids(subs, {part})
  BY OwnedIds DEF SubInv, SubTypes, OwnedBy
<1> QED
  BY <1>1, IdsSplit DEF SubInv, Replaced

(* A part that gets a new buffer, keeps its own, or loses it. *)
LEMMA SubUpdate ==
    ASSUME SubInv, NEW part \in Parts, NEW new \in Subsurface,
           subs' = [subs EXCEPT ![part] = new],
           new.buffer # None => Positive(new.size) /\ new.buffer[1] \in {part} \X Serials,
           buffers' = Ids(subs, Parts \ {part})
                        \cup (IF new.buffer = None THEN {} ELSE {new.buffer[1]})
    PROVE  SubInv'
<1>1. subs' \in [Parts -> Subsurface]
  BY DEF SubInv, SubTypes
<1>2. \A p \in Parts : subs'[p] = IF p = part THEN new ELSE subs[p]
  BY DEF SubInv, SubTypes
<1>3. \A p \in Parts : subs'[p].buffer # None => Positive(subs'[p].size)
  BY <1>2 DEF SubInv, SubTypes
<1>4. NamedIn(subs')
  BY <1>2 DEF SubInv, NamedIn
<1>5. buffers' = Ids(subs', Parts)
  BY IdsUpdate DEF SubInv, SubTypes
<1>6. \A p \in Parts : subs'[p].buffer # None => subs'[p].buffer[1] \in BufferIds
  BY <1>4 DEF NamedIn, BufferIds
<1>7. buffers' \subseteq BufferIds
  BY <1>5, <1>6 DEF Ids
<1> QED
  BY <1>1, <1>3, <1>4, <1>5, <1>7 DEF SubInv, SubTypes

LEMMA BackedSub ==
    ASSUME SubInv, content \in Point, ~Empty(content), NEW part \in Parts, Backed(part)
    PROVE  /\ SubInv'
           /\ \E new \in Subsurface :
                /\ subs' = [subs EXCEPT ![part] = new]
                /\ new.buffer # None
                /\ new.size = PartSize(part, content) /\ new.at = PartPlace(part, content)
<1> DEFINE size == PartSize(part, content)
           fits == CHOOSE b \in {part} \X Serials : b \notin Replaced(part)
           fresh == Placed(part)
           remade == [Placed(part) EXCEPT !.buffer = Some(fits), !.size = size]
<1>1. size \in Point /\ PartPlace(part, content) \in Point /\ Positive(size)
  BY SizeType, SizePositive
<1>2. subs[part] \in Subsurface
  BY DEF SubInv, SubTypes
<1>3. fresh \in Subsurface /\ fresh.at = PartPlace(part, content)
      /\ fresh.buffer = subs[part].buffer /\ fresh.size = subs[part].size
  BY <1>1, <1>2 DEF Placed, Subsurface
<1>4. CASE FreshEnough(part, size)
  <2>1. subs' = [subs EXCEPT ![part] = fresh] /\ buffers' = buffers
    BY <1>4 DEF Backed
  <2>2. fresh.buffer # None /\ fresh.size = size /\ fresh.buffer[1] \in {part} \X Serials
    BY <1>3, <1>4 DEF FreshEnough, SubInv, NamedIn
  <2>3. Ids(subs, Parts) = Ids(subs, Parts \ {part}) \cup {fresh.buffer[1]}
    BY <1>3, <2>2 DEF Ids
  <2>4. SubInv'
    <3> HIDE DEF fresh
    <3>1. Positive(fresh.size)
      BY <1>1, <2>2
    <3>2. buffers' = Ids(subs, Parts \ {part})
                        \cup (IF fresh.buffer = None THEN {} ELSE {fresh.buffer[1]})
      BY <2>1, <2>2, <2>3 DEF SubInv
    <3> QED
      BY <1>3, <2>1, <2>2, <3>1, <3>2, SubUpdate
  <2> QED
    BY <1>3, <2>1, <2>2, <2>4
<1>5. CASE ~FreshEnough(part, size)
  <2>1. subs' = [subs EXCEPT ![part] = remade] /\ buffers' = Replaced(part) \cup {fits}
    BY <1>5 DEF Backed
  <2>2. fits \in {part} \X Serials
    <3>1. PICK s \in Serials : TRUE
      BY BuffersAssumption DEF BuffersAssumption
    <3>2. <<part, s>> \in {part} \X Serials /\ <<part, s>> \notin Replaced(part)
      BY <3>1, ReplacedIds
    <3> QED
      BY <3>2
  <2> HIDE DEF fits
  <2>3. fits \in BufferIds
    BY <2>2 DEF BufferIds
  <2>4. Some(fits) \in Option(BufferIds) /\ Some(fits) # None /\ Some(fits)[1] = fits
    BY <2>3, SomeType, SomeValue
  <2>5. remade \in Subsurface /\ remade.at = PartPlace(part, content)
        /\ remade.buffer = Some(fits) /\ remade.size = size
    <3> HIDE DEF size
    <3> QED
      BY <1>1, <1>3, <2>4 DEF Subsurface
  <2>6. SubInv'
    <3> HIDE DEF remade
    <3>1. buffers' = Ids(subs, Parts \ {part})
                        \cup (IF remade.buffer = None THEN {} ELSE {remade.buffer[1]})
      BY <2>1, <2>4, <2>5, ReplacedIds
    <3>2. Positive(remade.size) /\ remade.buffer[1] \in {part} \X Serials
      BY <1>1, <2>2, <2>4, <2>5
    <3> QED
      BY <2>1, <2>5, <3>1, <3>2, SubUpdate
  <2> QED
    BY <2>1, <2>4, <2>5, <2>6
<1> QED
  BY <1>4, <1>5

LEMMA FailsSub ==
    ASSUME SubInv, content \in Point, NEW part \in Parts, UnderSize(part),
           buffers' = Replaced(part)
    PROVE  /\ SubInv'
           /\ \E new \in Subsurface :
                /\ subs' = [subs EXCEPT ![part] = new]
                /\ new.buffer = None /\ new.size = subs[part].size
<1> DEFINE bare == [Placed(part) EXCEPT !.buffer = None]
<1>1. PartPlace(part, content) \in Point
  BY SizeType
<1>2. subs[part] \in Subsurface
  BY DEF SubInv, SubTypes
<1>3. bare \in Subsurface /\ bare.buffer = None /\ bare.size = subs[part].size
  BY <1>1, <1>2, NoneType DEF Placed, Subsurface
<1>4. subs' = [subs EXCEPT ![part] = bare]
  BY DEF UnderSize
<1> HIDE DEF bare
<1>5. buffers' = Ids(subs, Parts \ {part})
                    \cup (IF bare.buffer = None THEN {} ELSE {bare.buffer[1]})
  BY <1>3, ReplacedIds
<1>6. SubInv'
  BY <1>3, <1>4, <1>5, SubUpdate
<1> QED
  BY <1>3, <1>4, <1>6

-----------------------------------------------------------------------------
(***************************************************************************)
(* What is staged.                                                         *)
(***************************************************************************)
LEMMA UnstagedType ==
    ASSUME NEW part \in Parts, staged \in [Parts -> Option(Staged)]
    PROVE  /\ Unstaged(part) \in [Parts -> Option(Staged)]
           /\ \A p \in Parts \ {part} : Unstaged(part)[p] = staged[p]
<1>1. CASE staged[part] = None
  BY <1>1 DEF Unstaged
<1>2. CASE staged[part] # None
  <2>1. staged[part] \in [1 .. 1 -> Staged]
    BY <1>2 DEF Option
  <2> DEFINE last == [staged[part][1] EXCEPT !.alive = FALSE]
             dead == [staged[part] EXCEPT ![1] = last]
  <2>2. Unstaged(part) = [staged EXCEPT ![part] = dead]
    BY <1>2 DEF Unstaged
  <2>3. last \in Staged
    <3>1. staged[part][1] \in Staged
      BY <2>1
    <3> QED
      BY <3>1 DEF Staged
  <2> HIDE DEF last
  <2>4. dead \in [1 .. 1 -> Staged]
    BY <2>1, <2>3
  <2>5. dead \in Option(Staged)
    BY <2>4 DEF Option
  <2> HIDE DEF dead
  <2> QED
    BY <2>2, <2>5
<1> QED
  BY <1>1, <1>2

LEMMA AttachedType ==
    ASSUME NEW part \in Parts, staged \in [Parts -> Option(Staged)], content \in Point
    PROVE  /\ Attached(part) \in [Parts -> Option(Staged)]
           /\ \A p \in Parts \ {part} : Attached(part)[p] = staged[p]
           /\ Attached(part)[part] = Some([size |-> PartSize(part, content), alive |-> TRUE])
<1> DEFINE entry == [size |-> PartSize(part, content), alive |-> TRUE]
<1>1. entry \in Staged
  BY SizeType DEF Staged
<1>2. Some(entry) \in Option(Staged)
  BY <1>1, SomeType
<1>3. Attached(part) = [staged EXCEPT ![part] = Some(entry)]
  BY DEF Attached
<1> HIDE DEF entry
<1>4. /\ Attached(part) \in [Parts -> Option(Staged)]
      /\ \A p \in Parts \ {part} : Attached(part)[p] = staged[p]
      /\ Attached(part)[part] = Some(entry)
  BY <1>2, <1>3
<1> QED
  BY <1>4 DEF entry

-----------------------------------------------------------------------------
(***************************************************************************)
(* Types and owners together are inductive.                                *)
(***************************************************************************)
OwnInv == TypeInv /\ SubInv

LEMMA RenderingTyped ==
    ASSUME RenderTypes, NEW part, Rendering(part)
    PROVE  /\ rendering[1] \in RenderState /\ rendering = Some(rendering[1])
           /\ part \in Parts /\ ~Empty(content) /\ dec # None
<1>1. rendering[1] \in RenderState /\ rendering = Some(rendering[1])
  BY OptionValue DEF RenderTypes, Rendering
<1>2. rendering[1].todo \in Steps
  BY <1>1 DEF RenderState
<1>3. part \in Parts
  BY <1>2, StepsParts DEF Rendering
<1> QED
  BY <1>1, <1>3 DEF RenderTypes, Rendering

(* The render goes on, or it is done. *)
LEMMA TodoType ==
    ASSUME RenderTypes, NEW part, PaintPart(part)
    PROVE  /\ rendering' \in Option(RenderState)
           /\ outcome' \in {"ok", outcome}
           /\ \/ /\ rendering' = None /\ outcome' = "ok" /\ Tail(rendering[1].todo) = <<>>
              \/ /\ rendering' # None /\ outcome' = outcome
                 /\ Tail(rendering[1].todo) # <<>>
                 /\ rendering'[1].todo = Tail(rendering[1].todo)
                 /\ rendering'[1].by = rendering[1].by
                 /\ rendering'[1].before = rendering[1].before
<1> DEFINE todo == Tail(rendering[1].todo)
<1>1. rendering[1] \in RenderState
  BY RenderingTyped DEF PaintPart
<1>2. CASE todo = <<>>
  <2>1. rendering' = None /\ outcome' = "ok"
    BY <1>2 DEF PaintPart
  <2> QED
    BY <1>2, <2>1, NoneType
<1>3. CASE todo # <<>>
  <2> DEFINE next == [rendering[1] EXCEPT !.todo = todo]
  <2>1. rendering' = Some(next) /\ outcome' = outcome
    BY <1>3 DEF PaintPart
  <2>2. rendering[1].todo \in Steps
    BY <1>1 DEF RenderState
  <2>3. todo \in Steps
    BY <1>3, <2>2, StepsTail
  <2> HIDE DEF todo
  <2>4. next \in RenderState /\ next.todo = todo /\ next.by = rendering[1].by
        /\ next.before = rendering[1].before
    BY <1>1, <2>3 DEF RenderState
  <2> HIDE DEF next
  <2>5. rendering' \in Option(RenderState) /\ rendering' # None /\ rendering'[1] = next
    BY <2>1, <2>4, SomeType, SomeValue
  <2> QED
    BY <1>3, <2>1, <2>4, <2>5 DEF todo
<1> QED
  BY <1>2, <1>3

LEMMA PaintType == ASSUME OwnInv, NEW part \in Parts, PaintPart(part) PROVE OwnInv'
<1>1. ~Empty(content) /\ dec # None
  BY RenderingTyped DEF OwnInv, TypeInv, PaintPart
<1>2. SubInv'
  BY <1>1, BackedSub DEF PaintPart, OwnInv, TypeInv, DecTypes
<1>3. RenderTypes'
  <2>1. rendering' \in Option(RenderState) /\ outcome' \in {"ok", outcome}
    BY TodoType DEF OwnInv, TypeInv
  <2> QED
    BY <1>1, <2>1 DEF PaintPart, OwnInv, TypeInv, RenderTypes
<1>4. ScreenTypes'
  BY AttachedType DEF PaintPart, OwnInv, TypeInv, ScreenTypes, DecTypes
<1>5. DecTypes'
  BY DEF PaintPart, OwnInv, TypeInv, DecTypes
<1> QED
  BY <1>2, <1>3, <1>4, <1>5 DEF OwnInv, TypeInv, SubInv

LEMMA PanicsType == ASSUME OwnInv, PaintPanics PROVE OwnInv'
<1>1. ~Empty(content) /\ dec # None /\ "Titlebar" \in Parts
  BY RenderingTyped DEF OwnInv, TypeInv, PaintPanics
<1>2. SubInv'
  BY <1>1, BackedSub DEF PaintPanics, OwnInv, TypeInv, DecTypes
<1>3. RenderTypes' /\ DecTypes'
  BY DEF PaintPanics, OwnInv, TypeInv, RenderTypes, DecTypes
<1>4. ScreenTypes'
  BY <1>1, UnstagedType DEF PaintPanics, OwnInv, TypeInv, ScreenTypes
<1> QED
  BY <1>2, <1>3, <1>4 DEF OwnInv, TypeInv, SubInv

LEMMA FailsType == ASSUME OwnInv, NEW part \in Parts, PaintFails(part) PROVE OwnInv'
<1>1. SubInv'
  BY FailsSub DEF PaintFails, OwnInv, TypeInv, DecTypes
<1>2. RenderTypes'
  BY NoneType, BuffersAssumption
     DEF PaintFails, OwnInv, TypeInv, RenderTypes, BuffersAssumption
<1>3. ScreenTypes'
  BY UnstagedType DEF PaintFails, OwnInv, TypeInv, ScreenTypes
<1>4. DecTypes'
  BY DEF PaintFails, OwnInv, TypeInv, DecTypes
<1> QED
  BY <1>1, <1>2, <1>3, <1>4 DEF OwnInv, TypeInv, SubInv

(* The compositor shows what was staged. *)
ShownOf(part) ==
    IF staged[part] # None /\ staged[part][1].alive
    THEN Some([size |-> staged[part][1].size, at |-> subs[part].at])
    ELSE IF staged[part] # None \/ screen[part] = None THEN None
    ELSE Some([screen[part][1] EXCEPT !.at = subs[part].at])

LEMMA ShownType ==
    ASSUME ScreenTypes, SubTypes, NEW part \in Parts
    PROVE  ShownOf(part) \in Option(Shown)
<1>1. subs[part].at \in Point
  BY DEF SubTypes, Subsurface
<1>2. CASE staged[part] # None /\ staged[part][1].alive
  <2>1. staged[part][1].size \in Point
    BY <1>2, OptionValue DEF ScreenTypes, Staged
  <2>2. [size |-> staged[part][1].size, at |-> subs[part].at] \in Shown
    BY <1>1, <2>1 DEF Shown
  <2> QED
    BY <1>2, <2>2, SomeType DEF ShownOf
<1>3. CASE ~(staged[part] # None /\ staged[part][1].alive)
           /\ (staged[part] # None \/ screen[part] = None)
  BY <1>3, NoneType DEF ShownOf
<1>4. CASE staged[part] = None /\ screen[part] # None
  <2>1. screen[part][1] \in Shown
    BY <1>4, OptionValue DEF ScreenTypes
  <2>2. [screen[part][1] EXCEPT !.at = subs[part].at] \in Shown
    BY <1>1, <2>1 DEF Shown
  <2> QED
    BY <1>4, <2>2, SomeType DEF ShownOf
<1> QED
  BY <1>2, <1>3, <1>4

LEMMA CommitType == ASSUME OwnInv, SurfaceCommit PROVE OwnInv'
<1>1. screen' = [part \in Parts |-> ShownOf(part)]
  BY DEF SurfaceCommit, ShownOf
<1>2. \A part \in Parts : ShownOf(part) \in Option(Shown)
  BY ShownType DEF OwnInv, TypeInv
<1>3. applied' \in Option(Point)
  BY SomeType, NoneType DEF SurfaceCommit, OwnInv, TypeInv, DecTypes
<1>4. ScreenTypes'
  BY <1>1, <1>2, <1>3, NothingTyped DEF SurfaceCommit, ScreenTypes
<1> QED
  BY <1>4 DEF SurfaceCommit, OwnInv, TypeInv, SubInv, DecTypes, SubTypes, RenderTypes

LEMMA InitOwned == Init => OwnInv
<1> SUFFICES ASSUME Init PROVE OwnInv
  OBVIOUS
<1>1. \A p \in Parts : subs[p].buffer = None
  BY NothingTyped DEF Init
<1>2. NamedIn(subs) /\ Ids(subs, Parts) = {}
  BY <1>1 DEF NamedIn, Ids
<1> QED
  BY <1>2, TypeInit DEF Init, OwnInv, SubInv, TypeInv

LEMMA DestroyOwned == ASSUME OwnInv, DestroyDecoration PROVE OwnInv'
<1>1. TypeInv'
  BY DestroyType DEF OwnInv
<1>2. \A p \in Parts : subs'[p].buffer = None
  BY NothingTyped DEF DestroyDecoration
<1>3. NamedIn(subs') /\ Ids(subs', Parts) = {}
  BY <1>2 DEF NamedIn, Ids
<1>4. buffers' = {}
  BY OwnedMeaning DEF DestroyDecoration, OwnInv, SubInv, BuffersOwned
<1> QED
  BY <1>1, <1>3, <1>4 DEF OwnInv, SubInv, TypeInv

LEMMA StepOwned == ASSUME OwnInv, [Next]_vars PROVE OwnInv'
<1>1. ASSUME TypeInv', UNCHANGED <<subs, buffers>>
      PROVE  OwnInv'
  BY <1>1 DEF OwnInv, SubInv, TypeInv, SubTypes
<1>2. CASE NewDecorationAppears
  BY <1>1, <1>2, AppearsType DEF OwnInv, NewDecorationAppears
<1>3. CASE DestroyDecoration
  BY <1>3, DestroyOwned
<1>4. CASE \/ \E size \in Sizes, state \in States : FrameCommit(size, state)
           \/ \E look \in Looks : PointerRepaint(look)
  BY <1>1, <1>4, StartsType DEF OwnInv, FrameCommit, PointerRepaint, StartRender
<1>5. ASSUME NEW size \in Sizes, FrameCommitBare(size)
      PROVE  OwnInv'
  BY <1>1, <1>5, CommitBareType DEF OwnInv, FrameCommitBare
<1>6. ASSUME NEW part \in Parts, PaintPart(part) \/ PaintFails(part)
      PROVE  OwnInv'
  BY <1>6, PaintType, FailsType
<1>7. CASE PaintPanics
  BY <1>7, PanicsType
<1>8. CASE SurfaceCommit
  BY <1>8, CommitType
<1>9. CASE UNCHANGED vars
  BY <1>9 DEF vars, OwnInv, TypeInv, SubInv, DecTypes, SubTypes, RenderTypes, ScreenTypes
<1> QED
  BY <1>2, <1>3, <1>4, <1>5, <1>6, <1>7, <1>8, <1>9 DEF Next

LEMMA Owned == Spec => []OwnInv
BY InitOwned, StepOwned, PTL DEF Spec

(***************************************************************************)
(* In every behaviour, with content of any size, every buffer has a size   *)
(* that wl_shm allows, and the render, the staged buffers and the screen   *)
(* are well formed (paint_subsurface, Buffer::create_buffer).              *)
(***************************************************************************)
THEOREM BuffersTyped == Spec => []TypeOK
<1>1. OwnInv => TypeOK
  BY TypeParts DEF OwnInv
<1> QED
  BY <1>1, Owned, PTL

(***************************************************************************)
(* No buffer ever leaks and none is used after it was destroyed, however   *)
(* often the content changes its size, whatever allocations fail and       *)
(* whenever the decoration goes (paint_subsurface, Decoration::destroy).   *)
(***************************************************************************)
THEOREM NoLeaks == Spec => []BuffersOwned
<1>1. OwnInv => BuffersOwned
  BY OwnedMeaning DEF OwnInv, SubInv
<1> QED
  BY <1>1, Owned, PTL

-----------------------------------------------------------------------------
(***************************************************************************)
(* The layout, as geometry: where a part is, and what the parts of a       *)
(* decoration make up together.                                            *)
(***************************************************************************)
RectOf(part, size) ==
    IF part = "Content" THEN [at |-> <<0, 0>>, size |-> size]
                        ELSE [size |-> PartSize(part, size), at |-> PartPlace(part, size)]

TileNames == {"Content", "Titlebar", "Top", "Bottom", "Left", "Right"}

LEMMA TilesNamed == DecorationParts = TileNames
BY DEF DecorationParts, Edges, TileNames

LEMMA TwoAxes ==
    ASSUME NEW a, NEW b
    PROVE  /\ Disjoint(a, b) <=> \/ a.at[1] + a.size[1] <= b.at[1] \/ b.at[1] + b.size[1] <= a.at[1]
                                 \/ a.at[2] + a.size[2] <= b.at[2] \/ b.at[2] + b.size[2] <= a.at[2]
           /\ Inside(a, b) <=> /\ b.at[1] <= a.at[1] /\ a.at[1] + a.size[1] <= b.at[1] + b.size[1]
                               /\ b.at[2] <= a.at[2] /\ a.at[2] + a.size[2] <= b.at[2] + b.size[2]
<1>1. 1 .. 2 = {1, 2}
  OBVIOUS
<1> QED
  BY <1>1 DEF Disjoint, Inside

LEMMA RectValues ==
    ASSUME NEW w \in Int, NEW h \in Int
    PROVE  LET Is(part, x, y, dx, dy) ==
                    /\ RectOf(part, <<w, h>>).at[1] = x /\ RectOf(part, <<w, h>>).at[2] = y
                    /\ RectOf(part, <<w, h>>).size[1] = dx /\ RectOf(part, <<w, h>>).size[2] = dy
           IN  /\ Is("Content", 0, 0, w, h)
               /\ Is("Titlebar", 0, -32, w, 32)
               /\ Is("Top", -4, -36, w + 8, 4)
               /\ Is("Bottom", -4, h, w + 8, 4)
               /\ Is("Left", -4, -32, 4, 32 + h)
               /\ Is("Right", w, -32, 4, 32 + h)
               /\ Is("Shadow", -16, -48, w + 32, h + 64)
               /\ Window(<<w, h>>).at[1] = -4 /\ Window(<<w, h>>).at[2] = -36
               /\ Window(<<w, h>>).size[1] = w + 8 /\ Window(<<w, h>>).size[2] = h + 40
<1>1. /\ PartSize("Titlebar", <<w, h>>) = <<w, 32>> /\ PartPlace("Titlebar", <<w, h>>) = <<0, -32>>
      /\ PartSize("Top", <<w, h>>) = <<w + 8, 4>> /\ PartPlace("Top", <<w, h>>) = <<-4, -36>>
      /\ PartSize("Bottom", <<w, h>>) = <<w + 8, 4>> /\ PartPlace("Bottom", <<w, h>>) = <<-4, h>>
      /\ PartSize("Left", <<w, h>>) = <<4, 32 + h>> /\ PartPlace("Left", <<w, h>>) = <<-4, -32>>
      /\ PartSize("Right", <<w, h>>) = <<4, 32 + h>> /\ PartPlace("Right", <<w, h>>) = <<w, -32>>
      /\ PartSize("Shadow", <<w, h>>) = <<w + 32, h + 64>>
      /\ PartPlace("Shadow", <<w, h>>) = <<-16, -48>>
  BY DEF PartSize, PartPlace, TITLEBAR_HEIGHT, BORDER_WIDTH, SHADOW_RADIUS
<1>2. Window(<<w, h>>) = [at |-> <<-4, -36>>, size |-> <<w + 8, h + 40>>]
  BY DEF Window, GeometryOf, decoration_overhead, TITLEBAR_HEIGHT, BORDER_WIDTH
<1> QED
  BY <1>1, <1>2 DEF RectOf

LEMMA AreaSum ==
    ASSUME NEW w \in Int, NEW h \in Int
    PROVE  (w + 8) * (h + 40) =
                w * h + w * 32 + (w + 8) * 4 + (w + 8) * 4 + 4 * (32 + h) + 4 * (32 + h)
OBVIOUS

LEMMA LayoutTiles ==
    ASSUME NEW size \in Point, ~Empty(size)
    PROVE  /\ \A p, q \in DecorationParts : p # q => Disjoint(RectOf(p, size), RectOf(q, size))
           /\ \A part \in DecorationParts : Inside(RectOf(part, size), Window(size))
           /\ Area(Window(size)) =
                Area(RectOf("Content", size)) + Area(RectOf("Titlebar", size))
                    + Area(RectOf("Top", size)) + Area(RectOf("Bottom", size))
                    + Area(RectOf("Left", size)) + Area(RectOf("Right", size))
           /\ Inside(Window(size), RectOf("Shadow", size))
<1>1. PICK w \in Int, h \in Int : size = <<w, h>> /\ w > 0 /\ h > 0
  BY DEF Point, Empty
<1> DEFINE X(p) == RectOf(p, size).at[1]
           Y(p) == RectOf(p, size).at[2]
           W(p) == RectOf(p, size).size[1]
           H(p) == RectOf(p, size).size[2]
<1>2. /\ X("Content") = 0 /\ Y("Content") = 0 /\ W("Content") = w /\ H("Content") = h
      /\ X("Titlebar") = 0 /\ Y("Titlebar") = -32 /\ W("Titlebar") = w /\ H("Titlebar") = 32
      /\ X("Top") = -4 /\ Y("Top") = -36 /\ W("Top") = w + 8 /\ H("Top") = 4
      /\ X("Bottom") = -4 /\ Y("Bottom") = h /\ W("Bottom") = w + 8 /\ H("Bottom") = 4
      /\ X("Left") = -4 /\ Y("Left") = -32 /\ W("Left") = 4 /\ H("Left") = 32 + h
      /\ X("Right") = w /\ Y("Right") = -32 /\ W("Right") = 4 /\ H("Right") = 32 + h
      /\ X("Shadow") = -16 /\ Y("Shadow") = -48 /\ W("Shadow") = w + 32 /\ H("Shadow") = h + 64
  BY <1>1, RectValues
<1>3. /\ Window(size).at[1] = -4 /\ Window(size).at[2] = -36
      /\ Window(size).size[1] = w + 8 /\ Window(size).size[2] = h + 40
  BY <1>1, RectValues
<1>4. \A p, q \in DecorationParts : p # q => Disjoint(RectOf(p, size), RectOf(q, size))
  <2>1. \A p, q \in TileNames : p # q => \/ X(p) + W(p) <= X(q) \/ X(q) + W(q) <= X(p)
                                         \/ Y(p) + H(p) <= Y(q) \/ Y(q) + H(q) <= Y(p)
    <3> HIDE DEF X, Y, W, H
    <3> QED
      BY <1>1, <1>2 DEF TileNames
  <2> QED
    BY <2>1, TwoAxes, TilesNamed
<1>5. \A part \in DecorationParts : Inside(RectOf(part, size), Window(size))
  <2>1. \A p \in TileNames : /\ -4 <= X(p) /\ X(p) + W(p) <= -4 + (w + 8)
                             /\ -36 <= Y(p) /\ Y(p) + H(p) <= -36 + (h + 40)
    <3> HIDE DEF X, Y, W, H
    <3> QED
      BY <1>1, <1>2 DEF TileNames
  <2> QED
    BY <1>3, <2>1, TwoAxes, TilesNamed
<1>6. /\ Area(Window(size)) = (w + 8) * (h + 40)
      /\ Area(RectOf("Content", size)) = w * h /\ Area(RectOf("Titlebar", size)) = w * 32
      /\ Area(RectOf("Top", size)) = (w + 8) * 4 /\ Area(RectOf("Bottom", size)) = (w + 8) * 4
      /\ Area(RectOf("Left", size)) = 4 * (32 + h) /\ Area(RectOf("Right", size)) = 4 * (32 + h)
  BY <1>2, <1>3 DEF Area
<1>7. Inside(Window(size), RectOf("Shadow", size))
  BY <1>1, <1>2, <1>3, TwoAxes
<1> QED
  BY <1>1, <1>4, <1>5, <1>6, <1>7, AreaSum

-----------------------------------------------------------------------------
(***************************************************************************)
(* The strengthening for WindowTiled.  A part is ready when its buffer is  *)
(* of the size and at the place that the content asks for, and is either   *)
(* staged and alive or what the screen already shows.  Every part is ready *)
(* while the last render that ended was complete and no application call   *)
(* is halfway; and the parts that a render has behind it are ready.        *)
(***************************************************************************)
Ready(p) ==
    /\ subs[p].buffer # None
    /\ subs[p].size = PartSize(p, content) /\ subs[p].at = PartPlace(p, content)
    /\ \/ staged[p] = Some([size |-> PartSize(p, content), alive |-> TRUE])
       \/ staged[p] = None /\ screen[p] # None /\ screen[p][1].size = PartSize(p, content)

Complete == dec # None /\ outcome = "ok" /\ (rendering # None => rendering[1].by = "worker")
Done(p) == rendering # None /\ p \notin Elems(rendering[1].todo)

ReadyInv == \A p \in Parts : Complete \/ Done(p) => Ready(p)
RoomInv == Complete => ~Empty(content)
ShownInv ==
    applied # None => /\ ~Empty(applied[1])
                      /\ \A p \in Parts : screen[p] = Some(RectOf(p, applied[1]))

LayoutInv == ReadyInv /\ RoomInv /\ ShownInv

LEMMA LayoutInit == Init => LayoutInv
BY DEF Init, LayoutInv, ReadyInv, RoomInv, ShownInv, Complete, Done

(* Nothing is ready, or asked to be. *)
LEMMA LayoutIdle ==
    ASSUME LayoutInv, ~Complete', rendering' = None, UNCHANGED <<screen, applied>>
    PROVE  LayoutInv'
BY DEF LayoutInv, ReadyInv, RoomInv, ShownInv, Done

LEMMA StartLayout ==
    ASSUME OwnInv, LayoutInv, NEW by \in {"application", "worker"}, NEW painted, NEW size,
           by = "worker" => size = content,
           StartRender(by, painted, size)
    PROVE  LayoutInv'
<1>1. CASE Empty(size)
  BY <1>1, LayoutIdle DEF StartRender, Complete
<1>2. CASE ~Empty(size)
  <2>1. rendering' # None /\ rendering'[1].todo = RenderOrder /\ rendering'[1].by = by
        /\ outcome' = outcome
    BY <1>2, SomeValue DEF StartRender
  <2>2. \A p \in Parts : ~Done(p)'
    BY <2>1 DEF Done, Elems, Parts
  <2>3. Complete' => Complete /\ content' = content
    BY <2>1 DEF Complete, StartRender
  <2>4. ReadyInv'
    BY <2>2, <2>3 DEF LayoutInv, ReadyInv, Ready, StartRender
  <2>5. RoomInv'
    BY <1>2 DEF StartRender, RoomInv
  <2>6. ShownInv'
    BY DEF StartRender, LayoutInv, ShownInv
  <2> QED
    BY <2>4, <2>5, <2>6 DEF LayoutInv
<1> QED
  BY <1>1, <1>2

LEMMA PaintLayout ==
    ASSUME OwnInv, LayoutInv, NEW part \in Parts, PaintPart(part)
    PROVE  LayoutInv'
<1>1. ~Empty(content) /\ rendering # None /\ rendering[1] \in RenderState
      /\ part = Head(rendering[1].todo) /\ content' = content
  BY RenderingTyped DEF OwnInv, TypeInv, PaintPart, Rendering
<1>2. rendering[1].todo \in Seq(Parts) /\ rendering[1].todo # <<>>
  BY <1>1, StepsParts DEF RenderState
<1>3. Elems(rendering[1].todo) = {part} \cup Elems(Tail(rendering[1].todo))
  BY <1>1, <1>2, TodoSplit
<1>4. PICK new \in Subsurface :
            /\ subs' = [subs EXCEPT ![part] = new]
            /\ new.buffer # None
            /\ new.size = PartSize(part, content) /\ new.at = PartPlace(part, content)
  BY <1>1, BackedSub DEF PaintPart, OwnInv, TypeInv, DecTypes
<1>5. subs'[part] = new /\ \A p \in Parts \ {part} : subs'[p] = subs[p]
  BY <1>4 DEF OwnInv, TypeInv, SubTypes
<1>6. /\ staged'[part] = Some([size |-> PartSize(part, content), alive |-> TRUE])
      /\ \A p \in Parts \ {part} : staged'[p] = staged[p]
  BY AttachedType DEF PaintPart, OwnInv, TypeInv, ScreenTypes, DecTypes
<1>7. Ready(part)'
  BY <1>1, <1>4, <1>5, <1>6 DEF Ready
<1>8. ASSUME NEW p \in Parts \ {part}, Complete' \/ Done(p)'
      PROVE  Ready(p)'
  <2>1. Complete \/ Done(p)
    <3>1. CASE rendering' = None /\ Tail(rendering[1].todo) = <<>>
      <4>1. Elems(Tail(rendering[1].todo)) = {}
        BY <3>1 DEF Elems
      <4> QED
        BY <1>1, <1>3, <4>1 DEF Done
    <3>2. CASE rendering' # None /\ outcome' = outcome
               /\ rendering'[1].todo = Tail(rendering[1].todo)
               /\ rendering'[1].by = rendering[1].by
      BY <1>1, <1>3, <1>8, <3>2 DEF PaintPart, Complete, Done
    <3> QED
      BY <3>1, <3>2, TodoType DEF OwnInv, TypeInv
  <2>2. Ready(p)
    BY <2>1 DEF LayoutInv, ReadyInv
  <2> QED
    BY <1>1, <1>5, <1>6, <2>2 DEF Ready, PaintPart
<1>9. ReadyInv'
  BY <1>7, <1>8 DEF ReadyInv
<1> QED
  BY <1>1, <1>9 DEF LayoutInv, RoomInv, ShownInv, PaintPart

LEMMA PanicLayout == ASSUME OwnInv, LayoutInv, PaintPanics PROVE LayoutInv'
<1>1. ~Empty(content) /\ rendering # None /\ rendering[1] \in RenderState
      /\ "Titlebar" = Head(rendering[1].todo) /\ "Titlebar" \in Parts
  BY RenderingTyped DEF OwnInv, TypeInv, PaintPanics, Rendering
<1>2. "Titlebar" \in Elems(rendering[1].todo)
  BY <1>1, StepsParts, TodoSplit DEF RenderState
<1>3. \A p \in Parts \ {"Titlebar"} : subs'[p] = subs[p]
  BY <1>1, BackedSub DEF PaintPanics, OwnInv, TypeInv, DecTypes, SubTypes
<1>4. \A p \in Parts \ {"Titlebar"} : staged'[p] = staged[p]
  BY <1>1, UnstagedType DEF PaintPanics, OwnInv, TypeInv, ScreenTypes
<1>5. ASSUME NEW p \in Parts, Complete' \/ Done(p)'
      PROVE  Ready(p)'
  <2>1. Done(p) /\ p # "Titlebar"
    BY <1>2, <1>5 DEF PaintPanics, Complete, Done
  <2> QED
    BY <1>3, <1>4, <2>1 DEF LayoutInv, ReadyInv, Ready, PaintPanics
<1> QED
  BY <1>5 DEF LayoutInv, ReadyInv, RoomInv, ShownInv, Complete, PaintPanics

LEMMA CommitLayout == ASSUME OwnInv, LayoutInv, SurfaceCommit PROVE LayoutInv'
<1>1. screen' = [part \in Parts |-> ShownOf(part)] /\ staged' = Nothing
      /\ UNCHANGED <<dec, content, subs, rendering, outcome>>
  BY DEF SurfaceCommit, ShownOf
<1>2. ASSUME NEW p \in Parts, Ready(p)
      PROVE  screen'[p] = Some(RectOf(p, content)) /\ Ready(p)'
  <2>1. screen'[p] = ShownOf(p) /\ staged'[p] = None
    BY <1>1, NothingTyped
  <2>2. p # "Content"
    BY PartsNamed DEF PartNames
  <2>3. RectOf(p, content) = [size |-> PartSize(p, content), at |-> PartPlace(p, content)]
    BY <2>2 DEF RectOf
  <2>4. ASSUME staged[p] = Some([size |-> PartSize(p, content), alive |-> TRUE])
        PROVE  screen'[p] = Some(RectOf(p, content))
    <3>1. staged[p] # None /\ staged[p][1] = [size |-> PartSize(p, content), alive |-> TRUE]
      BY <2>4, SomeValue
    <3> QED
      BY <1>2, <2>1, <2>3, <3>1 DEF ShownOf, Ready
  <2>5. ASSUME staged[p] = None, screen[p] # None,
               screen[p][1].size = PartSize(p, content)
        PROVE  screen'[p] = Some(RectOf(p, content))
    <3>1. screen[p][1] \in Shown
      BY <2>5, OptionValue DEF OwnInv, TypeInv, ScreenTypes
    <3>2. [screen[p][1] EXCEPT !.at = subs[p].at] = RectOf(p, content)
      BY <1>2, <2>3, <2>5, <3>1 DEF Shown, Ready
    <3> QED
      BY <2>1, <2>5, <3>2 DEF ShownOf
  <2>6. screen'[p] = Some(RectOf(p, content))
    BY <1>2, <2>4, <2>5 DEF Ready
  <2>7. screen'[p] # None /\ screen'[p][1].size = PartSize(p, content)
    BY <2>3, <2>6, SomeValue
  <2> QED
    BY <1>1, <1>2, <2>1, <2>6, <2>7 DEF Ready
<1>3. (Complete' <=> Complete) /\ \A p \in Parts : Done(p)' <=> Done(p)
  BY <1>1 DEF Complete, Done
<1>4. ReadyInv' /\ RoomInv'
  BY <1>1, <1>2, <1>3 DEF LayoutInv, ReadyInv, RoomInv
<1>5. ShownInv'
  <2>1. CASE dec # None /\ outcome = "ok"
    <3>1. applied' = Some(content) /\ Complete
      BY <2>1 DEF SurfaceCommit, Complete
    <3>2. applied'[1] = content
      BY <3>1, SomeValue
    <3> QED
      BY <1>2, <3>1, <3>2 DEF ShownInv, LayoutInv, ReadyInv, RoomInv
  <2>2. CASE ~(dec # None /\ outcome = "ok")
    BY <2>2 DEF SurfaceCommit, ShownInv
  <2> QED
    BY <2>1, <2>2
<1> QED
  BY <1>4, <1>5 DEF LayoutInv

LEMMA StepLayout == ASSUME OwnInv, LayoutInv, [Next]_vars PROVE LayoutInv'
<1>1. ASSUME dec = None
      PROVE  rendering = None
  BY <1>1 DEF OwnInv, TypeInv, RenderTypes
<1>2. CASE NewDecorationAppears
  BY <1>1, <1>2, LayoutIdle DEF NewDecorationAppears, Complete
<1>3. CASE DestroyDecoration
  BY <1>3 DEF DestroyDecoration, LayoutInv, ReadyInv, RoomInv, ShownInv, Complete, Done
<1>4. ASSUME NEW size \in Sizes, NEW state \in States, FrameCommit(size, state)
      PROVE  LayoutInv'
  BY <1>4, StartLayout DEF FrameCommit
<1>5. ASSUME NEW look \in Looks, PointerRepaint(look)
      PROVE  LayoutInv'
  BY <1>5, StartLayout DEF PointerRepaint
<1>6. ASSUME NEW size \in Sizes, FrameCommitBare(size)
      PROVE  LayoutInv'
  BY <1>1, <1>6, LayoutIdle DEF FrameCommitBare, Complete
<1>7. ASSUME NEW part \in Parts, PaintPart(part)
      PROVE  LayoutInv'
  BY <1>7, PaintLayout
<1>8. ASSUME NEW part \in Parts, PaintFails(part)
      PROVE  LayoutInv'
  BY <1>8, LayoutIdle DEF PaintFails, Complete
<1>9. CASE PaintPanics
  BY <1>9, PanicLayout
<1>10. CASE SurfaceCommit
  BY <1>10, CommitLayout
<1>11. CASE UNCHANGED vars
  BY <1>11 DEF vars, LayoutInv, ReadyInv, RoomInv, ShownInv, Complete, Done, Ready
<1> QED
  BY <1>2, <1>3, <1>4, <1>5, <1>6, <1>7, <1>8, <1>9, <1>10, <1>11 DEF Next

LEMMA TiledMeaning == OwnInv /\ ShownInv => WindowTiled
<1> SUFFICES ASSUME OwnInv, ShownInv, applied # None PROVE WindowTiled
  BY DEF WindowTiled
<1> DEFINE size == applied[1]
           Tile(part) == IF part = "Content" THEN [at |-> <<0, 0>>, size |-> size]
                                             ELSE screen[part][1]
<1>1. size \in Point /\ ~Empty(size)
  BY OptionValue DEF OwnInv, TypeInv, ScreenTypes, ShownInv
<1>2. \A part \in Parts : screen[part] # None /\ screen[part][1] = RectOf(part, size)
  BY SomeValue DEF ShownInv
<1>3. Parts \cup {"Content"} = DecorationParts \cup {"Shadow"} /\ "Content" \notin Parts
      /\ "Shadow" \in Parts /\ "Shadow" \notin DecorationParts
  BY PartsNamed, TilesNamed DEF PartNames, TileNames
<1>4. \A part \in DecorationParts : Tile(part) = RectOf(part, size)
  BY <1>2, <1>3 DEF RectOf
<1>5. Tile("Content") = RectOf("Content", size) /\ Tile("Titlebar") = RectOf("Titlebar", size)
      /\ Tile("Top") = RectOf("Top", size) /\ Tile("Bottom") = RectOf("Bottom", size)
      /\ Tile("Left") = RectOf("Left", size) /\ Tile("Right") = RectOf("Right", size)
  BY <1>4, TilesNamed DEF TileNames
<1> HIDE DEF size, Tile
<1>6. /\ \A p, q \in DecorationParts : p # q => Disjoint(Tile(p), Tile(q))
      /\ \A part \in DecorationParts : Inside(Tile(part), Window(size))
      /\ Area(Window(size)) =
            Area(Tile("Content")) + Area(Tile("Titlebar")) + Area(Tile("Top"))
                + Area(Tile("Bottom")) + Area(Tile("Left")) + Area(Tile("Right"))
      /\ Inside(Window(size), screen["Shadow"][1])
  BY <1>1, <1>2, <1>3, <1>4, <1>5, LayoutTiles
<1> QED
  BY <1>2, <1>6 DEF WindowTiled, size, Tile

(***************************************************************************)
(* For content of every size: when the application's surface is committed  *)
(* after a complete render, the six subsurfaces and the content tile the   *)
(* window geometry that Frame::commit announced, and none of them is       *)
(* missing, whatever renders failed before and whatever the pointer has    *)
(* repainted (Decoration::render, paint_subsurface).                       *)
(***************************************************************************)
THEOREM Tiled == Spec => []WindowTiled
<1>1. Init => OwnInv /\ LayoutInv
  BY InitOwned, LayoutInit
<1>2. OwnInv /\ LayoutInv /\ [Next]_vars => (OwnInv /\ LayoutInv)'
  BY StepOwned, StepLayout
<1>3. OwnInv /\ LayoutInv => WindowTiled
  BY TiledMeaning DEF LayoutInv
<1> QED
  BY <1>1, <1>2, <1>3, PTL DEF Spec

-----------------------------------------------------------------------------
(***************************************************************************)
(* A render against Csd!Render: only the step that paints the titlebar     *)
(* changes its width and its picture, and it changes both.                 *)
(***************************************************************************)
Ahead == rendering # None /\ "Titlebar" \in Elems(rendering[1].todo)
Look == IF Ahead THEN rendering[1].before ELSE dec[1]

LEMMA AbstractMeaning ==
    Abstract =
        IF dec = None THEN NewDecoration
        ELSE [active |-> Look.active, hover |-> Look.hover, pressed |-> Look.pressed,
              buttons |-> Look.buttons, drawn |-> drawn,
              width |-> IF Running THEN subs["Titlebar"].size[1] ELSE 0]
<1>1. Ahead <=> rendering # None /\ \E i \in DOMAIN rendering[1].todo :
                                         rendering[1].todo[i] = "Titlebar"
  BY DEF Ahead, Elems
<1> QED
  BY <1>1 DEF Abstract, Look

(* The titlebar as Csd keeps it, and its updates, by name. *)
Panel(a, h, p, b, d, w) ==
    [active |-> a, hover |-> h, pressed |-> p, buttons |-> b, drawn |-> d, width |-> w]

Spanning(r, span) == [r EXCEPT !.width = span]
Showing(r, pic) == [r EXCEPT !.drawn = pic]
Asked(r, span, pic) == [r EXCEPT !.width = span, !.drawn = pic]

LEMMA PanelUpdate ==
    ASSUME NEW a, NEW h, NEW p, NEW b, NEW d, NEW w, NEW pic, NEW span, NEW r,
           r = Panel(a, h, p, b, d, w)
    PROVE  /\ Spanning(r, span) = Panel(a, h, p, b, d, span)
           /\ Showing(r, pic) = Panel(a, h, p, b, pic, w)
           /\ Asked(r, span, pic) = Panel(a, h, p, b, pic, span)
<1>1. Spanning(r, span) = Panel(a, h, p, b, d, span)
  BY DEF Spanning, Panel
<1>2. Showing(r, pic) = Panel(a, h, p, b, pic, w)
  BY DEF Showing, Panel
<1>3. ASSUME NEW m, m = Panel(a, h, p, b, d, span)
      PROVE  Showing(m, pic) = Panel(a, h, p, b, pic, span)
  BY <1>3 DEF Showing, Panel
<1>4. Asked(r, span, pic) = Showing(Spanning(r, span), pic)
  BY DEF Asked, Showing, Spanning
<1> QED
  BY <1>1, <1>2, <1>3, <1>4

RenderStep ==
    dec # None /\ dec' # None /\ outcome' # "panic" =>
        LET asked == [Abstract' EXCEPT !.width = Abstract.width, !.drawn = Abstract.drawn]
        IN  \E painted \in BOOLEAN : Abstract' = Render(asked, content', painted)

(* A step that leaves the titlebar's width and picture paints nothing. *)
LEMMA NotPainted ==
    ASSUME dec # None, dec' # None, Running, Running', drawn' = drawn,
           subs'["Titlebar"].size = subs["Titlebar"].size
    PROVE  RenderStep
<1> DEFINE before == Abstract
           after == Abstract'
           asked == [after EXCEPT !.width = before.width, !.drawn = before.drawn]
<1>1. before.width = subs["Titlebar"].size[1] /\ before.drawn = drawn
  BY AbstractMeaning
<1>2. after = [active |-> Look'.active, hover |-> Look'.hover, pressed |-> Look'.pressed,
               buttons |-> Look'.buttons, drawn |-> drawn,
               width |-> subs["Titlebar"].size[1]]
  BY DEF Abstract, Look, Ahead, Elems
<1> HIDE DEF before, after
<1>3. asked = after
  <2>1. after = Panel(Look'.active, Look'.hover, Look'.pressed, Look'.buttons, drawn,
                      subs["Titlebar"].size[1])
    BY <1>2 DEF Panel
  <2>2. asked = Panel(Look'.active, Look'.hover, Look'.pressed, Look'.buttons, before.drawn,
                      before.width)
    <3>1. asked = Asked(after, before.width, before.drawn)
      BY DEF Asked
    <3> QED
      BY <2>1, <3>1, PanelUpdate
  <2> QED
    BY <1>1, <2>1, <2>2
<1>4. after = Render(asked, content', FALSE)
  BY <1>3 DEF Render
<1> QED
  BY <1>4 DEF RenderStep, before, after

LEMMA TitlebarPainted ==
    ASSUME OwnInv, PaintPart("Titlebar"), Running'
    PROVE  RenderStep
<1>1. /\ "Titlebar" \in Parts /\ ~Empty(content) /\ dec # None /\ rendering[1] \in RenderState
      /\ "Titlebar" = Head(rendering[1].todo) /\ content \in Point
  BY RenderingTyped DEF OwnInv, TypeInv, DecTypes, PaintPart, Rendering
<1>2. subs'["Titlebar"].size = PartSize("Titlebar", content)
  BY <1>1, BackedSub DEF PaintPart, OwnInv, TypeInv, SubTypes
<1>3. subs'["Titlebar"].size[1] = content[1]
  BY <1>2 DEF PartSize
<1>4. ~Ahead'
  <2>1. "Titlebar" \notin Elems(Tail(rendering[1].todo))
    BY <1>1, TitlebarOnce DEF RenderState
  <2> QED
    BY <1>1, <2>1, TodoType DEF OwnInv, TypeInv, Ahead
<1>5. dec' = dec /\ content' = content /\ drawn' = Some(TitlebarPicture)
  BY DEF PaintPart
<1>6. Look' = dec[1]
  BY <1>4, <1>5 DEF Look
<1> DEFINE d == dec[1]
           before == Abstract
           after == Abstract'
           asked == [after EXCEPT !.width = before.width, !.drawn = before.drawn]
<1>7. after = [active |-> d.active, hover |-> d.hover, pressed |-> d.pressed,
               buttons |-> d.buttons, drawn |-> Some(TitlebarPicture), width |-> content[1]]
  <2>1. after = [active |-> Look'.active, hover |-> Look'.hover, pressed |-> Look'.pressed,
                 buttons |-> Look'.buttons, drawn |-> drawn',
                 width |-> subs'["Titlebar"].size[1]]
    BY <1>1, <1>5 DEF Abstract, Look, Ahead, Elems
  <2> QED
    BY <1>3, <1>5, <1>6, <2>1
<1>8. TitlebarPicture = [active |-> d.active, hover |-> d.hover, pressed |-> d.pressed,
                         buttons |-> d.buttons, width |-> content[1]]
  BY DEF TitlebarPicture, Picture
<1> HIDE DEF before, after, d
<1>9. after = Render(asked, content, TRUE)
  <2> DEFINE sized == [asked EXCEPT !.width = content[1]]
             P(pic, span) == Panel(d.active, d.hover, d.pressed, d.buttons, pic, span)
  <2>1. Render(asked, content, TRUE) = [sized EXCEPT !.drawn = Some(Picture(sized))]
    BY <1>1 DEF Render, Empty
  <2>2. after = P(Some(TitlebarPicture), content[1])
    BY <1>7 DEF Panel
  <2>3. asked = P(before.drawn, before.width)
    <3>1. asked = Asked(after, before.width, before.drawn)
      BY DEF Asked
    <3> QED
      BY <2>2, <3>1, PanelUpdate
  <2> HIDE DEF asked
  <2>4. sized = P(before.drawn, content[1])
    <3>1. sized = Spanning(asked, content[1])
      BY DEF Spanning
    <3> QED
      BY <2>3, <3>1, PanelUpdate
  <2>5. Picture(sized) = TitlebarPicture
    <3> HIDE DEF sized
    <3> QED
      BY <1>8, <2>4 DEF Picture, Panel
  <2> HIDE DEF sized
  <2>6. [sized EXCEPT !.drawn = Some(TitlebarPicture)] = P(Some(TitlebarPicture), content[1])
    <3>1. [sized EXCEPT !.drawn = Some(TitlebarPicture)]
                = Showing(sized, Some(TitlebarPicture))
      BY DEF Showing
    <3> QED
      BY <2>4, <3>1, PanelUpdate
  <2> QED
    BY <2>1, <2>2, <2>5, <2>6
<1> QED
  BY <1>5, <1>9 DEF RenderStep, before, after

LEMMA RenderSteps == ASSUME OwnInv, [Next]_vars PROVE [RenderStep]_Abstract
<1> SUFFICES ASSUME dec # None, dec' # None, outcome' # "panic"
             PROVE  RenderStep
  BY DEF RenderStep
<1>1. Running /\ Running'
  <2>1. CASE UNCHANGED vars
    BY <2>1 DEF vars, Running
  <2>2. CASE Next
    BY <2>2 DEF Next, Running, NewDecorationAppears, DestroyDecoration, FrameCommit, StartRender,
                FrameCommitBare, PointerRepaint, PaintPart, PaintFails, PaintPanics, Rendering,
                SurfaceCommit
  <2> QED
    BY <2>1, <2>2
<1>2. ASSUME UNCHANGED <<drawn, subs>>
      PROVE  RenderStep
  BY <1>1, <1>2, NotPainted
<1>3. CASE SurfaceCommit \/ UNCHANGED vars
  BY <1>2, <1>3 DEF SurfaceCommit, vars
<1>4. CASE \/ \E size \in Sizes, state \in States : FrameCommit(size, state)
           \/ \E look \in Looks : PointerRepaint(look)
  BY <1>2, <1>4 DEF FrameCommit, PointerRepaint, StartRender
<1>5. ASSUME NEW part \in Parts, PaintPart(part)
      PROVE  RenderStep
  <2>1. CASE part = "Titlebar"
    BY <1>1, <1>5, <2>1, TitlebarPainted
  <2>2. CASE part # "Titlebar"
    <3>1. content \in Point /\ ~Empty(content) /\ SubInv
      BY <1>5, RenderingTyped DEF PaintPart, OwnInv, TypeInv, DecTypes
    <3>2. PICK new \in Subsurface : subs' = [subs EXCEPT ![part] = new]
      BY <1>5, <3>1, BackedSub DEF PaintPart
    <3>3. "Titlebar" \in Parts
      BY PartsNamed DEF PartNames
    <3>4. subs'["Titlebar"] = subs["Titlebar"]
      BY <2>2, <3>2, <3>3 DEF OwnInv, TypeInv, SubTypes
    <3>5. drawn' = drawn
      BY <1>5, <2>2 DEF PaintPart
    <3> QED
      BY <1>1, <3>4, <3>5, NotPainted
  <2> QED
    BY <2>1, <2>2
<1>6. ASSUME NEW part \in Parts, PaintFails(part)
      PROVE  RenderStep
  <2>1. content \in Point /\ SubInv /\ "Titlebar" \in Parts
    BY PartsNamed DEF PartNames, OwnInv, TypeInv, DecTypes
  <2>2. PICK new \in Subsurface :
            subs' = [subs EXCEPT ![part] = new] /\ new.size = subs[part].size
    BY <1>6, <2>1, FailsSub DEF PaintFails
  <2>3. subs'["Titlebar"].size = subs["Titlebar"].size
    BY <2>1, <2>2 DEF OwnInv, TypeInv, SubTypes
  <2>4. drawn' = drawn
    BY <1>6 DEF PaintFails
  <2> QED
    BY <1>1, <2>3, <2>4, NotPainted
<1> QED
  BY <1>3, <1>4, <1>5, <1>6 DEF Next, NewDecorationAppears, DestroyDecoration, FrameCommitBare,
                                PaintPanics

(***************************************************************************)
(* Taken part by part, with allocations that fail anywhere, a render is    *)
(* the one step that Libdecor takes it for, for content of every size: it  *)
(* paints the titlebar and sets the width by which clicks are judged, or   *)
(* it does neither (Decoration::render against Csd!Render).                *)
(***************************************************************************)
THEOREM RenderRefines == Spec => RendersAsLibdecor
<1>1. OwnInv /\ [Next]_vars => [RenderStep]_Abstract
  BY RenderSteps
<1> QED
  BY <1>1, Owned, PTL DEF Spec, RendersAsLibdecor, RenderStep
=============================================================================
