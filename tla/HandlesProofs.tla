---------------------------- MODULE HandlesProofs ---------------------------
(***************************************************************************)
(* Theorems about Handles: no call touches memory that was freed, boxes,   *)
(* references and windows agree, and the title got last stays what it was, *)
(* for any number of frames, references and titles.                        *)
(***************************************************************************)
EXTENDS Handles, TLAPS

(* Maps. *)
LEMMA PutMap ==
    ASSUME NEW f, NEW k, NEW v
    PROVE  /\ DOMAIN Put(f, k, v) = DOMAIN f \cup {k}
           /\ Put(f, k, v)[k] = v
           /\ \A x \in DOMAIN f : x # k => Put(f, k, v)[x] = f[x]
BY DEF Put

LEMMA PutType ==
    ASSUME NEW S, NEW f, f \in [DOMAIN f -> S], NEW k, NEW v \in S
    PROVE  Put(f, k, v) \in [DOMAIN Put(f, k, v) -> S]
BY DEF Put

LEMMA WithoutMap ==
    ASSUME NEW f, NEW keys
    PROVE  /\ DOMAIN Without(f, keys) = DOMAIN f \ keys
           /\ \A x \in DOMAIN f \ keys : Without(f, keys)[x] = f[x]
BY DEF Without, Restrict

LEMMA WithoutType ==
    ASSUME NEW S, NEW f, f \in [DOMAIN f -> S], NEW keys
    PROVE  Without(f, keys) \in [DOMAIN Without(f, keys) -> S]
BY DEF Without, Restrict

LEMMA OptionSome == ASSUME NEW S, NEW v \in S PROVE Some(v) \in Option(S)
BY DEF Some, Option

LEMMA OptionValue ==
    ASSUME NEW S, NEW o \in Option(S), o # None
    PROVE  o[1] \in S
BY DEF Option, None

LEMMA EmptyMap == ASSUME NEW S PROVE << >> \in [DOMAIN << >> -> S] /\ DOMAIN << >> = {}
OBVIOUS

-----------------------------------------------------------------------------
(***************************************************************************)
(* Types.  TypeOK is inductive; each of its parts is named so that a step  *)
(* can say which ones it disturbs.                                         *)
(***************************************************************************)
FlagTypes == {context, configuration} \subseteq BOOLEAN
TitleTypes == titles \in [live -> Option(Titles)] /\ live \subseteq FrameIds
BoxTypes ==
    /\ boxes \in [DOMAIN boxes -> Nat \ {0}] /\ DOMAIN boxes \subseteq FrameIds
    /\ registered \subseteq FrameIds
StringTypes ==
    /\ title_cache \in [DOMAIN title_cache -> Addresses] /\ DOMAIN title_cache \subseteq FrameIds
    /\ strings \in [DOMAIN strings -> Titles] /\ DOMAIN strings \subseteq Addresses
    /\ lent \in [FrameIds -> Seq([at : Addresses, text : Titles])]
UserTypes ==
    /\ next_id \in 0 .. MaxFrames /\ closed \subseteq FrameIds
    /\ callback \in Option([frame : FrameIds, kind : {"Configure", "Close"}])
    /\ owned \in [FrameIds -> Nat]

TypeInv == FlagTypes /\ TitleTypes /\ BoxTypes /\ StringTypes /\ UserTypes

LEMMA TypeParts == TypeInv => TypeOK
BY DEF TypeInv, TypeOK, FlagTypes, TitleTypes, BoxTypes, StringTypes, UserTypes

LEMMA TypeInit == Init => TypeInv
<1> SUFFICES ASSUME Init PROVE TypeInv
  OBVIOUS
<1>1. FlagTypes
  BY Zenon DEF Init, FlagTypes
<1>2. TitleTypes /\ BoxTypes
  BY EmptyMap DEF Init, TitleTypes, BoxTypes, live
<1>3. StringTypes
  BY EmptyMap DEF Init, StringTypes
<1>4. UserTypes
  BY HandlesAssumption DEF Init, UserTypes, HandlesAssumption, FrameIds, Option
<1> QED
  BY <1>1, <1>2, <1>3, <1>4 DEF TypeInv

LEMMA DecorateType == ASSUME TypeInv, Decorate PROVE TypeInv'
<1>1. FlagTypes /\ TitleTypes /\ BoxTypes /\ StringTypes /\ UserTypes
  BY DEF TypeInv
<1>2. next_id \in FrameIds /\ next_id + 1 \in 0 .. MaxFrames
  BY <1>1, HandlesAssumption DEF Decorate, UserTypes, HandlesAssumption, FrameIds
<1>3. FlagTypes'
  BY <1>1, Zenon DEF Decorate, FlagTypes
<1>4. TitleTypes'
  <2>1. titles' \in [DOMAIN titles' -> Option(Titles)]
    <3>1. None \in Option(Titles)
      BY DEF Option
    <3> QED
      BY <1>1, <3>1, PutType DEF Decorate, TitleTypes, live
  <2>2. DOMAIN titles' = DOMAIN titles \cup {next_id}
    BY PutMap DEF Decorate
  <2> QED
    BY <1>1, <1>2, <2>1, <2>2 DEF TitleTypes, live, FrameIds
<1>5. BoxTypes'
  <2>1. boxes' \in [DOMAIN boxes' -> Nat \ {0}]
    <3>1. 1 \in Nat \ {0}
      OBVIOUS
    <3>2. boxes \in [DOMAIN boxes -> Nat \ {0}]
      BY <1>1 DEF BoxTypes
    <3> QED
      BY <3>1, <3>2, PutType DEF Decorate
  <2>2. DOMAIN boxes' = DOMAIN boxes \cup {next_id}
    BY PutMap DEF Decorate
  <2> QED
    BY <1>1, <1>2, <2>1, <2>2 DEF Decorate, BoxTypes, FrameIds
<1>6. StringTypes'
  BY <1>1 DEF Decorate, StringTypes, FrameIds
<1>7. UserTypes'
  BY <1>1, <1>2 DEF Decorate, UserTypes, FrameIds
<1> QED
  BY <1>3, <1>4, <1>5, <1>6, <1>7 DEF TypeInv

LEMMA FrameRefType ==
    ASSUME TypeInv, NEW id \in FrameIds, FrameRef(id)
    PROVE  TypeInv'
<1>1. FlagTypes /\ TitleTypes /\ BoxTypes /\ StringTypes /\ UserTypes
  BY DEF TypeInv
<1>2. FlagTypes'
  BY <1>1, Zenon DEF FrameRef, FlagTypes
<1>3. TitleTypes' /\ StringTypes'
  BY <1>1 DEF FrameRef, TitleTypes, StringTypes, live, FrameIds
<1>4. BoxTypes'
  BY <1>1 DEF FrameRef, BoxTypes, FrameIds
<1>5. UserTypes'
  BY <1>1 DEF FrameRef, UserTypes, FrameIds
<1> QED
  BY <1>2, <1>3, <1>4, <1>5 DEF TypeInv

LEMMA FrameUnrefType ==
    ASSUME TypeInv, NEW id \in FrameIds, FrameUnref(id)
    PROVE  TypeInv'
<1>1. FlagTypes /\ TitleTypes /\ BoxTypes /\ StringTypes /\ UserTypes
  BY DEF TypeInv
<1>2. FlagTypes'
  BY <1>1, Zenon DEF FrameUnref, FlagTypes
<1>3. StringTypes'
  BY <1>1 DEF FrameUnref, StringTypes, FrameIds
<1>4. TitleTypes' /\ BoxTypes'
  <2>1. CASE Shared(id)
    BY <1>1, <2>1 DEF FrameUnref, Shared, TitleTypes, BoxTypes, live, FrameIds
  <2>2. CASE ~Shared(id)
    <3>1. titles' = Without(titles, {id}) /\ registered' = registered \ {id}
      BY <2>2 DEF FrameUnref, Dropped
    <3>2. boxes' = Without(boxes, {id})
      BY <2>2 DEF FrameUnref
    <3>3. TitleTypes'
      BY <1>1, <3>1, WithoutMap, WithoutType DEF TitleTypes, live, FrameIds
    <3>4. BoxTypes'
      <4>1. boxes' \in [DOMAIN boxes' -> Nat \ {0}]
        BY <1>1, <3>2, WithoutType DEF BoxTypes
      <4> QED
        BY <1>1, <3>1, <3>2, <4>1, WithoutMap DEF BoxTypes, FrameIds
    <3> QED
      BY <3>3, <3>4
  <2> QED
    BY <2>1, <2>2
<1>5. UserTypes'
  BY <1>1 DEF FrameUnref, MayUse, UserTypes, FrameIds
<1> QED
  BY <1>2, <1>3, <1>4, <1>5 DEF TypeInv

LEMMA FrameCloseType ==
    ASSUME TypeInv, NEW id \in FrameIds, FrameClose(id)
    PROVE  TypeInv'
<1>1. FlagTypes /\ TitleTypes /\ BoxTypes /\ StringTypes /\ UserTypes
  BY DEF TypeInv
<1>2. FlagTypes'
  BY <1>1, Zenon DEF FrameClose, FlagTypes
<1>3. TitleTypes'
  BY <1>1, WithoutMap, WithoutType DEF FrameClose, Closed, TitleTypes, live, FrameIds
<1>4. BoxTypes' /\ StringTypes' /\ UserTypes'
  BY <1>1 DEF FrameClose, Closed, BoxTypes, StringTypes, UserTypes, FrameIds
<1> QED
  BY <1>2, <1>3, <1>4 DEF TypeInv

LEMMA SetTitleType ==
    ASSUME TypeInv, NEW id \in FrameIds, NEW text \in Titles, SetTitle(id, text)
    PROVE  TypeInv'
<1>1. FlagTypes /\ TitleTypes /\ BoxTypes /\ StringTypes /\ UserTypes
  BY DEF TypeInv
<1>2. FlagTypes'
  BY <1>1, Zenon DEF SetTitle, FlagTypes
<1>3. TitleTypes'
  <2>1. CASE id \in live
    <3>1. titles' = Put(titles, id, Some(text))
      BY <2>1 DEF SetTitle
    <3>2. titles' \in [DOMAIN titles' -> Option(Titles)]
      BY <1>1, <3>1, OptionSome, PutType DEF TitleTypes, live
    <3>3. DOMAIN titles' = DOMAIN titles \cup {id}
      BY <3>1, PutMap
    <3> QED
      BY <1>1, <2>1, <3>2, <3>3 DEF TitleTypes, live, FrameIds
  <2>2. CASE id \notin live
    BY <1>1, <2>2 DEF SetTitle, TitleTypes, live, FrameIds
  <2> QED
    BY <2>1, <2>2
<1>4. BoxTypes' /\ UserTypes'
  BY <1>1 DEF SetTitle, BoxTypes, UserTypes, FrameIds
<1>5. StringTypes'
  <2> DEFINE T == Seq([at : Addresses, text : Titles])
  <2>1. << >> \in T
    OBVIOUS
  <2>2. lent' = lent \/ lent' = [lent EXCEPT ![id] = << >>]
    BY Zenon DEF SetTitle
  <2> HIDE DEF T
  <2>3. lent \in [FrameIds -> T] => lent' \in [FrameIds -> T]
    BY <2>1, <2>2
  <2> USE DEF T
  <2> QED
    BY <1>1, <2>3 DEF SetTitle, StringTypes, FrameIds
<1> QED
  BY <1>2, <1>3, <1>4, <1>5 DEF TypeInv

LEMMA GetTitleType ==
    ASSUME TypeInv, NEW id \in FrameIds, GetTitle(id)
    PROVE  TypeInv'
<1>1. FlagTypes /\ TitleTypes /\ BoxTypes /\ StringTypes /\ UserTypes
  BY DEF TypeInv
<1>2. FlagTypes'
  BY <1>1, Zenon DEF GetTitle, FlagTypes
<1>3. TitleTypes' /\ BoxTypes' /\ UserTypes'
  BY <1>1 DEF GetTitle, TitleTypes, BoxTypes, UserTypes, live, FrameIds
<1>4. StringTypes'
  <2>1. CASE strings' = strings /\ title_cache' = title_cache /\ lent' = lent
    BY <1>1, <2>1 DEF StringTypes, FrameIds
  <2>2. ASSUME NEW at \in Addresses, id \in live, titles[id] # None,
               strings' = Put(Without(strings, Replaced(id)), at, titles[id][1]),
               title_cache' = Put(title_cache, id, at),
               lent' = [lent EXCEPT ![id] = Append(@, [at |-> at, text |-> titles[id][1]])]
        PROVE  StringTypes'
    <3>1. titles[id][1] \in Titles
      BY <1>1, <2>2, OptionValue DEF TitleTypes, live
    <3>2. title_cache' \in [DOMAIN title_cache' -> Addresses]
      BY <1>1, <2>2, PutType DEF StringTypes
    <3>3. Without(strings, Replaced(id)) \in [DOMAIN Without(strings, Replaced(id)) -> Titles]
      BY <1>1, WithoutType DEF StringTypes
    <3>4. strings' \in [DOMAIN strings' -> Titles]
      BY <2>2, <3>1, <3>3, PutType
    <3>5. DOMAIN title_cache' = DOMAIN title_cache \cup {id}
      BY <2>2, PutMap
    <3>6. DOMAIN strings' = (DOMAIN strings \ Replaced(id)) \cup {at}
      <4> DEFINE rest == Without(strings, Replaced(id))
      <4>1. DOMAIN rest = DOMAIN strings \ Replaced(id)
        BY WithoutMap
      <4> HIDE DEF rest
      <4>2. DOMAIN Put(rest, at, titles[id][1]) = DOMAIN rest \cup {at}
        BY PutMap
      <4> USE DEF rest
      <4> QED
        BY <2>2, <4>1, <4>2
    <3>7. lent' \in [FrameIds -> Seq([at : Addresses, text : Titles])]
      <4> DEFINE R == [at : Addresses, text : Titles]
                 got == [at |-> at, text |-> titles[id][1]]
      <4>1. lent[id] \in Seq(R) /\ got \in R
        BY <1>1, <3>1 DEF StringTypes
      <4> HIDE DEF R, got
      <4>2. Append(lent[id], got) \in Seq(R)
        BY <4>1
      <4>3. lent \in [FrameIds -> Seq(R)]
        BY <1>1 DEF StringTypes, R
      <4>4. lent' = [lent EXCEPT ![id] = Append(lent[id], got)]
        BY <2>2 DEF got
      <4> QED
        BY <4>2, <4>3, <4>4 DEF R
    <3> QED
      BY <1>1, <2>2, <3>2, <3>4, <3>5, <3>6, <3>7 DEF StringTypes, FrameIds
  <2> QED
    BY <2>1, <2>2 DEF GetTitle
<1> QED
  BY <1>2, <1>3, <1>4 DEF TypeInv

LEMMA UnchangedType ==
    ASSUME TypeInv, UNCHANGED <<library, application>>
    PROVE  TypeInv'
<1>1. FlagTypes /\ TitleTypes /\ BoxTypes /\ StringTypes /\ UserTypes
  BY DEF TypeInv
<1>2. FlagTypes'
  BY <1>1, Zenon DEF library, application, FlagTypes
<1>3. TitleTypes' /\ BoxTypes' /\ StringTypes' /\ UserTypes'
  BY <1>1 DEF library, application, TitleTypes, BoxTypes, StringTypes, UserTypes, live, FrameIds
<1> QED
  BY <1>2, <1>3 DEF TypeInv

LEMMA DeliverType ==
    ASSUME TypeInv, NEW id \in FrameIds, NEW kind \in {"Configure", "Close"}, Deliver(id, kind)
    PROVE  TypeInv'
<1>1. FlagTypes /\ TitleTypes /\ BoxTypes /\ StringTypes /\ UserTypes
  BY DEF TypeInv
<1>2. FlagTypes'
  <2>1. context' \in BOOLEAN
    BY <1>1, Zenon DEF Deliver, FlagTypes
  <2>2. configuration' \in BOOLEAN
    BY Zenon DEF Deliver
  <2> QED
    BY <2>1, <2>2, Zenon DEF FlagTypes
<1>3. TitleTypes' /\ BoxTypes' /\ StringTypes'
  BY <1>1 DEF Deliver, TitleTypes, BoxTypes, StringTypes, live, FrameIds
<1>4. UserTypes'
  <2>1. callback' \in Option([frame : FrameIds, kind : {"Configure", "Close"}])
    BY OptionSome DEF Deliver
  <2> QED
    BY <1>1, <2>1 DEF Deliver, UserTypes, FrameIds
<1> QED
  BY <1>2, <1>3, <1>4 DEF TypeInv

LEMMA CallbackReturnsType == ASSUME TypeInv, CallbackReturns PROVE TypeInv'
<1>1. FlagTypes /\ TitleTypes /\ BoxTypes /\ StringTypes /\ UserTypes
  BY DEF TypeInv
<1>2. FlagTypes'
  BY <1>1, Zenon DEF CallbackReturns, FlagTypes
<1>3. TitleTypes' /\ BoxTypes' /\ StringTypes'
  BY <1>1 DEF CallbackReturns, TitleTypes, BoxTypes, StringTypes, live, FrameIds
<1>4. UserTypes'
  BY <1>1 DEF CallbackReturns, UserTypes, FrameIds, Option
<1> QED
  BY <1>2, <1>3, <1>4 DEF TypeInv

LEMMA ContextUnrefType == ASSUME TypeInv, ContextUnref PROVE TypeInv'
<1>1. FlagTypes /\ TitleTypes /\ BoxTypes /\ StringTypes /\ UserTypes
  BY DEF TypeInv
<1>2. FlagTypes'
  BY <1>1, Zenon DEF ContextUnref, FlagTypes
<1>3. TitleTypes' /\ StringTypes'
  BY <1>1, EmptyMap DEF ContextUnref, TitleTypes, StringTypes, live, FrameIds
<1>4. BoxTypes'
  <2>1. boxes' \in [DOMAIN boxes' -> Nat \ {0}]
    BY <1>1, WithoutType DEF ContextUnref, BoxTypes
  <2> QED
    BY <1>1, <2>1, WithoutMap DEF ContextUnref, BoxTypes, FrameIds
<1>5. UserTypes'
  BY <1>1 DEF ContextUnref, UserTypes, FrameIds
<1> QED
  BY <1>2, <1>3, <1>4, <1>5 DEF TypeInv

LEMMA TypeStep == TypeInv /\ [Next]_vars => TypeInv'
<1> SUFFICES ASSUME TypeInv, [Next]_vars PROVE TypeInv'
  OBVIOUS
<1>1. CASE Decorate
  BY <1>1, DecorateType
<1>2. ASSUME NEW id \in FrameIds, Call(id) PROVE TypeInv'
  <2>1. CASE FrameRef(id) \/ FrameUnref(id) \/ FrameClose(id) \/ GetTitle(id)
    BY <2>1, FrameRefType, FrameUnrefType, FrameCloseType, GetTitleType
  <2>2. ASSUME NEW text \in Titles, SetTitle(id, text) PROVE TypeInv'
    BY <2>2, SetTitleType
  <2>3. ASSUME WithFrame(id) \/ (\E parent \in FrameIds : FrameSetParent(id, parent))
                 \/ (\E configured \in BOOLEAN : FrameCommit(id, configured))
        PROVE  TypeInv'
    <3>1. UNCHANGED <<library, application>>
      BY <2>3, Zenon DEF WithFrame, FrameSetParent, FrameCommit
    <3> QED
      BY <3>1, UnchangedType
  <2> QED
    BY <1>2, <2>1, <2>2, <2>3 DEF Call
<1>3. ASSUME NEW id \in FrameIds, NEW kind \in {"Configure", "Close"}, Deliver(id, kind)
      PROVE  TypeInv'
  BY <1>3, DeliverType
<1>4. CASE CallbackReturns \/ ContextUnref
  BY <1>4, CallbackReturnsType, ContextUnrefType
<1>5. CASE UNCHANGED vars
  BY <1>5, UnchangedType DEF vars
<1> QED
  BY <1>1, <1>2, <1>3, <1>4, <1>5 DEF Next

(***************************************************************************)
(* Every variable has its type in every behaviour: counts are positive,    *)
(* and maps are of frames, addresses and titles that exist.                *)
(***************************************************************************)
THEOREM HandlesTyped == Spec => []TypeOK
<1>1. Spec => []TypeInv
  BY TypeInit, TypeStep, PTL DEF Spec
<1> QED
  BY <1>1, TypeParts, PTL

-----------------------------------------------------------------------------
(***************************************************************************)
(* Handles.  HandlesExact is not inductive: a frame not made yet must not  *)
(* be owned or closed, or making it would not be fresh; and that nothing   *)
(* is used after it was freed needs to know that the context lives through *)
(* a Configure.                                                            *)
(***************************************************************************)
Unborn == \A id \in FrameIds : id >= next_id => owned[id] = 0 /\ id \notin closed

ConfigureAlive ==
    callback # None /\ callback[1].kind = "Configure" => context /\ configuration

HandlesInv == TypeInv /\ HandlesExact /\ Unborn /\ ConfigureAlive /\ NoUseAfterFree

(* What an obedient application uses is allocated. *)
LEMMA UsableBox ==
    ASSUME HandlesInv, NEW id \in FrameIds, MayUse(id)
    PROVE  /\ context /\ id \in DOMAIN boxes /\ boxes[id] = owned[id]
           /\ ReadsBox({id}) = {} /\ ReadsContext = {}
<1>1. context /\ id \in DOMAIN boxes /\ boxes[id] = owned[id]
  BY DEF HandlesInv, HandlesExact, MayUse
<1> QED
  BY <1>1 DEF ReadsBox, ReadsContext, Fault

(* A step that touches neither boxes nor references nor windows. *)
LEMMA HandlesStable ==
    ASSUME HandlesInv, context' = context, next_id' = next_id, boxes' = boxes,
           registered' = registered, live' = live, owned' = owned, closed' = closed
    PROVE  HandlesExact' /\ Unborn'
BY DEF HandlesInv, HandlesExact, Unborn, FrameIds

LEMMA HandlesInit == Init => HandlesInv
<1> SUFFICES ASSUME Init PROVE HandlesInv
  OBVIOUS
<1>1. DOMAIN boxes = {} /\ live = {}
  BY EmptyMap DEF Init, live
<1>2. HandlesExact
  BY <1>1 DEF Init, HandlesExact
<1>3. Unborn /\ ConfigureAlive /\ NoUseAfterFree
  BY DEF Init, Unborn, ConfigureAlive, NoUseAfterFree
<1> QED
  BY <1>2, <1>3, TypeInit DEF HandlesInv

LEMMA DecorateHandles ==
    ASSUME HandlesInv, Decorate
    PROVE  HandlesExact' /\ Unborn' /\ ConfigureAlive' /\ NoUseAfterFree'
<1>1. TypeInv /\ TitleTypes /\ BoxTypes /\ UserTypes
  BY DEF HandlesInv, TypeInv
<1>2. next_id \in FrameIds /\ next_id \in Nat
  BY <1>1, HandlesAssumption DEF Decorate, UserTypes, HandlesAssumption, FrameIds
<1>3. owned[next_id] = 0 /\ next_id \notin closed
  BY <1>2 DEF HandlesInv, Unborn
<1>4. /\ DOMAIN boxes' = DOMAIN boxes \cup {next_id}
      /\ boxes'[next_id] = 1
      /\ \A id \in DOMAIN boxes : id # next_id => boxes'[id] = boxes[id]
      /\ live' = live \cup {next_id}
  <2>1. boxes' = Put(boxes, next_id, 1) /\ titles' = Put(titles, next_id, None)
    BY DEF Decorate
  <2>2. DOMAIN Put(boxes, next_id, 1) = DOMAIN boxes \cup {next_id}
    BY PutMap
  <2>3. DOMAIN Put(titles, next_id, None) = DOMAIN titles \cup {next_id}
    BY PutMap
  <2>4. /\ Put(boxes, next_id, 1)[next_id] = 1
        /\ \A id \in DOMAIN boxes : id # next_id => Put(boxes, next_id, 1)[id] = boxes[id]
    BY DEF Put
  <2> QED
    BY <2>1, <2>2, <2>3, <2>4 DEF live
<1>5. \A id \in FrameIds : owned'[id] = IF id = next_id THEN 1 ELSE owned[id]
  BY <1>1, <1>2 DEF Decorate, UserTypes
<1>6. context /\ context' = context /\ closed' = closed
  BY DEF Decorate
<1>7. DOMAIN boxes' = {id \in FrameIds : owned'[id] > 0}
  <2>1. DOMAIN boxes = {id \in FrameIds : owned[id] > 0}
    BY <1>6 DEF HandlesInv, HandlesExact
  <2>2. ASSUME NEW id PROVE id \in DOMAIN boxes' <=> id \in FrameIds /\ owned'[id] > 0
    <3>1. CASE id = next_id
      BY <1>2, <1>4, <1>5, <3>1
    <3>2. CASE id # next_id
      BY <1>4, <1>5, <2>1, <3>2
    <3> QED
      BY <3>1, <3>2
  <2> QED
    BY <2>2
<1>8. \A id \in DOMAIN boxes' : boxes'[id] = owned'[id]
  BY <1>1, <1>2, <1>4, <1>5, <1>6 DEF HandlesInv, HandlesExact, BoxTypes
<1>9. registered' = DOMAIN boxes' \ closed' /\ live' = registered'
  BY <1>3, <1>4, <1>6 DEF Decorate, HandlesInv, HandlesExact
<1>10. HandlesExact'
  BY <1>6, <1>7, <1>8, <1>9 DEF HandlesExact, FrameIds
<1>11. Unborn'
  BY <1>1, <1>2, <1>5, <1>6 DEF Decorate, HandlesInv, Unborn, FrameIds
<1>12. ConfigureAlive' /\ NoUseAfterFree'
  BY Zenon DEF Decorate, HandlesInv, ConfigureAlive, NoUseAfterFree
<1> QED
  BY <1>10, <1>11, <1>12

LEMMA FrameRefHandles ==
    ASSUME HandlesInv, NEW id \in FrameIds, FrameRef(id)
    PROVE  HandlesExact' /\ Unborn' /\ ConfigureAlive' /\ NoUseAfterFree'
<1>1. BoxTypes /\ UserTypes
  BY DEF HandlesInv, TypeInv
<1>2. /\ context /\ id \in DOMAIN boxes /\ boxes[id] = owned[id]
      /\ ReadsBox({id}) = {} /\ owned[id] > 0
  BY UsableBox DEF FrameRef, MayUse
<1>3. boxes' = [boxes EXCEPT ![id] = @ + 1] /\ owned' = [owned EXCEPT ![id] = @ + 1]
  BY <1>2 DEF FrameRef
<1>4. HandlesExact'
  BY <1>1, <1>2, <1>3 DEF FrameRef, HandlesInv, HandlesExact, BoxTypes, UserTypes, FrameIds, live
<1>5. Unborn'
  BY <1>1, <1>2, <1>3 DEF FrameRef, HandlesInv, Unborn, UserTypes, FrameIds
<1>6. ConfigureAlive' /\ NoUseAfterFree'
  BY <1>2 DEF FrameRef, HandlesInv, ConfigureAlive, NoUseAfterFree
<1> QED
  BY <1>4, <1>5, <1>6

LEMMA FrameUnrefHandles ==
    ASSUME HandlesInv, NEW id \in FrameIds, FrameUnref(id)
    PROVE  HandlesExact' /\ Unborn' /\ ConfigureAlive' /\ NoUseAfterFree'
<1>1. BoxTypes /\ UserTypes
  BY DEF HandlesInv, TypeInv
<1>2. /\ context /\ id \in DOMAIN boxes /\ boxes[id] = owned[id] /\ owned[id] > 0
      /\ ReadsBox({id}) = {} /\ ReadsContext = {}
  BY UsableBox DEF FrameUnref, MayUse
<1>3. owned' = [owned EXCEPT ![id] = @ - 1] /\ context' = context /\ closed' = closed
  BY DEF FrameUnref
<1>4. \A i \in FrameIds : owned'[i] = IF i = id THEN owned[id] - 1 ELSE owned[i]
  BY <1>1, <1>3 DEF UserTypes
<1>5. HandlesExact'
  <2>1. CASE Shared(id)
    <3>1. boxes' = [boxes EXCEPT ![id] = @ - 1] /\ boxes[id] > 1
      BY <2>1 DEF FrameUnref, Shared
    <3>2. registered' = registered /\ live' = live
      BY <2>1 DEF FrameUnref, Shared, live
    <3> QED
      BY <1>1, <1>2, <1>3, <1>4, <3>1, <3>2
      DEF HandlesInv, HandlesExact, BoxTypes, UserTypes, FrameIds
  <2>2. CASE ~Shared(id)
    <3>1. owned[id] = 1
      BY <1>1, <1>2, <2>2 DEF Shared, UserTypes
    <3>2. /\ DOMAIN boxes' = DOMAIN boxes \ {id}
          /\ \A i \in DOMAIN boxes \ {id} : boxes'[i] = boxes[i]
      <4>1. boxes' = Without(boxes, {id})
        BY <2>2 DEF FrameUnref
      <4> QED
        BY <4>1, WithoutMap
    <3>3. registered' = registered \ {id} /\ live' = live \ {id}
      BY <2>2, WithoutMap DEF FrameUnref, Dropped, live
    <3>4. DOMAIN boxes' = {i \in FrameIds : owned'[i] > 0}
      BY <1>2, <1>4, <3>1, <3>2 DEF HandlesInv, HandlesExact
    <3>5. \A i \in DOMAIN boxes' : boxes'[i] = owned'[i]
      BY <1>1, <1>2, <1>4, <3>2 DEF HandlesInv, HandlesExact, BoxTypes
    <3>6. registered' = DOMAIN boxes' \ closed' /\ live' = registered'
      BY <1>2, <1>3, <3>2, <3>3 DEF HandlesInv, HandlesExact
    <3> QED
      BY <1>2, <1>3, <3>4, <3>5, <3>6 DEF HandlesExact, FrameIds
  <2> QED
    BY <2>1, <2>2
<1>6. Unborn'
  BY <1>1, <1>2, <1>3, <1>4 DEF FrameUnref, HandlesInv, Unborn, UserTypes, FrameIds
<1>7. ConfigureAlive' /\ NoUseAfterFree'
  BY <1>2 DEF FrameUnref, HandlesInv, ConfigureAlive, NoUseAfterFree
<1> QED
  BY <1>5, <1>6, <1>7

LEMMA FrameCloseHandles ==
    ASSUME HandlesInv, NEW id \in FrameIds, FrameClose(id)
    PROVE  HandlesExact' /\ Unborn' /\ ConfigureAlive' /\ NoUseAfterFree'
<1>1. BoxTypes /\ UserTypes
  BY DEF HandlesInv, TypeInv
<1>2. context /\ owned[id] > 0 /\ ReadsBox({id}) = {} /\ ReadsContext = {}
  BY UsableBox DEF FrameClose, MayUse
<1>3. registered' = registered \ {id} /\ live' = live \ {id}
  BY WithoutMap DEF FrameClose, Closed, live
<1>4. /\ closed' = closed \cup {id}
      /\ boxes' = boxes /\ owned' = owned /\ context' = context /\ next_id' = next_id
  BY DEF FrameClose
<1>5. HandlesExact'
  BY <1>1, <1>2, <1>3, <1>4 DEF HandlesInv, HandlesExact, FrameIds
<1>6. Unborn'
  BY <1>2, <1>4 DEF HandlesInv, Unborn, FrameIds
<1>7. ConfigureAlive' /\ NoUseAfterFree'
  BY <1>2 DEF FrameClose, HandlesInv, ConfigureAlive, NoUseAfterFree
<1> QED
  BY <1>5, <1>6, <1>7

LEMMA TitleHandles ==
    ASSUME HandlesInv, NEW id \in FrameIds, NEW text, SetTitle(id, text) \/ GetTitle(id)
    PROVE  HandlesExact' /\ Unborn' /\ ConfigureAlive' /\ NoUseAfterFree'
<1>1. ReadsBox({id}) = {} /\ ReadsContext = {}
  BY UsableBox DEF SetTitle, GetTitle
<1>2. live' = live
  <2>1. CASE id \in live /\ SetTitle(id, text)
    <3>1. titles' = Put(titles, id, Some(text))
      BY <2>1 DEF SetTitle
    <3>2. DOMAIN Put(titles, id, Some(text)) = DOMAIN titles \cup {id}
      BY PutMap
    <3> QED
      BY <2>1, <3>1, <3>2 DEF live
  <2>2. CASE id \notin live \/ GetTitle(id)
    BY <2>2 DEF SetTitle, GetTitle, live
  <2> QED
    BY <2>1, <2>2
<1>3. /\ context' = context /\ next_id' = next_id /\ boxes' = boxes
      /\ registered' = registered /\ owned' = owned /\ closed' = closed
      /\ configuration' = configuration /\ callback' = callback
      /\ faults' = faults \cup ReadsBox({id}) \cup ReadsContext
  BY Zenon DEF SetTitle, GetTitle
<1>4. HandlesExact' /\ Unborn'
  BY <1>2, <1>3, HandlesStable
<1> QED
  BY <1>1, <1>3, <1>4 DEF HandlesInv, ConfigureAlive, NoUseAfterFree

LEMMA ForwardHandles ==
    ASSUME HandlesInv, NEW id \in FrameIds, NEW parent \in FrameIds, NEW configured \in BOOLEAN,
           WithFrame(id) \/ FrameSetParent(id, parent) \/ FrameCommit(id, configured)
    PROVE  HandlesExact' /\ Unborn' /\ ConfigureAlive' /\ NoUseAfterFree'
<1>1. UNCHANGED <<library, application>>
  BY Zenon DEF WithFrame, FrameSetParent, FrameCommit
<1>2. HandlesExact' /\ Unborn' /\ ConfigureAlive'
  BY <1>1 DEF library, application, live, HandlesInv, HandlesExact, Unborn, ConfigureAlive,
              FrameIds
<1>3. faults' = {}
  <2>1. faults = {}
    BY DEF HandlesInv, NoUseAfterFree
  <2>2. MayUse(id)
    BY DEF WithFrame, FrameSetParent, FrameCommit
  <2>3. id \in DOMAIN boxes /\ ReadsBox({id}) = {} /\ ReadsContext = {}
    BY <2>2, UsableBox
  <2>4. CASE WithFrame(id)
    BY <2>1, <2>3, <2>4 DEF WithFrame
  <2>5. CASE FrameSetParent(id, parent)
    <3>1. parent \in DOMAIN boxes
      BY <2>5, UsableBox DEF FrameSetParent
    <3>2. ReadsBox({id, parent}) = {}
      BY <2>3, <3>1 DEF ReadsBox, Fault
    <3> QED
      BY <2>1, <2>3, <2>5, <3>2 DEF FrameSetParent
  <2>6. CASE FrameCommit(id, configured)
    <3>1. configured => configuration
      BY <2>6 DEF FrameCommit, HandlesInv, ConfigureAlive
    <3>2. Fault(configured /\ ~configuration, "configuration used after free") = {}
      BY <3>1 DEF Fault
    <3> QED
      BY <2>1, <2>3, <2>6, <3>2 DEF FrameCommit
  <2> QED
    BY <2>4, <2>5, <2>6
<1> QED
  BY <1>2, <1>3 DEF NoUseAfterFree

LEMMA DeliverHandles ==
    ASSUME HandlesInv, NEW id \in FrameIds, NEW kind, Deliver(id, kind)
    PROVE  HandlesExact' /\ Unborn' /\ ConfigureAlive' /\ NoUseAfterFree'
<1>1. context /\ id \in registered /\ context' = context
  BY DEF Deliver
<1>2. id \in DOMAIN boxes
  BY <1>1 DEF HandlesInv, HandlesExact
<1>3. ReadsBox({id}) = {}
  BY <1>2 DEF ReadsBox, Fault
<1>4. HandlesExact' /\ Unborn'
  BY HandlesStable DEF Deliver, live
<1>5. ConfigureAlive'
  <2>1. callback' = Some([frame |-> id, kind |-> kind])
    BY DEF Deliver
  <2>2. callback'[1].kind = kind
    BY <2>1 DEF Some
  <2> QED
    <3>1. context'
      BY <1>1
    <3>2. CASE kind = "Configure"
      <4>1. configuration'
        BY <3>2 DEF Deliver
      <4> QED
        BY <3>1, <4>1, Zenon DEF ConfigureAlive
    <3>3. CASE kind # "Configure"
      BY <2>2, <3>3, Zenon DEF ConfigureAlive
    <3> QED
      BY <3>2, <3>3
<1> QED
  BY <1>3, <1>4, <1>5 DEF Deliver, HandlesInv, NoUseAfterFree

LEMMA CallbackReturnsHandles ==
    ASSUME HandlesInv, CallbackReturns
    PROVE  HandlesExact' /\ Unborn' /\ ConfigureAlive' /\ NoUseAfterFree'
<1>1. HandlesExact' /\ Unborn'
  BY HandlesStable DEF CallbackReturns, live
<1>2. ConfigureAlive'
  BY DEF CallbackReturns, ConfigureAlive
<1>3. callback[1].kind = "Configure" => ReadsContext = {}
  BY DEF CallbackReturns, HandlesInv, ConfigureAlive, ReadsContext, Fault
<1> QED
  BY <1>1, <1>2, <1>3 DEF CallbackReturns, HandlesInv, NoUseAfterFree

(* The context takes the registered frames with it: all but closed ones. *)
LEMMA ContextUnrefHandles ==
    ASSUME HandlesInv, ContextUnref
    PROVE  HandlesExact' /\ Unborn' /\ ConfigureAlive' /\ NoUseAfterFree'
<1>1. context /\ ~context'
  BY DEF ContextUnref
<1>2. registered = DOMAIN boxes \ closed
  BY <1>1 DEF HandlesInv, HandlesExact
<1>3. DOMAIN boxes' = DOMAIN boxes \ registered
  BY WithoutMap DEF ContextUnref, FreedWithContext
<1>4. HandlesExact'
  BY <1>1, <1>2, <1>3 DEF ContextUnref, HandlesExact
<1>5. Unborn'
  BY DEF ContextUnref, HandlesInv, Unborn, FrameIds
<1>6. ConfigureAlive'
  BY DEF ContextUnref, ConfigureAlive
<1>7. ReadsBox(FreedWithContext) = {}
  BY <1>2 DEF FreedWithContext, ReadsBox, Fault
<1> QED
  BY <1>4, <1>5, <1>6, <1>7 DEF ContextUnref, HandlesInv, NoUseAfterFree

LEMMA HandlesStep == HandlesInv /\ [Next]_vars => HandlesInv'
<1> SUFFICES ASSUME HandlesInv, [Next]_vars
             PROVE  HandlesExact' /\ Unborn' /\ ConfigureAlive' /\ NoUseAfterFree'
  BY TypeStep DEF HandlesInv
<1>1. CASE Decorate
  BY <1>1, DecorateHandles
<1>2. ASSUME NEW id \in FrameIds, Call(id)
      PROVE  HandlesExact' /\ Unborn' /\ ConfigureAlive' /\ NoUseAfterFree'
  <2>1. CASE FrameRef(id) \/ FrameUnref(id) \/ FrameClose(id)
    BY <2>1, FrameRefHandles, FrameUnrefHandles, FrameCloseHandles
  <2>2. CASE GetTitle(id) \/ \E text \in Titles : SetTitle(id, text)
    BY <2>2, TitleHandles
  <2>3. CASE \/ WithFrame(id)
             \/ \E parent \in FrameIds : FrameSetParent(id, parent)
             \/ \E configured \in BOOLEAN : FrameCommit(id, configured)
    BY <2>3, ForwardHandles
  <2> QED
    BY <1>2, <2>1, <2>2, <2>3 DEF Call
<1>3. ASSUME NEW id \in FrameIds, NEW kind \in {"Configure", "Close"}, Deliver(id, kind)
      PROVE  HandlesExact' /\ Unborn' /\ ConfigureAlive' /\ NoUseAfterFree'
  BY <1>3, DeliverHandles
<1>4. CASE CallbackReturns \/ ContextUnref
  BY <1>4, CallbackReturnsHandles, ContextUnrefHandles
<1>5. CASE UNCHANGED vars
  BY <1>5 DEF vars, library, application, live, HandlesInv, HandlesExact, Unborn,
              ConfigureAlive, NoUseAfterFree, FrameIds
<1> QED
  BY <1>1, <1>2, <1>3, <1>4, <1>5 DEF Next

(***************************************************************************)
(* Boxes, references and windows agree in every behaviour: a handle is     *)
(* allocated while it is referenced and gets callbacks while its window    *)
(* exists, whatever is closed, dropped from a callback or freed with the   *)
(* context, for any number of frames and references.                       *)
(***************************************************************************)
THEOREM HandlesCorrect == Spec => []HandlesExact
<1>1. Spec => []HandlesInv
  BY HandlesInit, HandlesStep, PTL DEF Spec
<1>2. HandlesInv => HandlesExact
  BY DEF HandlesInv
<1> QED
  BY <1>1, <1>2, PTL

(***************************************************************************)
(* An application that uses handles while it owns a reference and the      *)
(* context lives, and frees the context from a close callback only, never  *)
(* makes the library touch memory that was freed.                          *)
(***************************************************************************)
THEOREM MemorySafe == Spec => []NoUseAfterFree
<1>1. Spec => []HandlesInv
  BY HandlesInit, HandlesStep, PTL DEF Spec
<1>2. HandlesInv => NoUseAfterFree
  BY DEF HandlesInv
<1> QED
  BY <1>1, <1>2, PTL

-----------------------------------------------------------------------------
(***************************************************************************)
(* Titles.  That the last title stands is inductive once it is said where  *)
(* the cache of a frame points: at the title got last.                     *)
(***************************************************************************)
LastGot(id) == lent[id][Len(lent[id])]

LastCached ==
    \A id \in FrameIds : lent[id] # <<>> =>
        /\ id \in DOMAIN title_cache /\ title_cache[id] = LastGot(id).at
        /\ title_cache[id] \in DOMAIN strings /\ strings[title_cache[id]] = LastGot(id).text

Pointed == DOMAIN strings = {title_cache[id] : id \in DOMAIN title_cache}

TitlesInv == TypeInv /\ LastCached /\ Pointed /\ IsInjective(title_cache)

LEMMA TitlesStand == TitlesInv => LastTitleStands
<1> SUFFICES ASSUME TitlesInv PROVE LastTitleStands
  OBVIOUS
<1>1. ASSUME NEW id \in FrameIds, lent[id] # <<>>
      PROVE  LastGot(id).at \in DOMAIN strings /\ strings[LastGot(id).at] = LastGot(id).text
  BY <1>1 DEF TitlesInv, LastCached
<1> QED
  BY <1>1 DEF TitlesInv, Pointed, LastTitleStands, LastGot

LEMMA TitlesInit == Init => TitlesInv
<1> SUFFICES ASSUME Init PROVE TitlesInv
  OBVIOUS
<1>1. DOMAIN strings = {} /\ DOMAIN title_cache = {}
  BY EmptyMap DEF Init
<1>2. LastCached
  BY DEF Init, LastCached
<1> QED
  BY <1>1, <1>2, TypeInit DEF TitlesInv, Pointed, IsInjective

(* A step that gets no title and frees none: what is lent can only be given up. *)
LEMMA TitlesKept ==
    ASSUME TitlesInv, title_cache' = title_cache, strings' = strings,
           \A id \in FrameIds : lent'[id] = lent[id] \/ lent'[id] = <<>>
    PROVE  LastCached' /\ Pointed' /\ IsInjective(title_cache)'
<1>1. LastCached'
  <2> SUFFICES ASSUME NEW id \in FrameIds, lent'[id] # <<>>
               PROVE  /\ id \in DOMAIN title_cache' /\ title_cache'[id] = LastGot(id)'.at
                      /\ title_cache'[id] \in DOMAIN strings'
                      /\ strings'[title_cache'[id]] = LastGot(id)'.text
    BY DEF LastCached, FrameIds
  <2>1. lent'[id] = lent[id]
    OBVIOUS
  <2>2. LastGot(id)' = LastGot(id)
    BY <2>1 DEF LastGot
  <2> QED
    BY <2>1, <2>2 DEF TitlesInv, LastCached
<1> QED
  BY <1>1 DEF TitlesInv, Pointed

(***************************************************************************)
(* A title that is got goes to an address of its own and frees the string  *)
(* the frame's cache pointed at, which no other frame's does.              *)
(***************************************************************************)
LEMMA TitleGot ==
    ASSUME TitlesInv, NEW id \in FrameIds, NEW at, NEW text, at \notin DOMAIN strings,
           strings' = Put(Without(strings, Replaced(id)), at, text),
           title_cache' = Put(title_cache, id, at),
           lent' = [lent EXCEPT ![id] = Append(@, [at |-> at, text |-> text])]
    PROVE  LastCached' /\ Pointed' /\ IsInjective(title_cache)'
<1>1. LastCached /\ Pointed /\ IsInjective(title_cache) /\ StringTypes
  BY DEF TitlesInv, TypeInv
<1>2. /\ DOMAIN title_cache' = DOMAIN title_cache \cup {id}
      /\ title_cache'[id] = at
      /\ \A x \in DOMAIN title_cache : x # id => title_cache'[x] = title_cache[x]
  <2>1. /\ DOMAIN Put(title_cache, id, at) = DOMAIN title_cache \cup {id}
        /\ Put(title_cache, id, at)[id] = at
        /\ \A x \in DOMAIN title_cache : x # id => Put(title_cache, id, at)[x] = title_cache[x]
    BY DEF Put
  <2> QED
    BY <2>1
<1> DEFINE rest == Without(strings, Replaced(id))
<1>3. /\ DOMAIN rest = DOMAIN strings \ Replaced(id)
      /\ \A a \in DOMAIN strings \ Replaced(id) : rest[a] = strings[a]
  BY WithoutMap
<1>4. strings' = Put(rest, at, text)
  OBVIOUS
<1> HIDE DEF rest
<1>5. /\ DOMAIN strings' = DOMAIN rest \cup {at}
      /\ strings'[at] = text
      /\ \A a \in DOMAIN rest : a # at => strings'[a] = rest[a]
  <2>1. /\ DOMAIN Put(rest, at, text) = DOMAIN rest \cup {at}
        /\ Put(rest, at, text)[at] = text
        /\ \A a \in DOMAIN rest : a # at => Put(rest, at, text)[a] = rest[a]
    BY DEF Put
  <2> QED
    BY <1>4, <2>1
<1>6. DOMAIN strings' = (DOMAIN strings \ Replaced(id)) \cup {at}
  BY <1>3, <1>5
<1>7. \A a \in DOMAIN strings \ Replaced(id) : strings'[a] = strings[a]
  BY <1>3, <1>5
<1>8. Replaced(id) = IF id \in DOMAIN title_cache THEN {title_cache[id]} ELSE {}
  BY DEF Replaced, Cached
<1>9. ASSUME NEW x \in DOMAIN title_cache, x # id
      PROVE  title_cache[x] \in DOMAIN strings \ Replaced(id) /\ title_cache[x] # at
  <2>1. title_cache[x] \in DOMAIN strings
    BY <1>1 DEF Pointed
  <2>2. title_cache[x] \notin Replaced(id)
    BY <1>1, <1>8, <1>9 DEF IsInjective
  <2> QED
    BY <2>1, <2>2
<1>10. IsInjective(title_cache)'
  <2>1. ASSUME NEW x \in DOMAIN title_cache', NEW y \in DOMAIN title_cache',
               title_cache'[x] = title_cache'[y]
        PROVE  x = y
    <3>1. CASE x # id /\ y # id
      BY <1>1, <1>2, <2>1, <3>1 DEF IsInjective
    <3>2. CASE x = id
      BY <1>2, <1>9, <2>1, <3>2
    <3>3. CASE y = id
      BY <1>2, <1>9, <2>1, <3>3
    <3> QED
      BY <3>1, <3>2, <3>3
  <2> QED
    BY <2>1 DEF IsInjective
<1>11. Pointed'
  <2> SUFFICES ASSUME NEW a
               PROVE  a \in DOMAIN strings' <=> \E x \in DOMAIN title_cache' : a = title_cache'[x]
    BY DEF Pointed
  <2>1. ASSUME a \in DOMAIN strings' PROVE \E x \in DOMAIN title_cache' : a = title_cache'[x]
    <3>1. CASE a = at
      BY <1>2, <3>1
    <3>2. CASE a # at
      <4>1. a \in DOMAIN strings /\ a \notin Replaced(id)
        BY <1>6, <2>1, <3>2
      <4>2. PICK x \in DOMAIN title_cache : a = title_cache[x]
        BY <1>1, <4>1 DEF Pointed
      <4>3. x # id
        BY <1>8, <4>1, <4>2
      <4> QED
        BY <1>2, <4>2, <4>3
    <3> QED
      BY <3>1, <3>2
  <2>2. ASSUME NEW x \in DOMAIN title_cache', a = title_cache'[x] PROVE a \in DOMAIN strings'
    <3>1. CASE x = id
      BY <1>2, <1>6, <2>2, <3>1
    <3>2. CASE x # id
      BY <1>2, <1>6, <1>9, <2>2, <3>2
    <3> QED
      BY <3>1, <3>2
  <2> QED
    BY <2>1, <2>2
<1>12. LastCached'
  <2> SUFFICES ASSUME NEW x \in FrameIds, lent'[x] # <<>>
               PROVE  /\ x \in DOMAIN title_cache' /\ title_cache'[x] = LastGot(x)'.at
                      /\ title_cache'[x] \in DOMAIN strings'
                      /\ strings'[title_cache'[x]] = LastGot(x)'.text
    BY DEF LastCached, FrameIds
  <2> DEFINE got == [at |-> at, text |-> text]
  <2>1. lent[x] \in Seq([at : Addresses, text : Titles]) /\ x \in DOMAIN lent /\ id \in DOMAIN lent
    BY <1>1 DEF StringTypes
  <2>2. CASE x = id
    <3>1. lent'[x] = Append(lent[x], got)
      BY <2>1, <2>2
    <3> HIDE DEF got
    <3>2. Len(lent'[x]) = Len(lent[x]) + 1 /\ lent'[x][Len(lent[x]) + 1] = got
      BY <2>1, <3>1
    <3>3. LastGot(x)' = got
      BY <3>2 DEF LastGot
    <3> QED
      BY <1>2, <1>5, <2>2, <3>3 DEF got
  <2>3. CASE x # id
    <3>1. lent'[x] = lent[x]
      BY <2>1, <2>3
    <3>2. LastGot(x)' = LastGot(x)
      BY <3>1 DEF LastGot
    <3>3. /\ x \in DOMAIN title_cache /\ title_cache[x] = LastGot(x).at
          /\ strings[title_cache[x]] = LastGot(x).text
      BY <1>1, <3>1 DEF LastCached
    <3> QED
      BY <1>2, <1>6, <1>7, <1>9, <2>3, <3>2, <3>3
  <2> QED
    BY <2>2, <2>3
<1> QED
  BY <1>10, <1>11, <1>12

LEMMA GetTitleTitles ==
    ASSUME TitlesInv, NEW id \in FrameIds, GetTitle(id)
    PROVE  LastCached' /\ Pointed' /\ IsInjective(title_cache)'
<1>1. CASE strings' = strings /\ title_cache' = title_cache /\ lent' = lent
  BY <1>1, TitlesKept
<1>2. ASSUME NEW at \in Addresses \ DOMAIN strings,
             strings' = Put(Without(strings, Replaced(id)), at, titles[id][1]),
             title_cache' = Put(title_cache, id, at),
             lent' = [lent EXCEPT ![id] = Append(@, [at |-> at, text |-> titles[id][1]])]
      PROVE  LastCached' /\ Pointed' /\ IsInjective(title_cache)'
  BY <1>2, TitleGot
<1> QED
  BY <1>1, <1>2 DEF GetTitle

LEMMA SetTitleTitles ==
    ASSUME TitlesInv, NEW id \in FrameIds, NEW text, SetTitle(id, text)
    PROVE  LastCached' /\ Pointed' /\ IsInjective(title_cache)'
<1>1. title_cache' = title_cache /\ strings' = strings
  BY Zenon DEF SetTitle
<1>2. lent' = lent \/ lent' = [lent EXCEPT ![id] = <<>>]
  BY Zenon DEF SetTitle
<1>3. \A x \in FrameIds : lent'[x] = lent[x] \/ lent'[x] = <<>>
  <2>1. DOMAIN lent = FrameIds
    BY DEF TitlesInv, TypeInv, StringTypes
  <2> QED
    BY <1>2, <2>1
<1> QED
  BY <1>1, <1>3, TitlesKept

LEMMA ContextUnrefTitles ==
    ASSUME TitlesInv, ContextUnref
    PROVE  LastCached' /\ Pointed' /\ IsInjective(title_cache)'
<1>1. title_cache' = <<>> /\ strings' = <<>> /\ \A id \in FrameIds : lent'[id] = <<>>
  BY DEF ContextUnref
<1>2. DOMAIN title_cache' = {} /\ DOMAIN strings' = {}
  BY <1>1, EmptyMap
<1> QED
  BY <1>1, <1>2 DEF LastCached, Pointed, IsInjective, FrameIds

LEMMA TitlesStep == TitlesInv /\ [Next]_vars => TitlesInv'
<1> SUFFICES ASSUME TitlesInv, [Next]_vars
             PROVE  LastCached' /\ Pointed' /\ IsInjective(title_cache)'
  BY TypeStep DEF TitlesInv
<1>1. ASSUME UNCHANGED <<title_cache, strings, lent>>
      PROVE  LastCached' /\ Pointed' /\ IsInjective(title_cache)'
  BY <1>1, TitlesKept
<1>2. ASSUME NEW id \in FrameIds, Call(id)
      PROVE  LastCached' /\ Pointed' /\ IsInjective(title_cache)'
  <2>1. CASE GetTitle(id)
    BY <2>1, GetTitleTitles
  <2>2. ASSUME NEW text \in Titles, SetTitle(id, text)
        PROVE  LastCached' /\ Pointed' /\ IsInjective(title_cache)'
    BY <2>2, SetTitleTitles
  <2>3. ASSUME FrameRef(id) \/ FrameUnref(id) \/ FrameClose(id)
        PROVE  UNCHANGED <<title_cache, strings, lent>>
    BY <2>3, Zenon DEF FrameRef, FrameUnref, FrameClose
  <2>4. ASSUME \/ WithFrame(id)
               \/ \E parent \in FrameIds : FrameSetParent(id, parent)
               \/ \E configured \in BOOLEAN : FrameCommit(id, configured)
        PROVE  UNCHANGED <<title_cache, strings, lent>>
    BY <2>4, Zenon DEF WithFrame, FrameSetParent, FrameCommit, library, application
  <2> QED
    BY <1>1, <1>2, <2>1, <2>2, <2>3, <2>4 DEF Call
<1>3. ASSUME \/ Decorate \/ CallbackReturns
             \/ \E id \in FrameIds, kind \in {"Configure", "Close"} : Deliver(id, kind)
      PROVE  UNCHANGED <<title_cache, strings, lent>>
  BY <1>3, Zenon DEF Decorate, CallbackReturns, Deliver
<1>4. CASE ContextUnref
  BY <1>4, ContextUnrefTitles
<1>5. ASSUME UNCHANGED vars PROVE UNCHANGED <<title_cache, strings, lent>>
  BY <1>5 DEF vars, library, application
<1> QED
  BY <1>1, <1>2, <1>3, <1>4, <1>5 DEF Next

(***************************************************************************)
(* The pointer libdecor_frame_get_title answered last is good until the    *)
(* title changes or the context goes, whatever is got, closed or dropped   *)
(* in between, for any number of frames; and nothing is leaked behind it.  *)
(***************************************************************************)
THEOREM TitleStands == Spec => []LastTitleStands
<1>1. Spec => []TitlesInv
  BY TitlesInit, TitlesStep, PTL DEF Spec
<1> QED
  BY <1>1, TitlesStand, PTL
=============================================================================
