---------------------------- MODULE SessionProofs ---------------------------
(***************************************************************************)
(* Theorems about Session, for every value of its constants: what libdecor *)
(* asks of the compositor never breaks the protocol, exactly the objects   *)
(* of the live frames exist, and configures are answered as xdg-shell      *)
(* wants, however many frames and configures there are.                    *)
(***************************************************************************)
EXTENDS Session, LibdecorProofs, SequenceTheorems

-----------------------------------------------------------------------------
(***************************************************************************)
(* The invariant.  That an acknowledgement is legal follows from where the *)
(* serials are: between the compositor's last and the last acknowledged of *)
(* a frame there are, in this order, those on the wire, those queued as    *)
(* events, and the one of the configuration the application holds.         *)
(***************************************************************************)
Messages ==
    [type : {"configure"}, frame : Nat, value : Nat]
        \cup [type : {"toplevel"}, frame : Nat, value : ToplevelStates]
        \cup [type : {"mode"}, frame : Nat, value : Modes]
        \cup [type : {"bounds"}, frame : Nat, value : BoundSizes]
        \cup [type : {"wm"}, frame : Nat, value : WmCapSets]
        \cup [type : {"close"}, frame : Nat, value : {{}}]

WireConfigures == {i \in DOMAIN wire : wire[i].type = "configure"}
EventConfigures == {i \in DOMAIN events : events[i].type = "Configure"}
SerialAt(i) == events[i].configuration.serial

SentTypes ==
    /\ next_id <= MaxFrames
    /\ sent \in Seq([frame : Nat, mode : Option(Modes), toplevel : Option(ToplevelStates)])
    /\ Len(sent) <= MaxConfigures
    /\ wire \in Seq(Messages)
    /\ \A i \in DOMAIN wire : wire[i].frame \in Allocated
    /\ acked \in [FrameIds -> Nat]

(* A serial was issued to the frame it is used for. *)
Issued(serial, id) == serial \in DOMAIN sent /\ sent[serial].frame = id

WireInOrder ==
    /\ \A i \in WireConfigures : Issued(wire[i].value, wire[i].frame)
    /\ \A i, j \in WireConfigures : i < j => wire[i].value < wire[j].value

EventsInOrder ==
    /\ \A i \in EventConfigures : Issued(SerialAt(i), events[i].frame)
    /\ \A i, j \in EventConfigures : i < j => SerialAt(i) < SerialAt(j)
    /\ \A i \in EventConfigures, j \in WireConfigures : SerialAt(i) < wire[j].value

(* A serial that comes before all that are still on their way. *)
Behind(serial) ==
    /\ \A i \in EventConfigures : serial < SerialAt(i)
    /\ \A i \in WireConfigures : serial < wire[i].value

HeldInOrder ==
    \A id \in DOMAIN held :
        Issued(held[id].serial, id) /\ Behind(held[id].serial) /\ acked[id] < held[id].serial

AckedInOrder == \A id \in FrameIds : acked[id] <= Len(sent) /\ Behind(acked[id])

InOrder == SentTypes /\ WireInOrder /\ EventsInOrder /\ HeldInOrder /\ AckedInOrder

SessionInv == RegistryInv /\ InOrder /\ ObjectsExact /\ NoProtocolError

-----------------------------------------------------------------------------
(***************************************************************************)
(* What a step's requests do to the compositor's view.                     *)
(***************************************************************************)
Plain(r) == r.req \notin {"new", "destroy", "ack_configure"}

LEMMA AckedKept ==
    ASSUME NEW id, NEW n \in Nat, \A i \in 1 .. n : requests'[i].req # "ack_configure"
    PROVE  Acked(id, n) = acked[id]
<1>1. {i \in 1 .. n : Answers(i, id)} = {}
  BY DEF Answers
<1> QED
  BY <1>1 DEF Acked

(* Requests that neither make nor free objects, nor acknowledge anything. *)
LEMMA ReceivePlain ==
    ASSUME SentTypes, Receive, Len(requests') \in Nat,
           \A i \in 1 .. Len(requests') : Plain(requests'[i])
    PROVE  UNCHANGED <<objects, acked, protocol_ok>>
<1> DEFINE n == Len(requests')
<1>1. \A i \in 1 .. n : requests'[i].req \notin {"new", "destroy", "ack_configure"}
  BY DEF Plain
<1>2. objects' = objects
  <2>1. \A object : Exists(object, n) <=> object \in objects
    BY <1>1 DEF Exists, Makes, Frees
  <2>2. {requests'[i].object : i \in {i \in 1 .. n : requests'[i].req = "new"}} = {}
    BY <1>1
  <2> QED
    BY <2>1, <2>2 DEF Receive
<1>3. acked' = acked
  <2>1. \A id : Acked(id, n) = acked[id]
    BY <1>1, AckedKept
  <2> QED
    BY <2>1 DEF Receive, SentTypes
<1>4. protocol_ok' = protocol_ok
  <2>1. ASSUME NEW i \in 1 .. n PROVE Legal(requests'[i], i - 1)
    BY <1>1 DEF Legal
  <2>2. protocol_ok' <=> protocol_ok
    BY <2>1 DEF Receive
  <2> QED
    BY <2>2
<1> QED
  BY <1>2, <1>3, <1>4

(* Requests that make objects that do not exist, none twice. *)
LEMMA ReceiveNew ==
    ASSUME SentTypes, Receive, Len(requests') \in Nat,
           \A i \in 1 .. Len(requests') :
               requests'[i].req # "new" => Plain(requests'[i]),
           \A i \in 1 .. Len(requests') :
               requests'[i].req = "new" => requests'[i].object \notin objects,
           \A i, j \in 1 .. Len(requests') :
               requests'[i].req = "new" /\ Makes(j, requests'[i].object) => i = j,
           NEW made, \A object : object \in made <=> \E i \in 1 .. Len(requests') : Makes(i, object)
    PROVE  objects' = objects \cup made /\ acked' = acked /\ (protocol_ok => protocol_ok')
<1> DEFINE n == Len(requests')
<1>1. \A i \in 1 .. n : requests'[i].req \notin {"destroy", "ack_configure"}
  BY DEF Plain
<1>2. objects' = objects \cup made
  <2>1. \A object : Exists(object, n) <=> object \in objects \cup made
    BY <1>1 DEF Exists, Frees
  <2>2. \A object : object \in {requests'[i].object : i \in {i \in 1 .. n : requests'[i].req = "new"}}
                        <=> object \in made
    BY DEF Makes
  <2> QED
    BY <2>1, <2>2 DEF Receive
<1>3. acked' = acked
  <2>1. \A id : Acked(id, n) = acked[id]
    BY <1>1, AckedKept
  <2> QED
    BY <2>1 DEF Receive, SentTypes
<1>4. protocol_ok => protocol_ok'
  <2>1. ASSUME NEW i \in 1 .. n PROVE Legal(requests'[i], i - 1)
    <3>1. CASE requests'[i].req = "new"
      <4>1. \A j \in 1 .. i - 1 : ~Makes(j, requests'[i].object)
        BY <3>1
      <4>2. ~Exists(requests'[i].object, i - 1)
        BY <3>1, <4>1 DEF Exists
      <4> QED
        BY <3>1, <4>2 DEF Legal
    <3>2. CASE requests'[i].req # "new"
      BY <1>1, <3>2 DEF Legal
    <3> QED
      BY <3>1, <3>2
  <2> QED
    BY <2>1 DEF Receive
<1> QED
  BY <1>2, <1>3, <1>4

(* Requests that free objects that exist, none twice, dependents first. *)
LEMMA ReceiveDestroy ==
    ASSUME SentTypes, Receive, Len(requests') \in Nat,
           \A i \in 1 .. Len(requests') :
               requests'[i].req = "destroy" /\ requests'[i].object \in objects,
           \A i, j \in 1 .. Len(requests') : requests'[i].object = requests'[j].object => i = j,
           \A i \in 1 .. Len(requests') : \A dependent \in Dependents(requests'[i].object) \cap objects :
               \E j \in 1 .. i - 1 : requests'[j].object = dependent,
           NEW freed, \A object : object \in freed <=>
                          \E i \in 1 .. Len(requests') : requests'[i].object = object
    PROVE  objects' = objects \ freed /\ acked' = acked /\ (protocol_ok => protocol_ok')
<1> DEFINE n == Len(requests')
<1>1. \A i \in 1 .. n : requests'[i].req = "destroy"
  OBVIOUS
<1>2. \A object : \A m \in 0 .. n :
          Exists(object, m) <=> object \in objects /\ \A i \in 1 .. m : requests'[i].object # object
  BY <1>1 DEF Exists, Makes, Frees
<1>3. objects' = objects \ freed
  <2>1. \A object : Exists(object, n) <=> object \in objects \ freed
    BY <1>2
  <2>2. {requests'[i].object : i \in {i \in 1 .. n : requests'[i].req = "new"}} = {}
    BY <1>1
  <2> QED
    BY <2>1, <2>2 DEF Receive
<1>4. acked' = acked
  <2>1. \A id : Acked(id, n) = acked[id]
    BY <1>1, AckedKept
  <2> QED
    BY <2>1 DEF Receive, SentTypes
<1>5. protocol_ok => protocol_ok'
  <2>1. ASSUME NEW i \in 1 .. n PROVE Legal(requests'[i], i - 1)
    <3>1. i - 1 \in 0 .. n /\ requests'[i].object \in objects
      OBVIOUS
    <3>2. \A j \in 1 .. i - 1 : requests'[j].object # requests'[i].object
      OBVIOUS
    <3>3. Exists(requests'[i].object, i - 1)
      BY <1>2, <3>1, <3>2
    <3>4. ASSUME NEW dependent \in Dependents(requests'[i].object)
          PROVE  ~Exists(dependent, i - 1)
      BY <1>2, <3>1
    <3> QED
      BY <1>1, <3>3, <3>4 DEF Legal
  <2> QED
    BY <2>1 DEF Receive
<1> QED
  BY <1>3, <1>4, <1>5

(* A single acknowledgement, before requests that are plain. *)
LEMMA ReceiveAck ==
    ASSUME SentTypes, Receive, Len(requests') \in Nat \ {0}, NEW id \in FrameIds, NEW serial,
           requests'[1] = [req |-> "ack_configure", frame |-> id, serial |-> serial],
           \A i \in 2 .. Len(requests') : Plain(requests'[i]),
           Issued(serial, id), serial > acked[id]
    PROVE  /\ objects' = objects
           /\ acked' = [acked EXCEPT ![id] = serial]
           /\ protocol_ok => protocol_ok'
<1> DEFINE n == Len(requests')
<1>1. /\ requests'[1].req = "ack_configure" /\ requests'[1].frame = id
      /\ requests'[1].serial = serial
  OBVIOUS
<1>2. \A i \in 1 .. n : requests'[i].req \notin {"new", "destroy"}
  BY <1>1 DEF Plain
<1>3. objects' = objects
  <2>1. \A object : Exists(object, n) <=> object \in objects
    BY <1>2 DEF Exists, Makes, Frees
  <2>2. {requests'[i].object : i \in {i \in 1 .. n : requests'[i].req = "new"}} = {}
    BY <1>2
  <2> QED
    BY <2>1, <2>2 DEF Receive
<1>4. \A f \in FrameIds : Acked(f, n) = IF f = id THEN serial ELSE acked[f]
  <2>1. ASSUME NEW f \in FrameIds, f # id PROVE Acked(f, n) = acked[f]
    <3>1. {i \in 1 .. n : Answers(i, f)} = {}
      BY <1>1, <2>1 DEF Answers, Plain
    <3> QED
      BY <3>1 DEF Acked
  <2>2. Acked(id, n) = serial
    <3>1. {i \in 1 .. n : Answers(i, id)} = {1}
      BY <1>1 DEF Answers, Plain
    <3>2. Max({1}) = 1
      BY DEF Max
    <3>3. Acked(id, n) = requests'[Max({1})].serial
      BY <3>1 DEF Acked
    <3> QED
      BY <1>1, <3>2, <3>3
  <2> QED
    BY <2>1, <2>2
<1>5. acked' = [acked EXCEPT ![id] = serial]
  BY <1>4 DEF Receive, SentTypes
<1>6. protocol_ok => protocol_ok'
  <2>1. ASSUME NEW i \in 1 .. n PROVE Legal(requests'[i], i - 1)
    <3>1. CASE i = 1
      <4>1. Acked(id, 0) = acked[id]
        BY AckedKept
      <4> QED
        BY <1>1, <3>1, <4>1 DEF Legal, Issued
    <3>2. CASE i # 1
      BY <3>2 DEF Legal, Plain
    <3> QED
      BY <3>1, <3>2
  <2> QED
    BY <2>1 DEF Receive
<1> QED
  BY <1>3, <1>5, <1>6

-----------------------------------------------------------------------------
(***************************************************************************)
(* Serials.                                                                *)
(***************************************************************************)
(* Sequences, by their indices. *)
LEMMA TailAt ==
    ASSUME NEW S, NEW queue \in Seq(S), queue # <<>>
    PROVE  /\ Tail(queue) \in Seq(S) /\ Head(queue) \in S /\ Head(queue) = queue[1]
           /\ 1 \in DOMAIN queue
           /\ \A i \in DOMAIN Tail(queue) :
                  i \in Nat /\ i + 1 \in DOMAIN queue /\ i + 1 > 1 /\ Tail(queue)[i] = queue[i + 1]
<1>1. Len(queue) \in Nat \ {0} /\ DOMAIN queue = 1 .. Len(queue)
  BY EmptySeq, LenProperties
<1>2. /\ Tail(queue) \in Seq(S) /\ Len(Tail(queue)) = Len(queue) - 1
      /\ \A i \in 1 .. Len(Tail(queue)) : Tail(queue)[i] = queue[i + 1]
  BY HeadTailProperties
<1>3. DOMAIN Tail(queue) = 1 .. Len(queue) - 1
  BY <1>2, LenProperties
<1> QED
  BY <1>1, <1>2, <1>3

LEMMA AppendAt ==
    ASSUME NEW S, NEW queue \in Seq(S), NEW e \in S
    PROVE  /\ Append(queue, e) \in Seq(S)
           /\ Len(queue) \in Nat /\ Len(Append(queue, e)) = Len(queue) + 1
           /\ DOMAIN queue = 1 .. Len(queue) /\ DOMAIN Append(queue, e) = 1 .. Len(queue) + 1
           /\ \A i \in 1 .. Len(queue) : Append(queue, e)[i] = queue[i]
           /\ Append(queue, e)[Len(queue) + 1] = e
OBVIOUS

LEMMA RangeGrows ==
    ASSUME NEW m \in Int, NEW n \in Int, m <= n
    PROVE  0 .. m - 1 \subseteq 0 .. n - 1
OBVIOUS

(* Steps that leave the serials where they are. *)
LEMMA OrderStable ==
    ASSUME InOrder, next_id \in Nat, next_id' \in Nat, next_id <= next_id', next_id' <= MaxFrames,
           UNCHANGED <<sent, wire, acked, events>>,
           DOMAIN held' \subseteq DOMAIN held, \A id \in DOMAIN held' : held'[id] = held[id]
    PROVE  InOrder'
<1>1. Allocated \subseteq Allocated'
  <2> DEFINE m == next_id
             n == next_id'
  <2>1. m \in Int /\ n \in Int /\ m <= n
    OBVIOUS
  <2> HIDE DEF m, n
  <2>2. 0 .. m - 1 \subseteq 0 .. n - 1
    BY <2>1, RangeGrows
  <2> QED
    BY <2>2 DEF Allocated, m, n
<1>2. SentTypes'
  BY <1>1 DEF InOrder, SentTypes, FrameIds
<1>3. WireConfigures' = WireConfigures /\ EventConfigures' = EventConfigures
  BY DEF WireConfigures, EventConfigures
<1>4. WireInOrder' /\ EventsInOrder'
  BY <1>3 DEF InOrder, WireInOrder, EventsInOrder, Issued, SerialAt
<1>5. HeldInOrder' /\ AckedInOrder'
  BY <1>3 DEF InOrder, HeldInOrder, AckedInOrder, Issued, Behind, SerialAt, FrameIds
<1> QED
  BY <1>2, <1>4, <1>5 DEF InOrder

(* The wire without its first message. *)
LEMMA WireTail ==
    ASSUME InOrder, wire # <<>>, wire' = Tail(wire), UNCHANGED <<sent, next_id, acked>>
    PROVE  /\ SentTypes' /\ WireInOrder'
           /\ 1 \in DOMAIN wire /\ Head(wire) = wire[1]
           /\ \A i \in WireConfigures' :
                  i \in Nat /\ i + 1 \in WireConfigures /\ 1 < i + 1 /\ wire'[i] = wire[i + 1]
<1>1. /\ wire' \in Seq(Messages) /\ 1 \in DOMAIN wire /\ Head(wire) = wire[1]
      /\ \A i \in DOMAIN wire' :
             i \in Nat /\ i + 1 \in DOMAIN wire /\ i + 1 > 1 /\ wire'[i] = wire[i + 1]
  BY TailAt DEF InOrder, SentTypes
<1>2. SentTypes'
  BY <1>1 DEF InOrder, SentTypes, FrameIds, Allocated
<1>3. \A i \in WireConfigures' :
          i \in Nat /\ i + 1 \in WireConfigures /\ 1 < i + 1 /\ wire'[i] = wire[i + 1]
  BY <1>1 DEF WireConfigures
<1>4. ASSUME NEW i \in WireConfigures'
      PROVE  Issued(wire'[i].value, wire'[i].frame)
  BY <1>3 DEF InOrder, WireInOrder
<1>5. ASSUME NEW i \in WireConfigures', NEW j \in WireConfigures', i < j
      PROVE  wire'[i].value < wire'[j].value
  <2>1. i + 1 < j + 1
    BY <1>3, <1>5
  <2> QED
    BY <1>3, <2>1 DEF InOrder, WireInOrder
<1>6. WireInOrder'
  BY <1>4, <1>5 DEF WireInOrder, Issued
<1> QED
  BY <1>1, <1>2, <1>3, <1>6

(* A serial that was issued is a positive number the compositor has sent. *)
LEMMA IssuedIs ==
    ASSUME SentTypes, NEW serial, NEW id, Issued(serial, id)
    PROVE  serial \in Nat /\ serial >= 1 /\ serial <= Len(sent) /\ serial \in Serials
<1>1. Len(sent) \in Nat /\ DOMAIN sent = 1 .. Len(sent)
  BY DEF SentTypes
<1>2. serial \in 1 .. Len(sent)
  BY <1>1 DEF Issued
<1>3. MaxConfigures \in Nat /\ Len(sent) <= MaxConfigures
  BY SessionAssumption DEF SentTypes, SessionAssumption
<1> QED
  BY <1>1, <1>2, <1>3, SessionAssumption DEF SessionAssumption

(***************************************************************************)
(* A message is taken off the wire.  A configure goes to the back of the   *)
(* event queue, if its frame lives; nothing else moves a serial.           *)
(***************************************************************************)
LEMMA TakenInOrder ==
    ASSUME InOrder, wire # <<>>, wire' = Tail(wire),
           UNCHANGED <<sent, next_id, acked, held>>,
           events' = events
    PROVE  InOrder'
<1>1. EventConfigures' = EventConfigures
  BY DEF EventConfigures
<1>2. EventsInOrder'
  BY <1>1, WireTail DEF InOrder, EventsInOrder, Issued, SerialAt
<1>3. HeldInOrder' /\ AckedInOrder'
  BY <1>1, WireTail DEF InOrder, HeldInOrder, AckedInOrder, Issued, Behind, SerialAt, FrameIds
<1> QED
  BY <1>2, <1>3, WireTail DEF InOrder

(* An event that is no configure joins the queue. *)
LEMMA OtherEventInOrder ==
    ASSUME InOrder, wire # <<>>, wire' = Tail(wire),
           UNCHANGED <<sent, next_id, acked, held>>,
           NEW event, events \in Seq(EventType), event \in EventType, event.type # "Configure",
           events' = Append(events, event)
    PROVE  InOrder'
<1>1. /\ Len(events) \in Nat
      /\ DOMAIN events = 1 .. Len(events) /\ DOMAIN events' = 1 .. Len(events) + 1
      /\ \A i \in 1 .. Len(events) : events'[i] = events[i]
      /\ events'[Len(events) + 1] = event
  BY AppendAt
<1>2. EventConfigures' = EventConfigures
  BY <1>1 DEF EventConfigures
<1>3. \A i \in EventConfigures : events'[i] = events[i]
  BY <1>1 DEF EventConfigures
<1>4. EventsInOrder'
  BY <1>2, <1>3, WireTail DEF InOrder, EventsInOrder, Issued, SerialAt
<1>5. HeldInOrder' /\ AckedInOrder'
  BY <1>2, <1>3, WireTail DEF InOrder, HeldInOrder, AckedInOrder, Issued, Behind, SerialAt, FrameIds
<1> QED
  BY <1>4, <1>5, WireTail DEF InOrder

LEMMA ConfigureInOrder ==
    ASSUME InOrder, wire # <<>>, wire' = Tail(wire), Head(wire).type = "configure",
           UNCHANGED <<sent, next_id, acked, held>>,
           NEW event, events \in Seq(EventType), event \in EventType, event.type = "Configure",
           event.frame = Head(wire).frame, event.configuration.serial = Head(wire).value,
           events' = Append(events, event)
    PROVE  InOrder'
<1> DEFINE last == Len(events) + 1
<1>1. /\ Len(events) \in Nat
      /\ DOMAIN events = 1 .. Len(events) /\ DOMAIN events' = 1 .. last
      /\ \A i \in 1 .. Len(events) : events'[i] = events[i]
      /\ events'[last] = event
  BY AppendAt
<1>2. /\ EventConfigures' = EventConfigures \cup {last}
      /\ \A i \in EventConfigures : i < last /\ i \in Nat /\ events'[i] = events[i]
  BY <1>1 DEF EventConfigures
<1>3. /\ 1 \in DOMAIN wire /\ Head(wire) = wire[1] /\ SentTypes' /\ WireInOrder'
  BY WireTail
<1>5. 1 \in WireConfigures
  BY <1>3 DEF WireConfigures
<1>6. \A i \in WireConfigures' :
          i \in Nat /\ i + 1 \in WireConfigures /\ 1 < i + 1 /\ wire'[i] = wire[i + 1]
  BY WireTail
<1>8. /\ Issued(wire[1].value, wire[1].frame)
      /\ \A i \in WireConfigures' : wire[1].value < wire'[i].value
      /\ \A i \in EventConfigures : SerialAt(i) < wire[1].value
      /\ \A id \in DOMAIN held : held[id].serial < wire[1].value
      /\ \A id \in FrameIds : acked[id] < wire[1].value
  BY <1>5, <1>6 DEF InOrder, WireInOrder, EventsInOrder, HeldInOrder, AckedInOrder, Behind
<1> DEFINE after(i) == events'[i].configuration.serial
<1>9. /\ after(last) = wire[1].value /\ events'[last].frame = wire[1].frame
      /\ \A i \in EventConfigures : after(i) = SerialAt(i) /\ events'[i].frame = events[i].frame
  BY <1>1, <1>2, <1>3 DEF SerialAt
<1> HIDE DEF last, after
<1>10. EventsInOrder'
  <2>1. \A i \in EventConfigures' : Issued(after(i), events'[i].frame)
    BY <1>2, <1>8, <1>9 DEF InOrder, EventsInOrder
  <2>2. \A i, j \in EventConfigures' : i < j => after(i) < after(j)
    BY <1>1, <1>2, <1>8, <1>9 DEF InOrder, EventsInOrder, last
  <2>3. \A i \in EventConfigures', j \in WireConfigures' : after(i) < wire'[j].value
    BY <1>2, <1>6, <1>8, <1>9 DEF InOrder, EventsInOrder
  <2> QED
    BY <2>1, <2>2, <2>3 DEF EventsInOrder, Issued, SerialAt, after
<1>11. ASSUME NEW serial, Behind(serial), serial < wire[1].value
       PROVE  /\ \A i \in EventConfigures' : serial < after(i)
              /\ \A i \in WireConfigures' : serial < wire'[i].value
  BY <1>2, <1>6, <1>9, <1>11 DEF Behind
<1>12. HeldInOrder'
  <2>1. \A id \in DOMAIN held : Behind(held[id].serial) /\ held[id].serial < wire[1].value
    BY <1>8 DEF InOrder, HeldInOrder
  <2> QED
    BY <1>11, <2>1 DEF InOrder, HeldInOrder, Issued, Behind, SerialAt, after
<1>13. AckedInOrder'
  <2>1. \A id \in FrameIds : Behind(acked[id]) /\ acked[id] < wire[1].value
    BY <1>8 DEF InOrder, AckedInOrder
  <2> QED
    BY <1>11, <2>1 DEF InOrder, AckedInOrder, Behind, SerialAt, after, FrameIds
<1> QED
  BY <1>3, <1>10, <1>12, <1>13 DEF InOrder

(***************************************************************************)
(* The compositor sends.  A batch is a few messages that carry no serial,  *)
(* and a configure with a serial above all others.                         *)
(***************************************************************************)
Lengthens(longer, queue, id) ==
    /\ longer \in Seq(Messages) /\ Len(queue) <= Len(longer)
    /\ \A i \in 1 .. Len(queue) : longer[i] = queue[i]
    /\ \A i \in Len(queue) + 1 .. Len(longer) : longer[i].type # "configure" /\ longer[i].frame = id

LEMMA AppendLengthens ==
    ASSUME NEW queue \in Seq(Messages), NEW longer, NEW id, Lengthens(longer, queue, id),
           NEW m \in Messages, m.type # "configure", m.frame = id
    PROVE  Lengthens(Append(longer, m), queue, id)
<1>1. Len(queue) \in Nat /\ longer \in Seq(Messages)
  BY DEF Lengthens
<1>2. /\ Append(longer, m) \in Seq(Messages)
      /\ Len(longer) \in Nat /\ Len(Append(longer, m)) = Len(longer) + 1
      /\ \A i \in 1 .. Len(longer) : Append(longer, m)[i] = longer[i]
      /\ Append(longer, m)[Len(longer) + 1] = m
  BY <1>1, AppendAt
<1>3. PICK n : n = Len(longer) /\ n \in Nat
  BY <1>2
<1>4. PICK added : added = Append(longer, m)
  OBVIOUS
<1>5. /\ Len(queue) <= n
      /\ \A i \in 1 .. Len(queue) : longer[i] = queue[i]
      /\ \A i \in Len(queue) + 1 .. n : longer[i].type # "configure" /\ longer[i].frame = id
  BY <1>3 DEF Lengthens
<1>6. /\ added \in Seq(Messages) /\ Len(added) = n + 1 /\ added[n + 1] = m
      /\ \A i \in 1 .. n : added[i] = longer[i]
  BY <1>2, <1>3, <1>4
<1>7. Len(queue) <= Len(added)
  BY <1>1, <1>3, <1>5, <1>6
<1>8. ASSUME NEW i \in 1 .. Len(queue) PROVE added[i] = queue[i]
  <2>1. i \in 1 .. n
    BY <1>1, <1>3, <1>5
  <2> QED
    BY <1>5, <1>6, <2>1
<1>9. ASSUME NEW i \in Len(queue) + 1 .. Len(added)
      PROVE  added[i].type # "configure" /\ added[i].frame = id
  <2>1. i = n + 1 \/ (i \in 1 .. n /\ i \in Len(queue) + 1 .. n)
    BY <1>1, <1>3, <1>6
  <2> QED
    BY <1>5, <1>6, <2>1
<1>10. Lengthens(added, queue, id)
  BY <1>6, <1>7, <1>8, <1>9 DEF Lengthens
<1> QED
  BY <1>4, <1>10

LEMMA PartLengthens ==
    ASSUME NEW queue \in Seq(Messages), NEW longer, NEW id, Lengthens(longer, queue, id),
           NEW type \in {"bounds", "mode", "toplevel"}, NEW option,
           option # None => Message(type, id, option[1]) \in Messages
    PROVE  Lengthens(longer \o Part(type, id, option), queue, id)
<1>1. CASE option = None
  <2>1. longer \o <<>> = longer
    BY ConcatEmptySeq DEF Lengthens
  <2> QED
    BY <1>1, <2>1 DEF Part
<1>2. CASE option # None
  <2> DEFINE m == Message(type, id, option[1])
  <2>1. m \in Messages /\ m.type # "configure" /\ m.frame = id
    BY <1>2 DEF Message
  <2> HIDE DEF m
  <2>2. Append(longer, m) = longer \o <<m>>
    BY <2>1, AppendIsConcat DEF Lengthens
  <2>3. Lengthens(Append(longer, m), queue, id)
    BY <2>1, AppendLengthens
  <2> QED
    BY <1>2, <2>2, <2>3 DEF Part, m
<1> QED
  BY <1>1, <1>2

(* A message without a serial, or several, are put on the wire. *)
LEMMA SentOtherInOrder ==
    ASSUME InOrder, NEW id \in Allocated, Lengthens(wire', wire, id),
           UNCHANGED <<sent, next_id, acked, held, events>>
    PROVE  InOrder'
<1>1. /\ Len(wire) \in Nat /\ DOMAIN wire = 1 .. Len(wire)
      /\ wire' \in Seq(Messages) /\ Len(wire') \in Nat /\ DOMAIN wire' = 1 .. Len(wire')
  BY DEF InOrder, SentTypes, Lengthens
<1>2. \A i \in DOMAIN wire' : IF i \in DOMAIN wire THEN wire'[i] = wire[i]
                              ELSE wire'[i].type # "configure" /\ wire'[i].frame = id
  BY <1>1 DEF Lengthens
<1>3. WireConfigures' = WireConfigures /\ \A i \in WireConfigures : wire'[i] = wire[i]
  BY <1>1, <1>2 DEF WireConfigures, Lengthens
<1>4. EventConfigures' = EventConfigures
  BY DEF EventConfigures
<1>5. SentTypes'
  BY <1>1, <1>2 DEF InOrder, SentTypes, FrameIds, Allocated
<1>6. WireInOrder' /\ EventsInOrder'
  BY <1>3, <1>4 DEF InOrder, WireInOrder, EventsInOrder, Issued, SerialAt
<1>7. HeldInOrder' /\ AckedInOrder'
  BY <1>3, <1>4 DEF InOrder, HeldInOrder, AckedInOrder, Issued, Behind, SerialAt, FrameIds
<1> QED
  BY <1>5, <1>6, <1>7 DEF InOrder

Batch == [frame : Nat, mode : Option(Modes), toplevel : Option(ToplevelStates)]

(* The state between sending a batch's parts and its configure is in order, *)
(* so it is enough that the configure keeps the order.                      *)
LEMMA SentConfigureInOrder ==
    ASSUME InOrder, NEW id \in Allocated, NEW longer, Lengthens(longer, wire, id),
           id \in Nat, NEW batch \in Batch, batch.frame = id, Len(sent) < MaxConfigures,
           sent' = Append(sent, batch),
           wire' = Append(longer, Message("configure", id, Len(sent) + 1)),
           UNCHANGED <<next_id, acked, held, events>>
    PROVE  InOrder'
<1> DEFINE n == Len(sent) + 1
           last == Len(longer) + 1
           m == Message("configure", id, n)
<1>1. /\ Len(sent) \in Nat /\ DOMAIN sent = 1 .. Len(sent)
      /\ sent' \in Seq(Batch) /\ Len(sent') = n /\ DOMAIN sent' = 1 .. n
      /\ \A k \in 1 .. Len(sent) : sent'[k] = sent[k]
      /\ sent'[n] = batch
  <2>1. sent \in Seq(Batch)
    BY DEF InOrder, SentTypes, Batch
  <2> QED
    BY <2>1, AppendAt
<1>2. m \in Messages /\ m.type = "configure" /\ m.frame = id /\ m.value = n
  BY <1>1 DEF Messages, Message
<1> HIDE DEF m
<1>3. /\ Len(longer) \in Nat /\ wire' \in Seq(Messages) /\ DOMAIN wire' = 1 .. last
      /\ \A i \in 1 .. Len(longer) : wire'[i] = longer[i]
      /\ wire'[last] = m
  <2>1. wire' = Append(longer, m) /\ longer \in Seq(Messages)
    BY DEF m, Lengthens
  <2> QED
    BY <1>2, <2>1, AppendAt
<1>4. /\ Len(wire) \in Nat /\ DOMAIN wire = 1 .. Len(wire) /\ Len(wire) <= Len(longer)
      /\ \A i \in DOMAIN wire : i \in DOMAIN wire' /\ i < last /\ wire'[i] = wire[i]
      /\ \A i \in DOMAIN wire' \ DOMAIN wire : wire'[i].frame = id
      /\ \A i \in DOMAIN wire' \ DOMAIN wire : i # last => wire'[i].type # "configure"
  <2>1. Len(wire) \in Nat /\ DOMAIN wire = 1 .. Len(wire) /\ Len(wire) <= Len(longer)
    BY DEF InOrder, SentTypes, Lengthens
  <2>2. \A i \in DOMAIN wire : i \in DOMAIN wire' /\ i < last /\ wire'[i] = wire[i]
    BY <1>3, <2>1 DEF Lengthens
  <2>3. ASSUME NEW i \in DOMAIN wire' \ DOMAIN wire
        PROVE  wire'[i].frame = id /\ (i # last => wire'[i].type # "configure")
    BY <1>2, <1>3, <2>1 DEF Lengthens
  <2> QED
    BY <2>1, <2>2, <2>3
<1>5. /\ WireConfigures' = WireConfigures \cup {last} /\ last \in Nat
      /\ \A i \in WireConfigures : i < last /\ i \in Nat /\ wire'[i] = wire[i]
  BY <1>2, <1>3, <1>4 DEF WireConfigures
<1>6. SentTypes'
  <2>1. \A i \in DOMAIN wire' : wire'[i].frame \in Allocated
    BY <1>4 DEF InOrder, SentTypes
  <2>2. Len(sent') <= MaxConfigures
    BY <1>1, SessionAssumption DEF SessionAssumption
  <2> QED
    BY <1>1, <1>3, <2>1, <2>2 DEF InOrder, SentTypes, FrameIds, Allocated, Batch
<1> DEFINE issued(serial, f) == serial \in DOMAIN sent' /\ sent'[serial].frame = f
           behind(serial) == /\ \A i \in EventConfigures : serial < SerialAt(i)
                             /\ \A i \in WireConfigures' : serial < wire'[i].value
<1>7. \A serial, f : Issued(serial, f) => issued(serial, f) /\ serial < n /\ serial \in Nat
  BY <1>1 DEF Issued
<1>8. issued(n, id)
  BY <1>1
<1>9. EventConfigures' = EventConfigures /\ \A i \in EventConfigures : SerialAt(i)' = SerialAt(i)
  BY DEF EventConfigures, SerialAt
<1>10. \A serial : Behind(serial) /\ serial < n => behind(serial)
  BY <1>2, <1>3, <1>5 DEF Behind
<1> HIDE DEF n, last, issued, behind
<1>11. WireInOrder'
  <2>1. \A i \in WireConfigures : issued(wire[i].value, wire[i].frame) /\ wire[i].value < n
    BY <1>7 DEF InOrder, WireInOrder
  <2>2. \A i \in WireConfigures' : issued(wire'[i].value, wire'[i].frame)
    BY <1>2, <1>3, <1>5, <1>8, <2>1
  <2>3. ASSUME NEW i \in WireConfigures', NEW j \in WireConfigures', i < j
        PROVE  wire'[i].value < wire'[j].value
    <3>1. i \in WireConfigures /\ i # last
      BY <1>5, <2>3
    <3>2. CASE j = last
      BY <1>2, <1>3, <1>5, <2>1, <3>1, <3>2
    <3>3. CASE j # last
      BY <1>5, <2>3, <3>1, <3>3 DEF InOrder, WireInOrder
    <3> QED
      BY <3>2, <3>3
  <2> QED
    BY <2>2, <2>3 DEF WireInOrder, Issued, issued
<1>12. EventsInOrder'
  <2>1. \A i \in EventConfigures : SerialAt(i) < n /\ issued(SerialAt(i), events[i].frame)
    BY <1>7 DEF InOrder, EventsInOrder
  <2>2. \A i \in EventConfigures, j \in WireConfigures' : SerialAt(i) < wire'[j].value
    BY <1>2, <1>3, <1>5, <2>1 DEF InOrder, EventsInOrder
  <2>3. \A i, j \in EventConfigures : i < j => SerialAt(i) < SerialAt(j)
    BY DEF InOrder, EventsInOrder
  <2> QED
    BY <1>9, <2>1, <2>2, <2>3 DEF EventsInOrder, Issued, issued
<1>13. HeldInOrder'
  <2>1. \A f \in DOMAIN held :
            issued(held[f].serial, f) /\ behind(held[f].serial) /\ acked[f] < held[f].serial
    BY <1>7, <1>10 DEF InOrder, HeldInOrder
  <2>2. \A f \in DOMAIN held :
            /\ held[f].serial \in DOMAIN sent' /\ sent'[held[f].serial].frame = f
            /\ \A i \in EventConfigures' : held[f].serial < SerialAt(i)'
            /\ \A i \in WireConfigures' : held[f].serial < wire'[i].value
            /\ acked[f] < held[f].serial
    BY <1>9, <2>1 DEF issued, behind
  <2>3. held' = held /\ acked' = acked
    OBVIOUS
  <2> QED
    BY <2>2, <2>3 DEF HeldInOrder, Issued, Behind
<1>14. AckedInOrder'
  <2>1. \A f \in FrameIds : acked[f] < n /\ acked[f] <= n /\ Behind(acked[f])
    BY <1>1 DEF InOrder, AckedInOrder, SentTypes, n
  <2>2. \A f \in FrameIds : acked[f] <= n /\ behind(acked[f])
    BY <1>10, <2>1
  <2> QED
    BY <1>1, <1>9, <2>2 DEF AckedInOrder, FrameIds, Behind, behind
<1> QED
  BY <1>6, <1>11, <1>12, <1>13, <1>14 DEF InOrder

(***************************************************************************)
(* The application polls the oldest event.  Its configuration, if it is a  *)
(* configure of a live frame, is behind all that are still on their way,   *)
(* and takes the place of the one held for the frame.                      *)
(***************************************************************************)
LEMMA PolledInOrder ==
    ASSUME InOrder, TypeOK, TypeOK', live \subseteq FrameIds, PollEvent,
           UNCHANGED <<sent, wire, acked>>
    PROVE  InOrder'
<1>1. /\ events' = Tail(events) /\ 1 \in DOMAIN events /\ Head(events) = events[1]
      /\ Head(events) \in EventType
      /\ \A i \in DOMAIN events' :
             i \in Nat /\ i + 1 \in DOMAIN events /\ i + 1 > 1 /\ events'[i] = events[i + 1]
  <2>1. events # <<>> /\ events \in Seq(EventType) /\ events' = Tail(events)
    BY DEF PollEvent, Popped, TypeOK
  <2> QED
    BY <2>1, TailAt
<1>2. \A i \in EventConfigures' :
          /\ i \in Nat /\ i + 1 \in EventConfigures /\ 1 < i + 1 /\ events'[i] = events[i + 1]
          /\ SerialAt(i)' = SerialAt(i + 1)
  BY <1>1 DEF EventConfigures, SerialAt
<1>3. next_id' = next_id /\ WireConfigures' = WireConfigures
  BY DEF PollEvent, WireConfigures
<1>4. SentTypes'
  BY <1>3 DEF InOrder, SentTypes, FrameIds, Allocated
<1>5. WireInOrder'
  BY <1>3 DEF InOrder, WireInOrder, Issued
<1>6. EventsInOrder'
  <2>1. ASSUME NEW i \in EventConfigures'
        PROVE  /\ Issued(SerialAt(i + 1), events'[i].frame)
               /\ \A j \in WireConfigures : SerialAt(i + 1) < wire[j].value
    BY <1>2 DEF InOrder, EventsInOrder
  <2>2. ASSUME NEW i \in EventConfigures', NEW j \in EventConfigures', i < j
        PROVE  SerialAt(i + 1) < SerialAt(j + 1)
    BY <1>2, <2>2 DEF InOrder, EventsInOrder
  <2> QED
    BY <1>2, <1>3, <2>1, <2>2 DEF EventsInOrder, Issued
<1> DEFINE behind(serial) == /\ \A i \in EventConfigures' : serial < SerialAt(i)'
                             /\ \A i \in WireConfigures : serial < wire[i].value
<1>7. \A serial : Behind(serial) => behind(serial)
  BY <1>2 DEF Behind
<1>8. AckedInOrder'
  <2>1. \A f \in FrameIds : acked[f] <= Len(sent) /\ behind(acked[f])
    BY <1>7 DEF InOrder, AckedInOrder
  <2> QED
    BY <1>3, <2>1 DEF AckedInOrder, Behind, FrameIds
<1>9. HeldInOrder'
  <2>1. \A f \in DOMAIN held :
            Issued(held[f].serial, f) /\ behind(held[f].serial) /\ acked[f] < held[f].serial
    BY <1>7 DEF InOrder, HeldInOrder
  <2> DEFINE event == Head(events)
  <2>2. CASE held' = held
    BY <1>3, <2>1, <2>2 DEF HeldInOrder, Issued, Behind
  <2>3. CASE /\ event.type = "Configure" /\ event.frame \in live
             /\ held' = Put(held, event.frame, event.configuration)
    <3> DEFINE id == event.frame
               serial == event.configuration.serial
    <3>1. 1 \in EventConfigures /\ SerialAt(1) = serial /\ events[1].frame = id
      BY <1>1, <2>3 DEF EventConfigures, SerialAt
    <3>2. /\ Issued(serial, id)
          /\ \A i \in EventConfigures' : serial < SerialAt(i)'
          /\ \A i \in WireConfigures : serial < wire[i].value
      <4>1. \A i \in EventConfigures : 1 < i => serial < SerialAt(i)
        BY <3>1 DEF InOrder, EventsInOrder
      <4> QED
        BY <1>2, <3>1, <4>1 DEF InOrder, EventsInOrder
    <3>3. acked[id] < serial
      <4>1. id \in FrameIds
        BY <2>3
      <4> QED
        BY <3>1, <4>1 DEF InOrder, AckedInOrder, Behind
    <3>4. /\ DOMAIN held' = DOMAIN held \cup {id}
          /\ held'[id] = event.configuration
          /\ \A f \in DOMAIN held : f # id => held'[f] = held[f]
      BY <2>3 DEF Put
    <3> HIDE DEF id, event, serial
    <3>5. \A f \in DOMAIN held' : IF f = id THEN held'[f].serial = serial
                                  ELSE f \in DOMAIN held /\ held'[f] = held[f]
      BY <3>4 DEF serial
    <3>6. ASSUME NEW f \in DOMAIN held'
          PROVE  /\ Issued(held'[f].serial, f) /\ acked[f] < held'[f].serial
                 /\ behind(held'[f].serial)
      <4>1. CASE f = id
        BY <3>2, <3>3, <3>5, <4>1
      <4>2. CASE f # id
        BY <2>1, <3>5, <4>2
      <4> QED
        BY <4>1, <4>2
    <3> QED
      BY <1>3, <3>6 DEF HeldInOrder, Issued, Behind
  <2> QED
    BY <2>2, <2>3 DEF PollEvent, Popped
<1> QED
  BY <1>4, <1>5, <1>6, <1>8, <1>9 DEF InOrder

(* The application answers: the serial it held is the last one acknowledged. *)
LEMMA AnsweredInOrder ==
    ASSUME InOrder, NEW id \in DOMAIN held, id \in FrameIds,
           acked' = [acked EXCEPT ![id] = held[id].serial], held' = Without(held, {id}),
           UNCHANGED <<next_id, sent, wire, events>>
    PROVE  InOrder'
<1>1. /\ DOMAIN held' = DOMAIN held \ {id}
      /\ \A f \in DOMAIN held' : f # id /\ f \in DOMAIN held /\ held'[f] = held[f]
  BY DEF Without, Restrict
<1>2. SentTypes /\ Issued(held[id].serial, id) /\ Behind(held[id].serial)
  BY DEF InOrder, HeldInOrder
<1>3. held[id].serial \in Nat /\ held[id].serial <= Len(sent)
  BY <1>2, IssuedIs
<1>4. \A f \in FrameIds : acked'[f] = IF f = id THEN held[id].serial ELSE acked[f]
  BY <1>2 DEF SentTypes
<1>5. SentTypes'
  BY <1>2, <1>3 DEF SentTypes, FrameIds, Allocated
<1>6. EventConfigures' = EventConfigures /\ WireConfigures' = WireConfigures
  BY DEF EventConfigures, WireConfigures
<1>7. WireInOrder' /\ EventsInOrder'
  BY <1>6 DEF InOrder, WireInOrder, EventsInOrder, Issued, SerialAt
<1>8. AckedInOrder'
  <2>1. \A f \in FrameIds : acked'[f] <= Len(sent) /\ Behind(acked'[f])
    BY <1>2, <1>3, <1>4 DEF InOrder, AckedInOrder
  <2> QED
    BY <1>6, <2>1 DEF AckedInOrder, Behind, SerialAt, FrameIds
<1>9. HeldInOrder'
  <2>1. ASSUME NEW f \in DOMAIN held'
        PROVE  Issued(held'[f].serial, f) /\ Behind(held'[f].serial) /\ acked'[f] < held'[f].serial
    <3>1. f # id /\ f \in DOMAIN held /\ held'[f] = held[f]
      BY <1>1
    <3>2. acked'[f] = acked[f]
      BY <1>2, <3>1 DEF SentTypes
    <3> QED
      BY <3>1, <3>2 DEF InOrder, HeldInOrder
  <2> QED
    BY <1>6, <2>1 DEF HeldInOrder, Issued, Behind, SerialAt
<1> QED
  BY <1>5, <1>7, <1>8, <1>9 DEF InOrder

-----------------------------------------------------------------------------
(***************************************************************************)
(* Objects.                                                                *)
(***************************************************************************)
AppObjects == {<<"wl_surface", surface>> : surface \in AppSurfaces}
CsdObjects(id) == {<<"subsurface", s>> : s \in CsdSurfaces(id) \cup {OwnSurface(id, "Shadow")}}

LEMMA CsdPartsAre ==
    /\ \A i, j \in 1 .. 6 : CsdParts[i] = CsdParts[j] => i = j
    /\ \A part : part \in Edges \cup {"Titlebar", "Shadow"} <=> \E i \in 1 .. 6 : part = CsdParts[i]
<1>1. /\ CsdParts[1] = "Shadow" /\ CsdParts[2] = "Top" /\ CsdParts[3] = "Bottom"
      /\ CsdParts[4] = "Left" /\ CsdParts[5] = "Right" /\ CsdParts[6] = "Titlebar"
  BY DEF CsdParts
<1>2. \A i : i \in 1 .. 6 <=> i \in {1, 2, 3, 4, 5, 6}
  OBVIOUS
<1>3. \A i, j \in 1 .. 6 : CsdParts[i] = CsdParts[j] => i = j
  BY <1>1, <1>2
<1>4. \A part : part \in Edges \cup {"Titlebar", "Shadow"} <=> \E i \in 1 .. 6 : part = CsdParts[i]
  BY <1>1, <1>2 DEF Edges
<1> QED
  BY <1>3, <1>4

(* A list of requests of one kind that names each of some objects once. *)
Each(list, req, named) ==
    /\ \A i \in 1 .. Len(list) : list[i].req = req
    /\ \A i, j \in 1 .. Len(list) : list[i].object = list[j].object => i = j
    /\ \A object : object \in named <=> \E i \in 1 .. Len(list) : list[i].object = object

(* The requests that make or free a decoration name each of its surfaces once. *)
LEMMA CsdRequestsAre ==
    ASSUME NEW req, NEW id
    PROVE  /\ CsdRequests(req, id) \in Seq([req : {req}, object : CsdObjects(id)])
           /\ Len(CsdRequests(req, id)) = 6
           /\ Each(CsdRequests(req, id), req, CsdObjects(id))
<1> DEFINE r == CsdRequests(req, id)
           named(i) == <<"subsurface", <<id, CsdParts[i]>>>>
<1>1. r = [i \in 1 .. 6 |-> [req |-> req, object |-> named(i)]]
  BY DEF CsdRequests, OwnSurface
<1>2. \A i \in 1 .. 6 : r[i].req = req /\ r[i].object = named(i)
  BY <1>1
<1>3. \A object : object \in CsdObjects(id) <=> \E i \in 1 .. 6 : named(i) = object
  <2>1. \A object : object \in CsdObjects(id) <=>
            \E part \in Edges \cup {"Titlebar", "Shadow"} : object = <<"subsurface", <<id, part>>>>
    BY DEF CsdObjects, CsdSurfaces, OwnSurface
  <2> QED
    BY <2>1, CsdPartsAre
<1>4. \A i, j \in 1 .. 6 : named(i) = named(j) => i = j
  BY CsdPartsAre
<1>5. r \in [1 .. 6 -> [req : {req}, object : CsdObjects(id)]]
  BY <1>1, <1>3
<1> DEFINE S == [req : {req}, object : CsdObjects(id)]
<1> HIDE DEF r, named, S
<1>6. r \in Seq(S) /\ Len(r) = 6
  <2>1. r \in [1 .. 6 -> S] /\ 6 \in Nat
    BY <1>5 DEF S
  <2>2. r \in Seq(S)
    BY <2>1, SeqDef
  <2> QED
    BY <2>1, <2>2, LenProperties
<1>7. \A i, j \in 1 .. 6 : r[i].object = r[j].object => i = j
  BY <1>2, <1>4
<1>8. \A object : object \in CsdObjects(id) <=> \E i \in 1 .. 6 : r[i].object = object
  BY <1>2, <1>3
<1>9. Each(r, req, CsdObjects(id))
  BY <1>2, <1>6, <1>7, <1>8 DEF Each
<1> QED
  BY <1>6, <1>9 DEF r, S

(* What exists is what the live frames are made of. *)
LEMMA ObjectsAre ==
    ASSUME ObjectsExact, NEW object
    PROVE  object \in objects <=>
               object \in AppObjects \/ \E i \in live : object \in FrameObjects(i)
BY DEF ObjectsExact, AppObjects

(* What a frame is made of does not depend on the others. *)
LEMMA FrameObjectsAre ==
    ASSUME NEW id, NEW object
    PROVE  object \in FrameObjects(id) <=>
               \/ object = <<"xdg_surface", id>> \/ object = <<"xdg_toplevel", id>>
               \/ object = <<"wl_surface", frames[id].surface>>
               \/ frames[id].decoration /\ object = <<"xdg_toplevel_decoration", id>>
               \/ id \in DOMAIN csd /\ object \in CsdObjects(id)
BY DEF FrameObjects, CsdObjects

LEMMA ObjectsStable ==
    ASSUME ObjectsExact, objects' = objects, live' = live, DOMAIN csd' = DOMAIN csd,
           \A id \in live : /\ frames'[id].surface = frames[id].surface
                            /\ frames'[id].decoration = frames[id].decoration
    PROVE  ObjectsExact'
<1>1. \A id \in live : FrameObjects(id)' = FrameObjects(id)
  BY DEF FrameObjects, CsdSurfaces, OwnSurface
<1> QED
  BY <1>1 DEF ObjectsExact

(* ensure_csd makes the surfaces of a decoration that did not exist. *)
LEMMA EnsureCsdObjects ==
    ASSUME SessionInv, Receive, NEW id, NEW mode, ensure_csd(id, mode), live' = live,
           \A i \in live : /\ frames'[i].surface = frames[i].surface
                           /\ frames'[i].decoration = frames[i].decoration
    PROVE  ObjectsExact' /\ NoProtocolError' /\ acked' = acked
<1>0. SentTypes /\ ObjectsExact /\ protocol_ok
  BY DEF SessionInv, InOrder, NoProtocolError
<1>1. CASE ~(NeedsCsd(id, mode) /\ Subcompositor)
  <2>1. csd' = csd /\ requests' = <<>>
    BY <1>1 DEF ensure_csd
  <2>2. UNCHANGED <<objects, acked, protocol_ok>>
    BY <1>0, <2>1, ReceivePlain
  <2> QED
    BY <1>0, <2>1, <2>2, ObjectsStable DEF NoProtocolError
<1>2. CASE NeedsCsd(id, mode) /\ Subcompositor
  <2>1. /\ requests' = CsdRequests("new", id) /\ csd' = Put(csd, id, NewDecoration)
        /\ id \in live /\ id \notin DOMAIN csd
    BY <1>2 DEF ensure_csd, NeedsCsd
  <2>2. live \subseteq Nat /\ DOMAIN csd \subseteq live
    BY DEF SessionInv, RegistryInv, TypeInv, TypeOK, Allocated
  <2>3. CsdObjects(id) \cap objects = {}
    <3>1. SUFFICES ASSUME NEW object \in CsdObjects(id), object \in objects PROVE FALSE
      OBVIOUS
    <3>2. PICK part : object = <<"subsurface", <<id, part>>>>
      BY <3>1 DEF CsdObjects, CsdSurfaces, OwnSurface
    <3>3. object \notin AppObjects
      BY <3>2 DEF AppObjects
    <3>4. PICK i \in live : object \in FrameObjects(i)
      BY <1>0, <3>1, <3>3, ObjectsAre
    <3>5. i \in DOMAIN csd /\ object \in CsdObjects(i)
      BY <3>2, <3>4, FrameObjectsAre
    <3>6. i = id
      BY <3>2, <3>5 DEF CsdObjects, CsdSurfaces, OwnSurface
    <3> QED
      BY <2>1, <3>5, <3>6
  <2>4. objects' = objects \cup CsdObjects(id) /\ acked' = acked /\ protocol_ok'
    <3> DEFINE r == CsdRequests("new", id)
    <3>1. Len(r) = 6 /\ Each(r, "new", CsdObjects(id))
      BY CsdRequestsAre
    <3>2. Len(requests') = 6 /\ Each(requests', "new", CsdObjects(id))
      BY <2>1, <3>1
    <3>3. /\ Len(requests') \in Nat
          /\ \A i \in 1 .. Len(requests') : requests'[i].req # "new" => Plain(requests'[i])
      BY <3>2 DEF Each
    <3>4. \A i \in 1 .. Len(requests') :
               requests'[i].req = "new" => requests'[i].object \notin objects
      BY <2>3, <3>2 DEF Each
    <3>5. \A i, j \in 1 .. Len(requests') :
               requests'[i].req = "new" /\ Makes(j, requests'[i].object) => i = j
      BY <3>2 DEF Each, Makes
    <3>6. \A object : object \in CsdObjects(id) <=> \E i \in 1 .. Len(requests') : Makes(i, object)
      BY <3>2 DEF Each, Makes
    <3> QED
      BY <1>0, <3>3, <3>4, <3>5, <3>6, ReceiveNew
  <2>5. DOMAIN csd' = DOMAIN csd \cup {id}
    BY <2>1 DEF Put
  <2>6. /\ FrameObjects(id)' = FrameObjects(id) \cup CsdObjects(id)
        /\ \A i \in live : i # id => FrameObjects(i)' = FrameObjects(i)
    BY <2>1, <2>5 DEF FrameObjects, CsdObjects, CsdSurfaces, OwnSurface
  <2>7. ObjectsExact'
    BY <1>0, <2>1, <2>4, <2>6 DEF ObjectsExact
  <2> QED
    BY <2>4, <2>7 DEF NoProtocolError
<1> QED
  BY <1>1, <1>2

(***************************************************************************)
(* A list of requests, with one or two more at its end.                    *)
(***************************************************************************)
LEMMA ConcatOne ==
    ASSUME NEW S, NEW list \in Seq(S), NEW one \in Seq(S), Len(one) = 1
    PROVE  list \o one = Append(list, one[1])
<1>1. /\ list \o one \in Seq(S) /\ Len(list \o one) = Len(list) + 1 /\ Len(list) \in Nat
      /\ \A i \in 1 .. Len(list) + 1 :
             (list \o one)[i] = IF i <= Len(list) THEN list[i] ELSE one[i - Len(list)]
  <2> DEFINE n == Len(one)
             longer == list \o one
  <2>1. /\ longer \in Seq(S) /\ Len(longer) = Len(list) + n
        /\ \A i \in 1 .. Len(list) + n :
               longer[i] = IF i <= Len(list) THEN list[i] ELSE one[i - Len(list)]
    BY ConcatProperties
  <2>2. n = 1 /\ Len(list) \in Nat
    BY LenProperties
  <2> HIDE DEF n, longer
  <2>3. /\ longer \in Seq(S) /\ Len(longer) = Len(list) + 1
        /\ \A i \in 1 .. Len(list) + 1 :
               longer[i] = IF i <= Len(list) THEN list[i] ELSE one[i - Len(list)]
    BY <2>1, <2>2
  <2> QED
    BY <2>2, <2>3 DEF longer
<1>2. one[1] \in S
  BY ElementOfSeq
<1> DEFINE e == one[1]
           longer == Append(list, e)
           other == list \o one
<1> HIDE DEF e
<1>3. /\ longer \in Seq(S) /\ Len(longer) = Len(list) + 1
      /\ \A i \in 1 .. Len(list) : longer[i] = list[i]
      /\ longer[Len(list) + 1] = e
  BY <1>2, AppendAt DEF e
<1> HIDE DEF longer
<1>4. /\ other \in Seq(S) /\ Len(other) = Len(list) + 1 /\ Len(list) \in Nat
      /\ \A i \in 1 .. Len(list) : other[i] = list[i]
      /\ other[Len(list) + 1] = e
  BY <1>1 DEF e
<1> HIDE DEF other
<1>5. \A i \in 1 .. Len(other) : other[i] = longer[i]
  BY <1>3, <1>4
<1>6. other = longer
  BY <1>3, <1>4, <1>5, SeqEqual
<1> QED
  BY <1>6 DEF other, longer, e

LEMMA ConcatTwo ==
    ASSUME NEW S, NEW list \in Seq(S), NEW two \in Seq(S), Len(two) = 2
    PROVE  list \o two = Append(Append(list, two[1]), two[2])
<1>1. /\ list \o two \in Seq(S) /\ Len(list \o two) = Len(list) + 2 /\ Len(list) \in Nat
      /\ \A i \in 1 .. Len(list) + 2 :
             (list \o two)[i] = IF i <= Len(list) THEN list[i] ELSE two[i - Len(list)]
  <2> DEFINE n == Len(two)
             longer == list \o two
  <2>1. /\ longer \in Seq(S) /\ Len(longer) = Len(list) + n
        /\ \A i \in 1 .. Len(list) + n :
               longer[i] = IF i <= Len(list) THEN list[i] ELSE two[i - Len(list)]
    BY ConcatProperties
  <2>2. n = 2 /\ Len(list) \in Nat
    BY LenProperties
  <2> HIDE DEF n, longer
  <2>3. /\ longer \in Seq(S) /\ Len(longer) = Len(list) + 2
        /\ \A i \in 1 .. Len(list) + 2 :
               longer[i] = IF i <= Len(list) THEN list[i] ELSE two[i - Len(list)]
    BY <2>1, <2>2
  <2> QED
    BY <2>2, <2>3 DEF longer
<1>2. two[1] \in S /\ two[2] \in S
  BY ElementOfSeq
<1> DEFINE d == two[1]
           e == two[2]
           n == Len(list)
           longer == Append(list, d)
           longest == Append(longer, e)
           other == list \o two
<1> HIDE DEF d, e
<1>3. /\ longer \in Seq(S) /\ Len(longer) = n + 1
      /\ \A i \in 1 .. n : longer[i] = list[i]
      /\ longer[n + 1] = d
  BY <1>2, AppendAt DEF d
<1> HIDE DEF longer
<1>4. /\ longest \in Seq(S) /\ Len(longest) = n + 1 + 1
      /\ \A i \in 1 .. n + 1 : longest[i] = longer[i]
      /\ longest[n + 1 + 1] = e
  <2> DEFINE k == Len(longer)
  <2>1. k = n + 1
    BY <1>3
  <2>2. /\ longest \in Seq(S) /\ Len(longest) = k + 1
        /\ \A i \in 1 .. k : longest[i] = longer[i]
        /\ longest[k + 1] = e
    BY <1>2, <1>3, AppendAt DEF e
  <2> HIDE DEF k, longest, n
  <2> QED
    BY <2>1, <2>2
<1> HIDE DEF longest
<1>5. /\ other \in Seq(S) /\ Len(other) = n + 2 /\ n \in Nat
      /\ \A i \in 1 .. n : other[i] = list[i]
      /\ other[n + 1] = d /\ other[n + 2] = e
  BY <1>1 DEF d, e
<1> HIDE DEF other, n
<1>6. ASSUME NEW i \in 1 .. Len(other) PROVE other[i] = longest[i]
  <2>1. i \in 1 .. n \/ i = n + 1 \/ i = n + 2
    BY <1>5
  <2> QED
    BY <1>3, <1>4, <1>5, <2>1
<1>7. Len(other) = Len(longest)
  BY <1>4, <1>5
<1>8. other = longest
  BY <1>4, <1>5, <1>6, <1>7, SeqEqual
<1> QED
  BY <1>8 DEF other, longest, longer, d, e

(***************************************************************************)
(* Requests that make some objects, each once.                             *)
(***************************************************************************)
Making(list, named) ==
    /\ \A i \in 1 .. Len(list) : list[i].req # "new" => Plain(list[i])
    /\ \A i, j \in 1 .. Len(list) :
           list[i].req = "new" /\ list[j].req = "new" /\ list[i].object = list[j].object => i = j
    /\ \A object : object \in named <=>
           \E i \in 1 .. Len(list) : list[i].req = "new" /\ list[i].object = object

LEMMA MakeOne ==
    ASSUME NEW S, NEW list \in Seq(S), NEW named, Making(list, named),
           NEW object, object \notin named, New(object) \in S
    PROVE  Making(Append(list, New(object)), named \cup {object})
<1> DEFINE r == New(object)
           longer == Append(list, r)
           n == Len(list)
<1>1. r.req = "new" /\ r.object = object /\ r \in S
  BY DEF New
<1> HIDE DEF r
<1>2. /\ n \in Nat /\ Len(longer) = n + 1
      /\ \A i \in 1 .. n : longer[i] = list[i]
      /\ longer[n + 1] = r
  BY <1>1, AppendAt
<1>3. \A i \in 1 .. n : list[i].req = "new" => list[i].object # object
  BY DEF Making
<1> HIDE DEF longer
<1>4. \A i \in 1 .. Len(longer) : longer[i].req # "new" => Plain(longer[i])
  BY <1>1, <1>2 DEF Making
<1>5. ASSUME NEW i \in 1 .. Len(longer), NEW j \in 1 .. Len(longer),
             longer[i].req = "new", longer[j].req = "new", longer[i].object = longer[j].object
      PROVE  i = j
  BY <1>1, <1>2, <1>3, <1>5 DEF Making
<1>6. ASSUME NEW o
      PROVE  o \in named \cup {object} <=>
                 \E i \in 1 .. Len(longer) : longer[i].req = "new" /\ longer[i].object = o
  <2>1. o \in named <=> \E i \in 1 .. n : list[i].req = "new" /\ list[i].object = o
    BY DEF Making
  <2>2. 1 .. Len(longer) = 1 .. n \cup {n + 1}
    BY <1>2
  <2> QED
    BY <1>1, <1>2, <2>1, <2>2
<1>7. Making(longer, named \cup {object})
  BY <1>4, <1>5, <1>6 DEF Making
<1> QED
  BY <1>7 DEF longer, r

LEMMA MakeNone ==
    ASSUME NEW S, NEW list \in Seq(S), NEW named, Making(list, named),
           NEW r \in S, Plain(r)
    PROVE  Making(Append(list, r), named)
<1> DEFINE longer == Append(list, r)
           n == Len(list)
<1>1. r.req # "new"
  BY DEF Plain
<1>2. /\ n \in Nat /\ Len(longer) = n + 1
      /\ \A i \in 1 .. n : longer[i] = list[i]
      /\ longer[n + 1] = r
  BY AppendAt
<1> HIDE DEF longer
<1>3. \A i \in 1 .. Len(longer) :
          longer[i].req = "new" => i \in 1 .. n /\ longer[i] = list[i]
  BY <1>1, <1>2
<1>4. \A i \in 1 .. Len(longer) : longer[i].req # "new" => Plain(longer[i])
  BY <1>2 DEF Making
<1>5. \A i, j \in 1 .. Len(longer) :
          longer[i].req = "new" /\ longer[j].req = "new" /\ longer[i].object = longer[j].object => i = j
  BY <1>3 DEF Making
<1>6. \A o : o \in named <=>
          \E i \in 1 .. Len(longer) : longer[i].req = "new" /\ longer[i].object = o
  BY <1>2, <1>3 DEF Making
<1>7. Making(longer, named)
  BY <1>4, <1>5, <1>6 DEF Making
<1> QED
  BY <1>7 DEF longer

(***************************************************************************)
(* decorate_inner makes the objects of a new frame; its surface is made    *)
(* before, or is the application's.                                        *)
(***************************************************************************)
LEMMA CreationRequests ==
    ASSUME NEW id, NEW surface, NEW owns \in BOOLEAN, NEW decoration \in BOOLEAN, NEW list,
           list = (IF owns THEN <<New(<<"wl_surface", surface>>)>> ELSE <<>>)
                    \o <<New(<<"xdg_surface", id>>), New(<<"xdg_toplevel", id>>)>>
                    \o (IF decoration
                        THEN <<New(<<"xdg_toplevel_decoration", id>>),
                               [req |-> "set_mode", frame |-> id, mode |-> "ClientSide"]>>
                        ELSE <<>>)
    PROVE  /\ Len(list) \in Nat
           /\ Making(list, (IF owns THEN {<<"wl_surface", surface>>} ELSE {})
                              \cup {<<"xdg_surface", id>>} \cup {<<"xdg_toplevel", id>>}
                              \cup (IF decoration THEN {<<"xdg_toplevel_decoration", id>>} ELSE {}))
<1> DEFINE a == New(<<"wl_surface", surface>>)
           b == New(<<"xdg_surface", id>>)
           c == New(<<"xdg_toplevel", id>>)
           d == New(<<"xdg_toplevel_decoration", id>>)
           e == [req |-> "set_mode", frame |-> id, mode |-> "ClientSide"]
           S == {a, b, c, d, e}
           l1 == IF owns THEN <<a>> ELSE <<>>
           l2 == Append(l1, b)
           l3 == Append(l2, c)
           l4 == Append(l3, d)
           l5 == Append(l4, e)
           m1 == IF owns THEN {<<"wl_surface", surface>>} ELSE {}
           m3 == m1 \cup {<<"xdg_surface", id>>} \cup {<<"xdg_toplevel", id>>}
           m4 == m3 \cup {<<"xdg_toplevel_decoration", id>>}
<1>0. Plain(e) /\ \A i : <<"wl_surface", surface>> # <<"xdg_surface", i>>
                         /\ <<"wl_surface", surface>> # <<"xdg_toplevel", i>>
                         /\ <<"wl_surface", surface>> # <<"xdg_toplevel_decoration", i>>
                         /\ <<"xdg_surface", i>> # <<"xdg_toplevel", i>>
                         /\ <<"xdg_surface", i>> # <<"xdg_toplevel_decoration", i>>
                         /\ <<"xdg_toplevel", i>> # <<"xdg_toplevel_decoration", i>>
  BY DEF Plain
<1>1. list = l1 \o <<b, c>> \o (IF decoration THEN <<d, e>> ELSE <<>>)
  OBVIOUS
<1>2. l1 \in Seq(S) /\ Making(l1, m1)
  <2>1. <<>> \in Seq(S) /\ Making(<<>>, {})
    BY EmptySeq DEF Making
  <2>2. <<a>> \in Seq(S) /\ Making(<<a>>, {<<"wl_surface", surface>>})
    <3> DEFINE one == <<a>>
               named == <<"wl_surface", surface>>
    <3>1. one \in Seq(S) /\ Len(one) = 1 /\ one[1] = a
      OBVIOUS
    <3>2. a.req = "new" /\ a.object = named
      BY DEF New
    <3>3. \A i : i \in 1 .. 1 <=> i = 1
      OBVIOUS
    <3> HIDE DEF a, one, named
    <3>4. Making(one, {named})
      BY <3>1, <3>2, <3>3 DEF Making
    <3> QED
      BY <3>1, <3>4 DEF one, named
  <2> QED
    BY <2>1, <2>2
<1>3. /\ l2 \in Seq(S) /\ Making(l2, m1 \cup {<<"xdg_surface", id>>})
  <2>1. <<"xdg_surface", id>> \notin m1
    BY <1>0
  <2>2. b \in S
    OBVIOUS
  <2> HIDE DEF l1, m1, S
  <2> QED
    BY <1>2, <2>1, <2>2, MakeOne, AppendAt
<1>4. l3 \in Seq(S) /\ Making(l3, m3)
  <2>1. <<"xdg_toplevel", id>> \notin m1 \cup {<<"xdg_surface", id>>}
    BY <1>0
  <2>2. c \in S
    OBVIOUS
  <2> HIDE DEF l2, m1, S
  <2> QED
    BY <1>3, <2>1, <2>2, MakeOne, AppendAt
<1>5. l4 \in Seq(S) /\ Making(l4, m4)
  <2>1. <<"xdg_toplevel_decoration", id>> \notin m3
    BY <1>0
  <2>2. d \in S
    OBVIOUS
  <2> HIDE DEF l3, m3, S
  <2> QED
    BY <1>4, <2>1, <2>2, MakeOne, AppendAt
<1>6. l5 \in Seq(S) /\ Making(l5, m4)
  <2>2. e \in S
    OBVIOUS
  <2> HIDE DEF l4, m4, S, e
  <2> QED
    BY <1>0, <1>5, <2>2, MakeNone, AppendAt
<1>7. l1 \o <<b, c>> = l3
  <2> DEFINE two == <<b, c>>
  <2>1. two \in Seq(S) /\ Len(two) = 2 /\ two[1] = b /\ two[2] = c
    OBVIOUS
  <2> HIDE DEF l1, S, b, c, two
  <2>2. l1 \o two = Append(Append(l1, two[1]), two[2])
    BY <1>2, <2>1, ConcatTwo
  <2> QED
    BY <2>1, <2>2 DEF two
<1>8. CASE decoration
  <2> DEFINE two == <<d, e>>
  <2>1. two \in Seq(S) /\ Len(two) = 2 /\ two[1] = d /\ two[2] = e
    OBVIOUS
  <2>2. list = l3 \o two
    BY <1>1, <1>7, <1>8
  <2>3. l3 \o two = l5
    <3> HIDE DEF l3, S, d, e, two
    <3>1. l3 \o two = Append(Append(l3, two[1]), two[2])
      BY <1>4, <2>1, ConcatTwo
    <3> QED
      BY <2>1, <3>1
  <2>4. list \in Seq(S) /\ Making(list, m4)
    BY <1>6, <2>2, <2>3
  <2>5. Len(list) \in Nat
    BY <2>4, LenProperties
  <2> QED
    BY <1>8, <2>4, <2>5
<1>9. CASE ~decoration
  <2>1. list = l3 \o <<>>
    BY <1>1, <1>7, <1>9
  <2>2. l3 \o <<>> = l3
    <3> HIDE DEF l3, S
    <3> QED
      BY <1>4, ConcatEmptySeq
  <2>4. list \in Seq(S) /\ Making(list, m3)
    BY <1>4, <2>1, <2>2
  <2>5. Len(list) \in Nat
    BY <2>4, LenProperties
  <2>6. m3 = m3 \cup {}
    OBVIOUS
  <2> QED
    BY <1>9, <2>4, <2>5, <2>6
<1> QED
  BY <1>8, <1>9

LEMMA DecorateObjects ==
    ASSUME SessionInv, Receive, NEW surface, NEW owns \in BOOLEAN, NEW creation,
           decorate_inner(surface, owns, creation),
           creation = IF owns THEN <<New(<<"wl_surface", surface>>)>> ELSE <<>>,
           IF owns THEN <<"wl_surface", surface>> \notin objects ELSE surface \in AppSurfaces
    PROVE  ObjectsExact' /\ NoProtocolError' /\ acked' = acked
<1>0. SentTypes /\ ObjectsExact /\ protocol_ok
  BY DEF SessionInv, InOrder, NoProtocolError
<1>id. PICK id : id = next_id
  OBVIOUS
<1> DEFINE decoration == ~force_csd /\ DecorationMgr
           made == (IF owns THEN {<<"wl_surface", surface>>} ELSE {})
                      \cup {<<"xdg_surface", id>>} \cup {<<"xdg_toplevel", id>>}
                      \cup (IF decoration THEN {<<"xdg_toplevel_decoration", id>>} ELSE {})
<1>1. id \in Nat /\ live \subseteq Nat /\ id \notin live /\ DOMAIN csd \subseteq live
  BY <1>id DEF SessionInv, RegistryInv, TypeInv, TypeOK, Allocated
<1>2. decoration \in BOOLEAN
  OBVIOUS
<1>3. requests' = creation
        \o <<New(<<"xdg_surface", id>>), New(<<"xdg_toplevel", id>>)>>
        \o (IF decoration
            THEN <<New(<<"xdg_toplevel_decoration", id>>),
                   [req |-> "set_mode", frame |-> id, mode |-> "ClientSide"]>>
            ELSE <<>>)
  BY <1>id DEF decorate_inner
<1>4. /\ live' = live \cup {id} /\ csd' = csd
      /\ frames'[id].surface = surface /\ frames'[id].decoration = decoration
      /\ \A i \in live : frames'[i] = frames[i]
  <2>1. frames' = Put(frames, id, NewSlot(surface, owns, decoration)) /\ csd' = csd
    BY <1>id DEF decorate_inner
  <2>2. /\ DOMAIN frames' = DOMAIN frames \cup {id}
        /\ frames'[id] = NewSlot(surface, owns, decoration)
        /\ \A i \in DOMAIN frames : i # id => frames'[i] = frames[i]
    BY <2>1 DEF Put
  <2>3. /\ NewSlot(surface, owns, decoration).surface = surface
        /\ NewSlot(surface, owns, decoration).decoration = decoration
    BY DEF NewSlot
  <2>4. live = DOMAIN frames /\ live' = DOMAIN frames'
    BY DEF live
  <2> HIDE DEF decoration
  <2> QED
    BY <1>1, <2>1, <2>2, <2>3, <2>4
<1> HIDE DEF decoration
<1>5. \A object : object \in FrameObjects(id)' <=>
          \/ object = <<"wl_surface", surface>>
          \/ object = <<"xdg_surface", id>> \/ object = <<"xdg_toplevel", id>>
          \/ decoration /\ object = <<"xdg_toplevel_decoration", id>>
  <2>1. id \notin DOMAIN csd'
    BY <1>1, <1>4
  <2> QED
    BY <1>2, <1>4, <2>1 DEF FrameObjects
<1>6. made \cap objects = {}
  <2>1. SUFFICES ASSUME NEW object \in made, object \in objects PROVE FALSE
    OBVIOUS
  <2>2. object # <<"wl_surface", surface>>
    BY <2>1
  <2>3. object \in {<<"xdg_surface", id>>, <<"xdg_toplevel", id>>, <<"xdg_toplevel_decoration", id>>}
    BY <2>1, <2>2
  <2>4. object \notin AppObjects
    BY <2>3 DEF AppObjects
  <2>5. PICK i \in live : object \in FrameObjects(i)
    BY <1>0, <2>1, <2>4, ObjectsAre
  <2>6. object \notin CsdObjects(i) /\ object # <<"wl_surface", frames[i].surface>>
    BY <2>3 DEF CsdObjects
  <2>7. i = id
    BY <2>3, <2>5, <2>6, FrameObjectsAre
  <2> QED
    BY <1>1, <2>7
<1>7. Len(requests') \in Nat /\ Making(requests', made)
  BY <1>2, <1>3, CreationRequests
<1> HIDE DEF made
<1>8. objects' = objects \cup made /\ acked' = acked /\ protocol_ok'
  <2>1. \A i \in 1 .. Len(requests') : requests'[i].req # "new" => Plain(requests'[i])
    BY <1>7 DEF Making
  <2>2. \A object : object \in made <=> \E i \in 1 .. Len(requests') : Makes(i, object)
    BY <1>7 DEF Making, Makes
  <2>3. \A i \in 1 .. Len(requests') :
            requests'[i].req = "new" => requests'[i].object \notin objects
    BY <1>6, <2>2 DEF Makes
  <2>4. \A i, j \in 1 .. Len(requests') :
            requests'[i].req = "new" /\ Makes(j, requests'[i].object) => i = j
    BY <1>7 DEF Making, Makes
  <2> QED
    BY <1>0, <1>7, <2>1, <2>2, <2>3, <2>4, ReceiveNew
<1>9. \A i \in live : FrameObjects(i)' = FrameObjects(i)
  BY <1>4 DEF FrameObjects, CsdSurfaces, OwnSurface
<1>10. ObjectsExact'
  <2>1. AppObjects \subseteq objects /\ <<"wl_surface", surface>> \in FrameObjects(id)'
    BY <1>0, <1>5, ObjectsAre
  <2>2. ~owns => <<"wl_surface", surface>> \in AppObjects
    BY DEF AppObjects
  <2>3. objects' = objects \cup FrameObjects(id)'
    BY <1>5, <1>8, <2>1, <2>2 DEF made
  <2>4. objects' = (UNION {FrameObjects(i) : i \in live}) \cup AppObjects \cup FrameObjects(id)'
    BY <1>0, <2>3 DEF ObjectsExact, AppObjects
  <2>5. (UNION {FrameObjects(i)' : i \in live'}) = (UNION {FrameObjects(i) : i \in live}) \cup FrameObjects(id)'
    <3> DEFINE after(i) == FrameObjects(i)'
               before(i) == FrameObjects(i)
    <3>1. live' = live \cup {id} /\ \A i \in live : after(i) = before(i)
      BY <1>4, <1>9
    <3> HIDE DEF after, before
    <3>2. (UNION {after(i) : i \in live'}) = (UNION {before(i) : i \in live}) \cup after(id)
      BY <3>1
    <3> QED
      BY <3>2 DEF after, before
  <2> QED
    BY <2>4, <2>5 DEF ObjectsExact, AppObjects
<1> QED
  BY <1>8, <1>10 DEF NoProtocolError

(***************************************************************************)
(* Requests that free some objects, each once and after its dependents.    *)
(***************************************************************************)
Freeing(list, named) ==
    /\ list \in Seq([req : {"destroy"}, object : objects])
    /\ \A i, j \in 1 .. Len(list) : list[i].object = list[j].object => i = j
    /\ \A object : object \in named <=> \E i \in 1 .. Len(list) : list[i].object = object
    /\ \A i \in 1 .. Len(list) : \A dependent \in Dependents(list[i].object) \cap objects :
           \E j \in 1 .. i - 1 : list[j].object = dependent

LEMMA FreeOne ==
    ASSUME NEW list, NEW named, Freeing(list, named),
           NEW object \in objects, object \notin named, Dependents(object) \cap objects \subseteq named
    PROVE  Freeing(Append(list, Destroy(object)), named \cup {object})
<1> DEFINE S == [req : {"destroy"}, object : objects]
           r == Destroy(object)
           n == Len(list)
           longer == Append(list, r)
<1>1. r \in S /\ r.object = object
  BY DEF Destroy
<1> HIDE DEF r
<1>2. /\ longer \in Seq(S) /\ n \in Nat /\ Len(longer) = n + 1
      /\ \A i \in 1 .. n : longer[i] = list[i]
      /\ longer[n + 1] = r
  <2>1. list \in Seq(S)
    BY DEF Freeing
  <2> HIDE DEF S
  <2> QED
    BY <1>1, <2>1, AppendAt
<1>3. \A i \in 1 .. n : list[i].object # object
  BY DEF Freeing
<1> HIDE DEF longer, n
<1>4. \A i, j \in 1 .. n : list[i].object = list[j].object => i = j
  BY DEF Freeing, n
<1>5. ASSUME NEW i \in 1 .. Len(longer), NEW j \in 1 .. Len(longer),
             longer[i].object = longer[j].object
      PROVE  i = j
  BY <1>1, <1>2, <1>3, <1>4, <1>5
<1>6. ASSUME NEW o
      PROVE  o \in named \cup {object} <=> \E i \in 1 .. Len(longer) : longer[i].object = o
  <2>1. o \in named <=> \E i \in 1 .. n : list[i].object = o
    BY DEF Freeing, n
  <2>2. 1 .. Len(longer) = 1 .. n \cup {n + 1}
    BY <1>2
  <2> QED
    BY <1>1, <1>2, <2>1, <2>2
<1>7. ASSUME NEW i \in 1 .. Len(longer), NEW dependent \in Dependents(longer[i].object) \cap objects
      PROVE  \E j \in 1 .. i - 1 : longer[j].object = dependent
  <2>1. CASE i \in 1 .. n
    <3>1. PICK j \in 1 .. i - 1 : list[j].object = dependent
      BY <1>2, <1>7, <2>1 DEF Freeing, n
    <3>2. j \in 1 .. n
      BY <1>2, <2>1, <3>1
    <3> QED
      BY <1>2, <3>1, <3>2
  <2>2. CASE i = n + 1
    <3>1. dependent \in named
      BY <1>1, <1>2, <1>7, <2>2
    <3>2. PICK j \in 1 .. n : list[j].object = dependent
      BY <3>1 DEF Freeing, n
    <3> QED
      BY <1>2, <2>2, <3>2
  <2> QED
    BY <1>2, <2>1, <2>2
<1>8. Freeing(longer, named \cup {object})
  BY <1>2, <1>5, <1>6, <1>7 DEF Freeing
<1> QED
  BY <1>8 DEF longer, r

LEMMA FreeMaybe ==
    ASSUME NEW list, NEW named, Freeing(list, named), NEW c \in BOOLEAN, NEW object,
           c => /\ object \in objects /\ object \notin named
                /\ Dependents(object) \cap objects \subseteq named
    PROVE  Freeing(list \o (IF c THEN <<Destroy(object)>> ELSE <<>>),
                   named \cup (IF c THEN {object} ELSE {}))
<1> DEFINE S == [req : {"destroy"}, object : objects]
           r == Destroy(object)
<1>0. list \in Seq(S)
  BY DEF Freeing
<1>1. CASE c
  <2> DEFINE one == <<r>>
  <2>1. Freeing(Append(list, r), named \cup {object})
    BY <1>1, FreeOne
  <2>2. r \in S
    BY <1>1 DEF Destroy
  <2>3. one \in Seq(S) /\ Len(one) = 1 /\ one[1] = r
    BY <2>2
  <2> HIDE DEF S, r, one
  <2>4. list \o one = Append(list, one[1])
    BY <1>0, <2>3, ConcatOne
  <2> QED
    BY <1>1, <2>1, <2>3, <2>4 DEF one, r
<1>2. CASE ~c
  <2>1. list \o <<>> = list
    <3> HIDE DEF S
    <3> QED
      BY <1>0, ConcatEmptySeq
  <2>2. named \cup {} = named
    OBVIOUS
  <2> QED
    BY <1>2, <2>1, <2>2
<1> QED
  BY <1>1, <1>2

LEMMA FreeTwo ==
    ASSUME NEW list, NEW named, Freeing(list, named),
           NEW a \in objects, a \notin named, Dependents(a) \cap objects \subseteq named,
           NEW b \in objects, b \notin named \cup {a},
           Dependents(b) \cap objects \subseteq named \cup {a}
    PROVE  Freeing(list \o <<Destroy(a), Destroy(b)>>, named \cup {a} \cup {b})
<1> DEFINE S == [req : {"destroy"}, object : objects]
           r == Destroy(a)
           s == Destroy(b)
           two == <<r, s>>
<1>1. list \in Seq(S)
  BY DEF Freeing
<1>2. Freeing(Append(list, r), named \cup {a})
  BY FreeOne
<1>3. Freeing(Append(Append(list, r), s), named \cup {a} \cup {b})
  <2> DEFINE longer == Append(list, r)
             more == named \cup {a}
  <2>1. Freeing(longer, more) /\ b \notin more /\ Dependents(b) \cap objects \subseteq more
    BY <1>2
  <2> HIDE DEF longer, more
  <2>2. Freeing(Append(longer, s), more \cup {b})
    BY <2>1, FreeOne
  <2> QED
    BY <2>2 DEF longer, more
<1>4. r \in S /\ s \in S
  BY DEF Destroy
<1>5. two \in Seq(S) /\ Len(two) = 2 /\ two[1] = r /\ two[2] = s
  BY <1>4
<1> HIDE DEF S, r, s, two
<1>6. list \o two = Append(Append(list, two[1]), two[2])
  BY <1>1, <1>5, ConcatTwo
<1> QED
  BY <1>3, <1>5, <1>6 DEF two, r, s

(* What a frame's destruction frees: all it is made of but a surface that *)
(* is the application's.                                                  *)
Owned(id) ==
    (IF id \in DOMAIN csd THEN CsdObjects(id) ELSE {})
        \cup (IF frames[id].decoration THEN {<<"xdg_toplevel_decoration", id>>} ELSE {})
        \cup {<<"xdg_toplevel", id>>} \cup {<<"xdg_surface", id>>}
        \cup (IF frames[id].owns THEN {<<"wl_surface", frames[id].surface>>} ELSE {})

LEMMA DestroyFrees ==
    ASSUME SessionInv, NEW id \in live
    PROVE  Freeing(DestroyRequests(id), Owned(id))
<1> DEFINE S == [req : {"destroy"}, object : objects]
           decorated == id \in DOMAIN csd
           decoration == frames[id].decoration
           owns == frames[id].owns
           surface == frames[id].surface
           l1 == IF decorated THEN CsdRequests("destroy", id) ELSE <<>>
           l2 == l1 \o (IF decoration THEN <<Destroy(<<"xdg_toplevel_decoration", id>>)>> ELSE <<>>)
           l3 == l2 \o <<Destroy(<<"xdg_toplevel", id>>), Destroy(<<"xdg_surface", id>>)>>
           l4 == l3 \o (IF owns THEN <<Destroy(<<"wl_surface", surface>>)>> ELSE <<>>)
           n1 == IF decorated THEN CsdObjects(id) ELSE {}
           n2 == n1 \cup (IF decoration THEN {<<"xdg_toplevel_decoration", id>>} ELSE {})
           n3 == n2 \cup {<<"xdg_toplevel", id>>} \cup {<<"xdg_surface", id>>}
<1>1. ObjectsExact /\ OneFrameEach /\ decoration \in BOOLEAN /\ owns \in BOOLEAN
  BY DEF SessionInv, RegistryInv, TypeInv, TypeOK, Slot
<1>2. FrameObjects(id) \subseteq objects
  BY <1>1, ObjectsAre
<1>3. \A object : object \in CsdObjects(id) =>
          /\ object[1] = "subsurface" /\ Dependents(object) = {}
  BY DEF CsdObjects, Dependents
<1>4. Freeing(l1, n1)
  <2>1. CASE decorated
    <3> DEFINE r == CsdRequests("destroy", id)
    <3>1. r \in Seq([req : {"destroy"}, object : CsdObjects(id)]) /\ Each(r, "destroy", CsdObjects(id))
      BY CsdRequestsAre
    <3>2. CsdObjects(id) \subseteq objects
      BY <1>2, <2>1 DEF FrameObjects, CsdObjects
    <3> DEFINE T == [req : {"destroy"}, object : CsdObjects(id)]
    <3>3. r \in Seq(S)
      <4>1. T \subseteq S /\ r \in Seq(T)
        BY <3>1, <3>2
      <4> HIDE DEF S, T, r
      <4> QED
        BY <4>1, SeqMonotonic
    <3> HIDE DEF r
    <3>4. \A i \in 1 .. Len(r) : Dependents(r[i].object) = {}
      BY <1>3, <3>1 DEF Each
    <3>5. Freeing(r, CsdObjects(id))
      BY <3>1, <3>3, <3>4 DEF Freeing, Each
    <3> QED
      BY <2>1, <3>5 DEF r
  <2>2. CASE ~decorated
    <3>1. <<>> \in Seq(S)
      BY EmptySeq
    <3>2. Freeing(<<>>, {})
      BY <3>1 DEF Freeing
    <3> QED
      BY <2>2, <3>2
  <2> QED
    BY <2>1, <2>2
<1>5. Freeing(l2, n2)
  <2>1. <<"xdg_toplevel_decoration", id>> \notin n1
    BY <1>3
  <2>2. Dependents(<<"xdg_toplevel_decoration", id>>) = {}
    BY DEF Dependents
  <2>3. decoration => <<"xdg_toplevel_decoration", id>> \in objects
    BY <1>2 DEF FrameObjects
  <2> HIDE DEF l1, n1, decoration
  <2> QED
    BY <1>1, <1>4, <2>1, <2>2, <2>3, FreeMaybe
<1>6. Freeing(l3, n3)
  <2> DEFINE a == <<"xdg_toplevel", id>>
             b == <<"xdg_surface", id>>
  <2>1. a \notin n2 /\ b \notin n2 \cup {a}
    BY <1>3
  <2>2. Dependents(a) \cap objects \subseteq n2
    <3>1. Dependents(a) = {<<"xdg_toplevel_decoration", id>>}
      BY DEF Dependents
    <3>2. SUFFICES ASSUME <<"xdg_toplevel_decoration", id>> \in objects, ~decoration PROVE FALSE
      BY <1>1, <3>1
    <3>3. <<"xdg_toplevel_decoration", id>> \notin AppObjects
      BY DEF AppObjects
    <3>4. PICK i \in live : <<"xdg_toplevel_decoration", id>> \in FrameObjects(i)
      BY <1>1, <3>2, <3>3, ObjectsAre
    <3>5. <<"xdg_toplevel_decoration", id>> \notin CsdObjects(i)
      BY DEF CsdObjects
    <3>6. frames[i].decoration /\ i = id
      BY <3>4, <3>5, FrameObjectsAre
    <3> QED
      BY <3>2, <3>6
  <2>3. Dependents(b) = {a}
    BY DEF Dependents
  <2>4. a \in objects /\ b \in objects
    BY <1>2 DEF FrameObjects
  <2> HIDE DEF a, b, l2, n2
  <2>5. Freeing(l2 \o <<Destroy(a), Destroy(b)>>, n2 \cup {a} \cup {b})
    BY <1>5, <2>1, <2>2, <2>3, <2>4, FreeTwo
  <2> QED
    BY <2>5 DEF a, b
<1>7. Freeing(l4, Owned(id))
  <2> DEFINE object == <<"wl_surface", surface>>
  <2>1. object \notin n3
    BY <1>3
  <2>2. Dependents(object) \subseteq {<<"xdg_surface", id>>}
    <3>1. Dependents(object) = {<<"xdg_surface", i>> : i \in {i \in live : frames[i].surface = surface}}
      BY DEF Dependents
    <3>2. \A i \in live : frames[i].surface = surface => i = id
      BY <1>1 DEF OneFrameEach
    <3> QED
      BY <3>1, <3>2
  <2>3. object \in objects
    BY <1>2 DEF FrameObjects
  <2>4. <<"xdg_surface", id>> \in n3
    OBVIOUS
  <2> HIDE DEF object, l3, n3
  <2>5. Freeing(l3 \o (IF owns THEN <<Destroy(object)>> ELSE <<>>),
                n3 \cup (IF owns THEN {object} ELSE {}))
    <3> HIDE DEF owns
    <3> QED
      BY <1>1, <1>6, <2>1, <2>2, <2>3, <2>4, FreeMaybe
  <2> QED
    BY <2>5 DEF object, n3, Owned
<1> QED
  BY <1>7 DEF DestroyRequests, DestroyDecorations, DestroyOwnSurface

(* destroy_frame frees what the frame owned, and nothing of another. *)
LEMMA DestroyObjects ==
    ASSUME SessionInv, Receive, NEW id \in live, DestroyFrame(id)
    PROVE  ObjectsExact' /\ NoProtocolError' /\ acked' = acked
<1>0. SentTypes /\ ObjectsExact /\ protocol_ok /\ OneFrameEach /\ Ownership
  BY DEF SessionInv, RegistryInv, InOrder, NoProtocolError
<1>1. requests' = DestroyRequests(id) /\ Freeing(requests', Owned(id))
  BY DestroyFrees DEF DestroyFrame
<1>2. objects' = objects \ Owned(id) /\ acked' = acked /\ protocol_ok'
  <2> DEFINE n == Len(requests')
  <2>1. requests' \in Seq([req : {"destroy"}, object : objects])
    BY <1>1 DEF Freeing
  <2>2. n \in Nat /\ \A i \in 1 .. n : requests'[i] \in [req : {"destroy"}, object : objects]
    BY <2>1, LenProperties, ElementOfSeq
  <2>3. \A i \in 1 .. n : requests'[i].req = "destroy" /\ requests'[i].object \in objects
    BY <2>2
  <2> QED
    BY <1>0, <1>1, <2>2, <2>3, ReceiveDestroy DEF Freeing
<1>3. /\ live' = live \ {id} /\ DOMAIN csd' = DOMAIN csd \ {id}
      /\ \A i \in live' : frames'[i] = frames[i]
  BY DEF DestroyFrame, Without, Restrict, live
<1>4. \A i \in live' : FrameObjects(i)' = FrameObjects(i)
  BY <1>3 DEF FrameObjects, CsdSurfaces, OwnSurface
<1>5. ASSUME NEW object
      PROVE  object \in objects' <=>
                 object \in AppObjects \/ \E i \in live' : object \in FrameObjects(i)
  <2>1. CASE object \in AppObjects
    <3>1. object \in objects
      BY <1>0, <2>1, ObjectsAre
    <3>2. PICK surface \in AppSurfaces : object = <<"wl_surface", surface>>
      BY <2>1 DEF AppObjects
    <3>3. object \notin CsdObjects(id)
      BY <3>2 DEF CsdObjects
    <3>4. frames[id].owns => frames[id].surface \notin AppSurfaces
      <4>1. id \in Nat /\ "Content" \in SurfaceParts
        BY DEF SessionInv, RegistryInv, TypeInv, TypeOK, Allocated, SurfaceParts, DecorationParts
      <4>2. <<id, "Content">> \in Nat \X SurfaceParts
        BY <4>1
      <4>3. <<id, "Content">> \notin AppSurfaces
        BY <4>2, SurfaceAssumption
      <4>4. frames[id].owns => frames[id].surface = <<id, "Content">>
        BY <1>0 DEF Ownership, OwnSurface
      <4> QED
        BY <4>3, <4>4
    <3>5. object \notin Owned(id)
      BY <3>2, <3>3, <3>4 DEF Owned
    <3> QED
      BY <1>2, <2>1, <3>1, <3>5
  <2>2. CASE object \notin AppObjects
    <3>1. object \in FrameObjects(id) <=> object \in Owned(id)
      <4>1. ~frames[id].owns => object # <<"wl_surface", frames[id].surface>>
        BY <1>0, <2>2 DEF Ownership, AppObjects
      <4> QED
        BY <4>1, FrameObjectsAre DEF Owned
    <3>2. ASSUME NEW i \in live', object \in FrameObjects(i) PROVE object \notin FrameObjects(id)
      <4>1. i # id /\ frames[i].surface # frames[id].surface
        BY <1>0, <1>3 DEF OneFrameEach
      <4>2. CASE object \in CsdObjects(i)
        <5>1. object \notin CsdObjects(id)
          BY <4>1, <4>2 DEF CsdObjects, CsdSurfaces, OwnSurface
        <5>2. object[1] = "subsurface"
          BY <4>2 DEF CsdObjects
        <5> QED
          BY <5>1, <5>2, FrameObjectsAre
      <4>3. CASE object \notin CsdObjects(i)
        <5>1. \/ object = <<"xdg_surface", i>> \/ object = <<"xdg_toplevel", i>>
              \/ object = <<"wl_surface", frames[i].surface>>
              \/ object = <<"xdg_toplevel_decoration", i>>
          BY <3>2, <4>3, FrameObjectsAre
        <5>2. object \notin CsdObjects(id)
          BY <5>1 DEF CsdObjects
        <5> QED
          BY <4>1, <5>1, <5>2, FrameObjectsAre
      <4> QED
        BY <4>2, <4>3
    <3>3. object \in objects <=> \E i \in live : object \in FrameObjects(i)
      BY <1>0, <2>2, ObjectsAre
    <3> QED
      BY <1>2, <1>3, <2>2, <3>1, <3>2, <3>3
  <2> QED
    BY <2>1, <2>2
<1>6. ObjectsExact'
  <2>1. \A object : object \in objects' <=>
            object \in AppObjects \/ \E i \in live' : object \in FrameObjects(i)'
    BY <1>4, <1>5
  <2> DEFINE after(i) == FrameObjects(i)'
  <2> HIDE DEF after
  <2>2. objects' = (UNION {after(i) : i \in live'}) \cup AppObjects
    BY <2>1 DEF after
  <2> QED
    BY <2>2 DEF ObjectsExact, AppObjects, after
<1> QED
  BY <1>2, <1>6 DEF NoProtocolError

(* Frame::commit acknowledges, if there is anything to, and then sets the *)
(* geometry, if there are decorations.                                    *)
LEMMA CommitRequests ==
    ASSUME NEW a, NEW g, Plain(g), NEW answers \in BOOLEAN, NEW has_csd \in BOOLEAN, NEW list,
           list = (IF answers THEN <<a>> ELSE <<>>) \o (IF has_csd THEN <<g>> ELSE <<>>)
    PROVE  /\ Len(list) \in Nat
           /\ answers => /\ Len(list) # 0 /\ list[1] = a
                         /\ \A i \in 2 .. Len(list) : Plain(list[i])
           /\ ~answers => \A i \in 1 .. Len(list) : Plain(list[i])
<1> DEFINE S == {a, g}
           ack == <<a>>
           set == <<g>>
<1>1. /\ ack \in Seq(S) /\ Len(ack) = 1 /\ ack[1] = a
      /\ set \in Seq(S) /\ Len(set) = 1 /\ set[1] = g
      /\ <<>> \in Seq(S) /\ Len(<<>>) = 0
  OBVIOUS
<1>2. list = (IF answers THEN ack ELSE <<>>) \o (IF has_csd THEN set ELSE <<>>)
  OBVIOUS
<1>3. g \in S
  OBVIOUS
<1> HIDE DEF S, ack, set
<1>4. CASE has_csd
  <2> DEFINE first == IF answers THEN ack ELSE <<>>
             longer == Append(first, g)
  <2>0. first \in Seq(S)
    BY <1>1
  <2>1. (answers => Len(first) = 1) /\ (~answers => Len(first) = 0)
    BY <1>1
  <2>2. first \o set = longer
    <3> HIDE DEF first
    <3> QED
      BY <1>1, <2>0, ConcatOne
  <2>3. /\ Len(first) \in Nat /\ Len(longer) = Len(first) + 1
        /\ \A i \in 1 .. Len(first) : longer[i] = first[i]
        /\ longer[Len(first) + 1] = g
    <3> HIDE DEF first
    <3> QED
      BY <1>3, <2>0, AppendAt
  <2>4. list = longer
    BY <1>2, <1>4, <2>2
  <2>5. answers => first[1] = a
    BY <1>1
  <2> HIDE DEF longer, first
  <2> QED
    BY <2>1, <2>3, <2>4, <2>5
<1>5. CASE ~has_csd
  <2>1. ack \o <<>> = ack /\ <<>> \o <<>> = <<>>
    BY <1>1, ConcatEmptySeq
  <2> QED
    BY <1>1, <1>2, <1>5, <2>1
<1> QED
  BY <1>4, <1>5

LEMMA CommitKeeps ==
    ASSUME TypeOK, NEW id \in live, NEW size, NEW cfg, NEW painted, Commit(id, size, cfg, painted)
    PROVE  /\ live' = live /\ DOMAIN csd' = DOMAIN csd
           /\ \A i \in live : /\ frames'[i].surface = frames[i].surface
                              /\ frames'[i].decoration = frames[i].decoration
<1>1. frames \in [live -> Slot] /\ frames[id] \in Slot
  BY DEF TypeOK
<1>2. /\ live' = live
      /\ \A i \in live : /\ frames'[i].surface = frames[i].surface
                         /\ frames'[i].decoration = frames[i].decoration
  BY <1>1 DEF Commit, live, Slot
<1>3. DOMAIN csd' = DOMAIN csd
  BY DEF Commit
<1> QED
  BY <1>2, <1>3

(* The application answers the configuration it holds. *)
LEMMA ConfiguredSession ==
    ASSUME SessionInv, Receive, UNCHANGED <<wire, sent>>, NEW id \in live, NEW painted,
           CommitConfigured(id, painted)
    PROVE  /\ InOrder' /\ ObjectsExact' /\ NoProtocolError'
           /\ Issued(held[id].serial, id) /\ held[id].serial > acked[id]
           /\ acked' = [acked EXCEPT ![id] = held[id].serial]
<1>0. SentTypes /\ InOrder /\ ObjectsExact /\ protocol_ok /\ TypeOK
  BY DEF SessionInv, RegistryInv, TypeInv, InOrder, NoProtocolError
<1>1. id \in DOMAIN held /\ id \in FrameIds
  <2>1. next_id \in Nat /\ next_id <= MaxFrames /\ id \in 0 .. next_id - 1 /\ MaxFrames \in Nat
    BY <1>0, ConstantAssumption DEF TypeOK, SentTypes, Allocated, ConstantAssumption
  <2> QED
    BY <2>1 DEF CommitConfigured, FrameIds
<1>2. PICK size : Commit(id, size, Some(held[id]), painted)
  BY DEF CommitConfigured
<1> DEFINE serial == held[id].serial
<1>3. Issued(serial, id) /\ acked[id] < serial
  BY <1>0, <1>1 DEF InOrder, HeldInOrder
<1>4. /\ Len(requests') \in Nat \ {0}
      /\ requests'[1] = [req |-> "ack_configure", frame |-> id, serial |-> serial]
      /\ \A i \in 2 .. Len(requests') : Plain(requests'[i])
  <2> DEFINE a == [req |-> "ack_configure", frame |-> id, serial |-> serial]
             g == [req |-> "set_window_geometry", frame |-> id, size |-> GeometryOf(size, TRUE)]
  <2>1. Some(held[id]) # None /\ Some(held[id])[1].serial = serial
    BY DEF Some, None
  <2>2. requests' = (IF TRUE THEN <<a>> ELSE <<>>) \o (IF id \in DOMAIN csd THEN <<g>> ELSE <<>>)
    BY <1>2, <2>1 DEF Commit
  <2>3. Plain(g)
    BY DEF Plain
  <2> HIDE DEF a, g
  <2>4. /\ Len(requests') \in Nat /\ Len(requests') # 0 /\ requests'[1] = a
        /\ \A i \in 2 .. Len(requests') : Plain(requests'[i])
    BY <2>2, <2>3, CommitRequests
  <2> QED
    BY <2>4 DEF a
<1>10. serial > acked[id]
  BY <1>0, <1>1, <1>3, IssuedIs DEF SentTypes
<1>5. /\ objects' = objects /\ acked' = [acked EXCEPT ![id] = serial] /\ protocol_ok'
  <2> HIDE DEF serial
  <2> QED
    BY <1>0, <1>1, <1>3, <1>10, <1>4, ReceiveAck
<1>6. ObjectsExact'
  BY <1>0, <1>2, <1>5, CommitKeeps, ObjectsStable
<1>7. InOrder'
  <2>1. held' = Without(held, {id}) /\ UNCHANGED <<next_id, events>>
    BY <1>2 DEF Commit, Some, None
  <2> QED
    BY <1>0, <1>1, <1>5, <2>1, AnsweredInOrder
<1> QED
  BY <1>3, <1>10, <1>5, <1>6, <1>7 DEF NoProtocolError

(* A commit without a configuration acknowledges nothing. *)
LEMMA ResizedSession ==
    ASSUME SessionInv, Receive, UNCHANGED <<wire, sent>>, NEW id \in live, NEW painted,
           CommitResized(id, painted)
    PROVE  InOrder' /\ ObjectsExact' /\ NoProtocolError' /\ acked' = acked
<1>0. SentTypes /\ InOrder /\ ObjectsExact /\ protocol_ok /\ TypeOK
  BY DEF SessionInv, RegistryInv, TypeInv, InOrder, NoProtocolError
<1>1. PICK size : Commit(id, size, None, painted)
  BY DEF CommitResized
<1>2. Len(requests') \in Nat /\ \A i \in 1 .. Len(requests') : Plain(requests'[i])
  <2> DEFINE g == [req |-> "set_window_geometry", frame |-> id, size |-> GeometryOf(size, TRUE)]
  <2>1. requests' = (IF FALSE THEN <<0>> ELSE <<>>) \o (IF id \in DOMAIN csd THEN <<g>> ELSE <<>>)
    BY <1>1 DEF Commit
  <2>2. Plain(g)
    BY DEF Plain
  <2> HIDE DEF g
  <2> QED
    BY <2>1, <2>2, CommitRequests
<1>3. UNCHANGED <<objects, acked, protocol_ok>>
  BY <1>0, <1>2, ReceivePlain
<1>4. ObjectsExact'
  BY <1>0, <1>1, <1>3, CommitKeeps, ObjectsStable
<1>5. InOrder'
  <2>1. UNCHANGED <<next_id, events, held>>
    BY <1>1 DEF Commit
  <2>2. next_id \in Nat /\ next_id <= MaxFrames
    BY <1>0 DEF TypeOK, SentTypes
  <2> QED
    BY <1>0, <1>3, <2>1, <2>2, OrderStable
<1> QED
  BY <1>0, <1>3, <1>4, <1>5 DEF NoProtocolError

-----------------------------------------------------------------------------
(***************************************************************************)
(* The steps of the session.                                               *)
(***************************************************************************)
(* A step whose requests make, free and acknowledge nothing, and that keeps *)
(* the frames, the serials and what the frames are made of.                 *)
LEMMA QuietSession ==
    ASSUME SessionInv, Receive, UNCHANGED <<wire, sent>>,
           Len(requests') \in Nat, \A i \in 1 .. Len(requests') : Plain(requests'[i]),
           UNCHANGED <<next_id, events, held>>, live' = live, DOMAIN csd' = DOMAIN csd,
           \A i \in live : /\ frames'[i].surface = frames[i].surface
                           /\ frames'[i].decoration = frames[i].decoration
    PROVE  InOrder' /\ ObjectsExact' /\ NoProtocolError'
<1>1. SentTypes /\ InOrder /\ ObjectsExact /\ protocol_ok /\ next_id \in Nat /\ next_id <= MaxFrames
  BY DEF SessionInv, RegistryInv, TypeInv, TypeOK, InOrder, SentTypes, NoProtocolError
<1>2. UNCHANGED <<objects, acked, protocol_ok>>
  BY <1>1, ReceivePlain
<1> QED
  BY <1>1, <1>2, ObjectsStable, OrderStable DEF NoProtocolError

LEMMA NoRequests ==
    ASSUME requests' = <<>>
    PROVE  Len(requests') \in Nat /\ \A i \in 1 .. Len(requests') : Plain(requests'[i])
OBVIOUS

LEMMA OneRequest ==
    ASSUME NEW r, Plain(r), requests' = <<r>>
    PROVE  Len(requests') \in Nat /\ \A i \in 1 .. Len(requests') : Plain(requests'[i])
<1>1. Len(requests') = 1 /\ requests'[1] = r
  OBVIOUS
<1>2. \A i \in 1 .. 1 : i = 1
  OBVIOUS
<1> QED
  BY <1>1, <1>2

(* The frames and what they are made of outlast their events. *)
LEMMA FrameEventKeeps ==
    ASSUME TypeOK, NEW id, FrameEvent(id)
    PROVE  /\ live' = live
           /\ \A i \in live : /\ frames'[i].surface = frames[i].surface
                              /\ frames'[i].decoration = frames[i].decoration
<1>1. frames \in [live -> Slot] /\ (id \in live => frames[id] \in Slot)
  BY DEF TypeOK
<1>2. CASE frames' = frames
  BY <1>2 DEF live
<1>3. ASSUME NEW slot, id \in live, frames' = [frames EXCEPT ![id] = slot],
             slot.surface = frames[id].surface, slot.decoration = frames[id].decoration
      PROVE  /\ live' = live
             /\ \A i \in live : /\ frames'[i].surface = frames[i].surface
                                /\ frames'[i].decoration = frames[i].decoration
  BY <1>1, <1>3 DEF live
<1>4. CASE \E serial \in Serials : XdgSurfaceConfigure(id, serial)
  BY <1>1, <1>2, <1>3, <1>4 DEF XdgSurfaceConfigure, TakePending, Slot
<1>5. CASE \E size \in WindowSizes \cup {<<0, 0>>}, states \in StateSets :
               ToplevelConfigure(id, size, states)
  <2>1. PICK size, states : ToplevelConfigure(id, size, states)
    BY <1>5
  <2> QED
    BY <1>1, <2>1 DEF ToplevelConfigure, live, Slot
<1>6. CASE ToplevelClose(id)
  BY <1>2, <1>6 DEF ToplevelClose
<1>7. CASE \E size \in BoundSizes : ToplevelConfigureBounds(id, size)
  BY <1>1, <1>2, <1>3, <1>7 DEF ToplevelConfigureBounds, Slot
<1>8. CASE \E wm \in WmCapSets : ToplevelWmCapabilities(id, wm)
  BY <1>1, <1>2, <1>3, <1>8 DEF ToplevelWmCapabilities, Slot
<1>9. CASE \E mode \in Modes : DecorationConfigure(id, mode)
  BY <1>1, <1>2, <1>3, <1>9 DEF DecorationConfigure, Slot
<1> QED
  BY <1>4, <1>5, <1>6, <1>7, <1>8, <1>9 DEF FrameEvent

LEMMA DeliveredSession ==
    ASSUME SessionInv, Deliver
    PROVE  SessionInv'
<1> DEFINE m == Head(wire)
           id == m.frame
<1>0. SentTypes /\ InOrder /\ ObjectsExact /\ protocol_ok /\ RegistryInv /\ TypeInv /\ TypeOK
  BY DEF SessionInv, RegistryInv, TypeInv, InOrder, NoProtocolError
<1>1. /\ m \in Messages /\ id \in Allocated
      /\ m.type = "configure" => Issued(m.value, id) /\ m.value \in Serials
  <2>1. wire \in Seq(Messages) /\ wire # <<>>
    BY <1>0 DEF SentTypes, Deliver
  <2>2. Head(wire) = wire[1] /\ 1 \in DOMAIN wire /\ m \in Messages
    BY <2>1, TailAt
  <2>3. id \in Allocated
    BY <1>0, <2>2 DEF SentTypes
  <2>4. m.type = "configure" => Issued(m.value, id)
    BY <1>0, <2>2 DEF InOrder, WireInOrder, WireConfigures
  <2> QED
    BY <1>0, <2>2, <2>3, <2>4, IssuedIs
<1>2. /\ m.type = "toplevel" => m.value.size \in WindowSizes \cup {<<0, 0>>}
                                  /\ m.value.states \in StateSets
      /\ m.type = "mode" => m.value \in Modes
      /\ m.type = "bounds" => m.value \in BoundSizes
      /\ m.type = "wm" => m.value \in WmCapSets
  <2> HIDE DEF m
  <2>1. m.type = "toplevel" => m.value \in ToplevelStates
    BY <1>1 DEF Messages
  <2>2. m.type = "mode" => m.value \in Modes
    BY <1>1 DEF Messages
  <2>3. m.type = "bounds" => m.value \in BoundSizes
    BY <1>1 DEF Messages
  <2>4. m.type = "wm" => m.value \in WmCapSets
    BY <1>1 DEF Messages
  <2> QED
    BY <2>1, <2>2, <2>3, <2>4 DEF ToplevelStates
<1>3. FrameEvent(id)
  BY <1>1, <1>2 DEF Deliver, FrameEvent
<1>4. TypeInv'
  <2> HIDE DEF id
  <2> QED
    BY <1>0, <1>1, <1>3, XdgSurfaceConfigureType, ToplevelType, DecorationConfigureType
       DEF FrameEvent
<1>5. RegistryInv'
  <2> HIDE DEF id
  <2> QED
    BY <1>0, <1>1, <1>3, <1>4, FrameEventRegistry
<1>6. /\ live' = live
      /\ \A i \in live : /\ frames'[i].surface = frames[i].surface
                         /\ frames'[i].decoration = frames[i].decoration
  <2> HIDE DEF id
  <2> QED
    BY <1>0, <1>3, FrameEventKeeps
<1>7. Receive /\ wire # <<>> /\ wire' = Tail(wire) /\ sent' = sent
  BY DEF Deliver
<1>8. events \in Seq(EventType) /\ events' \in Seq(EventType) /\ Len(events) \in Nat
  BY <1>0, <1>4 DEF TypeInv, TypeOK
<1>9. ASSUME requests' = <<>>, csd' = csd
      PROVE  ObjectsExact' /\ NoProtocolError' /\ acked' = acked
  <2>1. UNCHANGED <<objects, acked, protocol_ok>>
    BY <1>0, <1>7, <1>9, NoRequests, ReceivePlain
  <2> QED
    BY <1>0, <1>6, <1>9, <2>1, ObjectsStable DEF NoProtocolError
<1>10. CASE m.type = "configure" /\ XdgSurfaceConfigure(id, m.value)
  <2>1. UNCHANGED <<next_id, held>>
    BY <1>10 DEF XdgSurfaceConfigure
  <2>2. ObjectsExact' /\ NoProtocolError' /\ acked' = acked
    BY <1>6, <1>7, <1>10, EnsureCsdObjects DEF XdgSurfaceConfigure
  <2>3. CASE id \notin live
    <3>1. events' = events
      BY <1>10, <2>3 DEF XdgSurfaceConfigure
    <3> QED
      BY <1>0, <1>5, <1>7, <2>1, <2>2, <3>1, TakenInOrder DEF SessionInv
  <2>4. CASE id \in live
    <3> DEFINE event == [type |-> "Configure", frame |-> id,
                         configuration |->
                             Configuration(m.value, frames[id].pending, id \in DOMAIN csd')]
    <3>1. events' = Append(events, event)
      BY <1>10, <2>4 DEF XdgSurfaceConfigure
    <3>2. event \in EventType
      <4>1. frames[id].pending \in Pending /\ id \in Nat
        BY <1>0, <1>1, <2>4 DEF TypeOK, Slot, Allocated
      <4>2. Configuration(m.value, frames[id].pending, id \in DOMAIN csd') \in Configurations
        BY <1>1, <1>10, <4>1, ConfigurationType
      <4> QED
        BY <4>1, <4>2 DEF EventType
    <3>3. /\ event.type = "Configure" /\ event.frame = Head(wire).frame
          /\ event.configuration.serial = Head(wire).value
      BY DEF Configuration
    <3> HIDE DEF event
    <3>4. InOrder'
      BY <1>0, <1>7, <1>8, <1>10, <2>1, <2>2, <3>1, <3>2, <3>3, ConfigureInOrder
    <3> QED
      BY <1>5, <2>2, <3>4 DEF SessionInv
  <2> QED
    BY <2>3, <2>4
<1>11. CASE m.type = "toplevel" /\ ToplevelConfigure(id, m.value.size, m.value.states)
  <2>1. UNCHANGED <<next_id, held, events, csd>> /\ requests' = <<>>
    BY <1>11 DEF ToplevelConfigure
  <2> QED
    BY <1>0, <1>5, <1>7, <1>9, <2>1, TakenInOrder DEF SessionInv
<1>12. CASE m.type = "mode" /\ DecorationConfigure(id, m.value)
  <2>1. UNCHANGED <<next_id, held, events>>
    BY <1>12 DEF DecorationConfigure
  <2>2. ObjectsExact' /\ NoProtocolError' /\ acked' = acked
    BY <1>6, <1>7, <1>12, EnsureCsdObjects DEF DecorationConfigure
  <2> QED
    BY <1>0, <1>5, <1>7, <2>1, <2>2, TakenInOrder DEF SessionInv
<1>13. CASE m.type = "bounds" /\ ToplevelConfigureBounds(id, m.value)
  <2>1. UNCHANGED <<next_id, held, csd>> /\ requests' = <<>>
    BY <1>13 DEF ToplevelConfigureBounds
  <2>2. CASE id \notin live
    <3>1. events' = events
      BY <1>13, <2>2 DEF ToplevelConfigureBounds
    <3> QED
      BY <1>0, <1>5, <1>7, <1>9, <2>1, <3>1, TakenInOrder DEF SessionInv
  <2>3. CASE id \in live
    <3> DEFINE event == [type |-> "Bounds", frame |-> id, size |-> m.value]
    <3>1. events' = Append(events, event)
      BY <1>13, <2>3 DEF ToplevelConfigureBounds
    <3>2. event \in EventType /\ event.type # "Configure"
      <4>1. m.value \in Size /\ id \in Nat
        BY <1>0, <1>1, <1>2, <1>13, ConstantAssumption DEF Size, TypeOK, Allocated
      <4> QED
        BY <4>1 DEF EventType
    <3> HIDE DEF event
    <3>3. InOrder'
      BY <1>0, <1>7, <1>8, <1>9, <2>1, <3>1, <3>2, OtherEventInOrder
    <3> QED
      BY <1>5, <1>9, <2>1, <3>3 DEF SessionInv
  <2> QED
    BY <2>2, <2>3
<1>14. CASE m.type = "wm" /\ ToplevelWmCapabilities(id, m.value)
  <2>1. UNCHANGED <<next_id, held, events, csd>> /\ requests' = <<>>
    BY <1>14 DEF ToplevelWmCapabilities
  <2> QED
    BY <1>0, <1>5, <1>7, <1>9, <2>1, TakenInOrder DEF SessionInv
<1>15. CASE m.type = "close" /\ ToplevelClose(id)
  <2>1. UNCHANGED <<next_id, held, csd>> /\ requests' = <<>>
    BY <1>15 DEF ToplevelClose
  <2>2. CASE id \notin live
    <3>1. events' = events
      BY <1>15, <2>2 DEF ToplevelClose
    <3> QED
      BY <1>0, <1>5, <1>7, <1>9, <2>1, <3>1, TakenInOrder DEF SessionInv
  <2>3. CASE id \in live
    <3> DEFINE event == [type |-> "Close", frame |-> id]
    <3>1. events' = Append(events, event)
      BY <1>15, <2>3 DEF ToplevelClose
    <3>2. event \in EventType /\ event.type # "Configure"
      <4>1. id \in Nat
        BY <1>0, <1>1 DEF TypeOK, Allocated
      <4> QED
        BY <4>1 DEF EventType
    <3> HIDE DEF event
    <3>3. InOrder'
      BY <1>0, <1>7, <1>8, <1>9, <2>1, <3>1, <3>2, OtherEventInOrder
    <3> QED
      BY <1>5, <1>9, <2>1, <3>3 DEF SessionInv
  <2> QED
    BY <2>2, <2>3
<1> QED
  BY <1>10, <1>11, <1>12, <1>13, <1>14, <1>15 DEF Deliver

(* The compositor sends. *)
LEMMA SendSession ==
    ASSUME SessionInv, NEW id \in live, Send(id)
    PROVE  SessionInv'
<1>0. SentTypes /\ InOrder /\ RegistryInv /\ TypeInv /\ TypeOK
  BY DEF SessionInv, RegistryInv, TypeInv, InOrder
<1>1. UNCHANGED <<vars, acked, objects, protocol_ok>>
  BY DEF Send, SendConfigure, SendOther
<1>2. RegistryInv' /\ ObjectsExact' /\ NoProtocolError'
  <2>1. live' = live
    BY <1>1 DEF vars, inner, live
  <2>2. TypeInv'
    BY <1>0, <1>1 DEF vars, inner, TypeInv, TypeOK, PointersExist, live, Allocated
  <2>3. RegistryInv'
    BY <1>0, <1>1, <2>1, <2>2, RegistryStable DEF vars, inner
  <2> QED
    BY <1>1, <2>1, <2>3, ObjectsStable DEF SessionInv, NoProtocolError, vars, inner
<1>3. id \in Allocated /\ id \in Nat /\ wire \in Seq(Messages)
  BY <1>0 DEF TypeOK, Allocated, SentTypes
<1>4. UNCHANGED <<next_id, acked, held, events>>
  BY <1>1 DEF vars, inner
<1>5. Lengthens(wire, wire, id)
  <2>1. Len(wire) \in Nat
    BY <1>3
  <2> QED
    BY <1>3, <2>1 DEF Lengthens
<1>6. ASSUME NEW message \in Messages, message.type # "configure", message.frame = id,
             SendOther(id, message)
      PROVE  InOrder'
  <2>1. Lengthens(Append(wire, message), wire, id)
    BY <1>3, <1>5, <1>6, AppendLengthens
  <2>2. Lengthens(wire', wire, id) /\ sent' = sent
    BY <1>6, <2>1 DEF SendOther
  <2> QED
    BY <1>0, <1>3, <1>4, <2>2, SentOtherInOrder
<1>7. ASSUME NEW mode \in Option(Modes), NEW toplevel \in Option(ToplevelStates),
             NEW bounds \in Option(BoundSizes), SendConfigure(id, mode, toplevel, bounds)
      PROVE  InOrder'
  <2> DEFINE q1 == wire \o Part("bounds", id, bounds)
             q2 == q1 \o Part("mode", id, mode)
             q3 == q2 \o Part("toplevel", id, toplevel)
             batch == [frame |-> id, mode |-> mode, toplevel |-> toplevel]
             m == Message("configure", id, Len(sent) + 1)
  <2>1. Lengthens(q1, wire, id)
    <3>1. bounds # None => Message("bounds", id, bounds[1]) \in Messages
      BY <1>3, OptionValue DEF Message, Messages
    <3> QED
      BY <1>3, <1>5, <3>1, PartLengthens
  <2>2. Lengthens(q2, wire, id)
    <3>1. mode # None => Message("mode", id, mode[1]) \in Messages
      BY <1>3, OptionValue DEF Message, Messages
    <3> HIDE DEF q1
    <3> QED
      BY <1>3, <2>1, <3>1, PartLengthens
  <2>3. Lengthens(q3, wire, id)
    <3>1. toplevel # None => Message("toplevel", id, toplevel[1]) \in Messages
      BY <1>3, OptionValue DEF Message, Messages
    <3> HIDE DEF q2
    <3> QED
      BY <1>3, <2>2, <3>1, PartLengthens
  <2>4. m \in Messages
    BY <1>0, <1>3 DEF Message, Messages, SentTypes
  <2>5. sent' = Append(sent, batch) /\ wire' = q3 \o <<m>> /\ Len(sent) < MaxConfigures
    BY <1>7 DEF SendConfigure
  <2>6. batch \in Batch /\ batch.frame = id
    BY <1>3 DEF Batch
  <2>7. q3 \o <<m>> = Append(q3, m)
    <3> DEFINE one == <<m>>
    <3>1. one \in Seq(Messages) /\ Len(one) = 1 /\ one[1] = m
      BY <2>4
    <3>2. q3 \in Seq(Messages)
      BY <2>3 DEF Lengthens
    <3> HIDE DEF q3, m, one
    <3>3. q3 \o one = Append(q3, one[1])
      BY <3>1, <3>2, ConcatOne
    <3> QED
      BY <3>1, <3>3 DEF one
  <2> HIDE DEF q3, batch
  <2> QED
    BY <1>0, <1>3, <1>4, <2>3, <2>5, <2>6, <2>7, SentConfigureInOrder
<1>8. InOrder'
  <2>1. \A wm \in WmCapSets : Message("wm", id, wm) \in Messages
    BY <1>3 DEF Message, Messages
  <2>2. Message("close", id, {}) \in Messages
    BY <1>3 DEF Message, Messages
  <2>3. \A value : /\ Message("wm", id, value).type # "configure" /\ Message("wm", id, value).frame = id
                   /\ Message("close", id, value).type # "configure"
                   /\ Message("close", id, value).frame = id
    BY DEF Message
  <2> QED
    BY <1>6, <1>7, <2>1, <2>2, <2>3 DEF Send
<1> QED
  BY <1>2, <1>8 DEF SessionInv

(* The application polls. *)
LEMMA PollSession ==
    ASSUME SessionInv, Poll
    PROVE  SessionInv'
<1>0. SentTypes /\ InOrder /\ ObjectsExact /\ protocol_ok /\ RegistryInv /\ TypeInv /\ TypeOK
  BY DEF SessionInv, RegistryInv, TypeInv, InOrder, NoProtocolError
<1>1. PollEvent /\ Receive /\ UNCHANGED <<wire, sent>>
  BY DEF Poll
<1>2. TypeInv' /\ TypeOK'
  BY <1>0, <1>1, PollType DEF TypeInv
<1>3. RegistryInv'
  BY <1>0, <1>1, <1>2, RegistryStable DEF PollEvent, live
<1>4. UNCHANGED <<objects, acked, protocol_ok>>
  BY <1>0, <1>1, NoRequests, ReceivePlain DEF PollEvent
<1>5. ObjectsExact'
  BY <1>0, <1>1, <1>4, ObjectsStable DEF PollEvent, live
<1>6. live \subseteq FrameIds
  <2>1. next_id \in Nat /\ next_id <= MaxFrames /\ live \subseteq 0 .. next_id - 1 /\ MaxFrames \in Nat
    BY <1>0, ConstantAssumption DEF TypeOK, SentTypes, Allocated, ConstantAssumption
  <2> QED
    BY <2>1 DEF FrameIds
<1>7. InOrder'
  BY <1>0, <1>1, <1>2, <1>4, <1>6, PolledInOrder
<1> QED
  BY <1>0, <1>3, <1>4, <1>5, <1>7 DEF SessionInv, NoProtocolError

(* A frame is created, on a surface of its own or the application's. *)
LEMMA CreatedSession ==
    ASSUME SessionInv, Receive, UNCHANGED <<wire, sent>>,
           NEW surface, NEW owns \in BOOLEAN, NEW creation,
           decorate_inner(surface, owns, creation),
           creation = IF owns THEN <<New(<<"wl_surface", surface>>)>> ELSE <<>>,
           IF owns THEN <<"wl_surface", surface>> \notin objects ELSE surface \in AppSurfaces
    PROVE  InOrder' /\ ObjectsExact' /\ NoProtocolError'
<1>1. ObjectsExact' /\ NoProtocolError' /\ acked' = acked
  BY DecorateObjects
<1>2. InOrder /\ next_id \in Nat /\ MaxFrames \in Nat
  BY ConstantAssumption DEF SessionInv, RegistryInv, TypeInv, TypeOK, ConstantAssumption
<1>3. next_id' = next_id + 1 /\ next_id < MaxFrames /\ UNCHANGED <<events, held>>
  BY DEF decorate_inner
<1>4. next_id' \in Nat /\ next_id <= next_id' /\ next_id' <= MaxFrames
  BY <1>2, <1>3
<1>5. InOrder'
  BY <1>1, <1>2, <1>3, <1>4, OrderStable
<1> QED
  BY <1>1, <1>5

(* The surface that create_frame makes is new. *)
LEMMA SurfaceNew ==
    ASSUME SessionInv
    PROVE  <<"wl_surface", OwnSurface(next_id, "Content")>> \notin objects
<1> DEFINE object == <<"wl_surface", OwnSurface(next_id, "Content")>>
<1>1. ObjectsExact /\ Ownership /\ next_id \in Nat /\ next_id \notin live
  BY DEF SessionInv, RegistryInv, TypeInv, TypeOK, Allocated
<1>2. OwnSurface(next_id, "Content") \notin AppSurfaces
  <2>1. <<next_id, "Content">> \in Nat \X SurfaceParts
    BY <1>1 DEF SurfaceParts, DecorationParts
  <2> QED
    BY <2>1, SurfaceAssumption DEF OwnSurface
<1>3. object \notin AppObjects
  BY <1>2 DEF AppObjects
<1>4. ASSUME NEW i \in live PROVE object \notin FrameObjects(i)
  <2>1. frames[i].surface # OwnSurface(next_id, "Content")
    BY <1>1, <1>2 DEF Ownership, OwnSurface
  <2>2. object \notin CsdObjects(i)
    BY DEF CsdObjects
  <2> QED
    BY <2>1, <2>2, FrameObjectsAre
<1> QED
  BY <1>1, <1>3, <1>4, ObjectsAre

(* A call keeps the registry, whatever it paints. *)
LEMMA CallRegistry == ASSUME RegistryInv, Call PROVE RegistryInv'
<1>1. TypeInv'
  BY CallType DEF RegistryInv
<1>2. CASE \E force \in BOOLEAN : ForceClientSideDecorations(force)
  BY <1>1, <1>2, RegistryStable DEF ForceClientSideDecorations, live
<1>3. CASE PollEvent
  BY <1>1, <1>3, RegistryStable DEF PollEvent, live
<1> QED
  BY <1>1, <1>2, <1>3, CreateRegistry, DecorateSurfaceRegistry, FrameCallRegistry DEF Call

LEMMA OtherCallSession ==
    ASSUME SessionInv, OtherCall
    PROVE  SessionInv'
<1>0. RegistryInv /\ TypeInv /\ TypeOK /\ Receive /\ UNCHANGED <<wire, sent>>
  BY DEF SessionInv, RegistryInv, TypeInv, OtherCall
<1>1. Call
  BY DEF OtherCall, Call, FrameCall, Hints, Forwarded
<1>2. RegistryInv'
  BY <1>0, <1>1, CallRegistry
<1>3. ASSUME NEW id \in live, NEW slot,
             frames' = frames \/ frames' = [frames EXCEPT ![id] = slot],
             slot.surface = frames[id].surface, slot.decoration = frames[id].decoration,
             UNCHANGED <<next_id, csd, events, held>>,
             Len(requests') \in Nat, \A i \in 1 .. Len(requests') : Plain(requests'[i])
      PROVE  InOrder' /\ ObjectsExact' /\ NoProtocolError'
  <2>1. frames \in [live -> Slot]
    BY <1>0 DEF TypeOK
  <2>2. /\ live' = live
        /\ \A i \in live : /\ frames'[i].surface = frames[i].surface
                           /\ frames'[i].decoration = frames[i].decoration
    BY <1>3, <2>1 DEF live
  <2> QED
    BY <1>0, <1>3, <2>2, QuietSession
<1>4. CASE CreateFrame
  <2> DEFINE surface == OwnSurface(next_id, "Content")
             creation == <<New(<<"wl_surface", surface>>)>>
  <2>1. decorate_inner(surface, TRUE, creation)
    BY <1>4 DEF CreateFrame
  <2>2. <<"wl_surface", surface>> \notin objects
    BY SurfaceNew
  <2>3. creation = IF TRUE THEN <<New(<<"wl_surface", surface>>)>> ELSE <<>>
    OBVIOUS
  <2> HIDE DEF surface, creation
  <2> QED
    BY <1>0, <1>2, <2>1, <2>2, <2>3, CreatedSession DEF SessionInv
<1>5. CASE \E surface \in AppSurfaces : Decorate(surface)
  <2>1. PICK surface \in AppSurfaces : Decorate(surface)
    BY <1>5
  <2>2. decorate_inner(surface, FALSE, <<>>)
    BY <2>1 DEF Decorate
  <2> QED
    BY <1>0, <1>2, <2>2, CreatedSession DEF SessionInv
<1>6. ASSUME NEW id \in live, DestroyFrame(id) PROVE SessionInv'
  <2>1. ObjectsExact' /\ NoProtocolError' /\ acked' = acked
    BY <1>0, <1>6, DestroyObjects
  <2>2. /\ UNCHANGED <<next_id, events>> /\ DOMAIN held' \subseteq DOMAIN held
        /\ \A f \in DOMAIN held' : held'[f] = held[f]
    BY <1>6 DEF DestroyFrame, Without, Restrict
  <2>3. InOrder /\ next_id \in Nat /\ next_id <= MaxFrames
    BY <1>0 DEF SessionInv, TypeOK, InOrder, SentTypes
  <2>4. InOrder'
    BY <1>0, <2>1, <2>2, <2>3, OrderStable
  <2> QED
    BY <1>2, <2>1, <2>4 DEF SessionInv
<1>7. ASSUME NEW id \in live, Map(id) PROVE SessionInv'
  <2> DEFINE r == [req |-> "commit", surface |-> frames[id].surface]
  <2>1. Plain(r) /\ (requests' = <<>> \/ requests' = <<r>>)
    BY <1>7 DEF Map, Plain
  <2> HIDE DEF r
  <2>2. Len(requests') \in Nat /\ \A i \in 1 .. Len(requests') : Plain(requests'[i])
    BY <2>1, NoRequests, OneRequest
  <2> DEFINE slot == [frames[id] EXCEPT !.mapped = TRUE]
  <2>3. /\ frames' = [frames EXCEPT ![id] = slot]
        /\ slot.surface = frames[id].surface /\ slot.decoration = frames[id].decoration
        /\ UNCHANGED <<next_id, csd, events, held>>
    BY <1>0, <1>7 DEF Map, TypeOK, Slot
  <2> HIDE DEF slot
  <2> QED
    BY <1>2, <1>3, <2>2, <2>3 DEF SessionInv
<1>8. ASSUME NEW id \in live, NEW caps, SetCapabilities(id, caps) \/ UnsetCapabilities(id, caps)
      PROVE  SessionInv'
  <2> DEFINE slot(c) == [frames[id] EXCEPT !.capabilities = c]
  <2>1. UNCHANGED <<next_id, csd, events, held>> /\ requests' = <<>>
    BY <1>8 DEF SetCapabilities, UnsetCapabilities
  <2>2. \A c : slot(c).surface = frames[id].surface /\ slot(c).decoration = frames[id].decoration
    BY <1>0 DEF TypeOK, Slot
  <2>3. PICK c : frames' = [frames EXCEPT ![id] = slot(c)]
    <3>1. CASE SetCapabilities(id, caps)
      BY <3>1 DEF SetCapabilities
    <3>2. CASE UnsetCapabilities(id, caps)
      BY <3>2 DEF UnsetCapabilities
    <3> QED
      BY <1>8, <3>1, <3>2
  <2> HIDE DEF slot
  <2> QED
    BY <1>2, <1>3, <2>1, <2>2, <2>3, NoRequests DEF SessionInv
<1>9. ASSUME NEW id \in live, NEW visible, SetVisibility(id, visible) PROVE SessionInv'
  <2> DEFINE slot == [frames[id] EXCEPT !.visible = visible]
  <2>1. /\ frames' = [frames EXCEPT ![id] = slot]
        /\ slot.surface = frames[id].surface /\ slot.decoration = frames[id].decoration
        /\ UNCHANGED <<next_id, csd, events, held>> /\ requests' = <<>>
    BY <1>0, <1>9 DEF SetVisibility, TypeOK, Slot
  <2> HIDE DEF slot
  <2> QED
    BY <1>2, <1>3, <2>1, NoRequests DEF SessionInv
<1>10. ASSUME NEW force, ForceClientSideDecorations(force) PROVE SessionInv'
  <2>1. UNCHANGED <<next_id, frames, csd, events, held>> /\ requests' = <<>>
    BY <1>10 DEF ForceClientSideDecorations
  <2>2. live' = live
    BY <2>1 DEF live
  <2> QED
    BY <1>0, <1>2, <2>1, <2>2, NoRequests, QuietSession DEF SessionInv
<1>11. ASSUME NEW id \in live, NEW name \in {"set_maximized", "set_title"}, ToplevelRequest(id, name)
       PROVE  SessionInv'
  <2> DEFINE r == [req |-> name, frame |-> id]
  <2>1. Plain(r) /\ requests' = <<r>> /\ UNCHANGED <<next_id, frames, csd, events, held>>
    BY <1>11 DEF ToplevelRequest, Plain, inner
  <2> HIDE DEF r
  <2> QED
    BY <1>2, <1>3, <2>1, OneRequest DEF SessionInv
<1>12. ASSUME NEW id \in live, NEW parent, SetParent(id, parent) PROVE SessionInv'
  <2> DEFINE r == [req |-> "set_parent", frame |-> id, parent |-> parent]
  <2>1. Plain(r) /\ requests' = <<r>> /\ UNCHANGED <<next_id, frames, csd, events, held>>
    BY <1>12 DEF SetParent, Plain, inner
  <2> HIDE DEF r
  <2> QED
    BY <1>2, <1>3, <2>1, OneRequest DEF SessionInv
<1> QED
  BY <1>4, <1>5, <1>6, <1>7, <1>8, <1>9, <1>10, <1>11, <1>12 DEF OtherCall

-----------------------------------------------------------------------------
LEMMA InvInit == SessionInit => SessionInv
<1> SUFFICES ASSUME SessionInit PROVE SessionInv
  OBVIOUS
<1>1. RegistryInv /\ live = {} /\ next_id = 0
  BY RegistryInit DEF SessionInit, Init, live
<1>2. /\ DOMAIN wire = {} /\ wire \in Seq(Messages) /\ Len(sent) = 0
      /\ sent \in Seq([frame : Nat, mode : Option(Modes), toplevel : Option(ToplevelStates)])
      /\ DOMAIN events = {} /\ DOMAIN held = {}
  BY DEF SessionInit, Init
<1>3. WireConfigures = {} /\ EventConfigures = {}
  BY <1>2 DEF WireConfigures, EventConfigures
<1>4. acked \in [FrameIds -> Nat] /\ \A id \in FrameIds : acked[id] = 0
  BY DEF SessionInit
<1>5. SentTypes
  BY <1>1, <1>2, <1>4, SessionAssumption, ConstantAssumption
     DEF SentTypes, SessionAssumption, ConstantAssumption
<1>6. InOrder
  BY <1>2, <1>3, <1>4, <1>5
     DEF InOrder, WireInOrder, EventsInOrder, HeldInOrder, AckedInOrder, Behind
<1>7. ObjectsExact /\ NoProtocolError
  BY <1>1 DEF SessionInit, ObjectsExact, NoProtocolError
<1> QED
  BY <1>1, <1>6, <1>7 DEF SessionInv

LEMMA InvStep == SessionInv /\ [SessionNext]_session_vars => SessionInv'
<1> SUFFICES ASSUME SessionInv, [SessionNext]_session_vars PROVE SessionInv'
  OBVIOUS
<1>1. CASE \E id \in live : Send(id)
  BY <1>1, SendSession
<1>2. CASE Deliver
  BY <1>2, DeliveredSession
<1>3. CASE Poll
  BY <1>3, PollSession
<1>4. CASE \E id \in live : CommitFrame(id) \/ ResizeFrame(id)
  <2>1. PICK id \in live : CommitFrame(id) \/ ResizeFrame(id)
    BY <1>4
  <2>2. Receive /\ UNCHANGED <<wire, sent>>
    BY <2>1 DEF CommitFrame, ResizeFrame
  <2>3. PICK painted \in Paints : CommitConfigured(id, painted) \/ CommitResized(id, painted)
    BY <2>1 DEF CommitFrame, ResizeFrame
  <2>4. RegistryInv'
    <3>1. Call
      BY <2>3 DEF Call, FrameCall
    <3> QED
      BY <3>1, CallRegistry DEF SessionInv
  <2> QED
    BY <2>2, <2>3, <2>4, ConfiguredSession, ResizedSession DEF SessionInv
<1>5. CASE OtherCall
  BY <1>5, OtherCallSession
<1>6. CASE UNCHANGED session_vars
  <2>1. UNCHANGED <<vars, acked, objects, protocol_ok, wire, sent>>
    BY <1>6 DEF session_vars, compositor
  <2>2. RegistryInv'
    BY <2>1, RegistryStep DEF SessionInv
  <2>3. live' = live /\ UNCHANGED <<csd, frames, next_id, events, held>>
    BY <2>1 DEF vars, inner, live
  <2>4. InOrder /\ next_id \in Nat /\ next_id <= MaxFrames
    BY DEF SessionInv, RegistryInv, TypeInv, TypeOK, InOrder, SentTypes
  <2>5. InOrder'
    BY <2>1, <2>3, <2>4, OrderStable
  <2>6. ObjectsExact'
    BY <2>1, <2>3, ObjectsStable DEF SessionInv
  <2> QED
    BY <2>1, <2>2, <2>5, <2>6 DEF SessionInv, NoProtocolError
<1> QED
  BY <1>1, <1>2, <1>3, <1>4, <1>5, <1>6 DEF SessionNext

(***************************************************************************)
(* Nothing libdecor asks of the compositor breaks the protocol: it makes   *)
(* no object twice, frees none before what was made from it, and           *)
(* acknowledges only serials that were sent to the frame and are later     *)
(* than those it acknowledged; with any number of frames and configures    *)
(* (Context::decorate_inner, Context::destroy_frame, Frame::commit).       *)
(***************************************************************************)
THEOREM ProtocolKept == SessionSpec => []NoProtocolError
<1>1. SessionSpec => []SessionInv
  BY InvInit, InvStep, PTL DEF SessionSpec
<1>2. SessionInv => NoProtocolError
  BY DEF SessionInv
<1> QED
  BY <1>1, <1>2, PTL

(***************************************************************************)
(* The protocol objects that exist are those of the live frames and the    *)
(* application's surfaces: no destruction leaks one, none takes one that   *)
(* another frame needs (ensure_csd, Context::destroy_frame).               *)
(***************************************************************************)
THEOREM ObjectsCorrect == SessionSpec => []ObjectsExact
<1>1. SessionSpec => []SessionInv
  BY InvInit, InvStep, PTL DEF SessionSpec
<1>2. SessionInv => ObjectsExact
  BY DEF SessionInv
<1> QED
  BY <1>1, <1>2, PTL

-----------------------------------------------------------------------------
(***************************************************************************)
(* Session implements Handshake, as far as safety goes.  The compositor's  *)
(* configures are issues, Frame::commit acknowledges, destroy_frame        *)
(* abandons, and a new frame has no configure yet: none was ever sent to   *)
(* an id that was not allocated.                                           *)
(***************************************************************************)
SentAllocated == \A n \in DOMAIN sent : sent[n].frame \in Allocated

HandshakeInv == SessionInv /\ SentAllocated

LEMMA NoAnswer ==
    ASSUME SentTypes, Receive, Len(requests') \in Nat,
           \A i \in 1 .. Len(requests') : requests'[i].req # "ack_configure"
    PROVE  acked' = acked
<1>1. \A id : Acked(id, Len(requests')) = acked[id]
  BY AckedKept
<1> QED
  BY <1>1 DEF Receive, SentTypes

LEMMA LiveAre ==
    ASSUME SessionInv
    PROVE  live \subseteq FrameIds /\ live \subseteq Allocated /\ next_id \in Nat
           /\ Allocated \subseteq Nat
<1>1. next_id \in Nat /\ next_id <= MaxFrames /\ live \subseteq 0 .. next_id - 1 /\ MaxFrames \in Nat
  BY ConstantAssumption
     DEF SessionInv, RegistryInv, TypeInv, TypeOK, InOrder, SentTypes, Allocated, ConstantAssumption
<1> QED
  BY <1>1 DEF FrameIds, Allocated

(* Nothing is issued, answered or abandoned. *)
LEMMA Stutters ==
    ASSUME \A id \in FrameIds : Outstanding(id)' = Outstanding(id), Len(sent') = Len(sent)
    PROVE  UNCHANGED H!vars
<1> DEFINE before(id) == Outstanding(id)
           after(id) == Outstanding(id)'
<1>1. \A id \in FrameIds : after(id) = before(id)
  OBVIOUS
<1> HIDE DEF before, after
<1>2. [id \in FrameIds |-> after(id)] = [id \in FrameIds |-> before(id)]
  BY <1>1
<1>3. [id \in FrameIds |-> Outstanding(id)]' = [id \in FrameIds |-> Outstanding(id)]
  BY <1>2 DEF before, after, FrameIds
<1> QED
  BY <1>3 DEF H!vars

LEMMA StaysStutters ==
    ASSUME UNCHANGED <<sent, acked>>, live' = live
    PROVE  UNCHANGED H!vars
<1>1. \A id \in FrameIds : Outstanding(id)' = Outstanding(id)
  BY DEF Outstanding
<1> QED
  BY <1>1, Stutters

LEMMA JoinsStutters ==
    ASSUME HandshakeInv, UNCHANGED <<sent, acked>>, live' = live \cup {next_id}
    PROVE  UNCHANGED H!vars
<1>1. PICK n : n = next_id
  OBVIOUS
<1>2. n \notin Allocated /\ n \notin live
  BY <1>1, LiveAre DEF HandshakeInv, Allocated
<1>3. Outstanding(n) = {} /\ Outstanding(n)' = {}
  BY <1>1, <1>2 DEF Outstanding, HandshakeInv, SentAllocated
<1>4. \A id \in FrameIds : id # n => Outstanding(id)' = Outstanding(id)
  BY <1>1 DEF Outstanding
<1> QED
  BY <1>3, <1>4, Stutters

LEMMA LeavesAbandons ==
    ASSUME UNCHANGED <<sent, acked>>, NEW id \in FrameIds, live' = live \ {id}
    PROVE  H!Abandon(id) \/ UNCHANGED H!vars
<1>1. /\ Outstanding(id)' = {}
      /\ \A f \in FrameIds : f # id => Outstanding(f)' = Outstanding(f)
  BY DEF Outstanding
<1>2. CASE Outstanding(id) = {}
  BY <1>1, <1>2, Stutters
<1>3. CASE Outstanding(id) # {}
  <2> DEFINE before(f) == Outstanding(f)
             after(f) == Outstanding(f)'
  <2>1. /\ after(id) = {} /\ before(id) # {}
        /\ \A f \in FrameIds : f # id => after(f) = before(f)
    BY <1>1, <1>3
  <2> HIDE DEF before, after
  <2>2. [f \in FrameIds |-> after(f)] = [[f \in FrameIds |-> before(f)] EXCEPT ![id] = {}]
    BY <2>1
  <2>3. [f \in FrameIds |-> before(f)][id] # {}
    BY <2>1
  <2>4. /\ [f \in FrameIds |-> Outstanding(f)]' =
               [[f \in FrameIds |-> Outstanding(f)] EXCEPT ![id] = {}]
        /\ [f \in FrameIds |-> Outstanding(f)][id] # {}
    BY <2>2, <2>3 DEF before, after, FrameIds
  <2> QED
    BY <2>4 DEF H!Abandon
<1> QED
  BY <1>2, <1>3

LEMMA AnswerAcknowledges ==
    ASSUME SessionInv, NEW id \in live, NEW serial, Issued(serial, id), serial > acked[id],
           acked' = [acked EXCEPT ![id] = serial], sent' = sent, live' = live
    PROVE  H!Acknowledge(id)
<1>1. id \in FrameIds /\ SentTypes /\ acked \in [FrameIds -> Nat]
  BY LiveAre DEF SessionInv, InOrder, SentTypes
<1>2. serial \in Nat /\ DOMAIN sent \subseteq Nat
  BY <1>1, IssuedIs DEF SentTypes
<1>3. serial \in Outstanding(id)
  BY DEF Outstanding, Issued
<1>4. Outstanding(id)' = {m \in Outstanding(id) : m > serial}
  <2>1. acked'[id] = serial /\ acked[id] \in Nat
    BY <1>1
  <2>2. \A m \in DOMAIN sent : m > serial => m > acked[id]
    BY <1>2, <2>1
  <2>3. Outstanding(id)' = {n \in DOMAIN sent : sent[n].frame = id /\ n > serial}
    BY <2>1 DEF Outstanding
  <2> QED
    BY <2>2, <2>3 DEF Outstanding
<1>5. \A f \in FrameIds : f # id => Outstanding(f)' = Outstanding(f)
  BY <1>1 DEF Outstanding
<1> DEFINE before(f) == Outstanding(f)
           after(f) == Outstanding(f)'
<1>6. /\ serial \in before(id) /\ after(id) = {m \in before(id) : m > serial}
      /\ \A f \in FrameIds : f # id => after(f) = before(f)
  BY <1>3, <1>4, <1>5
<1> HIDE DEF before, after
<1>7. /\ [f \in FrameIds |-> after(f)] =
             [[f \in FrameIds |-> before(f)] EXCEPT ![id] = {m \in @ : m > serial}]
      /\ serial \in [f \in FrameIds |-> before(f)][id]
  BY <1>1, <1>6
<1>8. /\ [f \in FrameIds |-> Outstanding(f)]' =
             [[f \in FrameIds |-> Outstanding(f)] EXCEPT ![id] = {m \in @ : m > serial}]
      /\ serial \in [f \in FrameIds |-> Outstanding(f)][id]
  BY <1>7 DEF before, after, FrameIds
<1> QED
  BY <1>8 DEF H!Acknowledge

LEMMA SendIssues ==
    ASSUME SessionInv, NEW id \in live, NEW batch \in Batch, batch.frame = id,
           Len(sent) < MaxConfigures, sent' = Append(sent, batch), acked' = acked, live' = live
    PROVE  H!Issue(id)
<1> DEFINE n == Len(sent) + 1
<1>1. id \in FrameIds /\ acked[id] <= Len(sent) /\ acked[id] \in Nat
  BY LiveAre DEF SessionInv, InOrder, AckedInOrder, SentTypes
<1>2. /\ Len(sent) \in Nat /\ DOMAIN sent = 1 .. Len(sent)
      /\ Len(sent') = n /\ DOMAIN sent' = 1 .. n
      /\ \A k \in 1 .. Len(sent) : sent'[k] = sent[k]
      /\ sent'[n] = batch
  <2>1. sent \in Seq(Batch)
    BY DEF SessionInv, InOrder, SentTypes, Batch
  <2> QED
    BY <2>1, AppendAt
<1>3. DOMAIN sent' = DOMAIN sent \cup {n} /\ n > acked[id]
  BY <1>1, <1>2
<1>4. /\ Outstanding(id)' = Outstanding(id) \cup {n}
      /\ \A f \in FrameIds : f # id => Outstanding(f)' = Outstanding(f)
  BY <1>2, <1>3 DEF Outstanding
<1> DEFINE before(f) == Outstanding(f)
           after(f) == Outstanding(f)'
<1>5. /\ after(id) = before(id) \cup {n}
      /\ \A f \in FrameIds : f # id => after(f) = before(f)
  BY <1>4
<1> HIDE DEF before, after, n
<1>6. [f \in FrameIds |-> after(f)] =
          [[f \in FrameIds |-> before(f)] EXCEPT ![id] = @ \cup {n}]
  BY <1>1, <1>5
<1>7. [f \in FrameIds |-> Outstanding(f)]' =
          [[f \in FrameIds |-> Outstanding(f)] EXCEPT ![id] = @ \cup {n}]
  BY <1>6 DEF before, after, FrameIds
<1> QED
  BY <1>2, <1>7 DEF H!Issue, n

(* Which serials a step of the session acknowledges, and which frames come *)
(* and go in it.                                                           *)
LEMMA DeliveredKeeps ==
    ASSUME SessionInv, Deliver
    PROVE  UNCHANGED <<sent, acked, next_id>> /\ live' = live
<1> DEFINE id == Head(wire).frame
<1>0. SentTypes /\ TypeOK /\ Receive /\ sent' = sent
  BY DEF SessionInv, RegistryInv, TypeInv, InOrder, Deliver
<1>1. frames \in [live -> Slot] /\ (id \in live => frames[id] \in Slot)
  BY <1>0 DEF TypeOK
<1> HIDE DEF id
<1>2. ASSUME NEW mode, ensure_csd(id, mode) PROVE acked' = acked
  <2>1. CASE requests' = <<>>
    BY <1>0, <2>1, NoRequests, NoAnswer DEF Plain
  <2>2. CASE requests' = CsdRequests("new", id)
    <3> DEFINE r == CsdRequests("new", id)
    <3>1. Len(r) = 6 /\ \A i \in 1 .. Len(r) : r[i].req = "new"
      BY CsdRequestsAre DEF Each
    <3> HIDE DEF r
    <3>2. requests' = r
      BY <2>2 DEF r
    <3>3. Len(requests') \in Nat /\ \A i \in 1 .. Len(requests') : requests'[i].req = "new"
      <4>1. Len(requests') = 6
        BY <3>1, <3>2
      <4>2. \A i \in 1 .. 6 : requests'[i].req = "new"
        BY <3>1, <3>2
      <4> QED
        BY <4>1, <4>2
    <3>4. \A i \in 1 .. Len(requests') : requests'[i].req # "ack_configure"
      BY <3>3
    <3> QED
      BY <1>0, <3>3, <3>4, NoAnswer
  <2> QED
    BY <1>2, <2>1, <2>2 DEF ensure_csd
<1>3. CASE requests' = <<>>
  <2>1. acked' = acked
    BY <1>0, <1>3, NoRequests, NoAnswer DEF Plain
  <2>2. next_id' = next_id /\ live' = live
    <3>1. CASE \E size, states : ToplevelConfigure(id, size, states)
      BY <1>1, <3>1 DEF ToplevelConfigure, live
    <3>2. CASE ToplevelClose(id)
      BY <3>2 DEF ToplevelClose, live
    <3>3. CASE \E size : ToplevelConfigureBounds(id, size)
      BY <1>1, <3>3 DEF ToplevelConfigureBounds, live
    <3>4. CASE \E wm : ToplevelWmCapabilities(id, wm)
      BY <1>1, <3>4 DEF ToplevelWmCapabilities, live
    <3>5. CASE \E serial : XdgSurfaceConfigure(id, serial)
      BY <1>1, <3>5 DEF XdgSurfaceConfigure, TakePending, live
    <3>6. CASE \E mode : DecorationConfigure(id, mode)
      BY <1>1, <3>6 DEF DecorationConfigure, live
    <3> QED
      BY <3>1, <3>2, <3>3, <3>4, <3>5, <3>6 DEF Deliver, id
  <2> QED
    BY <1>0, <2>1, <2>2
<1>4. ASSUME NEW serial, XdgSurfaceConfigure(id, serial)
      PROVE  UNCHANGED <<sent, acked, next_id>> /\ live' = live
  <2>1. acked' = acked /\ next_id' = next_id
    BY <1>2, <1>4 DEF XdgSurfaceConfigure
  <2>2. live' = live
    BY <1>1, <1>4 DEF XdgSurfaceConfigure, TakePending, live
  <2> QED
    BY <1>0, <2>1, <2>2
<1>5. ASSUME NEW mode, DecorationConfigure(id, mode)
      PROVE  UNCHANGED <<sent, acked, next_id>> /\ live' = live
  <2>1. acked' = acked /\ next_id' = next_id
    BY <1>2, <1>5 DEF DecorationConfigure
  <2>2. live' = live
    BY <1>1, <1>5 DEF DecorationConfigure, live
  <2> QED
    BY <1>0, <2>1, <2>2
<1>6. \/ \E serial : XdgSurfaceConfigure(id, serial)
      \/ \E mode : DecorationConfigure(id, mode)
      \/ requests' = <<>>
  BY DEF Deliver, id, ToplevelConfigure, ToplevelClose, ToplevelConfigureBounds,
         ToplevelWmCapabilities
<1> QED
  BY <1>3, <1>4, <1>5, <1>6

LEMMA OtherCallKeeps ==
    ASSUME SessionInv, OtherCall
    PROVE  /\ UNCHANGED <<sent, acked>> /\ next_id' \in {next_id, next_id + 1}
           /\ \/ live' = live
              \/ live' = live \cup {next_id}
              \/ \E id \in live : live' = live \ {id}
<1>0. SentTypes /\ TypeOK /\ Receive /\ sent' = sent
  BY DEF SessionInv, RegistryInv, TypeInv, InOrder, OtherCall
<1>1. frames \in [live -> Slot] /\ \A id \in live : frames[id] \in Slot
  BY <1>0 DEF TypeOK
<1>2. CASE CreateFrame
  <2> DEFINE surface == OwnSurface(next_id, "Content")
             creation == <<New(<<"wl_surface", surface>>)>>
  <2>1. decorate_inner(surface, TRUE, creation)
    BY <1>2 DEF CreateFrame
  <2>2. <<"wl_surface", surface>> \notin objects
    BY SurfaceNew
  <2>3. creation = IF TRUE THEN <<New(<<"wl_surface", surface>>)>> ELSE <<>>
    OBVIOUS
  <2>4. next_id' = next_id + 1 /\ live' = live \cup {next_id}
    BY <2>1 DEF decorate_inner, Put, live
  <2> HIDE DEF surface, creation
  <2>5. acked' = acked
    BY <1>0, <2>1, <2>2, <2>3, DecorateObjects
  <2> QED
    BY <1>0, <2>4, <2>5
<1>3. CASE \E surface \in AppSurfaces : Decorate(surface)
  <2>1. PICK surface \in AppSurfaces : Decorate(surface)
    BY <1>3
  <2>2. decorate_inner(surface, FALSE, <<>>)
    BY <2>1 DEF Decorate
  <2>3. next_id' = next_id + 1 /\ live' = live \cup {next_id}
    BY <2>2 DEF decorate_inner, Put, live
  <2>4. acked' = acked
    BY <1>0, <2>2, DecorateObjects
  <2> QED
    BY <1>0, <2>3, <2>4
<1>4. ASSUME NEW id \in live, DestroyFrame(id)
      PROVE  acked' = acked /\ next_id' = next_id /\ live' = live \ {id}
  <2>1. acked' = acked
    BY <1>0, <1>4, DestroyObjects
  <2>2. next_id' = next_id /\ live' = live \ {id}
    BY <1>4 DEF DestroyFrame, Without, Restrict, live
  <2> QED
    BY <2>1, <2>2
<1>5. ASSUME NEW r, Plain(r), requests' = <<>> \/ requests' = <<r>>,
             next_id' = next_id, live' = live
      PROVE  UNCHANGED <<sent, acked, next_id>> /\ live' = live
  <2>1. Len(requests') \in Nat /\ \A i \in 1 .. Len(requests') : Plain(requests'[i])
    BY <1>5, NoRequests, OneRequest
  <2> QED
    BY <1>0, <1>5, <2>1, NoAnswer DEF Plain
<1>6. ASSUME NEW id \in live, Map(id)
      PROVE  UNCHANGED <<sent, acked, next_id>> /\ live' = live
  <2> DEFINE r == [req |-> "commit", surface |-> frames[id].surface]
  <2>1. Plain(r) /\ (requests' = <<>> \/ requests' = <<r>>) /\ next_id' = next_id
    BY <1>6 DEF Map, Plain
  <2>2. live' = live
    BY <1>1, <1>6 DEF Map, live
  <2> HIDE DEF r
  <2> QED
    BY <1>5, <2>1, <2>2
<1>7. ASSUME NEW id \in live, NEW caps, SetCapabilities(id, caps) \/ UnsetCapabilities(id, caps)
      PROVE  UNCHANGED <<sent, acked, next_id>> /\ live' = live
  <2> DEFINE r == [req |-> "commit"]
  <2>1. Plain(r) /\ requests' = <<>> /\ next_id' = next_id
    BY <1>7 DEF SetCapabilities, UnsetCapabilities, Plain
  <2>2. live' = live
    BY <1>1, <1>7 DEF SetCapabilities, UnsetCapabilities, live
  <2> HIDE DEF r
  <2> QED
    BY <1>5, <2>1, <2>2
<1>8. ASSUME NEW id \in live, NEW visible, SetVisibility(id, visible)
      PROVE  UNCHANGED <<sent, acked, next_id>> /\ live' = live
  <2> DEFINE r == [req |-> "commit"]
  <2>1. Plain(r) /\ requests' = <<>> /\ next_id' = next_id
    BY <1>8 DEF SetVisibility, Plain
  <2>2. live' = live
    BY <1>1, <1>8 DEF SetVisibility, live
  <2> HIDE DEF r
  <2> QED
    BY <1>5, <2>1, <2>2
<1>9. ASSUME NEW force, ForceClientSideDecorations(force)
      PROVE  UNCHANGED <<sent, acked, next_id>> /\ live' = live
  <2> DEFINE r == [req |-> "commit"]
  <2>1. Plain(r) /\ requests' = <<>> /\ next_id' = next_id /\ live' = live
    BY <1>9 DEF ForceClientSideDecorations, Plain, live
  <2> HIDE DEF r
  <2> QED
    BY <1>5, <2>1
<1>10. ASSUME NEW id \in live, NEW name \in {"set_maximized", "set_title"}, ToplevelRequest(id, name)
       PROVE  UNCHANGED <<sent, acked, next_id>> /\ live' = live
  <2> DEFINE r == [req |-> name, frame |-> id]
  <2>1. Plain(r) /\ requests' = <<r>> /\ next_id' = next_id /\ live' = live
    BY <1>10 DEF ToplevelRequest, Plain, inner, live
  <2> HIDE DEF r
  <2> QED
    BY <1>5, <2>1
<1>11. ASSUME NEW id \in live, NEW parent, SetParent(id, parent)
       PROVE  UNCHANGED <<sent, acked, next_id>> /\ live' = live
  <2> DEFINE r == [req |-> "set_parent", frame |-> id, parent |-> parent]
  <2>1. Plain(r) /\ requests' = <<r>> /\ next_id' = next_id /\ live' = live
    BY <1>11 DEF SetParent, Plain, inner, live
  <2> HIDE DEF r
  <2> QED
    BY <1>5, <2>1
<1> QED
  BY <1>0, <1>2, <1>3, <1>4, <1>6, <1>7, <1>8, <1>9, <1>10, <1>11 DEF OtherCall

LEMMA CommitAnswers ==
    ASSUME SessionInv, NEW id \in live, CommitFrame(id) \/ ResizeFrame(id)
    PROVE  /\ UNCHANGED <<sent, next_id>> /\ live' = live
           /\ \/ acked' = acked
              \/ \E serial : /\ Issued(serial, id) /\ serial > acked[id]
                             /\ acked' = [acked EXCEPT ![id] = serial]
<1>0. TypeOK /\ Receive /\ UNCHANGED <<wire, sent>>
  BY DEF SessionInv, RegistryInv, TypeInv, CommitFrame, ResizeFrame
<1>1. PICK painted : CommitConfigured(id, painted) \/ CommitResized(id, painted)
  BY DEF CommitFrame, ResizeFrame
<1>2. CASE CommitConfigured(id, painted)
  <2>1. PICK size : Commit(id, size, Some(held[id]), painted)
    BY <1>2 DEF CommitConfigured
  <2>2. live' = live
    BY <1>0, <2>1, CommitKeeps
  <2>3. next_id' = next_id
    BY <2>1 DEF Commit
  <2>4. \E serial : /\ Issued(serial, id) /\ serial > acked[id]
                    /\ acked' = [acked EXCEPT ![id] = serial]
    <3>1. /\ Issued(held[id].serial, id) /\ held[id].serial > acked[id]
          /\ acked' = [acked EXCEPT ![id] = held[id].serial]
      BY <1>0, <1>2, ConfiguredSession
    <3> QED
      BY <3>1
  <2> QED
    BY <1>0, <2>2, <2>3, <2>4
<1>3. CASE CommitResized(id, painted)
  <2>1. PICK size : Commit(id, size, None, painted)
    BY <1>3 DEF CommitResized
  <2>2. live' = live
    BY <1>0, <2>1, CommitKeeps
  <2>3. next_id' = next_id
    BY <2>1 DEF Commit
  <2>4. acked' = acked
    BY <1>0, <1>3, ResizedSession
  <2> QED
    BY <1>0, <2>2, <2>3, <2>4
<1> QED
  BY <1>1, <1>2, <1>3

LEMMA HandshakeStep ==
    HandshakeInv /\ [SessionNext]_session_vars => HandshakeInv' /\ [H!Next]_(H!vars)
<1> SUFFICES ASSUME HandshakeInv, [SessionNext]_session_vars
             PROVE  HandshakeInv' /\ [H!Next]_(H!vars)
  OBVIOUS
<1>1. SessionInv /\ SentAllocated /\ SessionInv'
  BY InvStep DEF HandshakeInv
<1>2. live \subseteq FrameIds /\ live \subseteq Allocated /\ next_id \in Nat
  BY <1>1, LiveAre
<1>3. ASSUME sent' = sent, next_id' \in {next_id, next_id + 1}
      PROVE  HandshakeInv'
  <2> DEFINE m == next_id
             n == next_id'
  <2>1. m \in Int /\ n \in Int /\ m <= n
    BY <1>2, <1>3
  <2> HIDE DEF m, n
  <2>2. 0 .. m - 1 \subseteq 0 .. n - 1
    BY <2>1, RangeGrows
  <2> QED
    BY <1>1, <1>3, <2>2 DEF HandshakeInv, SentAllocated, Allocated, m, n
<1>4. ASSUME NEW id \in live, Send(id)
      PROVE  HandshakeInv' /\ [H!Next]_(H!vars)
  <2>1. UNCHANGED <<vars, acked>>
    BY <1>4 DEF Send, SendConfigure, SendOther
  <2>2. live' = live /\ next_id' = next_id /\ acked' = acked
    BY <2>1 DEF vars, inner, live
  <2>3. CASE sent' = sent
    BY <1>3, <2>2, <2>3, StaysStutters
  <2>4. CASE \E mode \in Option(Modes), toplevel \in Option(ToplevelStates),
                bounds \in Option(BoundSizes) : SendConfigure(id, mode, toplevel, bounds)
    <3>1. PICK mode \in Option(Modes), toplevel \in Option(ToplevelStates),
               bounds \in Option(BoundSizes) : SendConfigure(id, mode, toplevel, bounds)
      BY <2>4
    <3> DEFINE batch == [frame |-> id, mode |-> mode, toplevel |-> toplevel]
    <3>2. batch.frame = id /\ batch \in Batch
      <4>1. id \in Nat
        BY <1>1, LiveAre
      <4> QED
        BY <3>1, <4>1 DEF Batch
    <3>3. sent' = Append(sent, batch) /\ Len(sent) < MaxConfigures
      BY <3>1 DEF SendConfigure
    <3> HIDE DEF batch
    <3>4. H!Issue(id)
      BY <1>1, <2>2, <3>2, <3>3, SendIssues
    <3>5. SentAllocated'
      <4>1. sent \in Seq(Batch)
        BY <1>1 DEF SessionInv, InOrder, SentTypes, Batch
      <4>2. /\ Len(sent) \in Nat /\ DOMAIN sent = 1 .. Len(sent)
            /\ DOMAIN sent' = 1 .. Len(sent) + 1
            /\ \A k \in 1 .. Len(sent) : sent'[k] = sent[k]
            /\ sent'[Len(sent) + 1] = batch
        BY <3>2, <3>3, <4>1, AppendAt
      <4>3. ASSUME NEW k \in DOMAIN sent' PROVE sent'[k].frame \in Allocated
        BY <1>1, <1>2, <3>2, <4>2 DEF SentAllocated
      <4> QED
        BY <2>2, <4>3 DEF SentAllocated, Allocated
    <3> QED
      BY <1>1, <1>2, <3>4, <3>5 DEF HandshakeInv, H!Next
  <2> QED
    BY <1>4, <2>3, <2>4 DEF Send, SendOther
<1>5. CASE Deliver
  BY <1>1, <1>3, <1>5, DeliveredKeeps, StaysStutters
<1>6. CASE Poll
  <2>1. UNCHANGED <<sent, next_id>> /\ live' = live
    BY <1>6 DEF Poll, PollEvent, live
  <2>2. acked' = acked
    <3>1. SentTypes /\ Receive /\ requests' = <<>>
      BY <1>1, <1>6 DEF SessionInv, InOrder, Poll, PollEvent
    <3> QED
      BY <3>1, NoRequests, NoAnswer DEF Plain
  <2> QED
    BY <1>3, <2>1, <2>2, StaysStutters
<1>7. ASSUME NEW id \in live, CommitFrame(id) \/ ResizeFrame(id)
      PROVE  HandshakeInv' /\ [H!Next]_(H!vars)
  <2>1. UNCHANGED <<sent, next_id>> /\ live' = live
    BY <1>1, <1>7, CommitAnswers
  <2>2. CASE acked' = acked
    BY <1>3, <2>1, <2>2, StaysStutters
  <2>3. CASE \E serial : /\ Issued(serial, id) /\ serial > acked[id]
                         /\ acked' = [acked EXCEPT ![id] = serial]
    <3>1. H!Acknowledge(id)
      BY <1>1, <2>1, <2>3, AnswerAcknowledges
    <3> QED
      BY <1>2, <1>3, <2>1, <3>1 DEF H!Next
  <2> QED
    BY <1>1, <1>7, <2>2, <2>3, CommitAnswers
<1>8. CASE OtherCall
  <2>1. UNCHANGED <<sent, acked>> /\ next_id' \in {next_id, next_id + 1}
    BY <1>1, <1>8, OtherCallKeeps
  <2>2. CASE live' = live
    BY <1>3, <2>1, <2>2, StaysStutters
  <2>3. CASE live' = live \cup {next_id}
    BY <1>3, <2>1, <2>3, JoinsStutters
  <2>4. CASE \E id \in live : live' = live \ {id}
    <3>1. PICK id \in live : live' = live \ {id}
      BY <2>4
    <3>2. H!Abandon(id) \/ UNCHANGED H!vars
      BY <1>2, <2>1, <3>1, LeavesAbandons
    <3> QED
      BY <1>2, <1>3, <2>1, <3>2 DEF H!Next
  <2> QED
    BY <1>1, <1>8, <2>2, <2>3, <2>4, OtherCallKeeps
<1>9. CASE UNCHANGED session_vars
  <2>1. UNCHANGED <<sent, acked, next_id>> /\ live' = live
    BY <1>9 DEF session_vars, compositor, vars, inner, live
  <2> QED
    BY <1>3, <2>1, StaysStutters
<1> QED
  BY <1>4, <1>5, <1>6, <1>7, <1>8, <1>9 DEF SessionNext

LEMMA HandshakeInit == SessionInit => HandshakeInv /\ H!Init
<1> SUFFICES ASSUME SessionInit PROVE HandshakeInv /\ H!Init
  OBVIOUS
<1>1. sent = <<>> /\ DOMAIN sent = {} /\ Len(sent) = 0
  BY DEF SessionInit
<1>2. \A f \in FrameIds : Outstanding(f) = {}
  BY <1>1 DEF Outstanding
<1>3. [f \in FrameIds |-> Outstanding(f)] = [f \in FrameIds |-> {}]
  BY <1>2
<1> QED
  BY <1>1, <1>3, InvInit DEF HandshakeInv, SentAllocated, H!Init

(***************************************************************************)
(* Configures are answered as xdg-shell asks: each step of the session is  *)
(* one that Handshake allows, or none that concerns it.  An answer settles *)
(* the configures up to one that is outstanding for the frame, never       *)
(* another's or one that is settled, whatever else is queued, skipped or   *)
(* destroyed meanwhile (XdgSurface::Configure, Context::poll_event,        *)
(* Frame::commit).                                                         *)
(***************************************************************************)
THEOREM HandshakeOrder == SessionSpec => H!Order
<1>1. SessionSpec => H!Init /\ [][H!Next]_(H!vars)
  BY HandshakeInit, HandshakeStep, PTL DEF SessionSpec
<1> QED
  BY <1>1 DEF H!Order
=============================================================================
