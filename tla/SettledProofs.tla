---------------------------- MODULE SettledProofs ---------------------------
(***************************************************************************)
(* More theorems about Session: what the application is told is what the   *)
(* compositor said, and once all of it is answered, the window has the     *)
(* size it was asked to have and the decoration it needs.                  *)
(***************************************************************************)
EXTENDS SessionProofs, WellFoundedInduction

-----------------------------------------------------------------------------
(***************************************************************************)
(* Configurations are faithful.  On the wire, the toplevel part of a batch *)
(* comes right before its configure, and a configure without one belongs   *)
(* to a batch that had none.  So what a frame has pending is the toplevel  *)
(* part of the configure that is dispatched next, and nothing otherwise.   *)
(***************************************************************************)
Carried(i) == sent[wire[i].value].toplevel

BatchesWhole ==
    /\ \A i \in DOMAIN wire : wire[i].type = "toplevel" =>
          /\ i + 1 \in WireConfigures /\ wire[i + 1].frame = wire[i].frame
          /\ Carried(i + 1) = Some(wire[i].value)
    /\ \A i \in WireConfigures : i > 1 /\ wire[i - 1].type # "toplevel" => Carried(i) = None

Due(id) == IF 1 \in WireConfigures /\ wire[1].frame = id THEN Carried(1) ELSE None

SizeOf(toplevel) ==
    IF toplevel = None \/ ~Named(toplevel[1].size) THEN None ELSE Some(toplevel[1].size)
StatesOf(toplevel) == IF toplevel = None THEN None ELSE Some(toplevel[1].states)

PendingDue ==
    \A id \in live : /\ frames[id].pending.size = SizeOf(Due(id))
                     /\ frames[id].pending.window_state = StatesOf(Due(id))

AllCarried ==
    /\ \A id \in DOMAIN held : Carries(held[id], sent[held[id].serial].toplevel)
    /\ \A i \in EventConfigures :
          Carries(events[i].configuration, sent[SerialAt(i)].toplevel)

FaithfulInv == SessionInv /\ BatchesWhole /\ PendingDue /\ AllCarried

(* The next event is taken: what is due then is what it says, if it is the *)
(* toplevel part of a batch, and nothing otherwise.                        *)
LEMMA WireTaken ==
    ASSUME SentTypes, BatchesWhole, wire # <<>>, wire' = Tail(wire), sent' = sent
    PROVE  /\ BatchesWhole'
           /\ \A id : Due(id)' = IF wire[1].type = "toplevel" /\ wire[1].frame = id
                                 THEN Some(wire[1].value) ELSE None
<1> DEFINE n == Len(wire)
<1>1. /\ n \in Nat \ {0} /\ DOMAIN wire = 1 .. n /\ DOMAIN wire' = 1 .. n - 1
      /\ \A i \in 1 .. n - 1 : wire'[i] = wire[i + 1]
  <2>1. wire \in Seq(Messages) /\ n \in Nat \ {0} /\ DOMAIN wire = 1 .. n
    BY EmptySeq, LenProperties DEF SentTypes
  <2>2. Tail(wire) \in Seq(Messages) /\ Len(Tail(wire)) = n - 1
    BY <2>1, HeadTailProperties
  <2>3. DOMAIN wire' = 1 .. n - 1
    BY <2>2, LenProperties
  <2>4. \A i \in DOMAIN Tail(wire) : Tail(wire)[i] = wire[i + 1]
    BY <2>1, TailAt
  <2> QED
    BY <2>1, <2>3, <2>4
<1> HIDE DEF n
<1>2. \A i \in 1 .. n - 1 : i \in Nat /\ i + 1 \in 1 .. n /\ Carried(i)' = Carried(i + 1)
  BY <1>1 DEF Carried
<1>3. \A i : i \in WireConfigures' <=> i \in 1 .. n - 1 /\ i + 1 \in WireConfigures
  BY <1>1 DEF WireConfigures
<1>4. \A i \in 1 .. n : wire[i].type = "toplevel" =>
          /\ i + 1 \in WireConfigures /\ i + 1 \in 1 .. n /\ wire[i + 1].frame = wire[i].frame
          /\ Carried(i + 1) = Some(wire[i].value)
  BY <1>1 DEF BatchesWhole, WireConfigures
<1>5. \A i \in WireConfigures : i > 1 /\ wire[i - 1].type # "toplevel" => Carried(i) = None
  BY DEF BatchesWhole
<1>6. ASSUME NEW i \in DOMAIN wire', wire'[i].type = "toplevel"
      PROVE  /\ i + 1 \in WireConfigures' /\ wire'[i + 1].frame = wire'[i].frame
             /\ Carried(i + 1)' = Some(wire'[i].value)
  <2>1. i \in 1 .. n - 1 /\ i + 1 \in 1 .. n /\ wire[i + 1].type = "toplevel" /\ wire'[i] = wire[i + 1]
    BY <1>1, <1>6
  <2>2. /\ (i + 1) + 1 \in WireConfigures /\ (i + 1) + 1 \in 1 .. n
        /\ wire[(i + 1) + 1].frame = wire[i + 1].frame
        /\ Carried((i + 1) + 1) = Some(wire[i + 1].value)
    BY <1>4, <2>1
  <2>3. i + 1 \in 1 .. n - 1
    BY <1>1, <2>1, <2>2
  <2> QED
    BY <1>1, <1>2, <1>3, <2>1, <2>2, <2>3
<1>7. ASSUME NEW i \in WireConfigures', i > 1, wire'[i - 1].type # "toplevel"
      PROVE  Carried(i)' = None
  <2>1. i \in 1 .. n - 1 /\ i + 1 \in WireConfigures
    BY <1>3
  <2>2. i - 1 \in 1 .. n - 1 /\ (i - 1) + 1 = i /\ (i + 1) - 1 = i /\ i + 1 > 1
    BY <1>1, <1>7, <2>1
  <2>3. wire[(i + 1) - 1].type # "toplevel"
    BY <1>1, <1>7, <2>2
  <2> QED
    BY <1>2, <1>5, <2>1, <2>2, <2>3
<1>8. BatchesWhole'
  BY <1>6, <1>7 DEF BatchesWhole
<1>9. ASSUME NEW id PROVE Due(id)' = IF wire[1].type = "toplevel" /\ wire[1].frame = id
                                     THEN Some(wire[1].value) ELSE None
  <2>1. 1 \in 1 .. n /\ 1 + 1 = 2 /\ 2 - 1 = 1 /\ 2 > 1
    BY <1>1
  <2>2. CASE wire[1].type = "toplevel"
    <3>1. 2 \in WireConfigures /\ 2 \in 1 .. n /\ wire[2].frame = wire[1].frame
          /\ Carried(2) = Some(wire[1].value)
      BY <1>4, <2>1, <2>2
    <3>2. 1 \in 1 .. n - 1
      BY <1>1, <3>1
    <3>3. 1 \in WireConfigures' /\ wire'[1].frame = wire[1].frame /\ Carried(1)' = Some(wire[1].value)
      BY <1>1, <1>2, <1>3, <2>1, <3>1, <3>2
    <3> QED
      BY <2>2, <3>3 DEF Due
  <2>3. CASE wire[1].type # "toplevel"
    <3>1. ASSUME 1 \in WireConfigures' PROVE Carried(1)' = None
      <4>1. 1 \in 1 .. n - 1 /\ 2 \in WireConfigures
        BY <1>3, <2>1, <3>1
      <4> QED
        BY <1>2, <1>5, <2>1, <2>3, <4>1
    <3> QED
      BY <2>3, <3>1 DEF Due
  <2> QED
    BY <2>2, <2>3
<1> QED
  BY <1>8, <1>9

(* The wire grows by whole batches, or by messages that are in none. *)
LEMMA WireGrows ==
    ASSUME SentTypes, WireInOrder, BatchesWhole,
           wire' \in Seq(Messages), Len(wire) <= Len(wire'),
           \A i \in 1 .. Len(wire) : wire'[i] = wire[i],
           \A n \in DOMAIN sent : sent'[n] = sent[n],
           \A i \in Len(wire) + 1 .. Len(wire') : wire'[i].type = "toplevel" =>
               /\ i + 1 \in WireConfigures' /\ wire'[i + 1].frame = wire'[i].frame
               /\ Carried(i + 1)' = Some(wire'[i].value),
           \A i \in Len(wire) + 1 .. Len(wire') :
               wire'[i].type = "configure" /\ ~(i > 1 /\ wire'[i - 1].type = "toplevel") =>
               Carried(i)' = None
    PROVE  /\ BatchesWhole'
           /\ \A id : Due(id)' = Due(id)
<1> DEFINE m == Len(wire)
           n == Len(wire')
<1>1. m \in Nat /\ n \in Nat /\ m <= n /\ DOMAIN wire = 1 .. m /\ DOMAIN wire' = 1 .. n
  BY DEF SentTypes
<1>2. \A i \in 1 .. n : i \in 1 .. m \/ i \in m + 1 .. n
  BY <1>1
<1>3. \A i \in 1 .. m : i \in 1 .. n /\ wire'[i] = wire[i]
                        /\ (i \in WireConfigures' <=> i \in WireConfigures)
  BY <1>1 DEF WireConfigures
<1>4. \A i \in WireConfigures : Carried(i)' = Carried(i)
  BY <1>1, <1>3 DEF Carried, WireConfigures, WireInOrder, Issued
<1>5. ASSUME NEW i \in DOMAIN wire', wire'[i].type = "toplevel"
      PROVE  /\ i + 1 \in WireConfigures' /\ wire'[i + 1].frame = wire'[i].frame
             /\ Carried(i + 1)' = Some(wire'[i].value)
  <2>1. CASE i \in 1 .. m
    <3>1. i + 1 \in WireConfigures /\ wire[i + 1].frame = wire[i].frame
          /\ Carried(i + 1) = Some(wire[i].value)
      BY <1>1, <1>3, <1>5, <2>1 DEF BatchesWhole
    <3>2. i + 1 \in 1 .. m
      BY <1>1, <3>1 DEF WireConfigures
    <3> QED
      BY <1>3, <1>4, <2>1, <3>1, <3>2
  <2>2. CASE i \in m + 1 .. n
    BY <1>5, <2>2
  <2> QED
    BY <1>1, <1>2, <2>1, <2>2
<1>6. ASSUME NEW i \in WireConfigures', i > 1, wire'[i - 1].type # "toplevel"
      PROVE  Carried(i)' = None
  <2>1. i \in 1 .. n /\ wire'[i].type = "configure"
    BY <1>1 DEF WireConfigures
  <2>2. CASE i \in 1 .. m
    <3>1. i - 1 \in 1 .. m
      BY <1>1, <1>6, <2>2
    <3> QED
      BY <1>3, <1>4, <1>6, <2>2, <3>1 DEF BatchesWhole
  <2>3. CASE i \in m + 1 .. n
    BY <1>6, <2>1, <2>3
  <2> QED
    BY <1>2, <2>1, <2>2, <2>3
<1>7. BatchesWhole'
  BY <1>5, <1>6 DEF BatchesWhole
<1>8. ASSUME NEW id PROVE Due(id)' = Due(id)
  <2>1. CASE 1 \in 1 .. m
    BY <1>3, <1>4, <2>1 DEF Due
  <2>2. CASE 1 \notin 1 .. m
    <3>1. 1 \notin WireConfigures
      BY <1>1, <2>2 DEF WireConfigures
    <3>2. ASSUME 1 \in WireConfigures' PROVE Carried(1)' = None
      <4>1. 1 \in 1 .. n /\ wire'[1].type = "configure"
        BY <1>1, <3>2 DEF WireConfigures
      <4>2. 1 \in m + 1 .. n
        BY <1>2, <2>2, <4>1
      <4> QED
        BY <4>1, <4>2
    <3> QED
      BY <3>1, <3>2 DEF Due
  <2> QED
    BY <2>1, <2>2
<1> QED
  BY <1>7, <1>8

(* The compositor puts messages of some types on the wire. *)
Adds(longer, queue, types) ==
    /\ longer \in Seq(Messages) /\ Len(queue) <= Len(longer)
    /\ \A i \in 1 .. Len(queue) : longer[i] = queue[i]
    /\ \A i \in Len(queue) + 1 .. Len(longer) : longer[i].type \in types

LEMMA AddsPart ==
    ASSUME NEW queue \in Seq(Messages), NEW longer, NEW types, Adds(longer, queue, types),
           NEW type \in types, NEW id, NEW option,
           option # None => Message(type, id, option[1]) \in Messages
    PROVE  Adds(longer \o Part(type, id, option), queue, types)
<1>1. CASE option = None
  <2>1. longer \o <<>> = longer
    BY ConcatEmptySeq DEF Adds
  <2> QED
    BY <1>1, <2>1 DEF Part
<1>2. CASE option # None
  <2> DEFINE m == Message(type, id, option[1])
  <2>1. m \in Messages /\ m.type = type
    BY <1>2 DEF Message
  <2> HIDE DEF m
  <2>2. Append(longer, m) = longer \o <<m>>
    BY <2>1, AppendIsConcat DEF Adds
  <2>3. Len(queue) \in Nat /\ longer \in Seq(Messages)
    BY DEF Adds
  <2>4. /\ Append(longer, m) \in Seq(Messages)
        /\ Len(longer) \in Nat /\ Len(Append(longer, m)) = Len(longer) + 1
        /\ \A i \in 1 .. Len(longer) : Append(longer, m)[i] = longer[i]
        /\ Append(longer, m)[Len(longer) + 1] = m
    BY <2>1, <2>3, AppendAt
  <2>5. Adds(Append(longer, m), queue, types)
    BY <2>1, <2>3, <2>4 DEF Adds
  <2> QED
    BY <1>2, <2>2, <2>5 DEF Part, m
<1> QED
  BY <1>1, <1>2

(* A batch goes out: its toplevel part, if any, right before its configure. *)
LEMMA BatchSent ==
    ASSUME SentTypes, WireInOrder, BatchesWhole,
           NEW id \in Nat, NEW mode \in Option(Modes), NEW toplevel \in Option(ToplevelStates),
           NEW bounds \in Option(BoundSizes), SendConfigure(id, mode, toplevel, bounds)
    PROVE  BatchesWhole' /\ \A f : Due(f)' = Due(f)
<1> DEFINE q1 == wire \o Part("bounds", id, bounds)
           q2 == q1 \o Part("mode", id, mode)
           batch == [frame |-> id, mode |-> mode, toplevel |-> toplevel]
           c == Message("configure", id, Len(sent) + 1)
           t == Message("toplevel", id, toplevel[1])
           l == Len(sent)
<1>1. wire \in Seq(Messages) /\ Len(wire) \in Nat /\ l \in Nat /\ DOMAIN sent = 1 .. l
  BY DEF SentTypes
<1>2. sent' = Append(sent, batch) /\ wire' = (q2 \o Part("toplevel", id, toplevel)) \o <<c>>
  BY DEF SendConfigure
<1>3. c \in Messages /\ c.type = "configure" /\ c.frame = id /\ c.value = l + 1
  BY <1>1 DEF Message, Messages
<1>4. toplevel # None => t \in Messages /\ t.type = "toplevel" /\ t.frame = id /\ t.value = toplevel[1]
  BY OptionValue DEF Message, Messages
<1>5. Adds(q2, wire, {"bounds", "mode"})
  <2>1. Adds(wire, wire, {"bounds", "mode"})
    BY <1>1 DEF Adds
  <2>2. bounds # None => Message("bounds", id, bounds[1]) \in Messages
    BY OptionValue DEF Message, Messages
  <2>3. mode # None => Message("mode", id, mode[1]) \in Messages
    BY OptionValue DEF Message, Messages
  <2>4. Adds(q1, wire, {"bounds", "mode"})
    BY <1>1, <2>1, <2>2, AddsPart
  <2> HIDE DEF q1
  <2> QED
    BY <1>1, <2>3, <2>4, AddsPart
<1>6. (\A i \in DOMAIN sent : sent'[i] = sent[i]) /\ sent'[l + 1].toplevel = toplevel
  <2>1. batch \in Batch /\ sent \in Seq(Batch) /\ batch.toplevel = toplevel
    BY DEF Batch, SentTypes
  <2> HIDE DEF batch
  <2>2. \A i \in 1 .. l : Append(sent, batch)[i] = sent[i]
    BY <2>1, AppendAt
  <2>3. Append(sent, batch)[l + 1] = batch
    BY <2>1, AppendAt
  <2> QED
    BY <1>1, <1>2, <2>1, <2>2, <2>3
<1> HIDE DEF q2, c, t, l, batch
<1>7. /\ q2 \in Seq(Messages) /\ Len(q2) \in Nat /\ Len(wire) <= Len(q2)
      /\ \A i \in 1 .. Len(wire) : q2[i] = wire[i]
      /\ \A i \in Len(wire) + 1 .. Len(q2) : q2[i].type \in {"bounds", "mode"}
  BY <1>5 DEF Adds
<1>8. \A q \in Seq(Messages) : q \o <<c>> = Append(q, c)
  BY <1>3, AppendIsConcat
<1>9. CASE toplevel = None
  <2>1. q2 \o Part("toplevel", id, toplevel) = q2
    BY <1>7, <1>9, ConcatEmptySeq DEF Part
  <2>2. wire' = Append(q2, c)
    BY <1>2, <1>7, <1>8, <2>1
  <2>4. PICK n : n = Len(q2) /\ n \in Nat
    BY <1>7
  <2>3. /\ wire' \in Seq(Messages) /\ Len(wire') = n + 1 /\ wire'[n + 1] = c
        /\ \A i \in 1 .. n : wire'[i] = q2[i]
    BY <1>3, <1>7, <2>2, <2>4, AppendAt
  <2>5. Len(wire) <= Len(wire') /\ \A i \in 1 .. Len(wire) : wire'[i] = wire[i]
    BY <1>1, <1>7, <2>3, <2>4
  <2>6. Carried(n + 1)' = None
    BY <1>3, <1>6, <1>9, <2>3 DEF Carried
  <2>7. \A i \in Len(wire) + 1 .. Len(wire') : i = n + 1 \/ wire'[i].type \in {"bounds", "mode"}
    <3>1. ASSUME NEW i \in Len(wire) + 1 .. n PROVE wire'[i].type \in {"bounds", "mode"}
      <4>1. i \in 1 .. n
        BY <1>1, <2>4
      <4>2. wire'[i] = q2[i]
        BY <2>3, <4>1
      <4>3. q2[i].type \in {"bounds", "mode"}
        BY <1>7, <2>4
      <4> QED
        BY <4>2, <4>3
    <3>2. \A i \in Len(wire) + 1 .. Len(wire') : i = n + 1 \/ i \in Len(wire) + 1 .. n
      BY <1>1, <2>3, <2>4
    <3> QED
      BY <3>1, <3>2
  <2>8. ASSUME NEW i \in Len(wire) + 1 .. Len(wire'), wire'[i].type = "toplevel" PROVE FALSE
    BY <1>3, <2>3, <2>7, <2>8
  <2>9. ASSUME NEW i \in Len(wire) + 1 .. Len(wire'), wire'[i].type = "configure",
               ~(i > 1 /\ wire'[i - 1].type = "toplevel")
        PROVE  Carried(i)' = None
    <3>1. i = n + 1
      BY <2>7, <2>9
    <3> QED
      BY <2>6, <3>1
  <2>10. ASSUME NEW i \in Len(wire) + 1 .. Len(wire'), wire'[i].type = "toplevel"
         PROVE  /\ i + 1 \in WireConfigures' /\ wire'[i + 1].frame = wire'[i].frame
                /\ Carried(i + 1)' = Some(wire'[i].value)
    BY <2>8, <2>10
  <2> QED
    BY <1>6, <2>3, <2>5, <2>9, <2>10, WireGrows
<1>10. CASE toplevel # None
  <2> DEFINE q3 == Append(q2, t)
  <2>5. PICK n : n = Len(q2) /\ n \in Nat
    BY <1>7
  <2>1. q2 \o Part("toplevel", id, toplevel) = q3
    BY <1>4, <1>7, <1>10, AppendIsConcat DEF Part, t
  <2>2. /\ q3 \in Seq(Messages) /\ Len(q3) = n + 1 /\ q3[n + 1] = t
        /\ \A i \in 1 .. n : q3[i] = q2[i]
    BY <1>4, <1>7, <1>10, <2>5, AppendAt
  <2> HIDE DEF q3
  <2>3. wire' = Append(q3, c)
    BY <1>2, <1>8, <2>1, <2>2
  <2>4. /\ wire' \in Seq(Messages) /\ Len(wire') = Len(q3) + 1 /\ wire'[Len(q3) + 1] = c
        /\ \A i \in 1 .. Len(q3) : wire'[i] = q3[i]
    BY <1>3, <2>2, <2>3, AppendAt
  <2>6. /\ Len(wire') = (n + 1) + 1 /\ wire'[(n + 1) + 1] = c /\ wire'[n + 1] = t
        /\ \A i \in 1 .. n : wire'[i] = q2[i]
    BY <2>2, <2>4, <2>5
  <2>7. Len(wire) <= Len(wire') /\ \A i \in 1 .. Len(wire) : wire'[i] = wire[i]
    BY <1>1, <1>7, <2>5, <2>6
  <2>8. /\ (n + 1) + 1 \in WireConfigures'
        /\ Carried((n + 1) + 1)' = Some(t.value)
    <3>1. (n + 1) + 1 \in 1 .. Len(wire') /\ DOMAIN wire' = 1 .. Len(wire')
      BY <2>4, <2>5, <2>6
    <3>2. toplevel = Some(toplevel[1])
      BY <1>10 DEF Option, Some
    <3> QED
      BY <1>3, <1>4, <1>6, <1>10, <2>6, <3>1, <3>2 DEF WireConfigures, Carried
  <2>9. \A i \in Len(wire) + 1 .. Len(wire') :
            i = n + 1 \/ i = (n + 1) + 1 \/ wire'[i].type \in {"bounds", "mode"}
    <3>1. ASSUME NEW i \in Len(wire) + 1 .. n PROVE wire'[i].type \in {"bounds", "mode"}
      BY <1>1, <1>7, <2>5, <2>6
    <3>2. \A i \in Len(wire) + 1 .. Len(wire') :
              i = n + 1 \/ i = (n + 1) + 1 \/ i \in Len(wire) + 1 .. n
      BY <1>1, <2>5, <2>6
    <3> QED
      BY <3>1, <3>2
  <2>10. /\ wire'[n + 1].type = "toplevel" /\ wire'[(n + 1) + 1].type = "configure"
         /\ wire'[(n + 1) + 1].frame = wire'[n + 1].frame /\ wire'[n + 1].value = t.value
         /\ ((n + 1) + 1) - 1 = n + 1 /\ (n + 1) + 1 > 1
    BY <1>3, <1>4, <1>10, <2>5, <2>6
  <2>11. ASSUME NEW i \in Len(wire) + 1 .. Len(wire'), wire'[i].type = "toplevel"
         PROVE  /\ i + 1 \in WireConfigures' /\ wire'[i + 1].frame = wire'[i].frame
                /\ Carried(i + 1)' = Some(wire'[i].value)
    <3>1. i = n + 1
      BY <2>9, <2>10, <2>11
    <3> QED
      BY <2>8, <2>10, <3>1
  <2>12. ASSUME NEW i \in Len(wire) + 1 .. Len(wire'), wire'[i].type = "configure"
         PROVE  i > 1 /\ wire'[i - 1].type = "toplevel"
    <3>1. i = (n + 1) + 1
      BY <2>9, <2>10, <2>12
    <3> QED
      BY <2>10, <3>1
  <2> QED
    BY <1>6, <2>4, <2>7, <2>11, <2>12, WireGrows
<1> QED
  BY <1>9, <1>10

LEMMA OtherSent ==
    ASSUME SentTypes, WireInOrder, BatchesWhole, NEW id, NEW message \in Messages,
           message.type \in {"wm", "close"}, SendOther(id, message)
    PROVE  BatchesWhole' /\ \A f : Due(f)' = Due(f)
<1> DEFINE n == Len(wire)
<1>1. wire \in Seq(Messages) /\ n \in Nat /\ wire' = Append(wire, message) /\ sent' = sent
  BY DEF SentTypes, SendOther
<1>2. /\ wire' \in Seq(Messages) /\ Len(wire') = n + 1 /\ wire'[n + 1] = message
      /\ \A i \in 1 .. n : wire'[i] = wire[i]
  BY <1>1, AppendAt
<1>3. \A i \in n + 1 .. Len(wire') : i = n + 1
  BY <1>1, <1>2
<1>4. n <= Len(wire')
  BY <1>1, <1>2
<1> QED
  BY <1>1, <1>2, <1>3, <1>4, WireGrows

(* A configuration made of what was due carries it. *)
LEMMA ConfigurationCarries ==
    ASSUME NEW pending \in Pending, NEW serial, NEW has_csd,
           NEW toplevel \in Option(ToplevelStates),
           pending.size = SizeOf(toplevel), pending.window_state = StatesOf(toplevel)
    PROVE  Carries(Configuration(serial, pending, has_csd), toplevel)
<1> DEFINE cfg == Configuration(serial, pending, has_csd)
           size == IF pending.size = None THEN None
                   ELSE Some(ContentOf(pending.size[1], has_csd))
<1>1. cfg.size = size /\ cfg.window_state = pending.window_state
  BY DEF Configuration
<1>2. \A v : Some(v) # None /\ Some(v)[1] = v
  BY DEF Some, None
<1> HIDE DEF cfg
<1>3. (cfg.size = None) = (toplevel = None \/ ~Named(toplevel[1].size))
  BY <1>1, <1>2 DEF SizeOf
<1>4. ASSUME cfg.size # None
      PROVE  \E csd_then \in BOOLEAN : cfg.size[1] = ContentOf(toplevel[1].size, csd_then)
  <2>1. ~(toplevel = None \/ ~Named(toplevel[1].size))
    BY <1>3, <1>4
  <2>2. pending.size = Some(toplevel[1].size)
    BY <2>1 DEF SizeOf
  <2>3. pending.size # None /\ pending.size[1] = toplevel[1].size
    BY <1>2, <2>2
  <2>4. cfg.size[1] = ContentOf(pending.size[1], has_csd)
    BY <1>1, <1>2, <2>3
  <2>5. CASE has_csd
    <3>1. ContentOf(toplevel[1].size, has_csd) = ContentOf(toplevel[1].size, TRUE)
      BY <2>5 DEF ContentOf, decoration_overhead
    <3> QED
      BY <2>3, <2>4, <3>1
  <2>6. CASE ~has_csd
    <3>1. ContentOf(toplevel[1].size, has_csd) = ContentOf(toplevel[1].size, FALSE)
      BY <2>6 DEF ContentOf, decoration_overhead
    <3> QED
      BY <2>3, <2>4, <3>1
  <2> QED
    BY <2>5, <2>6
<1>5. cfg.window_state = IF toplevel = None THEN None ELSE Some(toplevel[1].states)
  BY <1>1 DEF StatesOf
<1>6. Carries(cfg, toplevel)
  BY <1>3, <1>4, <1>5 DEF Carries
<1> QED
  BY <1>6 DEF cfg

(* Frames that keep what they have pending, and new ones with nothing. *)
LEMMA PendingStable ==
    ASSUME PendingDue, \A id : Due(id)' = Due(id),
           \A id \in live' :
               \/ /\ id \in live
                  /\ frames'[id].pending.size = frames[id].pending.size
                  /\ frames'[id].pending.window_state = frames[id].pending.window_state
               \/ frames'[id].pending = NoPending /\ Due(id) = None
    PROVE  PendingDue'
<1>1. SizeOf(None) = None /\ StatesOf(None) = None
  BY DEF SizeOf, StatesOf
<1>2. NoPending.size = None /\ NoPending.window_state = None
  BY DEF NoPending
<1>3. ASSUME NEW id \in live'
      PROVE  /\ frames'[id].pending.size = SizeOf(Due(id))
             /\ frames'[id].pending.window_state = StatesOf(Due(id))
  BY <1>1, <1>2 DEF PendingDue
<1> QED
  BY <1>3 DEF PendingDue

(* Configurations stay where they are, while more batches are sent. *)
LEMMA CarriedStable ==
    ASSUME InOrder, AllCarried, DOMAIN sent \subseteq DOMAIN sent',
           \A n \in DOMAIN sent : sent'[n] = sent[n],
           events' = events,
           DOMAIN held' \subseteq DOMAIN held, \A id \in DOMAIN held' : held'[id] = held[id]
    PROVE  AllCarried'
<1>1. \A id \in DOMAIN held' : Carries(held'[id], sent'[held'[id].serial].toplevel)
  BY DEF AllCarried, InOrder, HeldInOrder, Issued
<1>2. EventConfigures' = EventConfigures
  BY DEF EventConfigures
<1>3. \A i \in EventConfigures :
          Carries(events[i].configuration, sent'[SerialAt(i)].toplevel)
  BY DEF AllCarried, InOrder, EventsInOrder, Issued
<1> QED
  BY <1>1, <1>2, <1>3 DEF AllCarried, SerialAt

(* An event joins the queue; if it is a configure, it is faithful. *)
LEMMA CarriedJoins ==
    ASSUME InOrder, AllCarried, events \in Seq(EventType), NEW event,
           events' = Append(events, event), UNCHANGED <<sent, held>>,
           event.type = "Configure" =>
               Carries(event.configuration, sent[event.configuration.serial].toplevel)
    PROVE  AllCarried'
<1> DEFINE n == Len(events)
<1>1. /\ n \in Nat /\ DOMAIN events = 1 .. n /\ DOMAIN events' = 1 .. n + 1
      /\ \A i \in 1 .. n : events'[i] = events[i]
      /\ events'[n + 1] = event
  <2> DEFINE S == EventType \cup {event}
  <2>1. event \in S /\ events \in Seq(S)
    OBVIOUS
  <2> HIDE DEF S
  <2> QED
    BY <2>1, AppendAt
<1> HIDE DEF n
<1>2. \A i \in 1 .. n + 1 : i \in 1 .. n \/ i = n + 1
  BY <1>1
<1>3. ASSUME NEW i \in EventConfigures'
      PROVE  Carries(events'[i].configuration, sent[events'[i].configuration.serial].toplevel)
  <2>1. i \in 1 .. n + 1 /\ events'[i].type = "Configure"
    BY <1>1 DEF EventConfigures
  <2>2. CASE i \in 1 .. n
    BY <1>1, <2>1, <2>2 DEF AllCarried, EventConfigures, SerialAt
  <2>3. CASE i = n + 1
    BY <1>1, <2>1, <2>3
  <2> QED
    BY <1>2, <2>1, <2>2, <2>3
<1> QED
  BY <1>3 DEF AllCarried, SerialAt

(* What a batch sent says is of the right type. *)
LEMMA CarriedType ==
    ASSUME SentTypes, NEW serial \in DOMAIN sent
    PROVE  sent[serial].toplevel \in Option(ToplevelStates)
<1>1. sent \in Seq(Batch)
  BY DEF SentTypes, Batch
<1>2. sent[serial] \in Batch
  BY <1>1, LenProperties, ElementOfSeq
<1> QED
  BY <1>2 DEF Batch

(* The compositor's batch, or another message of it. *)
LEMMA SendFaithful ==
    ASSUME FaithfulInv, NEW id \in live, Send(id)
    PROVE  BatchesWhole' /\ PendingDue' /\ AllCarried'
<1>0. SentTypes /\ WireInOrder /\ InOrder /\ BatchesWhole /\ PendingDue /\ AllCarried /\ id \in Nat
  BY DEF FaithfulInv, SessionInv, RegistryInv, TypeInv, TypeOK, InOrder, Allocated
<1>1. UNCHANGED <<frames, events, held>> /\ live' = live
  BY DEF Send, SendConfigure, SendOther, vars, inner, live
<1>2. /\ BatchesWhole' /\ \A f : Due(f)' = Due(f)
      /\ DOMAIN sent \subseteq DOMAIN sent' /\ \A n \in DOMAIN sent : sent'[n] = sent[n]
  <2>1. ASSUME NEW mode \in Option(Modes), NEW toplevel \in Option(ToplevelStates),
               NEW bounds \in Option(BoundSizes), SendConfigure(id, mode, toplevel, bounds)
        PROVE  /\ BatchesWhole' /\ \A f : Due(f)' = Due(f)
               /\ DOMAIN sent \subseteq DOMAIN sent' /\ \A n \in DOMAIN sent : sent'[n] = sent[n]
    <3> DEFINE batch == [frame |-> id, mode |-> mode, toplevel |-> toplevel]
    <3>1. sent \in Seq(Batch) /\ batch \in Batch /\ sent' = Append(sent, batch)
      BY <1>0, <2>1 DEF SentTypes, Batch, SendConfigure
    <3> HIDE DEF batch
    <3>2. DOMAIN sent \subseteq DOMAIN sent' /\ \A n \in DOMAIN sent : sent'[n] = sent[n]
      BY <3>1, AppendAt
    <3>3. BatchesWhole' /\ \A f : Due(f)' = Due(f)
      BY <1>0, <2>1, BatchSent
    <3> QED
      BY <3>2, <3>3
  <2>2. ASSUME NEW message \in Messages, message.type \in {"wm", "close"}, SendOther(id, message)
        PROVE  /\ BatchesWhole' /\ \A f : Due(f)' = Due(f)
               /\ DOMAIN sent \subseteq DOMAIN sent' /\ \A n \in DOMAIN sent : sent'[n] = sent[n]
    <3>1. BatchesWhole' /\ \A f : Due(f)' = Due(f)
      BY <1>0, <2>2, OtherSent
    <3> QED
      BY <2>2, <3>1 DEF SendOther
  <2>3. \A wm \in WmCapSets : Message("wm", id, wm) \in Messages
    BY <1>0 DEF Message, Messages
  <2>4. Message("close", id, {}) \in Messages
    BY <1>0 DEF Message, Messages
  <2>5. \A value : Message("wm", id, value).type = "wm" /\ Message("close", id, value).type = "close"
    BY DEF Message
  <2> QED
    BY <2>1, <2>2, <2>3, <2>4, <2>5 DEF Send
<1>3. PendingDue'
  BY <1>0, <1>1, <1>2, PendingStable
<1>4. AllCarried'
  BY <1>0, <1>1, <1>2, CarriedStable
<1> QED
  BY <1>2, <1>3, <1>4

(* A step that takes nothing off the wire and puts nothing on it. *)
LEMMA WireUntouched ==
    ASSUME BatchesWhole, UNCHANGED <<wire, sent>>
    PROVE  BatchesWhole' /\ \A id : Due(id)' = Due(id)
BY DEF BatchesWhole, Due, Carried, WireConfigures

(* The oldest event is polled. *)
LEMMA PollFaithful ==
    ASSUME FaithfulInv, Poll
    PROVE  BatchesWhole' /\ PendingDue' /\ AllCarried'
<1>0. BatchesWhole /\ PendingDue /\ AllCarried /\ TypeOK
  BY DEF FaithfulInv, SessionInv, RegistryInv, TypeInv
<1>1. PollEvent /\ UNCHANGED <<wire, sent, frames>> /\ live' = live
  BY DEF Poll, PollEvent, live
<1>2. BatchesWhole' /\ PendingDue'
  BY <1>0, <1>1, WireUntouched, PendingStable
<1>3. /\ events' = Tail(events) /\ 1 \in DOMAIN events /\ Head(events) = events[1]
      /\ \A i \in DOMAIN events' : i + 1 \in DOMAIN events /\ events'[i] = events[i + 1]
  <2>1. events # <<>> /\ events \in Seq(EventType) /\ events' = Tail(events)
    BY <1>0, <1>1 DEF PollEvent, Popped, TypeOK
  <2> QED
    BY <2>1, TailAt
<1>4. ASSUME NEW i \in EventConfigures'
      PROVE  Carries(events'[i].configuration, sent[events'[i].configuration.serial].toplevel)
  <2>1. i + 1 \in EventConfigures /\ events'[i] = events[i + 1]
    BY <1>3 DEF EventConfigures
  <2> QED
    BY <1>0, <2>1 DEF AllCarried, SerialAt
<1>5. ASSUME NEW id \in DOMAIN held'
      PROVE  Carries(held'[id], sent[held'[id].serial].toplevel)
  <2>1. CASE held' = held
    BY <1>0, <2>1 DEF AllCarried
  <2>2. CASE held' # held
    <3>1. /\ events[1].type = "Configure"
          /\ held' = Put(held, events[1].frame, events[1].configuration)
      BY <1>1, <1>3, <2>2 DEF PollEvent, Popped
    <3>2. 1 \in EventConfigures
      BY <1>3, <3>1 DEF EventConfigures
    <3>3. held'[id] = events[1].configuration \/ (id \in DOMAIN held /\ held'[id] = held[id])
      BY <3>1 DEF Put
    <3> QED
      BY <1>0, <3>2, <3>3 DEF AllCarried, SerialAt
  <2> QED
    BY <2>1, <2>2
<1>6. AllCarried'
  BY <1>1, <1>4, <1>5 DEF AllCarried, SerialAt
<1> QED
  BY <1>2, <1>6

(* The application commits. *)
LEMMA CommitFaithful ==
    ASSUME FaithfulInv, NEW id \in live, CommitFrame(id) \/ ResizeFrame(id)
    PROVE  BatchesWhole' /\ PendingDue' /\ AllCarried'
<1>0. InOrder /\ BatchesWhole /\ PendingDue /\ AllCarried /\ TypeOK
  BY DEF FaithfulInv, SessionInv, RegistryInv, TypeInv
<1>1. UNCHANGED <<wire, sent>>
  BY DEF CommitFrame, ResizeFrame
<1>2. PICK size, cfg, painted : Commit(id, size, cfg, painted)
  BY DEF CommitFrame, ResizeFrame, CommitConfigured, CommitResized
<1>3. live' = live /\ \A i \in live : frames'[i].pending = frames[i].pending
  <2>1. frames \in [live -> Slot] /\ frames[id] \in Slot
    BY <1>0 DEF TypeOK
  <2> QED
    BY <1>2, <2>1 DEF Commit, live, Slot
<1>4. /\ events' = events /\ DOMAIN held' \subseteq DOMAIN held
      /\ \A i \in DOMAIN held' : held'[i] = held[i]
  BY <1>2 DEF Commit, Without, Restrict
<1>5. BatchesWhole' /\ PendingDue'
  BY <1>0, <1>1, <1>3, WireUntouched, PendingStable
<1>6. AllCarried'
  BY <1>0, <1>1, <1>4, CarriedStable
<1> QED
  BY <1>5, <1>6

(* A frame is created, and has nothing pending: nothing was sent to it yet. *)
LEMMA CreatedFaithful ==
    ASSUME FaithfulInv, NEW surface, NEW owns, NEW creation,
           decorate_inner(surface, owns, creation), UNCHANGED <<wire, sent>>
    PROVE  BatchesWhole' /\ PendingDue' /\ AllCarried'
<1>0. InOrder /\ BatchesWhole /\ PendingDue /\ AllCarried /\ TypeOK /\ SentTypes
  BY DEF FaithfulInv, SessionInv, RegistryInv, TypeInv, InOrder
<1>1. /\ frames' = Put(frames, next_id, NewSlot(surface, owns, ~force_csd /\ DecorationMgr))
      /\ UNCHANGED <<events, held>>
  BY DEF decorate_inner
<1>2. next_id \in Nat /\ next_id \notin Allocated
  BY <1>0 DEF TypeOK, Allocated
<1>3. Due(next_id) = None
  BY <1>0, <1>2 DEF Due, WireConfigures, SentTypes
<1>4. \A i \in live' : \/ i \in live /\ frames'[i] = frames[i]
                       \/ i = next_id /\ frames'[i].pending = NoPending
  BY <1>1 DEF Put, live, NewSlot
<1>5. BatchesWhole' /\ \A i : Due(i)' = Due(i)
  BY <1>0, WireUntouched
<1>6. PendingDue'
  BY <1>0, <1>3, <1>4, <1>5, PendingStable
<1>7. AllCarried'
  BY <1>0, <1>1, CarriedStable
<1> QED
  BY <1>5, <1>6, <1>7

(* Any other call leaves what is pending, and destroying a frame drops it. *)
LEMMA OtherCallFaithful ==
    ASSUME FaithfulInv, OtherCall
    PROVE  BatchesWhole' /\ PendingDue' /\ AllCarried'
<1>0. InOrder /\ BatchesWhole /\ PendingDue /\ AllCarried /\ TypeOK
  BY DEF FaithfulInv, SessionInv, RegistryInv, TypeInv
<1>1. UNCHANGED <<wire, sent>>
  BY DEF OtherCall
<1>2. ASSUME events' = events,
             DOMAIN held' \subseteq DOMAIN held, \A id \in DOMAIN held' : held'[id] = held[id],
             \A id \in live' : id \in live /\ frames'[id].pending = frames[id].pending
      PROVE  BatchesWhole' /\ PendingDue' /\ AllCarried'
  BY <1>0, <1>1, <1>2, WireUntouched, PendingStable, CarriedStable
<1>3. frames \in [live -> Slot]
  BY <1>0 DEF TypeOK
<1>4. CASE CreateFrame
  BY <1>1, <1>4, CreatedFaithful DEF CreateFrame
<1>5. CASE \E surface \in AppSurfaces : Decorate(surface)
  BY <1>1, <1>5, CreatedFaithful DEF Decorate
<1>6. ASSUME NEW id \in live, DestroyFrame(id)
      PROVE  BatchesWhole' /\ PendingDue' /\ AllCarried'
  <2>1. /\ events' = events /\ DOMAIN held' \subseteq DOMAIN held
        /\ \A i \in DOMAIN held' : held'[i] = held[i]
        /\ \A i \in live' : i \in live /\ frames'[i] = frames[i]
    BY <1>6 DEF DestroyFrame, Without, Restrict, live
  <2> QED
    BY <1>2, <2>1
<1>7. ASSUME NEW id \in live, NEW slot,
             frames' = frames \/ frames' = [frames EXCEPT ![id] = slot],
             slot.pending = frames[id].pending, UNCHANGED <<events, held>>
      PROVE  BatchesWhole' /\ PendingDue' /\ AllCarried'
  <2>1. \A i \in live' : i \in live /\ frames'[i].pending = frames[i].pending
    BY <1>3, <1>7 DEF live
  <2> QED
    BY <1>2, <1>7, <2>1
<1>8. ASSUME NEW id \in live, Map(id)
      PROVE  BatchesWhole' /\ PendingDue' /\ AllCarried'
  <2> DEFINE slot == [frames[id] EXCEPT !.mapped = TRUE]
  <2>1. frames' = [frames EXCEPT ![id] = slot] /\ slot.pending = frames[id].pending
        /\ UNCHANGED <<events, held>>
    BY <1>3, <1>8 DEF Map, Slot
  <2> HIDE DEF slot
  <2> QED
    BY <1>7, <2>1
<1>9. ASSUME NEW id \in live, NEW caps, SetCapabilities(id, caps) \/ UnsetCapabilities(id, caps)
      PROVE  BatchesWhole' /\ PendingDue' /\ AllCarried'
  <2> DEFINE slot(c) == [frames[id] EXCEPT !.capabilities = c]
  <2>1. UNCHANGED <<events, held>>
    BY <1>9 DEF SetCapabilities, UnsetCapabilities
  <2>2. \A c : slot(c).pending = frames[id].pending
    BY <1>3 DEF Slot
  <2>3. PICK c : frames' = [frames EXCEPT ![id] = slot(c)]
    <3>1. CASE SetCapabilities(id, caps)
      BY <3>1 DEF SetCapabilities
    <3>2. CASE UnsetCapabilities(id, caps)
      BY <3>2 DEF UnsetCapabilities
    <3> QED
      BY <1>9, <3>1, <3>2
  <2> HIDE DEF slot
  <2> QED
    BY <1>7, <2>1, <2>2, <2>3
<1>10. ASSUME NEW id \in live, NEW visible, SetVisibility(id, visible)
       PROVE  BatchesWhole' /\ PendingDue' /\ AllCarried'
  <2> DEFINE slot == [frames[id] EXCEPT !.visible = visible]
  <2>1. frames' = [frames EXCEPT ![id] = slot] /\ slot.pending = frames[id].pending
        /\ UNCHANGED <<events, held>>
    BY <1>3, <1>10 DEF SetVisibility, Slot
  <2> HIDE DEF slot
  <2> QED
    BY <1>7, <2>1
<1>11. ASSUME UNCHANGED <<frames, events, held>>
       PROVE  BatchesWhole' /\ PendingDue' /\ AllCarried'
  BY <1>2, <1>11 DEF live
<1>12. ASSUME NEW force, ForceClientSideDecorations(force)
       PROVE  UNCHANGED <<frames, events, held>>
  BY <1>12 DEF ForceClientSideDecorations
<1>13. ASSUME NEW id, NEW name, ToplevelRequest(id, name)
       PROVE  UNCHANGED <<frames, events, held>>
  BY <1>13 DEF ToplevelRequest, inner
<1>14. ASSUME NEW id, NEW parent, SetParent(id, parent)
       PROVE  UNCHANGED <<frames, events, held>>
  BY <1>14 DEF SetParent, inner
<1> QED
  BY <1>4, <1>5, <1>6, <1>8, <1>9, <1>10, <1>11, <1>12, <1>13, <1>14 DEF OtherCall

(* The oldest event on the wire is dispatched. *)
LEMMA DeliverFaithful ==
    ASSUME FaithfulInv, Deliver
    PROVE  BatchesWhole' /\ PendingDue' /\ AllCarried'
<1> DEFINE m == wire[1]
<1>0. InOrder /\ SentTypes /\ BatchesWhole /\ PendingDue /\ AllCarried /\ TypeOK
  BY DEF FaithfulInv, SessionInv, RegistryInv, TypeInv, InOrder
<1>1. /\ wire # <<>> /\ wire' = Tail(wire) /\ sent' = sent
      /\ Head(wire) = m /\ 1 \in DOMAIN wire
  <2>1. wire \in Seq(Messages) /\ wire # <<>>
    BY <1>0 DEF SentTypes, Deliver
  <2> QED
    BY <2>1, TailAt DEF Deliver
<1>2. /\ BatchesWhole'
      /\ \A id : Due(id)' = IF m.type = "toplevel" /\ m.frame = id THEN Some(m.value) ELSE None
  BY <1>0, <1>1, WireTaken
<1>3. \A id : Due(id) = IF m.type = "configure" /\ m.frame = id
                        THEN sent[m.value].toplevel ELSE None
  BY <1>1 DEF Due, WireConfigures, Carried
<1>4. /\ SizeOf(None) = None /\ StatesOf(None) = None
      /\ NoPending.size = None /\ NoPending.window_state = None
  BY DEF SizeOf, StatesOf, NoPending
<1>5. /\ events \in Seq(EventType) /\ frames \in [live -> Slot]
      /\ \A id \in live : frames[id].pending \in Pending
  BY <1>0 DEF TypeOK, Slot
<1> DEFINE id == m.frame
<1>6. \/ m.type = "configure" /\ XdgSurfaceConfigure(id, m.value)
      \/ m.type = "toplevel" /\ ToplevelConfigure(id, m.value.size, m.value.states)
      \/ m.type = "mode" /\ DecorationConfigure(id, m.value)
      \/ m.type = "bounds" /\ ToplevelConfigureBounds(id, m.value)
      \/ m.type = "wm" /\ ToplevelWmCapabilities(id, m.value)
      \/ m.type = "close" /\ ToplevelClose(id)
  BY <1>1 DEF Deliver
<1> HIDE DEF m, id
<1>7. ASSUME m.type \notin {"configure", "toplevel"},
             \A i \in live' : /\ i \in live
                              /\ frames'[i].pending.size = frames[i].pending.size
                              /\ frames'[i].pending.window_state = frames[i].pending.window_state
      PROVE  PendingDue'
  <2>1. \A i : Due(i)' = Due(i)
    BY <1>2, <1>3, <1>7
  <2> QED
    BY <1>0, <1>7, <2>1, PendingStable
<1>8. ASSUME events' = events, held' = held PROVE AllCarried'
  BY <1>0, <1>1, <1>8, CarriedStable
<1>9. ASSUME NEW event, events' = Append(events, event), held' = held, event.type # "Configure"
      PROVE  AllCarried'
  BY <1>0, <1>1, <1>5, <1>9, CarriedJoins
<1>10. CASE m.type = "configure" /\ XdgSurfaceConfigure(id, m.value)
  <2>1. \A i \in live' :
            /\ i \in live
            /\ frames'[i].pending = IF i = id THEN NoPending ELSE frames[i].pending
    BY <1>5, <1>10 DEF XdgSurfaceConfigure, TakePending, live, Slot
  <2>2. PendingDue'
    <3>1. ASSUME NEW i \in live'
          PROVE  frames'[i].pending.size = None /\ frames'[i].pending.window_state = None
      <4>1. CASE i = id
        BY <1>4, <2>1, <4>1
      <4>2. CASE i # id
        BY <1>0, <1>3, <1>4, <2>1, <4>2 DEF PendingDue, id
      <4> QED
        BY <4>1, <4>2
    <3>2. \A i : Due(i)' = None
      BY <1>2, <1>10
    <3> QED
      BY <1>4, <3>1, <3>2 DEF PendingDue
  <2>3. held' = held
    BY <1>10 DEF XdgSurfaceConfigure
  <2>4. CASE id \notin live
    <3>1. events' = events
      BY <1>10, <2>4 DEF XdgSurfaceConfigure
    <3> QED
      BY <1>2, <1>8, <2>2, <2>3, <3>1
  <2>5. CASE id \in live
    <3> DEFINE cfg == Configuration(m.value, frames[id].pending, id \in DOMAIN csd')
               event == [type |-> "Configure", frame |-> id, configuration |-> cfg]
    <3>1. events' = Append(events, event)
      BY <1>10, <2>5 DEF XdgSurfaceConfigure
    <3>2. event.configuration = cfg /\ cfg.serial = m.value
      BY DEF Configuration
    <3>3. m.value \in DOMAIN sent
      BY <1>0, <1>1, <1>10 DEF WireInOrder, InOrder, WireConfigures, Issued, m
    <3>4. sent[m.value].toplevel \in Option(ToplevelStates)
      BY <1>0, <3>3, CarriedType
    <3>5. /\ frames[id].pending \in Pending
          /\ frames[id].pending.size = SizeOf(sent[m.value].toplevel)
          /\ frames[id].pending.window_state = StatesOf(sent[m.value].toplevel)
      BY <1>0, <1>3, <1>5, <1>10, <2>5 DEF PendingDue, id
    <3>6. Carries(cfg, sent[m.value].toplevel)
      BY <3>4, <3>5, ConfigurationCarries
    <3> HIDE DEF cfg
    <3>7. Carries(event.configuration, sent[event.configuration.serial].toplevel)
      BY <3>2, <3>6
    <3> HIDE DEF event
    <3>8. AllCarried'
      BY <1>0, <1>1, <1>5, <2>3, <3>1, <3>7, CarriedJoins
    <3> QED
      BY <1>2, <2>2, <3>8
  <2> QED
    BY <2>4, <2>5
<1>11. CASE m.type = "toplevel" /\ ToplevelConfigure(id, m.value.size, m.value.states)
  <2>1. events' = events /\ held' = held
    BY <1>11 DEF ToplevelConfigure
  <2>2. \A i \in live' :
            /\ i \in live
            /\ i # id => frames'[i].pending = frames[i].pending
            /\ i = id => /\ frames'[i].pending.size = IF Named(m.value.size)
                                                      THEN Some(m.value.size) ELSE None
                         /\ frames'[i].pending.window_state = Some(m.value.states)
    BY <1>5, <1>11 DEF ToplevelConfigure, live, Slot, Pending, Named
  <2>3. PendingDue'
    <3>1. ASSUME NEW i \in live'
          PROVE  /\ frames'[i].pending.size = SizeOf(Due(i)')
                 /\ frames'[i].pending.window_state = StatesOf(Due(i)')
      <4>1. CASE i = id
        <5>1. Due(i)' = Some(m.value)
          BY <1>2, <1>11, <4>1 DEF id
        <5>2. Some(m.value) # None /\ Some(m.value)[1] = m.value
          BY DEF Some, None
        <5>3. SizeOf(Some(m.value)) = IF Named(m.value.size) THEN Some(m.value.size) ELSE None
          BY <5>2 DEF SizeOf
        <5>4. StatesOf(Some(m.value)) = Some(m.value.states)
          BY <5>2 DEF StatesOf
        <5> QED
          BY <2>2, <4>1, <5>1, <5>3, <5>4
      <4>2. CASE i # id
        <5>1. Due(i)' = None /\ Due(i) = None
          BY <1>2, <1>3, <1>11, <4>2 DEF id
        <5> QED
          BY <1>0, <1>4, <2>2, <4>2, <5>1 DEF PendingDue
      <4> QED
        BY <4>1, <4>2
    <3> QED
      BY <3>1 DEF PendingDue
  <2> QED
    BY <1>2, <1>8, <2>1, <2>3
<1>12. CASE m.type = "mode" /\ DecorationConfigure(id, m.value)
  <2>1. events' = events /\ held' = held
    BY <1>12 DEF DecorationConfigure
  <2>2. \A i \in live' : i \in live /\ frames'[i].pending = frames[i].pending
    BY <1>5, <1>12 DEF DecorationConfigure, live, Slot
  <2> QED
    BY <1>2, <1>7, <1>8, <1>12, <2>1, <2>2
<1>13. CASE m.type = "bounds" /\ ToplevelConfigureBounds(id, m.value)
  <2>1. \A i \in live' :
            /\ i \in live
            /\ frames'[i].pending.size = frames[i].pending.size
            /\ frames'[i].pending.window_state = frames[i].pending.window_state
    <3> DEFINE pending == [frames[id].pending EXCEPT !.bounds = Some(m.value)]
               slot == [frames[id] EXCEPT !.pending = pending]
    <3>1. CASE id \notin live
      BY <1>13, <3>1 DEF ToplevelConfigureBounds, live
    <3>2. CASE id \in live
      <4>1. /\ pending.size = frames[id].pending.size
            /\ pending.window_state = frames[id].pending.window_state
        BY <1>5, <3>2 DEF Pending
      <4>2. frames' = [frames EXCEPT ![id] = slot]
        BY <1>13, <3>2 DEF ToplevelConfigureBounds
      <4> HIDE DEF pending
      <4>3. slot.pending = pending
        BY <1>5, <3>2 DEF Slot
      <4> HIDE DEF slot
      <4> QED
        BY <1>5, <3>2, <4>1, <4>2, <4>3 DEF live
    <3> QED
      BY <3>1, <3>2
  <2>2. held' = held
    BY <1>13 DEF ToplevelConfigureBounds
  <2>3. events' = events \/ events' = Append(events, [type |-> "Bounds", frame |-> id, size |-> m.value])
    BY <1>13 DEF ToplevelConfigureBounds
  <2>4. AllCarried'
    BY <1>8, <1>9, <2>2, <2>3
  <2> QED
    BY <1>2, <1>7, <1>13, <2>1, <2>4
<1>14. CASE m.type = "wm" /\ ToplevelWmCapabilities(id, m.value)
  <2>1. events' = events /\ held' = held
    BY <1>14 DEF ToplevelWmCapabilities
  <2>2. \A i \in live' : i \in live /\ frames'[i].pending = frames[i].pending
    BY <1>5, <1>14 DEF ToplevelWmCapabilities, live, Slot
  <2> QED
    BY <1>2, <1>7, <1>8, <1>14, <2>1, <2>2
<1>15. CASE m.type = "close" /\ ToplevelClose(id)
  <2>1. held' = held /\ frames' = frames
    BY <1>15 DEF ToplevelClose
  <2>2. events' = events \/ events' = Append(events, [type |-> "Close", frame |-> id])
    BY <1>15 DEF ToplevelClose
  <2>3. AllCarried'
    BY <1>8, <1>9, <2>1, <2>2
  <2>4. \A i \in live' : i \in live /\ frames'[i].pending = frames[i].pending
    BY <2>1 DEF live
  <2> QED
    BY <1>2, <1>7, <1>15, <2>3, <2>4
<1> QED
  BY <1>6, <1>10, <1>11, <1>12, <1>13, <1>14, <1>15

LEMMA FaithfulInit == SessionInit => FaithfulInv
<1> SUFFICES ASSUME SessionInit PROVE FaithfulInv
  OBVIOUS
<1>1. DOMAIN wire = {} /\ live = {} /\ DOMAIN held = {} /\ DOMAIN events = {}
  BY DEF SessionInit, Init, live
<1>2. WireConfigures = {} /\ EventConfigures = {}
  BY <1>1 DEF WireConfigures, EventConfigures
<1> QED
  BY <1>1, <1>2, InvInit DEF FaithfulInv, BatchesWhole, PendingDue, AllCarried

LEMMA FaithfulStep == FaithfulInv /\ [SessionNext]_session_vars => FaithfulInv'
<1> SUFFICES ASSUME FaithfulInv, [SessionNext]_session_vars
             PROVE  BatchesWhole' /\ PendingDue' /\ AllCarried'
  BY InvStep DEF FaithfulInv
<1>1. CASE \E id \in live : Send(id)
  BY <1>1, SendFaithful
<1>2. CASE Deliver
  BY <1>2, DeliverFaithful
<1>3. CASE Poll
  BY <1>3, PollFaithful
<1>4. CASE \E id \in live : CommitFrame(id) \/ ResizeFrame(id)
  BY <1>4, CommitFaithful
<1>5. CASE OtherCall
  BY <1>5, OtherCallFaithful
<1>6. CASE UNCHANGED session_vars
  <2>1. UNCHANGED <<wire, sent, frames, events, held>> /\ live' = live
    BY <1>6 DEF session_vars, compositor, vars, inner, live
  <2>2. InOrder /\ BatchesWhole /\ PendingDue /\ AllCarried
    BY DEF FaithfulInv, SessionInv
  <2> QED
    BY <2>1, <2>2, WireUntouched, PendingStable, CarriedStable
<1> QED
  BY <1>1, <1>2, <1>3, <1>4, <1>5, <1>6 DEF SessionNext

(***************************************************************************)
(* What a configuration tells the application is what its own batch said:  *)
(* the states and the size of that batch, less the decorations, and none   *)
(* if it had none; never those of a batch before it, of another frame, or  *)
(* of one whose configure is still on its way (TakePending of              *)
(* XdgSurface::Configure, XdgToplevel::Configure, Context::poll_event).    *)
(***************************************************************************)
THEOREM ConfigurationsCorrect == SessionSpec => []ConfigurationsFaithful
<1>1. SessionSpec => []FaithfulInv
  BY FaithfulInit, FaithfulStep, PTL DEF SessionSpec
<1>2. FaithfulInv => ConfigurationsFaithful
  <2> SUFFICES ASSUME FaithfulInv PROVE ConfigurationsFaithful
    OBVIOUS
  <2>1. HeldInOrder /\ EventsInOrder /\ AllCarried
    BY DEF FaithfulInv, SessionInv, InOrder
  <2>2. \A id \in DOMAIN held : /\ Carries(held[id], sent[held[id].serial].toplevel)
                                /\ sent[held[id].serial].frame = id
    BY <2>1 DEF HeldInOrder, AllCarried, Issued
  <2>3. \A i \in EventConfigures :
            /\ Carries(events[i].configuration, sent[SerialAt(i)].toplevel)
            /\ sent[SerialAt(i)].frame = events[i].frame
    BY <2>1 DEF EventsInOrder, AllCarried, Issued
  <2> QED
    BY <2>2, <2>3 DEF ConfigurationsFaithful, EventConfigures, SerialAt
<1> QED
  BY <1>1, <1>2, PTL

-----------------------------------------------------------------------------
(***************************************************************************)
(* What is settled.  Nothing sent to a live frame is lost: it is on the    *)
(* wire, in the queue, held, or answered, or something sent to the frame   *)
(* later is.  And whatever has come of a frame agrees with what was sent   *)
(* last, unless something else is coming that will set it right.           *)
(***************************************************************************)
OnWire(id) == {wire[i].value : i \in {i \in WireConfigures : wire[i].frame = id}}
Queued(id) == {events[i].configuration : i \in {i \in EventConfigures : events[i].frame = id}}
Coming(id) == OnWire(id) # {} \/ Queued(id) # {} \/ id \in DOMAIN held

NoneLost ==
    \A n \in DOMAIN sent : LET id == sent[n].frame IN
        id \in live =>
            \/ n <= acked[id]
            \/ id \in DOMAIN held /\ n <= held[id].serial
            \/ \E cfg \in Queued(id) : n <= cfg.serial
            \/ \E serial \in OnWire(id) : n <= serial

AckedIssued == \A id \in FrameIds : acked[id] > 0 => Issued(acked[id], id)

(* A mode is followed by the configure of its batch. *)
ModeFollowed ==
    \A i \in DOMAIN wire : wire[i].type = "mode" =>
        \E j \in WireConfigures : i < j /\ wire[j].frame = wire[i].frame

(* Sizes.  A configuration computed before its frame was decorated is      *)
(* followed by another one.                                                *)
Asked(n) == sent[n].toplevel[1].size

Laid(cfg, has_csd) ==
    Sized(cfg.serial) => cfg.size = Some(ContentOf(Asked(cfg.serial), has_csd))

Holds(window, size) ==
    (HasRoom(size) => window = Some(size)) /\ window[1][1] >= size[1] /\ window[1][2] >= size[2]

EventsLaid ==
    \A id \in live : \A cfg \in Queued(id) :
        \/ Laid(cfg, id \in DOMAIN csd)
        \/ OnWire(id) # {}
        \/ \E later \in Queued(id) : cfg.serial < later.serial

HeldLaid ==
    \A id \in DOMAIN held :
        Laid(held[id], id \in DOMAIN csd) \/ OnWire(id) # {} \/ Queued(id) # {}

GeometryLaid ==
    /\ geometry = [id \in FrameIds |-> geometry[id]]
    /\ "resize" \notin AppCalls =>
           \A id \in live : acked[id] > 0 /\ Sized(acked[id]) =>
               Holds(geometry[id], Asked(acked[id])) \/ Coming(id)

(* Decorations.  The mode in use is the last one sent, once the ones on    *)
(* the wire are there.                                                     *)
ModesOn(id) == {i \in DOMAIN wire : wire[i].type = "mode" /\ wire[i].frame = id}

ModeDue ==
    \A id \in live :
        /\ ModesOn(id) = {} => frames[id].decoration_mode = ModeOf(id)
        /\ \A i \in ModesOn(id) :
               (\A j \in ModesOn(id) : j <= i) => Some(wire[i].value) = ModeOf(id)

NoMode == ~DecorationMgr => \A id \in live : frames[id].decoration_mode = None

CsdMade ==
    Subcompositor => \A id \in live :
        \/ frames[id].decoration_mode = Some("ClientSide")
        \/ ~DecorationMgr /\ (acked[id] > 0 \/ Queued(id) # {} \/ id \in DOMAIN held)
        => id \in DOMAIN csd

Painted ==
    ~ShmMayFail => \A id \in DOMAIN csd :
        HasContent(frames[id].content_size) => Shown(id) \/ Coming(id)

SettledParts ==
    /\ NoneLost /\ AckedIssued /\ ModeFollowed
    /\ EventsLaid /\ HeldLaid /\ GeometryLaid
    /\ ModeDue /\ NoMode /\ CsdMade /\ Painted

SettledInv == HandshakeInv /\ FaithfulInv /\ SettledParts

-----------------------------------------------------------------------------
(***************************************************************************)
(* Lemmas on the wire and the queue, then a lemma for every step.          *)
(***************************************************************************)
(* The queue takes a configuration, or another event. *)
LEMMA QueuedAppend ==
    ASSUME NEW event, events \in Seq(EventType), events' = Append(events, event)
    PROVE  \A id : Queued(id)' = Queued(id) \cup
               (IF event.type = "Configure" /\ event.frame = id
                THEN {event.configuration} ELSE {})
<1> DEFINE n == Len(events)
<1>1. /\ n \in Nat /\ DOMAIN events = 1 .. n /\ DOMAIN events' = 1 .. n + 1
      /\ \A i \in 1 .. n : events'[i] = events[i]
      /\ events'[n + 1] = event
  <2> DEFINE S == EventType \cup {event}
  <2>1. event \in S /\ events \in Seq(S)
    OBVIOUS
  <2> HIDE DEF S
  <2> QED
    BY <2>1, AppendAt
<1> HIDE DEF n
<1>2. 1 .. n + 1 = 1 .. n \cup {n + 1}
  BY <1>1
<1>3. \A id : {i \in EventConfigures' : events'[i].frame = id} =
          {i \in EventConfigures : events[i].frame = id} \cup
              (IF event.type = "Configure" /\ event.frame = id THEN {n + 1} ELSE {})
  BY <1>1, <1>2 DEF EventConfigures
<1> SUFFICES ASSUME NEW id
             PROVE  Queued(id)' = Queued(id) \cup
                        (IF event.type = "Configure" /\ event.frame = id
                         THEN {event.configuration} ELSE {})
  OBVIOUS
<1> DEFINE old == {i \in EventConfigures : events[i].frame = id}
           now == {i \in EventConfigures' : events'[i].frame = id}
<1>4. /\ now = old \cup (IF event.type = "Configure" /\ event.frame = id THEN {n + 1} ELSE {})
      /\ \A i \in old : i \in 1 .. n
  BY <1>1, <1>3 DEF EventConfigures
<1>5. Queued(id) = {events[i].configuration : i \in old}
      /\ Queued(id)' = {events'[i].configuration : i \in now}
  BY DEF Queued
<1> HIDE DEF old, now
<1> QED
  BY <1>1, <1>4, <1>5

(* The oldest event leaves the queue. *)
LEMMA QueuedTail ==
    ASSUME events \in Seq(EventType), events # <<>>, events' = Tail(events)
    PROVE  \A id : /\ Queued(id)' \subseteq Queued(id)
                   /\ \A cfg \in Queued(id) \ Queued(id)' :
                          /\ events[1].type = "Configure" /\ events[1].frame = id
                          /\ events[1].configuration = cfg
<1>1. /\ DOMAIN events = 1 .. Len(events) /\ Len(events) \in Nat \ {0}
      /\ DOMAIN events' = 1 .. Len(events) - 1
      /\ \A i \in 1 .. Len(events) - 1 : events'[i] = events[i + 1]
  <2>1. events' \in Seq(EventType) /\ Len(events') = Len(events) - 1
    BY HeadTailProperties
  <2>2. DOMAIN events' = 1 .. Len(events) - 1
    BY <2>1, LenProperties
  <2>3. DOMAIN events = 1 .. Len(events) /\ Len(events) \in Nat \ {0}
    BY EmptySeq, LenProperties
  <2>4. \A i \in DOMAIN Tail(events) : Tail(events)[i] = events[i + 1]
    BY TailAt
  <2> QED
    BY <2>2, <2>3, <2>4
<1>2. ASSUME NEW id, NEW cfg \in Queued(id)' PROVE cfg \in Queued(id)
  <2>1. PICK i \in DOMAIN events' : events'[i].type = "Configure" /\ events'[i].frame = id
                                    /\ events'[i].configuration = cfg
    BY <1>2 DEF Queued, EventConfigures
  <2>2. i + 1 \in DOMAIN events /\ events[i + 1] = events'[i]
    BY <1>1, <2>1
  <2> QED
    BY <2>1, <2>2 DEF Queued, EventConfigures
<1>3. ASSUME NEW id, NEW cfg \in Queued(id) \ Queued(id)'
      PROVE  events[1].type = "Configure" /\ events[1].frame = id /\ events[1].configuration = cfg
  <2>1. PICK i \in DOMAIN events : events[i].type = "Configure" /\ events[i].frame = id
                                   /\ events[i].configuration = cfg
    BY <1>3 DEF Queued, EventConfigures
  <2>2. CASE i = 1
    BY <2>1, <2>2
  <2>3. CASE i # 1
    <3>1. i - 1 \in DOMAIN events' /\ events'[i - 1] = events[i]
      <4>1. i \in Nat /\ i - 1 \in 1 .. Len(events) - 1 /\ (i - 1) + 1 = i
        BY <1>1, <2>1, <2>3
      <4> QED
        BY <1>1, <4>1
    <3>2. cfg \in Queued(id)'
      BY <2>1, <3>1 DEF Queued, EventConfigures
    <3> QED
      BY <1>3, <3>2
  <2> QED
    BY <2>2, <2>3
<1> QED
  BY <1>2, <1>3

(* The next event leaves the wire. *)
LEMMA WireShifts ==
    ASSUME SentTypes, wire # <<>>, wire' = Tail(wire)
    PROVE  /\ 1 \in DOMAIN wire
           /\ \A i \in DOMAIN wire' : i \in Nat /\ i + 1 \in DOMAIN wire /\ wire'[i] = wire[i + 1]
           /\ \A i \in DOMAIN wire : i # 1 => /\ i - 1 \in DOMAIN wire' /\ i - 1 \in Nat
                                              /\ i \in Nat /\ wire'[i - 1] = wire[i]
<1>1. /\ DOMAIN wire = 1 .. Len(wire) /\ Len(wire) \in Nat \ {0}
      /\ DOMAIN wire' = 1 .. Len(wire) - 1
      /\ \A i \in 1 .. Len(wire) - 1 : wire'[i] = wire[i + 1]
  <2>1. wire' \in Seq(Messages) /\ Len(wire') = Len(wire) - 1
    BY HeadTailProperties DEF SentTypes
  <2>2. DOMAIN wire' = 1 .. Len(wire) - 1
    BY <2>1, LenProperties
  <2>3. DOMAIN wire = 1 .. Len(wire) /\ Len(wire) \in Nat \ {0}
    BY EmptySeq, LenProperties DEF SentTypes
  <2>4. \A i \in DOMAIN Tail(wire) : Tail(wire)[i] = wire[i + 1]
    BY TailAt DEF SentTypes
  <2> QED
    BY <2>2, <2>3, <2>4
<1>2. \A i \in 1 .. Len(wire) : i # 1 => i - 1 \in 1 .. Len(wire) - 1 /\ (i - 1) + 1 = i
                                         /\ i \in Nat /\ i - 1 \in Nat
  BY <1>1
<1>3. \A i \in 1 .. Len(wire) - 1 : i \in Nat /\ i + 1 \in 1 .. Len(wire)
  BY <1>1
<1> QED
  BY <1>1, <1>2, <1>3

LEMMA OnWireShifts ==
    ASSUME SentTypes, wire # <<>>, wire' = Tail(wire)
    PROVE  \A id : \A serial \in OnWire(id) :
               \/ serial \in OnWire(id)'
               \/ wire[1].type = "configure" /\ wire[1].frame = id /\ wire[1].value = serial
<1> SUFFICES ASSUME NEW id, NEW serial \in OnWire(id)
             PROVE  \/ serial \in OnWire(id)'
                    \/ wire[1].type = "configure" /\ wire[1].frame = id /\ wire[1].value = serial
  OBVIOUS
<1>1. PICK i \in DOMAIN wire : wire[i].type = "configure" /\ wire[i].frame = id
                               /\ wire[i].value = serial
  BY DEF OnWire, WireConfigures
<1>2. CASE i = 1
  BY <1>1, <1>2
<1>3. CASE i # 1
  <2>1. i - 1 \in DOMAIN wire' /\ wire'[i - 1] = wire[i]
    BY <1>1, <1>3, WireShifts
  <2> QED
    BY <1>1, <2>1 DEF OnWire, WireConfigures
<1> QED
  BY <1>2, <1>3

(***************************************************************************)
(* What the dispatch of the next event does to frames, decorations and the *)
(* queue, as far as what is settled depends on it.                         *)
(***************************************************************************)
NewConfigure(m) ==
    [type |-> "Configure", frame |-> m.frame,
     configuration |-> Configuration(m.value, frames[m.frame].pending, m.frame \in DOMAIN csd')]

LEMMA EnsureCsdKeeps ==
    ASSUME NEW id, NEW mode, ensure_csd(id, mode)
    PROVE  /\ \A i \in DOMAIN csd : i \in DOMAIN csd' /\ csd'[i] = csd[i]
           /\ \A i \in DOMAIN csd' : i \in DOMAIN csd \/ i = id
           /\ NeedsCsd(id, mode) /\ Subcompositor => id \in DOMAIN csd'
<1>1. CASE NeedsCsd(id, mode) /\ Subcompositor
  BY <1>1 DEF ensure_csd, NeedsCsd, Put
<1>2. CASE ~(NeedsCsd(id, mode) /\ Subcompositor)
  BY <1>2 DEF ensure_csd
<1> QED
  BY <1>1, <1>2

LEMMA DeliverSummary ==
    ASSUME TypeOK, SentTypes, Deliver, NEW m, m = wire[1]
    PROVE  /\ wire # <<>> /\ wire' = Tail(wire)
           /\ UNCHANGED <<sent, geometry, held, next_id>> /\ live' = live
           /\ \A i \in live :
                  /\ frames'[i].content_size = frames[i].content_size
                  /\ frames'[i].window_state = frames[i].window_state
                  /\ frames'[i].decoration_mode = IF m.type = "mode" /\ m.frame = i
                                                  THEN Some(m.value)
                                                  ELSE frames[i].decoration_mode
           /\ \A i \in DOMAIN csd : i \in DOMAIN csd' /\ csd'[i] = csd[i]
           /\ \A i \in DOMAIN csd' :
                  i \in DOMAIN csd \/ (i = m.frame /\ m.type \in {"mode", "configure"})
           /\ m.type = "mode" => DecorationMgr
           /\ m.type = "mode" /\ m.value = "ClientSide" /\ Subcompositor /\ m.frame \in live =>
                  m.frame \in DOMAIN csd'
           /\ m.type = "configure" /\ Subcompositor /\ m.frame \in live
                  /\ ~DecorationMgr /\ frames[m.frame].decoration_mode = None =>
                  m.frame \in DOMAIN csd'
           /\ m.type = "configure" /\ m.frame \in live => events' = Append(events, NewConfigure(m))
           /\ ~(m.type = "configure" /\ m.frame \in live) => \A i : Queued(i)' = Queued(i)
<1> DEFINE Kept == \A i \in live :
                      /\ frames'[i].content_size = frames[i].content_size
                      /\ frames'[i].window_state = frames[i].window_state
                      /\ frames'[i].decoration_mode = IF m.type = "mode" /\ m.frame = i
                                                      THEN Some(m.value)
                                                      ELSE frames[i].decoration_mode
<1>1. wire # <<>> /\ wire' = Tail(wire) /\ UNCHANGED <<sent, geometry>> /\ Head(wire) = m
  <2>1. wire # <<>> /\ wire \in Seq(Messages)
    BY DEF SentTypes, Deliver
  <2> QED
    BY <2>1, TailAt DEF Deliver
<1>2. \/ m.type = "configure" /\ XdgSurfaceConfigure(m.frame, m.value)
      \/ m.type = "toplevel" /\ ToplevelConfigure(m.frame, m.value.size, m.value.states)
      \/ m.type = "mode" /\ DecorationConfigure(m.frame, m.value)
      \/ m.type = "bounds" /\ ToplevelConfigureBounds(m.frame, m.value)
      \/ m.type = "wm" /\ ToplevelWmCapabilities(m.frame, m.value)
      \/ m.type = "close" /\ ToplevelClose(m.frame)
  BY <1>1 DEF Deliver
<1>3. frames \in [live -> Slot] /\ events \in Seq(EventType)
  BY DEF TypeOK
<1>4. ASSUME events' = events PROVE \A i : Queued(i)' = Queued(i)
  BY <1>4 DEF Queued, EventConfigures
<1>5. ASSUME NEW event, events' = Append(events, event), event.type # "Configure"
      PROVE  \A i : Queued(i)' = Queued(i)
  BY <1>3, <1>5, QueuedAppend
<1>6. CASE m.type = "configure" /\ XdgSurfaceConfigure(m.frame, m.value)
  <2> DEFINE mode == IF m.frame \in live THEN frames[m.frame].decoration_mode ELSE None
  <2>1. UNCHANGED <<held, next_id>> /\ ensure_csd(m.frame, mode)
    BY <1>6 DEF XdgSurfaceConfigure
  <2>2. live' = live /\ Kept
    BY <1>3, <1>6 DEF XdgSurfaceConfigure, TakePending, live, Slot
  <2>3. m.frame \in live => events' = Append(events, NewConfigure(m))
    BY <1>6 DEF XdgSurfaceConfigure, NewConfigure
  <2>4. m.frame \notin live => \A i : Queued(i)' = Queued(i)
    BY <1>4, <1>6 DEF XdgSurfaceConfigure
  <2>5. /\ \A i \in DOMAIN csd : i \in DOMAIN csd' /\ csd'[i] = csd[i]
        /\ \A i \in DOMAIN csd' : i \in DOMAIN csd \/ i = m.frame
        /\ NeedsCsd(m.frame, mode) /\ Subcompositor => m.frame \in DOMAIN csd'
    BY <2>1, EnsureCsdKeeps
  <2>6. Subcompositor /\ m.frame \in live
            /\ ~DecorationMgr /\ frames[m.frame].decoration_mode = None =>
            m.frame \in DOMAIN csd'
    BY <2>5 DEF NeedsCsd
  <2> QED
    BY <1>1, <1>6, <2>1, <2>2, <2>3, <2>4, <2>5, <2>6
<1>7. CASE m.type = "toplevel" /\ ToplevelConfigure(m.frame, m.value.size, m.value.states)
  <2>1. UNCHANGED <<held, next_id, csd>> /\ events' = events
    BY <1>7 DEF ToplevelConfigure
  <2>2. live' = live /\ Kept
    BY <1>3, <1>7 DEF ToplevelConfigure, live, Slot
  <2> QED
    BY <1>1, <1>4, <1>7, <2>1, <2>2
<1>8. CASE m.type = "mode" /\ DecorationConfigure(m.frame, m.value)
  <2>1. /\ UNCHANGED <<held, next_id>> /\ events' = events
        /\ DecorationMgr /\ ensure_csd(m.frame, Some(m.value))
    BY <1>8 DEF DecorationConfigure
  <2>2. live' = live /\ Kept
    BY <1>3, <1>8 DEF DecorationConfigure, live, Slot
  <2>3. /\ \A i \in DOMAIN csd : i \in DOMAIN csd' /\ csd'[i] = csd[i]
        /\ \A i \in DOMAIN csd' : i \in DOMAIN csd \/ i = m.frame
        /\ NeedsCsd(m.frame, Some(m.value)) /\ Subcompositor => m.frame \in DOMAIN csd'
    BY <2>1, EnsureCsdKeeps
  <2>4. m.value = "ClientSide" /\ Subcompositor /\ m.frame \in live => m.frame \in DOMAIN csd'
    BY <2>3 DEF NeedsCsd
  <2> QED
    BY <1>1, <1>4, <1>8, <2>1, <2>2, <2>3, <2>4
<1>9. CASE m.type = "bounds" /\ ToplevelConfigureBounds(m.frame, m.value)
  <2>1. UNCHANGED <<held, next_id, csd>>
    BY <1>9 DEF ToplevelConfigureBounds
  <2>2. live' = live /\ Kept
    BY <1>3, <1>9 DEF ToplevelConfigureBounds, live, Slot
  <2>3. \/ events' = events
        \/ events' = Append(events, [type |-> "Bounds", frame |-> m.frame, size |-> m.value])
    BY <1>9 DEF ToplevelConfigureBounds
  <2>4. \A i : Queued(i)' = Queued(i)
    BY <1>4, <1>5, <2>3
  <2> QED
    BY <1>1, <1>9, <2>1, <2>2, <2>4
<1>10. CASE m.type = "wm" /\ ToplevelWmCapabilities(m.frame, m.value)
  <2>1. UNCHANGED <<held, next_id, csd>> /\ events' = events
    BY <1>10 DEF ToplevelWmCapabilities
  <2>2. live' = live /\ Kept
    BY <1>3, <1>10 DEF ToplevelWmCapabilities, live, Slot
  <2> QED
    BY <1>1, <1>4, <1>10, <2>1, <2>2
<1>11. CASE m.type = "close" /\ ToplevelClose(m.frame)
  <2>1. UNCHANGED <<held, next_id, csd, frames>>
    BY <1>11 DEF ToplevelClose
  <2>2. live' = live /\ Kept
    BY <1>11, <2>1 DEF live
  <2>3. events' = events \/ events' = Append(events, [type |-> "Close", frame |-> m.frame])
    BY <1>11 DEF ToplevelClose
  <2>4. \A i : Queued(i)' = Queued(i)
    BY <1>4, <1>5, <2>3
  <2> QED
    BY <1>1, <1>11, <2>1, <2>2, <2>4
<1> QED
  BY <1>2, <1>6, <1>7, <1>8, <1>9, <1>10, <1>11

(* A configuration computed for the decorations the frame has then. *)
LEMMA NewLaid ==
    ASSUME NEW serial, NEW pending, NEW has_csd, pending.size = SizeOf(sent[serial].toplevel)
    PROVE  Laid(Configuration(serial, pending, has_csd), has_csd)
<1> DEFINE cfg == Configuration(serial, pending, has_csd)
<1>1. /\ cfg.serial = serial
      /\ cfg.size = IF pending.size = None THEN None ELSE Some(ContentOf(pending.size[1], has_csd))
  BY DEF Configuration
<1> HIDE DEF cfg
<1>2. ASSUME Sized(serial) PROVE cfg.size = Some(ContentOf(Asked(serial), has_csd))
  <2>1. pending.size = Some(Asked(serial))
    BY <1>2 DEF Sized, SizeOf, Asked
  <2>2. pending.size # None /\ pending.size[1] = Asked(serial)
    BY <2>1 DEF Some, None
  <2> QED
    BY <1>1, <2>2
<1>3. Laid(cfg, has_csd)
  BY <1>1, <1>2 DEF Laid
<1> QED
  BY <1>3 DEF cfg

(***************************************************************************)
(* The next event is dispatched.                                           *)
(***************************************************************************)
LEMMA DeliverSettled ==
    ASSUME SettledInv, Deliver
    PROVE  SettledParts'
<1>m. PICK m : m = wire[1]
  OBVIOUS
<1>c. PICK cfg : cfg = NewConfigure(m).configuration
  OBVIOUS
<1> DEFINE joins == m.type = "configure" /\ m.frame \in live
<1>0. /\ TypeOK /\ SentTypes /\ InOrder /\ PendingDue /\ SettledParts
      /\ live \subseteq FrameIds /\ SessionInv
  <2>1. /\ TypeOK /\ SentTypes /\ InOrder /\ PendingDue /\ SettledParts /\ SessionInv
    BY DEF SettledInv, FaithfulInv, SessionInv, RegistryInv, TypeInv, InOrder
  <2> QED
    BY <2>1, LiveAre
<1>1. /\ wire # <<>> /\ wire' = Tail(wire)
      /\ UNCHANGED <<sent, geometry, held, next_id>> /\ live' = live
  BY <1>0, <1>m, DeliverSummary
<1>2. acked' = acked
  BY <1>0, DeliveredKeeps
<1>3. \A i \in live : /\ frames'[i].content_size = frames[i].content_size
                      /\ frames'[i].window_state = frames[i].window_state
                      /\ frames'[i].decoration_mode = IF m.type = "mode" /\ m.frame = i
                                                      THEN Some(m.value)
                                                      ELSE frames[i].decoration_mode
  BY <1>0, <1>m, DeliverSummary
<1>4. /\ \A i \in DOMAIN csd : i \in DOMAIN csd' /\ csd'[i] = csd[i]
      /\ \A i \in DOMAIN csd' : i \in DOMAIN csd \/ (i = m.frame /\ m.type \in {"mode", "configure"})
      /\ m.type = "mode" => DecorationMgr
      /\ m.type = "mode" /\ m.value = "ClientSide" /\ Subcompositor /\ m.frame \in live =>
             m.frame \in DOMAIN csd'
      /\ m.type = "configure" /\ Subcompositor /\ m.frame \in live
             /\ ~DecorationMgr /\ frames[m.frame].decoration_mode = None => m.frame \in DOMAIN csd'
  BY <1>0, <1>m, DeliverSummary
<1>5. /\ \A i : Queued(i)' = Queued(i) \cup (IF joins /\ i = m.frame THEN {cfg} ELSE {})
      /\ cfg = Configuration(m.value, frames[m.frame].pending, m.frame \in DOMAIN csd')
  <2>1. NewConfigure(m).type = "Configure" /\ NewConfigure(m).frame = m.frame
        /\ cfg = Configuration(m.value, frames[m.frame].pending, m.frame \in DOMAIN csd')
    BY <1>c DEF NewConfigure
  <2>2. joins => events' = Append(events, NewConfigure(m))
    BY <1>0, <1>m, DeliverSummary
  <2>3. ~joins => \A i : Queued(i)' = Queued(i)
    BY <1>0, <1>m, DeliverSummary
  <2>4. events \in Seq(EventType)
    BY <1>0 DEF TypeOK
  <2>5. CASE joins
    <3> PICK event : event = NewConfigure(m)
      OBVIOUS
    <3>1. \A i : Queued(i)' = Queued(i) \cup
              (IF event.type = "Configure" /\ event.frame = i THEN {event.configuration} ELSE {})
      BY <2>2, <2>4, <2>5, QueuedAppend
    <3>2. event.type = "Configure" /\ event.frame = m.frame /\ event.configuration = cfg
      BY <1>c, <2>1
    <3> QED
      BY <2>1, <2>5, <3>1, <3>2
  <2>6. CASE ~joins
    BY <2>1, <2>3, <2>6
  <2> QED
    BY <2>5, <2>6
<1>6. \A i : \A serial \in OnWire(i) :
          serial \in OnWire(i)' \/ (m.type = "configure" /\ m.frame = i /\ m.value = serial)
  BY <1>0, <1>1, <1>m, OnWireShifts
<1>7. cfg.serial = m.value
  BY <1>5 DEF Configuration
<1>8. joins => Laid(cfg, m.frame \in DOMAIN csd')
  <2> SUFFICES ASSUME joins PROVE Laid(cfg, m.frame \in DOMAIN csd')
    OBVIOUS
  <2>1. 1 \in DOMAIN wire
    BY <1>0, <1>1, WireShifts
  <2>2. Due(m.frame) = sent[m.value].toplevel
    BY <1>m, <2>1 DEF Due, WireConfigures, Carried
  <2>3. frames[m.frame].pending.size = SizeOf(sent[m.value].toplevel)
    BY <1>0, <2>2 DEF PendingDue
  <2> QED
    BY <1>5, <2>3, NewLaid
<1>9. joins => \A old \in Queued(m.frame) : old.serial < m.value
  <2> SUFFICES ASSUME joins, NEW old \in Queued(m.frame) PROVE old.serial < m.value
    OBVIOUS
  <2>1. 1 \in WireConfigures
    BY <1>0, <1>1, <1>m, WireShifts DEF WireConfigures
  <2>2. PICK i \in EventConfigures : events[i].configuration = old
    BY DEF Queued
  <2>3. SerialAt(i) < wire[1].value
    BY <1>0, <2>1 DEF InOrder, EventsInOrder
  <2> QED
    BY <1>m, <2>2, <2>3 DEF SerialAt
<1>10. \A i \in live : OnWire(i) # {} => OnWire(i)' # {} \/ (joins /\ i = m.frame)
  BY <1>6
<1>11. m.type = "mode" => OnWire(m.frame)' # {}
  <2> SUFFICES ASSUME m.type = "mode" PROVE OnWire(m.frame)' # {}
    OBVIOUS
  <2>1. 1 \in DOMAIN wire
    BY <1>0, <1>1, WireShifts
  <2>2. PICK j \in WireConfigures : 1 < j /\ wire[j].frame = m.frame
    BY <1>0, <1>m, <2>1 DEF SettledParts, ModeFollowed
  <2>3. wire[j].value \in OnWire(m.frame)
    BY <2>2 DEF OnWire
  <2> QED
    BY <1>6, <2>3
<1> HIDE DEF joins
<1>12. \A i \in live : Coming(i) => Coming(i)'
  BY <1>1, <1>5, <1>10 DEF Coming
<1>13. \A i \in live : (i \in DOMAIN csd') # (i \in DOMAIN csd) =>
           OnWire(i)' # {} \/ (joins /\ i = m.frame)
  BY <1>4, <1>11 DEF joins
<1>14. NoneLost'
  <2> SUFFICES ASSUME NEW n \in DOMAIN sent, NEW id \in live, id = sent[n].frame
               PROVE  \/ n <= acked[id]
                      \/ id \in DOMAIN held /\ n <= held[id].serial
                      \/ \E c \in Queued(id)' : n <= c.serial
                      \/ \E serial \in OnWire(id)' : n <= serial
    BY <1>1, <1>2 DEF NoneLost
  <2>1. \/ n <= acked[id]
        \/ id \in DOMAIN held /\ n <= held[id].serial
        \/ \E c \in Queued(id) : n <= c.serial
        \/ \E serial \in OnWire(id) : n <= serial
    BY <1>0 DEF SettledParts, NoneLost
  <2>2. CASE \E serial \in OnWire(id) : n <= serial
    BY <1>5, <1>6, <1>7, <2>2 DEF joins
  <2> QED
    BY <1>5, <2>1, <2>2
<1>15. AckedIssued'
  BY <1>0, <1>1, <1>2 DEF SettledParts, AckedIssued, Issued, FrameIds
<1>16. ModeFollowed'
  <2> SUFFICES ASSUME NEW i \in DOMAIN wire', wire'[i].type = "mode"
               PROVE  \E j \in WireConfigures' : i < j /\ wire'[j].frame = wire'[i].frame
    BY DEF ModeFollowed
  <2>1. i \in Nat /\ i + 1 \in DOMAIN wire /\ wire'[i] = wire[i + 1]
    BY <1>0, <1>1, WireShifts
  <2>2. PICK j \in WireConfigures : i + 1 < j /\ wire[j].frame = wire[i + 1].frame
    BY <1>0, <2>1 DEF SettledParts, ModeFollowed
  <2>3. j # 1 /\ j \in DOMAIN wire /\ wire[j].type = "configure"
    BY <2>1, <2>2 DEF WireConfigures
  <2>4. j - 1 \in DOMAIN wire' /\ j \in Nat /\ wire'[j - 1] = wire[j]
    BY <1>0, <1>1, <2>3, WireShifts
  <2>5. j - 1 \in WireConfigures' /\ i < j - 1
    BY <2>1, <2>2, <2>3, <2>4 DEF WireConfigures
  <2> QED
    BY <2>1, <2>2, <2>4, <2>5
<1>17. \A c, b : Laid(c, b)' = Laid(c, b)
  BY <1>1 DEF Laid, Sized, Asked
<1>18. EventsLaid'
  <2> SUFFICES ASSUME NEW id \in live, NEW c \in Queued(id)'
               PROVE  \/ Laid(c, id \in DOMAIN csd')
                      \/ OnWire(id)' # {}
                      \/ \E later \in Queued(id)' : c.serial < later.serial
    BY <1>1, <1>17 DEF EventsLaid, Laid, Sized, Asked
  <2>1. CASE joins /\ id = m.frame
    <3>1. CASE c = cfg
      BY <1>8, <2>1, <3>1
    <3>2. CASE c # cfg
      <4>1. c \in Queued(id) /\ cfg \in Queued(id)'
        BY <1>5, <2>1, <3>2
      <4> QED
        BY <1>7, <1>9, <2>1, <4>1
    <3> QED
      BY <3>1, <3>2
  <2>2. CASE ~(joins /\ id = m.frame)
    <3>1. Queued(id)' = Queued(id)
      BY <1>5, <2>2
    <3>2. \/ Laid(c, id \in DOMAIN csd)
          \/ OnWire(id) # {}
          \/ \E later \in Queued(id) : c.serial < later.serial
      BY <1>0, <3>1 DEF SettledParts, EventsLaid
    <3>3. (id \in DOMAIN csd') = (id \in DOMAIN csd) \/ OnWire(id)' # {}
      BY <1>13, <2>2
    <3>4. CASE Laid(c, id \in DOMAIN csd)
      BY <3>3, <3>4 DEF Laid
    <3>5. CASE OnWire(id) # {}
      BY <1>10, <2>2, <3>5
    <3> QED
      BY <3>1, <3>2, <3>4, <3>5
  <2> QED
    BY <2>1, <2>2
<1>19. HeldLaid'
  <2> SUFFICES ASSUME NEW id \in DOMAIN held
               PROVE  Laid(held[id], id \in DOMAIN csd') \/ OnWire(id)' # {} \/ Queued(id)' # {}
    BY <1>1, <1>17 DEF HeldLaid, Laid, Sized, Asked
  <2>1. id \in live
    BY <1>0 DEF TypeOK
  <2>2. CASE joins /\ id = m.frame
    BY <1>5, <2>2
  <2>3. CASE ~(joins /\ id = m.frame)
    <3>1. Laid(held[id], id \in DOMAIN csd) \/ OnWire(id) # {} \/ Queued(id) # {}
      BY <1>0 DEF SettledParts, HeldLaid
    <3>2. (id \in DOMAIN csd') = (id \in DOMAIN csd) \/ OnWire(id)' # {}
      BY <1>13, <2>1, <2>3
    <3>3. CASE Laid(held[id], id \in DOMAIN csd)
      BY <3>2, <3>3 DEF Laid
    <3> QED
      BY <1>5, <1>10, <2>1, <2>3, <3>1, <3>3
  <2> QED
    BY <2>2, <2>3
<1>20. GeometryLaid'
  <2>1. \A n : Sized(n)' = Sized(n) /\ Asked(n)' = Asked(n)
    BY <1>1 DEF Sized, Asked
  <2>2. geometry' = [id \in FrameIds |-> geometry'[id]]
    BY <1>0, <1>1 DEF SettledParts, GeometryLaid
  <2>3. ASSUME "resize" \notin AppCalls, NEW id \in live, acked[id] > 0, Sized(acked[id])
        PROVE  Holds(geometry[id], Asked(acked[id])) \/ Coming(id)'
    BY <1>0, <1>12, <2>3 DEF SettledParts, GeometryLaid
  <2> QED
    BY <1>1, <1>2, <2>1, <2>2, <2>3 DEF GeometryLaid, FrameIds, Sized, Asked
<1>21. ModeDue'
  <2>1. \A id : ModeOf(id)' = ModeOf(id)
    BY <1>1 DEF ModeOf
  <2>2. 1 \in DOMAIN wire
    BY <1>0, <1>1, WireShifts
  <2>3. \A id : \A i \in ModesOn(id)' : i \in Nat /\ i + 1 \in ModesOn(id) /\ wire'[i] = wire[i + 1]
    BY <1>0, <1>1, WireShifts DEF ModesOn
  <2>4. \A id : \A i \in ModesOn(id) : i # 1 => i - 1 \in ModesOn(id)' /\ i - 1 \in Nat /\ i \in Nat
    BY <1>0, <1>1, WireShifts DEF ModesOn
  <2>5. ASSUME NEW id \in live, ModesOn(id)' = {}
        PROVE  frames'[id].decoration_mode = ModeOf(id)
    <3>1. \A i \in ModesOn(id) : i = 1
      BY <2>4, <2>5
    <3>2. CASE 1 \in ModesOn(id)
      <4>1. Some(wire[1].value) = ModeOf(id)
        BY <1>0, <3>1, <3>2 DEF SettledParts, ModeDue
      <4>2. m.type = "mode" /\ m.frame = id
        BY <1>m, <3>2 DEF ModesOn
      <4> QED
        BY <1>3, <1>m, <4>1, <4>2
    <3>3. CASE 1 \notin ModesOn(id)
      <4>1. ModesOn(id) = {}
        BY <3>1, <3>3
      <4>2. ~(m.type = "mode" /\ m.frame = id)
        BY <1>m, <2>2, <4>1 DEF ModesOn
      <4> QED
        BY <1>0, <1>3, <4>1, <4>2 DEF SettledParts, ModeDue
    <3> QED
      BY <3>2, <3>3
  <2>6. ASSUME NEW id \in live, NEW i \in ModesOn(id)', \A j \in ModesOn(id)' : j <= i
        PROVE  Some(wire'[i].value) = ModeOf(id)
    <3>1. i \in Nat /\ i + 1 \in ModesOn(id) /\ wire'[i] = wire[i + 1]
      BY <2>3
    <3>2. ASSUME NEW j \in ModesOn(id) PROVE j <= i + 1
      <4>1. CASE j = 1
        BY <3>1, <4>1
      <4>2. CASE j # 1
        BY <2>4, <2>6, <3>1, <4>2
      <4> QED
        BY <4>1, <4>2
    <3> QED
      BY <1>0, <3>1, <3>2 DEF SettledParts, ModeDue
  <2> QED
    BY <1>1, <2>1, <2>5, <2>6 DEF ModeDue
<1>22. NoMode'
  BY <1>0, <1>1, <1>3, <1>4 DEF SettledParts, NoMode
<1>23. CsdMade'
  <2> SUFFICES ASSUME Subcompositor, NEW id \in live,
                      \/ frames'[id].decoration_mode = Some("ClientSide")
                      \/ ~DecorationMgr /\ (acked[id] > 0 \/ Queued(id)' # {} \/ id \in DOMAIN held)
               PROVE  id \in DOMAIN csd'
    BY <1>1, <1>2 DEF CsdMade
  <2>1. CASE m.type = "mode" /\ m.frame = id /\ m.value = "ClientSide"
    BY <1>4, <2>1
  <2>2. CASE /\ ~(m.type = "mode" /\ m.frame = id /\ m.value = "ClientSide")
             /\ frames'[id].decoration_mode = Some("ClientSide")
    <3>1. \A v : Some(v) = Some("ClientSide") => v = "ClientSide"
      BY DEF Some
    <3>2. frames[id].decoration_mode = Some("ClientSide")
      BY <1>3, <2>2, <3>1
    <3> QED
      BY <1>0, <1>4, <3>2 DEF SettledParts, CsdMade
  <2>3. CASE ~DecorationMgr /\ joins /\ id = m.frame
    <3>1. frames[id].decoration_mode = None
      BY <1>0, <2>3 DEF SettledParts, NoMode
    <3> QED
      BY <1>4, <2>3, <3>1 DEF joins
  <2>4. CASE /\ ~DecorationMgr /\ ~(joins /\ id = m.frame)
             /\ (acked[id] > 0 \/ Queued(id)' # {} \/ id \in DOMAIN held)
    <3>1. Queued(id)' = Queued(id)
      BY <1>5, <2>4
    <3> QED
      BY <1>0, <1>4, <2>4, <3>1 DEF SettledParts, CsdMade
  <2> QED
    BY <2>1, <2>2, <2>3, <2>4
<1>24. Painted'
  <2>1. DOMAIN csd \subseteq live
    BY <1>0 DEF TypeOK
  <2> SUFFICES ASSUME ~ShmMayFail, NEW id \in DOMAIN csd', HasContent(frames'[id].content_size)
               PROVE  Shown(id)' \/ Coming(id)'
    BY DEF Painted
  <2>2. CASE id \in DOMAIN csd
    <3>1. id \in live /\ csd'[id] = csd[id]
      BY <1>4, <2>1, <2>2
    <3>2. Shown(id) \/ Coming(id)
      BY <1>0, <1>3, <2>2, <3>1 DEF SettledParts, Painted
    <3>3. Shown(id) => Shown(id)'
      BY <1>3, <3>1 DEF Shown
    <3> QED
      BY <1>12, <3>1, <3>2, <3>3
  <2>3. CASE id \notin DOMAIN csd
    <3>1. id \in live
      <4>1. SessionInv'
        BY <1>0, InvStep DEF SessionNext
      <4>2. DOMAIN csd' \subseteq live'
        BY <4>1 DEF SessionInv, RegistryInv, TypeInv, TypeOK
      <4> QED
        BY <1>1, <4>2
    <3>2. OnWire(id)' # {} \/ Queued(id)' # {}
      BY <1>5, <1>13, <2>3, <3>1
    <3> QED
      BY <3>2 DEF Coming
  <2> QED
    BY <2>2, <2>3
<1> QED
  BY <1>14, <1>15, <1>16, <1>18, <1>19, <1>20, <1>21, <1>22, <1>23, <1>24 DEF SettledParts

(* The oldest event is polled. *)
LEMMA PollSettled ==
    ASSUME SettledInv, Poll
    PROVE  SettledParts'
<1>0. /\ TypeOK /\ SentTypes /\ InOrder /\ SettledParts
      /\ live \subseteq FrameIds /\ SessionInv
  <2>1. /\ TypeOK /\ SentTypes /\ InOrder /\ SettledParts /\ SessionInv
    BY DEF SettledInv, FaithfulInv, SessionInv, RegistryInv, TypeInv, InOrder
  <2> QED
    BY <2>1, LiveAre
<1>1. /\ PollEvent /\ Receive /\ UNCHANGED <<wire, sent, geometry, frames, csd>> /\ live' = live
  BY DEF Poll, PollEvent, live
<1>2. acked' = acked
  BY <1>0, <1>1, NoRequests, ReceivePlain DEF PollEvent
<1>e. PICK event : event = events[1]
  OBVIOUS
<1>3. /\ events \in Seq(EventType) /\ events # <<>> /\ events' = Tail(events)
      /\ 1 \in DOMAIN events /\ Head(events) = event
      /\ \A i \in DOMAIN events' :
             i \in Nat /\ i + 1 \in DOMAIN events /\ i + 1 > 1 /\ events'[i] = events[i + 1]
  <2>1. events # <<>> /\ events \in Seq(EventType) /\ events' = Tail(events)
    BY <1>0, <1>1 DEF PollEvent, Popped, TypeOK
  <2> QED
    BY <1>e, <2>1, TailAt
<1>4. \A id : /\ Queued(id)' \subseteq Queued(id)
              /\ \A c \in Queued(id) \ Queued(id)' :
                     event.type = "Configure" /\ event.frame = id /\ event.configuration = c
  BY <1>e, <1>3, QueuedTail
<1> DEFINE Got(id) == event.type = "Configure" /\ event.frame = id
           new == event.configuration
<1>5. ASSUME NEW id \in live
      PROVE  /\ Got(id) => id \in DOMAIN held' /\ held'[id] = new
             /\ ~Got(id) => /\ (id \in DOMAIN held') = (id \in DOMAIN held)
                            /\ id \in DOMAIN held => held'[id] = held[id]
  <2>1. held' = IF event.type = "Configure" /\ event.frame \in live
                THEN Put(held, event.frame, new) ELSE held
    BY <1>1, <1>3 DEF PollEvent, Popped
  <2> HIDE DEF new
  <2>2. CASE event.type = "Configure" /\ event.frame \in live
    <3>1. /\ DOMAIN held' = DOMAIN held \cup {event.frame}
          /\ \A f \in DOMAIN held' : held'[f] = IF f = event.frame THEN new ELSE held[f]
      BY <2>1, <2>2 DEF Put
    <3> QED
      BY <2>2, <3>1
  <2>3. CASE ~(event.type = "Configure" /\ event.frame \in live)
    BY <2>1, <2>3
  <2> QED
    BY <2>2, <2>3
<1>6. ASSUME NEW id \in live, Got(id)
      PROVE  /\ new \in Queued(id) /\ new.serial \in Nat
             /\ \A c \in Queued(id)' : new.serial < c.serial
             /\ id \in DOMAIN held => held[id].serial < new.serial
             /\ \A c \in Queued(id) : c.serial \in Nat
  <2>1. 1 \in EventConfigures /\ events[1].frame = id /\ events[1].configuration = new
    BY <1>e, <1>3, <1>6 DEF EventConfigures
  <2>2. \A i \in EventConfigures : SerialAt(i) \in Nat
    BY <1>0, IssuedIs DEF InOrder, EventsInOrder
  <2>3. new \in Queued(id) /\ new.serial \in Nat /\ \A c \in Queued(id) : c.serial \in Nat
    BY <2>1, <2>2 DEF Queued, SerialAt
  <2>4. ASSUME NEW c \in Queued(id)' PROVE new.serial < c.serial
    <3>1. PICK i \in DOMAIN events' : events'[i].type = "Configure" /\ events'[i].configuration = c
      BY DEF Queued, EventConfigures
    <3>2. i + 1 \in EventConfigures /\ 1 < i + 1 /\ events[i + 1].configuration = c
      BY <1>3, <3>1 DEF EventConfigures
    <3>3. SerialAt(1) < SerialAt(i + 1)
      BY <1>0, <2>1, <3>2 DEF InOrder, EventsInOrder
    <3> QED
      BY <2>1, <3>2, <3>3 DEF SerialAt
  <2>5. id \in DOMAIN held => held[id].serial < SerialAt(1)
    BY <1>0, <2>1 DEF InOrder, HeldInOrder, Behind
  <2> QED
    BY <2>1, <2>3, <2>4, <2>5 DEF SerialAt
<1>7. \A id : OnWire(id)' = OnWire(id)
  BY <1>1 DEF OnWire, WireConfigures
<1>8. DOMAIN held' \subseteq live /\ DOMAIN held \subseteq live
  <2>1. SessionInv'
    BY <1>0, InvStep DEF SessionNext
  <2> QED
    BY <1>0, <1>1, <2>1 DEF SessionInv, RegistryInv, TypeInv, TypeOK
<1> HIDE DEF Got, new
<1>9. \A id \in live : Coming(id) => Coming(id)'
  <2> SUFFICES ASSUME NEW id \in live, Coming(id) PROVE Coming(id)'
    OBVIOUS
  <2>1. CASE Got(id)
    BY <1>5, <2>1 DEF Coming
  <2>2. CASE ~Got(id)
    BY <1>4, <1>5, <1>7, <2>2 DEF Coming, Got
  <2> QED
    BY <2>1, <2>2
<1>10. \A c, b : Laid(c, b)' = Laid(c, b)
  BY <1>1 DEF Laid, Sized, Asked
<1>11. NoneLost'
  <2> SUFFICES ASSUME NEW n \in DOMAIN sent, NEW id \in live, id = sent[n].frame
               PROVE  \/ n <= acked[id]
                      \/ id \in DOMAIN held' /\ n <= held'[id].serial
                      \/ \E c \in Queued(id)' : n <= c.serial
                      \/ \E serial \in OnWire(id)' : n <= serial
    BY <1>1, <1>2 DEF NoneLost
  <2>0. n \in Nat
    BY <1>0 DEF SentTypes
  <2>1. \/ n <= acked[id]
        \/ id \in DOMAIN held /\ n <= held[id].serial
        \/ \E c \in Queued(id) : n <= c.serial
        \/ \E serial \in OnWire(id) : n <= serial
    BY <1>0 DEF SettledParts, NoneLost
  <2>2. CASE id \in DOMAIN held /\ n <= held[id].serial
    <3>1. CASE Got(id)
      <4>1. held[id].serial \in Nat
        BY <1>0, <2>2, IssuedIs DEF InOrder, HeldInOrder
      <4>2. held[id].serial < new.serial /\ new.serial \in Nat /\ held'[id] = new /\ id \in DOMAIN held'
        BY <1>5, <1>6, <2>2, <3>1
      <4> QED
        BY <2>0, <2>2, <4>1, <4>2
    <3>2. CASE ~Got(id)
      BY <1>5, <2>2, <3>2
    <3> QED
      BY <3>1, <3>2
  <2>3. CASE \E c \in Queued(id) : n <= c.serial
    <3>1. PICK c \in Queued(id) : n <= c.serial
      BY <2>3
    <3>2. CASE c \in Queued(id)'
      BY <3>1, <3>2
    <3>3. CASE c \notin Queued(id)'
      <4>1. Got(id) /\ c = new
        BY <1>4, <3>3 DEF Got, new
      <4> QED
        BY <1>5, <3>1, <4>1
    <3> QED
      BY <3>2, <3>3
  <2> QED
    BY <1>7, <2>1, <2>2, <2>3
<1>12. AckedIssued'
  BY <1>0, <1>1, <1>2 DEF SettledParts, AckedIssued, Issued, FrameIds
<1>13. ModeFollowed'
  BY <1>0, <1>1 DEF SettledParts, ModeFollowed, WireConfigures
<1>14. EventsLaid'
  <2> SUFFICES ASSUME NEW id \in live, NEW c \in Queued(id)'
               PROVE  \/ Laid(c, id \in DOMAIN csd)
                      \/ OnWire(id)' # {}
                      \/ \E later \in Queued(id)' : c.serial < later.serial
    BY <1>1, <1>10 DEF EventsLaid, Laid, Sized, Asked
  <2>1. \/ Laid(c, id \in DOMAIN csd)
        \/ OnWire(id) # {}
        \/ \E later \in Queued(id) : c.serial < later.serial
    BY <1>0, <1>4 DEF SettledParts, EventsLaid
  <2>2. ASSUME NEW later \in Queued(id), c.serial < later.serial
        PROVE  later \in Queued(id)'
    <3> SUFFICES ASSUME later \notin Queued(id)' PROVE FALSE
      OBVIOUS
    <3>1. Got(id) /\ later = new
      BY <1>4 DEF Got, new
    <3>2. c \in Queued(id) /\ new.serial < c.serial /\ c.serial \in Nat /\ new.serial \in Nat
      BY <1>4, <1>6, <3>1
    <3> QED
      BY <2>2, <3>1, <3>2
  <2> QED
    BY <1>7, <2>1, <2>2
<1>15. HeldLaid'
  <2> SUFFICES ASSUME NEW id \in DOMAIN held'
               PROVE  Laid(held'[id], id \in DOMAIN csd) \/ OnWire(id)' # {} \/ Queued(id)' # {}
    BY <1>1, <1>10 DEF HeldLaid, Laid, Sized, Asked
  <2>1. id \in live
    BY <1>8
  <2>2. CASE Got(id)
    <3>1. new \in Queued(id) /\ held'[id] = new /\ \A c \in Queued(id) : c.serial \in Nat
      BY <1>5, <1>6, <2>1, <2>2
    <3>2. \/ Laid(new, id \in DOMAIN csd)
          \/ OnWire(id) # {}
          \/ \E later \in Queued(id) : new.serial < later.serial
      BY <1>0, <2>1, <3>1 DEF SettledParts, EventsLaid
    <3>3. ASSUME NEW later \in Queued(id), new.serial < later.serial
          PROVE  later \in Queued(id)'
      BY <1>4, <3>1, <3>3 DEF new
    <3> QED
      BY <1>7, <3>1, <3>2, <3>3
  <2>3. CASE ~Got(id)
    <3>1. id \in DOMAIN held /\ held'[id] = held[id]
      BY <1>5, <2>1, <2>3
    <3>2. Queued(id)' = Queued(id)
      BY <1>4, <2>3 DEF Got
    <3> QED
      BY <1>0, <1>7, <3>1, <3>2 DEF SettledParts, HeldLaid
  <2> QED
    BY <2>2, <2>3
<1>16. GeometryLaid'
  <2>1. \A n : Sized(n)' = Sized(n) /\ Asked(n)' = Asked(n)
    BY <1>1 DEF Sized, Asked
  <2>2. geometry' = [id \in FrameIds |-> geometry'[id]]
    BY <1>0, <1>1 DEF SettledParts, GeometryLaid
  <2>3. ASSUME "resize" \notin AppCalls, NEW id \in live, acked[id] > 0, Sized(acked[id])
        PROVE  Holds(geometry[id], Asked(acked[id])) \/ Coming(id)'
    BY <1>0, <1>9, <2>3 DEF SettledParts, GeometryLaid
  <2> QED
    BY <1>1, <1>2, <2>1, <2>2, <2>3 DEF GeometryLaid, FrameIds, Sized, Asked
<1>17. ModeDue' /\ NoMode'
  <2>1. \A id : ModeOf(id)' = ModeOf(id) /\ ModesOn(id)' = ModesOn(id)
    BY <1>1 DEF ModeOf, ModesOn
  <2> QED
    BY <1>0, <1>1, <2>1 DEF SettledParts, ModeDue, NoMode
<1>18. CsdMade'
  <2> SUFFICES ASSUME Subcompositor, NEW id \in live,
                      \/ frames[id].decoration_mode = Some("ClientSide")
                      \/ ~DecorationMgr /\ (acked[id] > 0 \/ Queued(id)' # {} \/ id \in DOMAIN held')
               PROVE  id \in DOMAIN csd
    BY <1>1, <1>2 DEF CsdMade
  <2>1. Queued(id)' # {} => Queued(id) # {}
    BY <1>4
  <2>2. id \in DOMAIN held' => id \in DOMAIN held \/ Queued(id) # {}
    BY <1>5, <1>6
  <2> QED
    BY <1>0, <2>1, <2>2 DEF SettledParts, CsdMade
<1>19. Painted'
  <2> SUFFICES ASSUME ~ShmMayFail, NEW id \in DOMAIN csd, HasContent(frames[id].content_size)
               PROVE  Shown(id)' \/ Coming(id)'
    BY <1>1 DEF Painted
  <2>1. id \in live
    BY <1>0 DEF TypeOK
  <2>2. Shown(id)' = Shown(id)
    BY <1>1 DEF Shown
  <2> QED
    BY <1>0, <1>9, <2>1, <2>2 DEF SettledParts, Painted
<1> QED
  BY <1>11, <1>12, <1>13, <1>14, <1>15, <1>16, <1>17, <1>18, <1>19 DEF SettledParts

(* A size, less the decorations and with them again, is what it was, or    *)
(* larger if the decorations need more than there is.                      *)
LEMMA LaidHolds ==
    ASSUME NEW size \in Int \X Int, Named(size), NEW has_csd
    PROVE  Holds(Some(GeometryOf(ContentOf(size, has_csd), has_csd)), size)
<1> DEFINE o == decoration_overhead(has_csd)
           content == ContentOf(size, has_csd)
           window == GeometryOf(content, has_csd)
<1>1. size[1] \in Int /\ size[2] \in Int /\ size = <<size[1], size[2]>> /\ size[1] >= 1 /\ size[2] >= 1
  BY DEF Named
<1>2. /\ content[1] = AtLeastOne(size[1] - o.left - o.right)
      /\ content[2] = AtLeastOne(size[2] - o.top - o.bottom)
      /\ window = <<content[1] + o.left + o.right, content[2] + o.top + o.bottom>>
  BY DEF ContentOf, GeometryOf
<1>3. \A n \in Int : AtLeastOne(n) = IF n < 1 THEN 1 ELSE n
  BY DEF AtLeastOne
<1>4. BORDER_WIDTH = 4 /\ TITLEBAR_HEIGHT \in Nat
  BY DEF BORDER_WIDTH, TITLEBAR_HEIGHT
<1>5. CASE has_csd
  <2>1. /\ o.left = BORDER_WIDTH /\ o.right = BORDER_WIDTH
        /\ o.top = TITLEBAR_HEIGHT + BORDER_WIDTH /\ o.bottom = BORDER_WIDTH
    BY <1>5 DEF decoration_overhead
  <2> HIDE DEF o, content, window
  <2>2. /\ window[1] = content[1] + BORDER_WIDTH + BORDER_WIDTH
        /\ window[2] = content[2] + (TITLEBAR_HEIGHT + BORDER_WIDTH) + BORDER_WIDTH
    BY <1>2, <2>1
  <2>3. /\ window[1] >= size[1] /\ window[2] >= size[2]
        /\ HasRoom(size) => window[1] = size[1] /\ window[2] = size[2]
    BY <1>1, <1>2, <1>3, <1>4, <2>1, <2>2 DEF HasRoom
  <2>4. Some(window)[1] = window /\ (HasRoom(size) => window = size)
    BY <1>1, <1>2, <2>3 DEF Some
  <2>5. Holds(Some(window), size)
    BY <2>3, <2>4 DEF Holds
  <2> QED
    BY <2>5 DEF window, content
<1>6. CASE ~has_csd
  <2>1. o.left = 0 /\ o.right = 0 /\ o.top = 0 /\ o.bottom = 0
    BY <1>6 DEF decoration_overhead
  <2> HIDE DEF o, content, window
  <2>2. content[1] = size[1] /\ content[2] = size[2]
    BY <1>1, <1>2, <1>3, <2>1
  <2>3. window[1] = size[1] /\ window[2] = size[2] /\ window = size
    BY <1>1, <1>2, <2>1, <2>2
  <2>4. Some(window)[1] = window
    BY DEF Some
  <2>5. Holds(Some(window), size)
    BY <1>1, <2>3, <2>4 DEF Holds
  <2> QED
    BY <2>5 DEF window, content
<1> QED
  BY <1>5, <1>6

LEMMA CommitSummary ==
    ASSUME TypeOK, NEW id \in live, NEW size \in Size, NEW cfg, NEW painted, Commit(id, size, cfg, painted)
    PROVE  /\ live' = live /\ DOMAIN csd' = DOMAIN csd /\ events' = events
           /\ held' = IF cfg = None THEN held ELSE Without(held, {id})
           /\ \A i \in live : /\ frames'[i].decoration_mode = frames[i].decoration_mode
                              /\ i # id => frames'[i] = frames[i]
           /\ \A i \in DOMAIN csd : i # id => csd'[i] = csd[i]
           /\ frames'[id].content_size = size
           /\ id \in DOMAIN csd /\ painted /\ HasContent(size) => Shown(id)'
<1>1. frames \in [live -> Slot] /\ frames[id] \in Slot /\ csd \in [DOMAIN csd -> Decoration]
  BY DEF TypeOK
<1> DEFINE window_state == IF cfg = None \/ cfg[1].window_state = None
                           THEN frames[id].window_state ELSE cfg[1].window_state[1]
<1>2. /\ live' = live
      /\ \A i \in live : /\ frames'[i].decoration_mode = frames[i].decoration_mode
                         /\ i # id => frames'[i] = frames[i]
      /\ frames'[id].content_size = size
      /\ frames'[id].window_state = window_state
  BY <1>1 DEF Commit, live, Slot
<1>3. /\ DOMAIN csd' = DOMAIN csd /\ events' = events
      /\ held' = IF cfg = None THEN held ELSE Without(held, {id})
      /\ \A i \in DOMAIN csd : i # id => csd'[i] = csd[i]
  BY <1>1 DEF Commit
<1>4. ASSUME id \in DOMAIN csd, painted, HasContent(size) PROVE Shown(id)'
  <2> PICK buttons : buttons = compute_buttons(frames[id].capabilities,
                                    frames[id].wm_capabilities, frames[id].wm_known)
    OBVIOUS
  <2> DEFINE d == [csd[id] EXCEPT !.active = "ACTIVE" \in window_state, !.buttons = buttons]
             sized == [d EXCEPT !.width = size[1]]
  <2>1. csd[id] \in Decoration
    BY <1>1, <1>4
  <2>2. csd'[id] = Render(d, size, painted)
    BY <1>1, <1>4 DEF Commit
  <2> HIDE DEF window_state
  <2>3. /\ d.active = ("ACTIVE" \in window_state)
        /\ sized.active = ("ACTIVE" \in window_state) /\ sized.width = size[1]
        /\ [sized EXCEPT !.drawn = Some(Picture(sized))].drawn = Some(Picture(sized))
    BY <2>1 DEF Decoration
  <2> HIDE DEF d
  <2>4. csd'[id].drawn = Some(Picture(sized))
    <3>1. ~(size[1] <= 0 \/ size[2] <= 0)
      BY <1>4 DEF HasContent, Size
    <3> QED
      BY <1>4, <2>2, <2>3, <3>1 DEF Render
  <2>5. /\ Picture(sized).active = ("ACTIVE" \in window_state) /\ Picture(sized).width = size[1]
    BY <2>3 DEF Picture
  <2>6. Some(Picture(sized)) # None /\ Some(Picture(sized))[1] = Picture(sized)
    BY DEF Some, None
  <2> HIDE DEF sized
  <2>7. /\ csd'[id].drawn # None
        /\ csd'[id].drawn[1].width = frames'[id].content_size[1]
        /\ csd'[id].drawn[1].active <=> "ACTIVE" \in frames'[id].window_state
    BY <1>2, <2>4, <2>5, <2>6
  <2> QED
    BY <2>7 DEF Shown
<1> QED
  BY <1>2, <1>3, <1>4

(* The application commits. *)
LEMMA CommitSettled ==
    ASSUME SettledInv, NEW id \in live, CommitFrame(id) \/ ResizeFrame(id)
    PROVE  SettledParts'
<1>0. /\ TypeOK /\ SentTypes /\ InOrder /\ SettledParts
      /\ live \subseteq FrameIds /\ SessionInv
  <2>1. /\ TypeOK /\ SentTypes /\ InOrder /\ SettledParts /\ SessionInv
    BY DEF SettledInv, FaithfulInv, SessionInv, RegistryInv, TypeInv, InOrder
  <2> QED
    BY <2>1, LiveAre
<1>1. UNCHANGED <<wire, sent>> /\ Receive
  BY DEF CommitFrame, ResizeFrame
<1>2. PICK painted \in Paints : CommitConfigured(id, painted) \/ CommitResized(id, painted)
  BY DEF CommitFrame, ResizeFrame
<1>3. CommitResized(id, painted) => "resize" \in AppCalls
  BY DEF CommitResized
<1>4. PICK size, cfg :
          /\ size \in Size /\ Commit(id, size, cfg, painted)
          /\ IF CommitConfigured(id, painted)
             THEN /\ id \in DOMAIN held /\ cfg = Some(held[id])
                  /\ held[id].size # None => size = held[id].size[1]
             ELSE cfg = None
  <2>1. \A s \in AppSizes : s \in Size
    BY ConstantAssumption DEF ConstantAssumption, Size
  <2>2. CASE CommitConfigured(id, painted)
    <3>1. id \in DOMAIN held
      BY <2>2 DEF CommitConfigured
    <3>2. held[id] \in Configurations
      BY <1>0, <3>1 DEF TypeOK
    <3>3. held[id].size \in Option(Size)
      BY <3>2 DEF Configurations
    <3>4. held[id].size # None => held[id].size[1] \in Size
      BY <3>3, OptionValue
    <3>5. PICK s \in IF held[id].size = None THEN AppSizes ELSE {held[id].size[1]} :
              Commit(id, s, Some(held[id]), painted)
      BY <2>2 DEF CommitConfigured
    <3>6. s \in Size /\ (held[id].size # None => s = held[id].size[1])
      BY <2>1, <3>4, <3>5
    <3> QED
      BY <2>2, <3>1, <3>5, <3>6
  <2>3. CASE ~CommitConfigured(id, painted)
    <3>1. PICK s \in AppSizes : Commit(id, s, None, painted)
      BY <1>2, <2>3 DEF CommitResized
    <3> QED
      BY <2>1, <2>3, <3>1
  <2> QED
    BY <2>2, <2>3
<1>5. /\ live' = live /\ DOMAIN csd' = DOMAIN csd /\ events' = events
      /\ held' = IF cfg = None THEN held ELSE Without(held, {id})
      /\ \A i \in live : /\ frames'[i].decoration_mode = frames[i].decoration_mode
                         /\ i # id => frames'[i] = frames[i]
      /\ \A i \in DOMAIN csd : i # id => csd'[i] = csd[i]
      /\ frames'[id].content_size = size
      /\ id \in DOMAIN csd /\ painted /\ HasContent(size) => Shown(id)'
  BY <1>0, <1>4, CommitSummary
<1>6. \A v : Some(v) # None
  BY DEF Some, None
<1>7. \A i : Queued(i)' = Queued(i) /\ OnWire(i)' = OnWire(i)
  BY <1>1, <1>5 DEF Queued, OnWire, EventConfigures, WireConfigures
<1>8. \A i : i # id => /\ (i \in DOMAIN held') = (i \in DOMAIN held)
                       /\ i \in DOMAIN held => held'[i] = held[i]
  BY <1>5 DEF Without, Restrict
<1>9. IF CommitConfigured(id, painted)
      THEN /\ id \in DOMAIN held /\ id \notin DOMAIN held'
           /\ Issued(held[id].serial, id) /\ held[id].serial > acked[id]
           /\ acked' = [acked EXCEPT ![id] = held[id].serial]
      ELSE held' = held /\ acked' = acked
  <2>1. CASE CommitConfigured(id, painted)
    <3>1. /\ Issued(held[id].serial, id) /\ held[id].serial > acked[id]
          /\ acked' = [acked EXCEPT ![id] = held[id].serial]
      BY <1>0, <1>1, <2>1, ConfiguredSession
    <3>2. id \in DOMAIN held /\ held' = Without(held, {id})
      BY <1>4, <1>5, <1>6, <2>1
    <3>3. id \notin DOMAIN held'
      BY <3>2 DEF Without, Restrict
    <3> QED
      BY <2>1, <3>1, <3>2, <3>3
  <2>2. CASE ~CommitConfigured(id, painted)
    <3>1. held' = held
      BY <1>4, <1>5, <2>2
    <3>2. acked' = acked
      BY <1>0, <1>1, <1>2, <2>2, ResizedSession
    <3> QED
      BY <2>2, <3>1, <3>2
  <2> QED
    BY <2>1, <2>2
<1>10. /\ acked \in [FrameIds -> Nat] /\ id \in FrameIds
       /\ \A i \in live : i \in FrameIds
       /\ \A n \in DOMAIN sent : n \in Nat
  BY <1>0 DEF SentTypes
<1>11. CommitConfigured(id, painted) => held[id].serial \in Nat /\ acked'[id] = held[id].serial
  BY <1>0, <1>9, <1>10, IssuedIs
<1>12. \A i \in live : i # id => acked'[i] = acked[i]
  BY <1>9, <1>10
<1>13. geometry' = [geometry EXCEPT ![id] = Some(GeometryOf(size, id \in DOMAIN csd))]
  BY <1>5 DEF CommitFrame, ResizeFrame, CommitsSurface
<1>14. \A c, b : Laid(c, b)' = Laid(c, b)
  BY <1>1 DEF Laid, Sized, Asked
<1>15. \A i \in live : i # id => (Coming(i)' <=> Coming(i))
  BY <1>7, <1>8 DEF Coming
<1>16. NoneLost'
  <2> SUFFICES ASSUME NEW n \in DOMAIN sent, NEW i \in live, i = sent[n].frame
               PROVE  \/ n <= acked'[i]
                      \/ i \in DOMAIN held' /\ n <= held'[i].serial
                      \/ \E c \in Queued(i)' : n <= c.serial
                      \/ \E serial \in OnWire(i)' : n <= serial
    BY <1>1, <1>5 DEF NoneLost
  <2>1. \/ n <= acked[i]
        \/ i \in DOMAIN held /\ n <= held[i].serial
        \/ \E c \in Queued(i) : n <= c.serial
        \/ \E serial \in OnWire(i) : n <= serial
    BY <1>0 DEF SettledParts, NoneLost
  <2>2. CASE CommitConfigured(id, painted) /\ i = id
    <3>1. acked[id] \in Nat /\ n \in Nat
      BY <1>10
    <3>2. n <= acked[id] \/ n <= held[id].serial => n <= acked'[id]
      BY <1>9, <1>11, <2>2, <3>1
    <3> QED
      BY <1>7, <2>1, <2>2, <3>2
  <2>3. CASE ~(CommitConfigured(id, painted) /\ i = id)
    <3>1. acked'[i] = acked[i] /\ (i \in DOMAIN held => i \in DOMAIN held' /\ held'[i] = held[i])
      BY <1>8, <1>9, <1>12, <2>3
    <3> QED
      BY <1>7, <2>1, <3>1
  <2> QED
    BY <2>2, <2>3
<1>17. AckedIssued'
  <2>1. \A i : \A n : Issued(n, i)' = Issued(n, i)
    BY <1>1 DEF Issued
  <2>2. ASSUME NEW i \in FrameIds, acked'[i] > 0 PROVE Issued(acked'[i], i)
    <3>1. CASE CommitConfigured(id, painted) /\ i = id
      BY <1>9, <1>11, <3>1
    <3>2. CASE ~(CommitConfigured(id, painted) /\ i = id)
      <4>1. acked'[i] = acked[i]
        BY <1>9, <1>10, <3>2
      <4> QED
        BY <1>0, <2>2, <4>1 DEF SettledParts, AckedIssued
    <3> QED
      BY <3>1, <3>2
  <2> QED
    BY <1>1, <2>2 DEF AckedIssued, FrameIds, Issued
<1>18. ModeFollowed'
  BY <1>0, <1>1 DEF SettledParts, ModeFollowed, WireConfigures
<1>19. EventsLaid'
  BY <1>0, <1>1, <1>5, <1>7 DEF SettledParts, EventsLaid, Laid, Sized, Asked
<1>20. HeldLaid'
  <2> SUFFICES ASSUME NEW i \in DOMAIN held'
               PROVE  Laid(held'[i], i \in DOMAIN csd) \/ OnWire(i)' # {} \/ Queued(i)' # {}
    BY <1>1, <1>5 DEF HeldLaid, Laid, Sized, Asked
  <2>1. i \in DOMAIN held /\ held'[i] = held[i]
    BY <1>8, <1>9
  <2> QED
    BY <1>0, <1>7, <2>1 DEF SettledParts, HeldLaid
<1>21. GeometryLaid'
  <2>1. \A n : Sized(n)' = Sized(n) /\ Asked(n)' = Asked(n)
    BY <1>1 DEF Sized, Asked
  <2>2. geometry = [i \in FrameIds |-> geometry[i]]
    BY <1>0 DEF SettledParts, GeometryLaid
  <2>3. /\ geometry' = [i \in FrameIds |-> geometry'[i]]
        /\ geometry'[id] = Some(GeometryOf(size, id \in DOMAIN csd))
        /\ \A i \in live : i # id => geometry'[i] = geometry[i]
    BY <1>10, <1>13, <2>2
  <2>4. ASSUME "resize" \notin AppCalls, NEW i \in live, acked'[i] > 0, Sized(acked'[i])
        PROVE  Holds(geometry'[i], Asked(acked'[i])) \/ Coming(i)'
    <3>1. CASE i # id
      <4>1. acked'[i] = acked[i] /\ geometry'[i] = geometry[i]
        BY <1>12, <2>3, <3>1
      <4> QED
        BY <1>0, <1>15, <2>4, <3>1, <4>1 DEF SettledParts, GeometryLaid
    <3>2. CASE i = id
      <4>1. CommitConfigured(id, painted)
        BY <1>2, <1>3, <2>4
      <4>2. id \in DOMAIN held /\ acked'[id] = held[id].serial
        BY <1>9, <1>11, <4>1
      <4>3. CASE OnWire(id) # {} \/ Queued(id) # {}
        BY <1>7, <3>2, <4>3 DEF Coming
      <4>4. CASE Laid(held[id], id \in DOMAIN csd)
        <5> PICK asked : asked = Asked(held[id].serial)
          OBVIOUS
        <5>1. Sized(held[id].serial)
          BY <2>4, <3>2, <4>2
        <5>2. held[id].size = Some(ContentOf(asked, id \in DOMAIN csd))
          BY <4>4, <5>1 DEF Laid
        <5>3. size = ContentOf(asked, id \in DOMAIN csd)
          <6>1. \A v : Some(v)[1] = v
            BY DEF Some
          <6> QED
            BY <1>4, <1>6, <4>1, <5>2, <6>1
        <5>4. asked \in Int \X Int /\ Named(asked)
          <6>1. held[id].serial \in DOMAIN sent
            BY <1>9, <4>1 DEF Issued
          <6>2. sent[held[id].serial].toplevel \in Option(ToplevelStates)
            BY <1>0, <6>1, CarriedType
          <6>3. sent[held[id].serial].toplevel[1] \in ToplevelStates /\ Named(asked)
            BY <5>1, <6>2, OptionValue DEF Sized, Asked
          <6>4. \A t \in ToplevelStates : t.size \in Int \X Int
            BY ConstantAssumption DEF ConstantAssumption, ToplevelStates
          <6> QED
            BY <6>3, <6>4 DEF Asked
        <5>5. Holds(Some(GeometryOf(ContentOf(asked, id \in DOMAIN csd), id \in DOMAIN csd)), asked)
          BY <5>4, LaidHolds
        <5>6. Asked(acked'[id]) = asked
          BY <4>2
        <5> QED
          BY <2>3, <3>2, <5>3, <5>5, <5>6
      <4> QED
        BY <1>0, <4>2, <4>3, <4>4 DEF SettledParts, HeldLaid
    <3> QED
      BY <3>1, <3>2
  <2> QED
    BY <1>1, <1>5, <2>1, <2>3, <2>4 DEF GeometryLaid, FrameIds, Sized, Asked
<1>22. ModeDue' /\ NoMode'
  <2>1. \A i : ModeOf(i)' = ModeOf(i) /\ ModesOn(i)' = ModesOn(i)
    BY <1>1 DEF ModeOf, ModesOn
  <2>2. wire' = wire
    BY <1>1
  <2> QED
    BY <1>0, <1>5, <2>1, <2>2 DEF SettledParts, ModeDue, NoMode
<1>23. CsdMade'
  <2> SUFFICES ASSUME Subcompositor, NEW i \in live,
                      \/ frames'[i].decoration_mode = Some("ClientSide")
                      \/ ~DecorationMgr /\ (acked'[i] > 0 \/ Queued(i)' # {} \/ i \in DOMAIN held')
               PROVE  i \in DOMAIN csd
    BY <1>5 DEF CsdMade
  <2>1. acked'[i] > 0 => acked[i] > 0 \/ i \in DOMAIN held
    BY <1>9, <1>12
  <2>2. i \in DOMAIN held' => i \in DOMAIN held
    BY <1>8, <1>9
  <2> QED
    BY <1>0, <1>5, <1>7, <2>1, <2>2 DEF SettledParts, CsdMade
<1>24. Painted'
  <2> SUFFICES ASSUME ~ShmMayFail, NEW i \in DOMAIN csd, HasContent(frames'[i].content_size)
               PROVE  Shown(i)' \/ Coming(i)'
    BY <1>5 DEF Painted
  <2>1. i \in live
    BY <1>0 DEF TypeOK
  <2>2. CASE i = id
    <3>1. painted
      BY Zenon DEF Paints
    <3> QED
      BY <1>5, <2>2, <3>1
  <2>3. CASE i # id
    <3>1. Shown(i) => Shown(i)'
      BY <1>5, <2>1, <2>3 DEF Shown
    <3>2. HasContent(frames[i].content_size)
      BY <1>5, <2>1, <2>3
    <3> QED
      BY <1>0, <1>15, <2>1, <2>3, <3>1, <3>2 DEF SettledParts, Painted
  <2> QED
    BY <2>2, <2>3
<1> QED
  BY <1>16, <1>17, <1>18, <1>19, <1>20, <1>21, <1>22, <1>23, <1>24 DEF SettledParts

(* The values of the modes that were added to a queue. *)
AddedModes(longer, queue) ==
    {longer[i].value : i \in {i \in Len(queue) + 1 .. Len(longer) : longer[i].type = "mode"}}

LEMMA AddedModesPart ==
    ASSUME NEW queue \in Seq(Messages), NEW longer, NEW id, Lengthens(longer, queue, id),
           NEW type \in {"bounds", "mode", "toplevel"}, NEW option,
           option # None => Message(type, id, option[1]) \in Messages
    PROVE  AddedModes(longer \o Part(type, id, option), queue) =
               AddedModes(longer, queue)
                   \cup (IF type = "mode" /\ option # None THEN {option[1]} ELSE {})
<1>1. CASE option = None
  <2>1. longer \o <<>> = longer
    BY ConcatEmptySeq DEF Lengthens
  <2> QED
    BY <1>1, <2>1 DEF Part
<1>2. CASE option # None
  <2> DEFINE m == Message(type, id, option[1])
  <2>1. m \in Messages /\ m.type = type /\ m.value = option[1]
    BY <1>2 DEF Message
  <2> HIDE DEF m
  <2>2. Append(longer, m) = longer \o <<m>>
    BY <2>1, AppendIsConcat DEF Lengthens
  <2>3. PICK added : added = Append(longer, m)
    OBVIOUS
  <2>4. PICK n : n = Len(longer) /\ n \in Nat /\ Len(queue) \in Nat /\ Len(queue) <= n
    BY DEF Lengthens
  <2>5. /\ Len(added) = n + 1 /\ added[n + 1] = m
        /\ \A i \in 1 .. n : added[i] = longer[i]
    BY <2>1, <2>3, <2>4, AppendAt DEF Lengthens
  <2>6. Len(queue) + 1 .. n + 1 = (Len(queue) + 1 .. n) \cup {n + 1}
        /\ \A i \in Len(queue) + 1 .. n : i \in 1 .. n
    BY <2>4
  <2>7. {i \in Len(queue) + 1 .. Len(added) : added[i].type = "mode"} =
            {i \in Len(queue) + 1 .. n : longer[i].type = "mode"}
                \cup (IF type = "mode" THEN {n + 1} ELSE {})
    BY <2>1, <2>5, <2>6
  <2> DEFINE old == {i \in Len(queue) + 1 .. n : longer[i].type = "mode"}
             now == {i \in Len(queue) + 1 .. Len(added) : added[i].type = "mode"}
  <2>8. AddedModes(longer, queue) = {longer[i].value : i \in old}
        /\ AddedModes(added, queue) = {added[i].value : i \in now}
    BY <2>4 DEF AddedModes
  <2>9. now = old \cup (IF type = "mode" THEN {n + 1} ELSE {}) /\ \A i \in old : i \in 1 .. n
    BY <2>6, <2>7
  <2> HIDE DEF old, now
  <2>10. AddedModes(added, queue) =
             AddedModes(longer, queue) \cup (IF type = "mode" THEN {option[1]} ELSE {})
    BY <2>1, <2>5, <2>8, <2>9
  <2> QED
    BY <1>2, <2>2, <2>3, <2>10 DEF Part, m
<1> QED
  BY <1>1, <1>2

(* What a batch is on the wire: its parts, then its configure. *)
LEMMA BatchParts ==
    ASSUME SentTypes, NEW id \in Nat, NEW mode \in Option(Modes),
           NEW toplevel \in Option(ToplevelStates), NEW bounds \in Option(BoundSizes),
           SendConfigure(id, mode, toplevel, bounds)
    PROVE  \E longer : /\ Lengthens(longer, wire, id)
                       /\ AddedModes(longer, wire) = IF mode = None THEN {} ELSE {mode[1]}
                       /\ wire' = Append(longer, Message("configure", id, Len(sent) + 1))
<1> DEFINE q1 == wire \o Part("bounds", id, bounds)
           q2 == q1 \o Part("mode", id, mode)
           q3 == q2 \o Part("toplevel", id, toplevel)
           c == Message("configure", id, Len(sent) + 1)
<1>1. wire \in Seq(Messages) /\ Len(wire) \in Nat
  BY DEF SentTypes
<1>2. wire' = q3 \o <<c>>
  BY DEF SendConfigure
<1>3. c \in Messages
  BY DEF Message, Messages, SentTypes
<1>4. Lengthens(wire, wire, id) /\ AddedModes(wire, wire) = {}
  BY <1>1 DEF Lengthens, AddedModes
<1>5. Lengthens(q1, wire, id) /\ AddedModes(q1, wire) = {}
  <2>1. bounds # None => Message("bounds", id, bounds[1]) \in Messages
    BY OptionValue DEF Message, Messages
  <2> QED
    BY <1>1, <1>4, <2>1, PartLengthens, AddedModesPart
<1> HIDE DEF q1
<1>6. Lengthens(q2, wire, id) /\ AddedModes(q2, wire) = IF mode = None THEN {} ELSE {mode[1]}
  <2>1. mode # None => Message("mode", id, mode[1]) \in Messages
    BY OptionValue DEF Message, Messages
  <2> QED
    BY <1>1, <1>5, <2>1, PartLengthens, AddedModesPart
<1> HIDE DEF q2
<1>7. Lengthens(q3, wire, id) /\ AddedModes(q3, wire) = AddedModes(q2, wire)
  <2>1. toplevel # None => Message("toplevel", id, toplevel[1]) \in Messages
    BY OptionValue DEF Message, Messages
  <2> QED
    BY <1>1, <1>6, <2>1, PartLengthens, AddedModesPart
<1> HIDE DEF q3, c
<1>8. q3 \o <<c>> = Append(q3, c)
  BY <1>3, <1>7, AppendIsConcat DEF Lengthens
<1>9. wire' = Append(q3, Message("configure", id, Len(sent) + 1))
  BY <1>2, <1>8 DEF c
<1> QED
  BY <1>6, <1>7, <1>9

LEMMA BatchOnWire ==
    ASSUME SentTypes, NEW id \in Nat, NEW mode \in Option(Modes),
           NEW toplevel \in Option(ToplevelStates), NEW bounds \in Option(BoundSizes),
           SendConfigure(id, mode, toplevel, bounds)
    PROVE  \E last \in DOMAIN wire' :
               /\ \A i \in DOMAIN wire : /\ i \in Nat /\ i < last
                                         /\ i \in DOMAIN wire' /\ wire'[i] = wire[i]
               /\ wire'[last] = Message("configure", id, Len(sent) + 1)
               /\ \A i \in DOMAIN wire' \ DOMAIN wire :
                      /\ i \in Nat /\ wire'[i].frame = id
                      /\ \A j \in DOMAIN wire : j < i
                      /\ i # last => i < last /\ wire'[i].type # "configure"
                      /\ wire'[i].type = "mode" => mode # None /\ wire'[i].value = mode[1]
               /\ mode # None =>
                      \E i \in DOMAIN wire' \ DOMAIN wire : wire'[i].type = "mode"
<1> DEFINE c == Message("configure", id, Len(sent) + 1)
<1>1. PICK longer : /\ Lengthens(longer, wire, id)
                    /\ AddedModes(longer, wire) = IF mode = None THEN {} ELSE {mode[1]}
                    /\ wire' = Append(longer, c)
  BY BatchParts
<1>2. c \in Messages /\ c.type = "configure" /\ c.frame = id
  BY DEF Message, Messages, SentTypes
<1> HIDE DEF c
<1>3. PICK n : n = Len(longer) /\ n \in Nat
  BY <1>1 DEF Lengthens
<1>4. /\ DOMAIN wire' = 1 .. n + 1 /\ wire'[n + 1] = c
      /\ \A i \in 1 .. n : wire'[i] = longer[i]
  <2>1. longer \in Seq(Messages) /\ wire' = Append(longer, c)
    BY <1>1 DEF Lengthens
  <2> QED
    BY <1>2, <1>3, <2>1, AppendAt
<1>5. PICK k : k = Len(wire) /\ k \in Nat /\ k <= n /\ DOMAIN wire = 1 .. k
  <2>1. Len(wire) \in Nat /\ DOMAIN wire = 1 .. Len(wire)
    BY LenProperties DEF SentTypes
  <2>2. Len(wire) <= n
    BY <1>1, <1>3 DEF Lengthens
  <2> QED
    BY <2>1, <2>2
<1>6. /\ \A i \in 1 .. k : longer[i] = wire[i]
      /\ \A i \in k + 1 .. n : longer[i].type # "configure" /\ longer[i].frame = id
  BY <1>1, <1>3, <1>5 DEF Lengthens
<1>7. \A i \in 1 .. k : i \in Nat /\ i < n + 1 /\ i \in 1 .. n /\ i \in 1 .. n + 1
  BY <1>3, <1>5
<1>8. \A i \in (1 .. n + 1) \ (1 .. k) :
          i \in Nat /\ (\A j \in 1 .. k : j < i) /\ (i # n + 1 => i < n + 1 /\ i \in k + 1 .. n /\ i \in 1 .. n)
  BY <1>3, <1>5
<1>9. \A i \in k + 1 .. n : /\ i \in (1 .. n + 1) \ (1 .. k) /\ i \in 1 .. n
                            /\ longer[i].type = "mode" => longer[i].value \in AddedModes(longer, wire)
  BY <1>3, <1>5 DEF AddedModes
<1>10. mode # None => \E i \in k + 1 .. n : longer[i].type = "mode"
  BY <1>1, <1>3, <1>5 DEF AddedModes
<1>11. /\ n + 1 \in DOMAIN wire' /\ wire'[n + 1] = Message("configure", id, Len(sent) + 1)
       /\ \A i \in DOMAIN wire : /\ i \in Nat /\ i < n + 1 /\ i \in DOMAIN wire' /\ wire'[i] = wire[i]
  BY <1>3, <1>4, <1>5, <1>6, <1>7 DEF c
<1>12. ASSUME NEW i \in DOMAIN wire' \ DOMAIN wire
       PROVE  /\ i \in Nat /\ wire'[i].frame = id
              /\ \A j \in DOMAIN wire : j < i
              /\ i # n + 1 => i < n + 1 /\ wire'[i].type # "configure"
              /\ wire'[i].type = "mode" => mode # None /\ wire'[i].value = mode[1]
  <2>1. i \in (1 .. n + 1) \ (1 .. k)
    BY <1>4, <1>5
  <2>2. i \in Nat /\ (\A j \in DOMAIN wire : j < i)
    BY <1>5, <1>8, <2>1
  <2>3. CASE i = n + 1
    BY <1>2, <1>4, <2>2, <2>3
  <2>4. CASE i # n + 1
    <3>1. i < n + 1 /\ i \in k + 1 .. n /\ i \in 1 .. n
      BY <1>8, <2>1, <2>4
    <3>2. wire'[i] = longer[i]
      BY <1>4, <3>1
    <3>3. longer[i].type = "mode" => mode # None /\ longer[i].value = mode[1]
      BY <1>1, <1>9, <3>1
    <3> QED
      BY <1>6, <2>2, <3>1, <3>2, <3>3
  <2> QED
    BY <2>3, <2>4
<1>13. mode # None => \E i \in DOMAIN wire' \ DOMAIN wire : wire'[i].type = "mode"
  BY <1>4, <1>5, <1>9, <1>10
<1> QED
  BY <1>11, <1>12, <1>13

(* Of the serials below a bound, one is the largest. *)
LEMMA Largest ==
    ASSUME NEW n \in Nat, NEW T \in SUBSET (1 .. n), T # {}
    PROVE  \E t \in T : \A s \in T : s <= t
<1> DEFINE Less == {pair \in Nat \X Nat : pair[1] < pair[2]}
           Gaps == {n - t : t \in T}
<1>1. IsWellFoundedOn(Less, Nat)
  BY NatLessThanWellFounded DEF OpToRel
<1>0. \A t \in T : t \in Nat /\ t <= n /\ n - t \in Nat
  OBVIOUS
<1>2. Gaps \subseteq Nat /\ Gaps # {}
  BY <1>0
<1>3. PICK g \in Gaps : \A h \in Gaps : ~(<<h, g>> \in Less)
  <2> HIDE DEF Less, Gaps
  <2> QED
    BY <1>1, <1>2, WFMin
<1>4. PICK t \in T : g = n - t
  BY <1>3
<1>5. ASSUME NEW s \in T PROVE s <= t
  <2>1. n - s \in Gaps /\ n - s \in Nat /\ n - t \in Nat
    BY <1>0
  <2>2. ~(n - s < n - t)
    BY <1>3, <1>4, <2>1
  <2>3. s \in Nat /\ t \in Nat
    BY <1>0
  <2> QED
    BY <2>2, <2>3
<1> QED
  BY <1>5

(* A batch joins those sent; the mode to use is its mode, if it has one. *)
LEMMA BatchJoins ==
    ASSUME SentTypes, NEW id \in Nat, NEW mode \in Option(Modes),
           NEW toplevel \in Option(ToplevelStates), NEW bounds \in Option(BoundSizes),
           SendConfigure(id, mode, toplevel, bounds)
    PROVE  /\ Len(sent) \in Nat /\ Len(sent) + 1 \in Nat
           /\ DOMAIN sent' = DOMAIN sent \cup {Len(sent) + 1}
           /\ \A n \in DOMAIN sent : sent'[n] = sent[n]
           /\ sent'[Len(sent) + 1].frame = id
           /\ \A f : ModeOf(f)' = IF f = id /\ mode # None THEN mode ELSE ModeOf(f)
<1> DEFINE batch == [frame |-> id, mode |-> mode, toplevel |-> toplevel]
<1>1. sent \in Seq(Batch) /\ batch \in Batch /\ sent' = Append(sent, batch)
      /\ batch.frame = id /\ batch.mode = mode
  BY DEF SentTypes, Batch, SendConfigure
<1> HIDE DEF batch
<1>2. PICK l : l = Len(sent) /\ l \in Nat
  BY <1>1
<1>3. /\ DOMAIN sent = 1 .. l /\ DOMAIN sent' = 1 .. l + 1
      /\ \A n \in 1 .. l : sent'[n] = sent[n]
      /\ sent'[l + 1] = batch
  BY <1>1, <1>2, AppendAt
<1>4. 1 .. l + 1 = 1 .. l \cup {l + 1} /\ l + 1 \in Nat /\ \A n \in 1 .. l : n \in Nat /\ n < l + 1
  BY <1>2
<1>5. ASSUME NEW f PROVE ModeOf(f)' = IF f = id /\ mode # None THEN mode ELSE ModeOf(f)
  <2> DEFINE old == {n \in DOMAIN sent : sent[n].frame = f /\ sent[n].mode # None}
             now == {n \in DOMAIN sent' : sent'[n].frame = f /\ sent'[n].mode # None}
             Latest(batches) == CHOOSE n \in batches : \A m \in batches : m <= n
  <2>1. /\ ModeOf(f) = IF old = {} THEN None ELSE sent[Latest(old)].mode
        /\ ModeOf(f)' = IF now = {} THEN None ELSE sent'[Latest(now)].mode
    BY DEF ModeOf
  <2>2. now = old \cup (IF f = id /\ mode # None THEN {l + 1} ELSE {}) /\ old \subseteq 1 .. l
    BY <1>1, <1>3, <1>4
  <2> HIDE DEF old, now
  <2>3. CASE f = id /\ mode # None
    <3>1. l + 1 \in now /\ \A m \in now : m <= l + 1 /\ m \in Nat
      BY <1>4, <2>2, <2>3
    <3>2. Latest(now) \in now /\ \A m \in now : m <= Latest(now)
      BY <3>1
    <3> HIDE DEF Latest
    <3>3. Latest(now) = l + 1
      BY <1>4, <3>1, <3>2
    <3>4. now # {}
      BY <3>1
    <3> QED
      BY <1>1, <1>3, <2>1, <2>3, <3>3, <3>4
  <2>4. CASE ~(f = id /\ mode # None)
    <3>1. now = old
      BY <2>2, <2>4
    <3>2. ASSUME old # {} PROVE sent'[Latest(old)] = sent[Latest(old)]
      <4>1. \E t \in old : \A s \in old : s <= t
        BY <1>2, <2>2, <3>2, Largest
      <4>2. Latest(old) \in old
        BY <4>1
      <4> HIDE DEF Latest
      <4> QED
        BY <1>3, <2>2, <4>2
    <3> HIDE DEF Latest
    <3> QED
      BY <2>1, <2>4, <3>1, <3>2
  <2> QED
    BY <2>3, <2>4
<1> QED
  BY <1>1, <1>2, <1>3, <1>4, <1>5

(* A message that is neither a configure nor a mode. *)
LEMMA OtherSettled ==
    ASSUME SettledInv, NEW id, NEW message \in Messages, message.type \in {"wm", "close"},
           SendOther(id, message)
    PROVE  SettledParts'
<1>1. /\ UNCHANGED <<frames, csd, events, held, sent, acked, geometry>> /\ live' = live
      /\ wire' = Append(wire, message)
  BY DEF SendOther, vars, inner, live
<1>2. wire \in Seq(Messages) /\ SettledParts
  BY DEF SettledInv, HandshakeInv, SessionInv, InOrder, SentTypes
<1>3. PICK n : n = Len(wire) /\ n \in Nat
  BY <1>2
<1>4. /\ DOMAIN wire = 1 .. n /\ DOMAIN wire' = 1 .. n + 1 /\ wire'[n + 1] = message
      /\ \A i \in 1 .. n : wire'[i] = wire[i]
  BY <1>1, <1>2, <1>3, AppendAt
<1>5. 1 .. n + 1 = 1 .. n \cup {n + 1}
  BY <1>3
<1>6. WireConfigures' = WireConfigures /\ \A i \in WireConfigures : wire'[i] = wire[i]
  BY <1>4, <1>5 DEF WireConfigures
<1>7. \A f : ModesOn(f)' = ModesOn(f) /\ \A i \in ModesOn(f) : wire'[i] = wire[i]
  BY <1>4, <1>5 DEF ModesOn
<1>8. \A f : OnWire(f)' = OnWire(f) /\ Queued(f)' = Queued(f)
  BY <1>1, <1>6 DEF OnWire, Queued, EventConfigures
<1>9. \A f : (Coming(f)' <=> Coming(f)) /\ ModeOf(f)' = ModeOf(f)
  BY <1>1, <1>8 DEF Coming, ModeOf
<1>10. NoneLost' /\ AckedIssued'
  BY <1>1, <1>2, <1>8 DEF SettledParts, NoneLost, AckedIssued, Issued, FrameIds
<1>11. ModeFollowed'
  <2> SUFFICES ASSUME NEW i \in DOMAIN wire', wire'[i].type = "mode"
               PROVE  \E j \in WireConfigures' : i < j /\ wire'[j].frame = wire'[i].frame
    BY DEF ModeFollowed
  <2>1. i \in DOMAIN wire /\ wire'[i] = wire[i]
    BY <1>4, <1>5
  <2> QED
    BY <1>2, <1>6, <2>1 DEF SettledParts, ModeFollowed
<1>12. EventsLaid' /\ HeldLaid'
  BY <1>1, <1>2, <1>8 DEF SettledParts, EventsLaid, HeldLaid, Laid, Sized, Asked
<1>13. GeometryLaid'
  BY <1>1, <1>2, <1>9 DEF SettledParts, GeometryLaid, Sized, Asked, FrameIds
<1>14. ModeDue' /\ NoMode'
  BY <1>1, <1>2, <1>7, <1>9 DEF SettledParts, ModeDue, NoMode
<1>15. CsdMade' /\ Painted'
  BY <1>1, <1>2, <1>8, <1>9 DEF SettledParts, CsdMade, Painted, Shown
<1> QED
  BY <1>10, <1>11, <1>12, <1>13, <1>14, <1>15 DEF SettledParts

(* A batch. *)
LEMMA BatchSettled ==
    ASSUME SettledInv, NEW id \in Nat, NEW mode \in Option(Modes),
           NEW toplevel \in Option(ToplevelStates), NEW bounds \in Option(BoundSizes),
           SendConfigure(id, mode, toplevel, bounds)
    PROVE  SettledParts'
<1>0. SentTypes /\ InOrder /\ SettledParts /\ live \subseteq FrameIds /\ TypeOK
  <2>1. SentTypes /\ InOrder /\ SettledParts /\ TypeOK /\ SessionInv
    BY DEF SettledInv, HandshakeInv, SessionInv, InOrder, RegistryInv, TypeInv
  <2> QED
    BY <2>1, LiveAre
<1>1. UNCHANGED <<frames, csd, events, held, acked, geometry>> /\ live' = live
  BY DEF SendConfigure, vars, inner, live
<1> DEFINE l == Len(sent) + 1
<1>2. /\ l \in Nat /\ DOMAIN sent' = DOMAIN sent \cup {l}
      /\ \A n \in DOMAIN sent : sent'[n] = sent[n]
      /\ sent'[l].frame = id
      /\ \A f : ModeOf(f)' = IF f = id /\ mode # None THEN mode ELSE ModeOf(f)
  BY <1>0, BatchJoins
<1>3. PICK last \in DOMAIN wire' :
          /\ \A i \in DOMAIN wire : i \in Nat /\ i < last /\ i \in DOMAIN wire' /\ wire'[i] = wire[i]
          /\ wire'[last] = Message("configure", id, l)
          /\ \A i \in DOMAIN wire' \ DOMAIN wire :
                 /\ i \in Nat /\ wire'[i].frame = id
                 /\ \A j \in DOMAIN wire : j < i
                 /\ i # last => i < last /\ wire'[i].type # "configure"
                 /\ wire'[i].type = "mode" => mode # None /\ wire'[i].value = mode[1]
          /\ mode # None => \E i \in DOMAIN wire' \ DOMAIN wire : wire'[i].type = "mode"
  BY <1>0, BatchOnWire
<1> HIDE DEF l
<1>4. wire'[last].type = "configure" /\ wire'[last].frame = id /\ wire'[last].value = l
  BY <1>3 DEF Message
<1>5. /\ last \in WireConfigures'
      /\ \A i \in WireConfigures : i \in WireConfigures' /\ wire'[i] = wire[i]
  BY <1>3, <1>4 DEF WireConfigures
<1>6. /\ \A f : OnWire(f) \subseteq OnWire(f)' /\ Queued(f)' = Queued(f)
      /\ l \in OnWire(id)'
  <2>1. \A f : Queued(f)' = Queued(f)
    BY <1>1 DEF Queued, EventConfigures
  <2>2. \A f : OnWire(f) \subseteq OnWire(f)'
    BY <1>5 DEF OnWire
  <2>3. l \in OnWire(id)'
    BY <1>4, <1>5 DEF OnWire
  <2> QED
    BY <2>1, <2>2, <2>3
<1>7. \A f : Coming(f) => Coming(f)'
  BY <1>1, <1>6 DEF Coming
<1>8. \A n \in DOMAIN sent : Sized(n)' = Sized(n) /\ Asked(n)' = Asked(n)
  BY <1>2 DEF Sized, Asked
<1>9. \A c, b : c.serial \in DOMAIN sent /\ Laid(c, b) => Laid(c, b)'
  BY <1>8 DEF Laid
<1>10. NoneLost'
  <2> SUFFICES ASSUME NEW n \in DOMAIN sent', NEW f \in live, f = sent'[n].frame
               PROVE  \/ n <= acked[f]
                      \/ f \in DOMAIN held /\ n <= held[f].serial
                      \/ \E c \in Queued(f)' : n <= c.serial
                      \/ \E serial \in OnWire(f)' : n <= serial
    BY <1>1 DEF NoneLost
  <2>1. CASE n = l
    BY <1>2, <1>6, <2>1
  <2>2. CASE n # l
    <3>1. n \in DOMAIN sent /\ sent[n].frame = f
      BY <1>2, <2>2
    <3>2. \/ n <= acked[f]
          \/ f \in DOMAIN held /\ n <= held[f].serial
          \/ \E c \in Queued(f) : n <= c.serial
          \/ \E serial \in OnWire(f) : n <= serial
      BY <1>0, <3>1 DEF SettledParts, NoneLost
    <3> QED
      BY <1>6, <3>2
  <2> QED
    BY <2>1, <2>2
<1>11. AckedIssued'
  BY <1>0, <1>1, <1>2 DEF SettledParts, AckedIssued, Issued, FrameIds
<1>12. ModeFollowed'
  <2> SUFFICES ASSUME NEW i \in DOMAIN wire', wire'[i].type = "mode"
               PROVE  \E j \in WireConfigures' : i < j /\ wire'[j].frame = wire'[i].frame
    BY DEF ModeFollowed
  <2>1. CASE i \in DOMAIN wire
    <3>1. PICK j \in WireConfigures : i < j /\ wire[j].frame = wire[i].frame
      BY <1>0, <1>3, <2>1 DEF SettledParts, ModeFollowed
    <3> QED
      BY <1>3, <1>5, <2>1, <3>1
  <2>2. CASE i \notin DOMAIN wire
    <3>1. i # last
      BY <1>4
    <3>2. i < last /\ wire'[i].frame = id
      BY <1>3, <2>2, <3>1
    <3> QED
      BY <1>4, <1>5, <3>2
  <2> QED
    BY <2>1, <2>2
<1>13. EventsLaid'
  <2> SUFFICES ASSUME NEW f \in live, NEW c \in Queued(f)
               PROVE  \/ Laid(c, f \in DOMAIN csd)'
                      \/ OnWire(f)' # {}
                      \/ \E later \in Queued(f) : c.serial < later.serial
    BY <1>1, <1>6 DEF EventsLaid
  <2>1. c.serial \in DOMAIN sent
    <3>1. PICK i \in EventConfigures : events[i].configuration = c
      BY DEF Queued
    <3> QED
      BY <1>0, <3>1 DEF InOrder, EventsInOrder, Issued, SerialAt
  <2>2. \/ Laid(c, f \in DOMAIN csd)
        \/ OnWire(f) # {}
        \/ \E later \in Queued(f) : c.serial < later.serial
    BY <1>0 DEF SettledParts, EventsLaid
  <2>3. Laid(c, f \in DOMAIN csd) => Laid(c, f \in DOMAIN csd)'
    BY <1>1, <1>8, <2>1 DEF Laid
  <2> QED
    BY <1>6, <2>2, <2>3
<1>14. HeldLaid'
  <2> SUFFICES ASSUME NEW f \in DOMAIN held
               PROVE  Laid(held[f], f \in DOMAIN csd)' \/ OnWire(f)' # {} \/ Queued(f) # {}
    BY <1>1, <1>6 DEF HeldLaid
  <2>1. held[f].serial \in DOMAIN sent
    BY <1>0 DEF InOrder, HeldInOrder, Issued
  <2>2. Laid(held[f], f \in DOMAIN csd) \/ OnWire(f) # {} \/ Queued(f) # {}
    BY <1>0 DEF SettledParts, HeldLaid
  <2>3. Laid(held[f], f \in DOMAIN csd) => Laid(held[f], f \in DOMAIN csd)'
    BY <1>1, <1>8, <2>1 DEF Laid
  <2> QED
    BY <1>6, <2>2, <2>3
<1>15. GeometryLaid'
  <2>1. geometry' = [f \in FrameIds |-> geometry'[f]]
    BY <1>0, <1>1 DEF SettledParts, GeometryLaid
  <2>2. ASSUME "resize" \notin AppCalls, NEW f \in live, acked[f] > 0, Sized(acked[f])'
        PROVE  Holds(geometry[f], Asked(acked[f])') \/ Coming(f)'
    <3>1. acked[f] \in DOMAIN sent
      BY <1>0, <2>2 DEF SettledParts, AckedIssued, Issued
    <3>2. Sized(acked[f]) /\ Asked(acked[f])' = Asked(acked[f])
      BY <1>1, <1>8, <2>2, <3>1 DEF Sized, Asked
    <3>3. Holds(geometry[f], Asked(acked[f])) \/ Coming(f)
      BY <1>0, <2>2, <3>2 DEF SettledParts, GeometryLaid
    <3> QED
      BY <1>7, <3>2, <3>3
  <2> QED
    BY <1>1, <2>1, <2>2 DEF GeometryLaid, FrameIds
<1>16. ModeDue'
  <2>1. \A f : ModesOn(f) \subseteq ModesOn(f)' /\ \A i \in ModesOn(f) : wire'[i] = wire[i]
    BY <1>3 DEF ModesOn
  <2>2. \A f : \A i \in ModesOn(f)' \ ModesOn(f) :
            /\ f = id /\ mode # None /\ wire'[i].value = mode[1] /\ i \in Nat
            /\ \A j \in ModesOn(f) : j < i
    BY <1>3 DEF ModesOn
  <2>3. mode # None => \E i \in ModesOn(id)' : i \notin ModesOn(id) /\ i \in Nat
    BY <1>3 DEF ModesOn
  <2>4. \A f : \A i \in ModesOn(f) : i \in Nat
    BY <1>3 DEF ModesOn
  <2>5. ASSUME NEW f \in live, f = id, mode # None
        PROVE  /\ ModesOn(f)' # {}
               /\ \A i \in ModesOn(f)' : (\A j \in ModesOn(f)' : j <= i) =>
                      Some(wire'[i].value) = mode
    <3>1. mode = Some(mode[1])
      BY <2>5 DEF Option, Some
    <3>2. PICK new \in ModesOn(id)' : new \notin ModesOn(id) /\ new \in Nat
      BY <2>3, <2>5
    <3>3. ASSUME NEW i \in ModesOn(f)', \A j \in ModesOn(f)' : j <= i
          PROVE  i \notin ModesOn(f)
      <4>1. new <= i
        BY <2>5, <3>2, <3>3
      <4>2. i \in ModesOn(f) => i < new /\ i \in Nat
        BY <2>2, <2>4, <2>5, <3>2
      <4> QED
        BY <3>2, <4>1, <4>2
    <3>4. \A i \in ModesOn(f)' : i \notin ModesOn(f) => wire'[i].value = mode[1]
      BY <2>2
    <3>5. ModesOn(f)' # {}
      BY <2>5, <3>2
    <3>6. ASSUME NEW i \in ModesOn(f)', \A j \in ModesOn(f)' : j <= i
          PROVE  Some(wire'[i].value) = mode
      BY <3>1, <3>3, <3>4, <3>6
    <3> QED
      BY <3>5, <3>6
  <2>6. ASSUME NEW f \in live, ~(f = id /\ mode # None)
        PROVE  ModesOn(f)' = ModesOn(f) /\ ModeOf(f)' = ModeOf(f)
    <3>1. ModeOf(f)' = ModeOf(f)
      BY <1>2, <2>6
    <3>2. ASSUME NEW i \in ModesOn(f)' \ ModesOn(f) PROVE FALSE
      BY <2>2, <2>6
    <3>3. ModesOn(f) \subseteq ModesOn(f)'
      BY <2>1
    <3> QED
      BY <3>1, <3>2, <3>3
  <2>7. ASSUME NEW f \in live
        PROVE  /\ ModesOn(f)' = {} => frames[f].decoration_mode = ModeOf(f)'
               /\ \A i \in ModesOn(f)' :
                      (\A j \in ModesOn(f)' : j <= i) => Some(wire'[i].value) = ModeOf(f)'
    <3>1. CASE f = id /\ mode # None
      BY <1>2, <2>5, <3>1
    <3>2. CASE ~(f = id /\ mode # None)
      BY <1>0, <2>1, <2>6, <3>2 DEF SettledParts, ModeDue
    <3> QED
      BY <3>1, <3>2
  <2> QED
    BY <1>1, <2>7 DEF ModeDue
<1>17. NoMode' /\ CsdMade'
  BY <1>0, <1>1, <1>6 DEF SettledParts, NoMode, CsdMade
<1>18. Painted'
  BY <1>0, <1>1, <1>7 DEF SettledParts, Painted, Shown
<1> QED
  BY <1>10, <1>11, <1>12, <1>13, <1>14, <1>15, <1>16, <1>17, <1>18 DEF SettledParts

(* The compositor sends. *)
LEMMA SendSettled ==
    ASSUME SettledInv, NEW id \in live, Send(id)
    PROVE  SettledParts'
<1>1. id \in Nat
  BY DEF SettledInv, HandshakeInv, SessionInv, RegistryInv, TypeInv, TypeOK, Allocated
<1>2. \A wm \in WmCapSets : Message("wm", id, wm) \in Messages
  BY <1>1 DEF Message, Messages
<1>3. Message("close", id, {}) \in Messages
  BY <1>1 DEF Message, Messages
<1>4. \A value : Message("wm", id, value).type = "wm" /\ Message("close", id, value).type = "close"
  BY DEF Message
<1>5. CASE \E mode \in Option(Modes), toplevel \in Option(ToplevelStates),
              bounds \in Option(BoundSizes) : SendConfigure(id, mode, toplevel, bounds)
  BY <1>1, <1>5, BatchSettled
<1>6. CASE \E wm \in WmCapSets : SendOther(id, Message("wm", id, wm))
  BY <1>2, <1>4, <1>6, OtherSettled
<1>7. CASE SendOther(id, Message("close", id, {}))
  BY <1>3, <1>4, <1>7, OtherSettled
<1> QED
  BY <1>5, <1>6, <1>7 DEF Send

(* Nothing was ever sent to a frame that does not exist yet. *)
LEMMA NothingForNew ==
    ASSUME InOrder, SentAllocated, AckedIssued, next_id \in Nat
    PROVE  /\ ModeOf(next_id) = None /\ OnWire(next_id) = {} /\ Queued(next_id) = {}
           /\ ModesOn(next_id) = {} /\ \A n \in DOMAIN sent : sent[n].frame # next_id
           /\ next_id \in FrameIds => ~(acked[next_id] > 0)
<1>1. next_id \notin Allocated
  BY DEF Allocated
<1>2. \A n \in DOMAIN sent : sent[n].frame # next_id
  BY <1>1 DEF SentAllocated
<1>3. ModeOf(next_id) = None
  BY <1>2 DEF ModeOf
<1>4. \A i \in DOMAIN wire : wire[i].frame # next_id
  BY <1>1 DEF InOrder, SentTypes
<1>5. OnWire(next_id) = {} /\ ModesOn(next_id) = {}
  BY <1>4 DEF OnWire, ModesOn, WireConfigures
<1>6. \A i \in EventConfigures : events[i].frame # next_id
  BY <1>2 DEF InOrder, EventsInOrder, Issued
<1>7. Queued(next_id) = {}
  BY <1>6 DEF Queued
<1>8. next_id \in FrameIds => ~(acked[next_id] > 0)
  BY <1>2 DEF AckedIssued, Issued
<1> QED
  BY <1>2, <1>3, <1>5, <1>7, <1>8

(* Calls that leave what was sent, and what a frame that stays has of it. *)
StaysAs(id) ==
    /\ id \in live
    /\ frames'[id].content_size = frames[id].content_size
    /\ frames'[id].window_state = frames[id].window_state
    /\ frames'[id].decoration_mode = frames[id].decoration_mode
    /\ (id \in DOMAIN csd') = (id \in DOMAIN csd)
    /\ id \in DOMAIN csd => csd'[id] = csd[id]
    /\ (id \in DOMAIN held') = (id \in DOMAIN held)
    /\ id \in DOMAIN held => held'[id] = held[id]

Created(id) ==
    id = next_id /\ frames'[id].decoration_mode = None /\ id \notin DOMAIN csd' /\ id \notin DOMAIN held'

LEMMA SettledStable ==
    ASSUME SettledInv, UNCHANGED <<wire, sent, acked, geometry, events>>,
           \A id \in live' : StaysAs(id) \/ Created(id),
           DOMAIN csd' \subseteq live', DOMAIN held' \subseteq live', live' \subseteq FrameIds
    PROVE  SettledParts'
<1>0. /\ InOrder /\ SentAllocated /\ next_id \in Nat /\ SettledParts /\ AckedIssued
      /\ next_id \notin live
  BY DEF SettledInv, HandshakeInv, SessionInv, RegistryInv, TypeInv, TypeOK, SettledParts, Allocated
<1>1. /\ ModeOf(next_id) = None /\ OnWire(next_id) = {} /\ Queued(next_id) = {}
      /\ ModesOn(next_id) = {} /\ \A n \in DOMAIN sent : sent[n].frame # next_id
      /\ next_id \in FrameIds => ~(acked[next_id] > 0)
  BY <1>0, NothingForNew
<1>2. \A id : /\ OnWire(id)' = OnWire(id) /\ Queued(id)' = Queued(id)
              /\ ModesOn(id)' = ModesOn(id) /\ ModeOf(id)' = ModeOf(id)
  BY DEF OnWire, Queued, ModesOn, ModeOf, WireConfigures, EventConfigures
<1>3. \A id \in live' : StaysAs(id) => (Coming(id)' <=> Coming(id))
  BY <1>2 DEF Coming, StaysAs
<1>4. NoneLost'
  <2> SUFFICES ASSUME NEW n \in DOMAIN sent, NEW id \in live', id = sent[n].frame
               PROVE  \/ n <= acked[id]
                      \/ id \in DOMAIN held' /\ n <= held'[id].serial
                      \/ \E cfg \in Queued(id) : n <= cfg.serial
                      \/ \E serial \in OnWire(id) : n <= serial
    BY <1>2 DEF NoneLost
  <2>1. StaysAs(id)
    BY <1>1 DEF Created
  <2>2. \/ n <= acked[id]
        \/ id \in DOMAIN held /\ n <= held[id].serial
        \/ \E cfg \in Queued(id) : n <= cfg.serial
        \/ \E serial \in OnWire(id) : n <= serial
    BY <1>0, <2>1 DEF SettledParts, NoneLost, StaysAs
  <2> QED
    BY <2>1, <2>2 DEF StaysAs
<1>5. AckedIssued' /\ ModeFollowed'
  BY <1>0 DEF SettledParts, AckedIssued, ModeFollowed, Issued, FrameIds, WireConfigures
<1>6. EventsLaid'
  <2> SUFFICES ASSUME NEW id \in live', NEW cfg \in Queued(id)
               PROVE  \/ Laid(cfg, id \in DOMAIN csd')
                      \/ OnWire(id) # {}
                      \/ \E later \in Queued(id) : cfg.serial < later.serial
    BY <1>2 DEF EventsLaid, Laid, Sized, Asked
  <2>1. StaysAs(id)
    BY <1>1 DEF Created
  <2> QED
    BY <1>0, <2>1 DEF SettledParts, EventsLaid, StaysAs, Laid
<1>7. HeldLaid'
  <2> SUFFICES ASSUME NEW id \in DOMAIN held'
               PROVE  Laid(held'[id], id \in DOMAIN csd') \/ OnWire(id) # {} \/ Queued(id) # {}
    BY <1>2 DEF HeldLaid, Laid, Sized, Asked
  <2>1. StaysAs(id)
    BY DEF Created
  <2> QED
    BY <1>0, <2>1 DEF SettledParts, HeldLaid, StaysAs, Laid
<1>8. GeometryLaid'
  <2>1. \A n : Sized(n)' = Sized(n) /\ Asked(n)' = Asked(n)
    BY DEF Sized, Asked
  <2>2. geometry = [id \in FrameIds |-> geometry[id]]
    BY <1>0 DEF SettledParts, GeometryLaid
  <2>3. ASSUME "resize" \notin AppCalls, NEW id \in live', acked[id] > 0, Sized(acked[id])
        PROVE  Holds(geometry[id], Asked(acked[id])) \/ Coming(id)'
    <3>1. StaysAs(id)
      BY <1>1, <2>3 DEF Created
    <3> QED
      BY <1>0, <1>3, <2>3, <3>1 DEF SettledParts, GeometryLaid, StaysAs
  <2> QED
    BY <2>1, <2>2, <2>3 DEF GeometryLaid, FrameIds, Sized, Asked
<1>9. ModeDue' /\ NoMode'
  <2> SUFFICES ASSUME NEW id \in live'
               PROVE  /\ ModesOn(id) = {} => frames'[id].decoration_mode = ModeOf(id)
                      /\ \A i \in ModesOn(id) :
                             (\A j \in ModesOn(id) : j <= i) => Some(wire[i].value) = ModeOf(id)
                      /\ ~DecorationMgr => frames'[id].decoration_mode = None
    BY <1>2 DEF ModeDue, NoMode
  <2>1. CASE StaysAs(id)
    BY <1>0, <2>1 DEF SettledParts, ModeDue, NoMode, StaysAs
  <2>2. CASE Created(id)
    BY <1>1, <2>2 DEF Created
  <2> QED
    BY <2>1, <2>2
<1>10. CsdMade'
  <2> SUFFICES ASSUME Subcompositor, NEW id \in live',
                      \/ frames'[id].decoration_mode = Some("ClientSide")
                      \/ ~DecorationMgr /\ (acked[id] > 0 \/ Queued(id) # {} \/ id \in DOMAIN held')
               PROVE  id \in DOMAIN csd'
    BY <1>2 DEF CsdMade
  <2>1. CASE StaysAs(id)
    BY <1>0, <2>1 DEF SettledParts, CsdMade, StaysAs
  <2>2. CASE Created(id)
    <3>1. Some("ClientSide") # None
      BY DEF Some, None
    <3> QED
      BY <1>1, <2>2, <3>1 DEF Created
  <2> QED
    BY <2>1, <2>2
<1>11. Painted'
  <2> SUFFICES ASSUME ~ShmMayFail, NEW id \in DOMAIN csd', HasContent(frames'[id].content_size)
               PROVE  Shown(id)' \/ Coming(id)'
    BY DEF Painted
  <2>1. StaysAs(id) /\ id \in live'
    BY DEF Created
  <2>2. Shown(id) \/ Coming(id)
    BY <1>0, <2>1 DEF SettledParts, Painted, StaysAs
  <2>3. Shown(id) => Shown(id)'
    BY <2>1 DEF Shown, StaysAs
  <2> QED
    BY <1>3, <2>1, <2>2, <2>3
<1> QED
  BY <1>4, <1>5, <1>6, <1>7, <1>8, <1>9, <1>10, <1>11 DEF SettledParts

(* A frame is created. *)
LEMMA CreatedSettled ==
    ASSUME TypeOK, NEW surface, NEW owns, NEW creation, decorate_inner(surface, owns, creation)
    PROVE  UNCHANGED events /\ \A id \in live' : StaysAs(id) \/ Created(id)
<1>1. /\ frames' = Put(frames, next_id, NewSlot(surface, owns, ~force_csd /\ DecorationMgr))
      /\ UNCHANGED <<csd, events, held>>
  BY DEF decorate_inner
<1>2. next_id \notin live /\ DOMAIN csd \subseteq live /\ DOMAIN held \subseteq live
  BY DEF TypeOK, Allocated
<1>3. \A id \in live' : \/ id \in live /\ frames'[id] = frames[id]
                        \/ id = next_id /\ frames'[id].decoration_mode = None
  BY <1>1 DEF Put, live, NewSlot
<1> QED
  BY <1>1, <1>2, <1>3 DEF StaysAs, Created

(* Any other call. *)
LEMMA OtherCallSettled ==
    ASSUME SettledInv, OtherCall
    PROVE  SettledParts'
<1>0. TypeOK /\ SessionInv /\ frames \in [live -> Slot]
  BY DEF SettledInv, HandshakeInv, SessionInv, RegistryInv, TypeInv, TypeOK
<1>1. UNCHANGED <<wire, sent, geometry, acked>>
  BY <1>0, OtherCallKeeps DEF OtherCall
<1>2. DOMAIN csd' \subseteq live' /\ DOMAIN held' \subseteq live' /\ live' \subseteq FrameIds
  <2>1. SessionInv'
    BY <1>0, InvStep DEF SessionNext
  <2>2. TypeOK' /\ next_id' <= MaxFrames
    BY <2>1 DEF SessionInv, RegistryInv, TypeInv, InOrder, SentTypes
  <2>3. DOMAIN csd' \subseteq live' /\ DOMAIN held' \subseteq live'
        /\ live' \subseteq 0 .. next_id' - 1 /\ next_id' \in Nat
    BY <2>2 DEF TypeOK, Allocated
  <2>4. MaxFrames \in Nat
    BY ConstantAssumption DEF ConstantAssumption
  <2>5. 0 .. next_id' - 1 \subseteq 0 .. MaxFrames - 1
    <3>1. next_id' \in Int /\ MaxFrames \in Int
      BY <2>3, <2>4
    <3> QED
      BY <2>2, <3>1, RangeGrows
  <2> QED
    BY <2>3, <2>5 DEF FrameIds
<1>3. ASSUME events' = events, \A id \in live' : StaysAs(id) \/ Created(id)
      PROVE  SettledParts'
  BY <1>1, <1>2, <1>3, SettledStable
<1>4. CASE CreateFrame
  BY <1>0, <1>3, <1>4, CreatedSettled DEF CreateFrame
<1>5. CASE \E surface \in AppSurfaces : Decorate(surface)
  BY <1>0, <1>3, <1>5, CreatedSettled DEF Decorate
<1>6. ASSUME NEW id \in live, DestroyFrame(id)
      PROVE  SettledParts'
  <2>1. events' = events
    BY <1>6 DEF DestroyFrame
  <2>2. /\ frames' = Without(frames, {id}) /\ csd' = Without(csd, {id})
        /\ held' = Without(held, {id})
    BY <1>6 DEF DestroyFrame
  <2>3. \A i \in live' : StaysAs(i)
    BY <2>2 DEF Without, Restrict, live, StaysAs
  <2> QED
    BY <1>3, <2>1, <2>3
<1>7. ASSUME NEW id \in live, NEW slot, frames' = [frames EXCEPT ![id] = slot],
             slot.content_size = frames[id].content_size,
             slot.window_state = frames[id].window_state,
             slot.decoration_mode = frames[id].decoration_mode,
             UNCHANGED <<events, held, csd>>
      PROVE  SettledParts'
  <2>1. \A i \in live' : StaysAs(i)
    BY <1>0, <1>7 DEF live, StaysAs
  <2> QED
    BY <1>3, <1>7, <2>1
<1>8. ASSUME NEW id \in live, Map(id)
      PROVE  SettledParts'
  <2> DEFINE slot == [frames[id] EXCEPT !.mapped = TRUE]
  <2>1. /\ frames' = [frames EXCEPT ![id] = slot] /\ UNCHANGED <<events, held, csd>>
        /\ slot.content_size = frames[id].content_size
        /\ slot.window_state = frames[id].window_state
        /\ slot.decoration_mode = frames[id].decoration_mode
    BY <1>0, <1>8 DEF Map, Slot
  <2> HIDE DEF slot
  <2> QED
    BY <1>7, <2>1
<1>9. ASSUME NEW id \in live, NEW caps, SetCapabilities(id, caps) \/ UnsetCapabilities(id, caps)
      PROVE  SettledParts'
  <2> DEFINE slot(c) == [frames[id] EXCEPT !.capabilities = c]
  <2>1. UNCHANGED <<events, held, csd>>
    BY <1>9 DEF SetCapabilities, UnsetCapabilities
  <2>2. \A c : /\ slot(c).content_size = frames[id].content_size
               /\ slot(c).window_state = frames[id].window_state
               /\ slot(c).decoration_mode = frames[id].decoration_mode
    BY <1>0 DEF Slot
  <2>3. PICK c : frames' = [frames EXCEPT ![id] = slot(c)]
    <3>1. CASE SetCapabilities(id, caps)
      BY <3>1 DEF SetCapabilities
    <3>2. CASE UnsetCapabilities(id, caps)
      BY <3>2 DEF UnsetCapabilities
    <3> QED
      BY <1>9, <3>1, <3>2
  <2> HIDE DEF slot
  <2> QED
    BY <1>7, <2>1, <2>2, <2>3
<1>10. ASSUME NEW id \in live, NEW visible, SetVisibility(id, visible)
       PROVE  SettledParts'
  <2> DEFINE slot == [frames[id] EXCEPT !.visible = visible]
  <2>1. /\ frames' = [frames EXCEPT ![id] = slot] /\ UNCHANGED <<events, held, csd>>
        /\ slot.content_size = frames[id].content_size
        /\ slot.window_state = frames[id].window_state
        /\ slot.decoration_mode = frames[id].decoration_mode
    BY <1>0, <1>10 DEF SetVisibility, Slot
  <2> HIDE DEF slot
  <2> QED
    BY <1>7, <2>1
<1>11. ASSUME UNCHANGED <<frames, events, held, csd>>
       PROVE  SettledParts'
  <2>1. \A i \in live' : StaysAs(i)
    BY <1>11 DEF live, StaysAs
  <2> QED
    BY <1>3, <1>11, <2>1
<1>12. ASSUME NEW force, ForceClientSideDecorations(force)
       PROVE  UNCHANGED <<frames, events, held, csd>>
  BY <1>12 DEF ForceClientSideDecorations
<1>13. ASSUME NEW id, NEW name, ToplevelRequest(id, name)
       PROVE  UNCHANGED <<frames, events, held, csd>>
  BY <1>13 DEF ToplevelRequest, inner
<1>14. ASSUME NEW id, NEW parent, SetParent(id, parent)
       PROVE  UNCHANGED <<frames, events, held, csd>>
  BY <1>14 DEF SetParent, inner
<1> QED
  BY <1>4, <1>5, <1>6, <1>8, <1>9, <1>10, <1>11, <1>12, <1>13, <1>14 DEF OtherCall

LEMMA SettledInit == SessionInit => SettledInv
<1> SUFFICES ASSUME SessionInit PROVE SettledInv
  OBVIOUS
<1>1. HandshakeInv /\ FaithfulInv
  BY HandshakeInit, FaithfulInit
<1>2. /\ wire = <<>> /\ sent = <<>> /\ events = <<>> /\ DOMAIN frames = {} /\ DOMAIN csd = {}
      /\ DOMAIN held = {} /\ acked = [id \in FrameIds |-> 0] /\ geometry = [id \in FrameIds |-> None]
  BY DEF SessionInit, Init
<1>3. live = {} /\ DOMAIN wire = {} /\ DOMAIN sent = {}
  BY <1>2 DEF live
<1>4. NoneLost /\ ModeFollowed /\ EventsLaid /\ HeldLaid
  BY <1>2, <1>3 DEF NoneLost, ModeFollowed, EventsLaid, HeldLaid
<1>5. AckedIssued /\ GeometryLaid
  BY <1>2, <1>3 DEF AckedIssued, GeometryLaid
<1>6. ModeDue /\ NoMode /\ CsdMade /\ Painted
  BY <1>2, <1>3 DEF ModeDue, NoMode, CsdMade, Painted
<1> QED
  BY <1>1, <1>4, <1>5, <1>6 DEF SettledInv, SettledParts

LEMMA SettledStep == SettledInv /\ [SessionNext]_session_vars => SettledInv'
<1> SUFFICES ASSUME SettledInv, [SessionNext]_session_vars PROVE SettledInv'
  OBVIOUS
<1>1. HandshakeInv' /\ FaithfulInv'
  BY HandshakeStep, FaithfulStep DEF SettledInv
<1>2. CASE \E id \in live : Send(id)
  BY <1>1, <1>2, SendSettled DEF SettledInv
<1>3. CASE Deliver
  BY <1>1, <1>3, DeliverSettled DEF SettledInv
<1>4. CASE Poll
  BY <1>1, <1>4, PollSettled DEF SettledInv
<1>5. CASE \E id \in live : CommitFrame(id) \/ ResizeFrame(id)
  BY <1>1, <1>5, CommitSettled DEF SettledInv
<1>6. CASE OtherCall
  BY <1>1, <1>6, OtherCallSettled DEF SettledInv
<1>7. CASE UNCHANGED session_vars
  <2>1. UNCHANGED <<wire, sent, acked, geometry, frames, csd, events, held>> /\ live' = live
    BY <1>7 DEF session_vars, compositor, vars, inner, live
  <2>2. /\ DOMAIN csd' \subseteq live' /\ DOMAIN held' \subseteq live' /\ live' \subseteq FrameIds
    <3>1. TypeOK /\ SessionInv
      BY DEF SettledInv, HandshakeInv, SessionInv, RegistryInv, TypeInv
    <3> QED
      BY <2>1, <3>1, LiveAre DEF TypeOK
  <2>3. \A i \in live' : StaysAs(i)
    BY <2>1 DEF StaysAs
  <2>4. SettledParts'
    BY <2>1, <2>2, <2>3, SettledStable
  <2> QED
    BY <1>1, <2>4 DEF SettledInv
<1> QED
  BY <1>2, <1>3, <1>4, <1>5, <1>6, <1>7 DEF SessionNext

(* Once everything is answered, the serial a frame acknowledged last is    *)
(* that of the last batch sent to it.                                      *)
LEMMA QuietAcked ==
    ASSUME SettledInv, Quiet, NEW id \in live, acked[id] > 0
    PROVE  /\ LastBatch(id) = acked[id] /\ ~Coming(id) /\ Queued(id) = {}
           /\ ModesOn(id) = {} /\ id \notin DOMAIN held
<1>1. NoneLost /\ AckedIssued /\ SentTypes /\ SessionInv
  BY DEF SettledInv, SettledParts, HandshakeInv, SessionInv, InOrder
<1>2. DOMAIN wire = {} /\ DOMAIN events = {} /\ DOMAIN held = {}
  BY DEF Quiet
<1>3. OnWire(id) = {} /\ Queued(id) = {} /\ ModesOn(id) = {} /\ ~Coming(id)
  BY <1>2 DEF OnWire, Queued, ModesOn, Coming, WireConfigures, EventConfigures
<1> DEFINE batches == {n \in DOMAIN sent : sent[n].frame = id}
<1>4. acked[id] \in batches
  <2>1. id \in FrameIds
    BY <1>1, LiveAre
  <2> QED
    BY <1>1, <2>1 DEF AckedIssued, Issued
<1>5. \A n \in batches : n <= acked[id]
  BY <1>1, <1>2, <1>3 DEF NoneLost
<1>6. \A n \in batches : n \in Nat
  BY <1>1 DEF SentTypes
<1>7. LastBatch(id) = acked[id]
  <2>1. LastBatch(id) = CHOOSE n \in batches : \A m \in batches : m <= n
    BY DEF LastBatch
  <2> DEFINE last == CHOOSE n \in batches : \A m \in batches : m <= n
  <2> HIDE DEF batches
  <2>2. last \in batches /\ \A m \in batches : m <= last
    BY <1>4, <1>5
  <2> HIDE DEF last
  <2>3. last = acked[id]
    BY <1>4, <1>5, <1>6, <2>2
  <2> QED
    BY <2>1, <2>3 DEF last
<1> QED
  BY <1>2, <1>3, <1>7

(***************************************************************************)
(* Once everything is answered, a window has the geometry its last         *)
(* configure asked for, or a larger one if that has no room for the        *)
(* decorations; whether they came before the configure, with it, or after  *)
(* its size was computed (XdgSurface::Configure, ensure_csd, Frame::commit).*)
(***************************************************************************)
THEOREM GeometrySettled == SessionSpec => []SettledGeometry
<1>1. SessionSpec => []SettledInv
  BY SettledInit, SettledStep, PTL DEF SessionSpec
<1>2. SettledInv => SettledGeometry
  <2> SUFFICES ASSUME SettledInv, NEW id \in live, Quiet, acked[id] > 0, "resize" \notin AppCalls,
                      Sized(LastBatch(id))
               PROVE  LET size == sent[LastBatch(id)].toplevel[1].size IN
                      /\ HasRoom(size) => geometry[id] = Some(size)
                      /\ geometry[id][1][1] >= size[1] /\ geometry[id][1][2] >= size[2]
    BY DEF SettledGeometry
  <2>1. LastBatch(id) = acked[id] /\ ~Coming(id)
    BY QuietAcked
  <2>2. Holds(geometry[id], Asked(acked[id]))
    BY <2>1 DEF SettledInv, SettledParts, GeometryLaid
  <2> QED
    BY <2>1, <2>2 DEF Holds, Asked
<1> QED
  BY <1>1, <1>2, PTL

(***************************************************************************)
(* Once everything is answered, a window the compositor leaves undecorated *)
(* has a titlebar of libdecor's, as wide as the content and showing        *)
(* whether the window is active; if no allocation fails and the content is *)
(* not empty (ensure_csd, Frame::commit, Decoration::render).              *)
(***************************************************************************)
THEOREM DecorationSettled == SessionSpec => []SettledDecoration
<1>1. SessionSpec => []SettledInv
  BY SettledInit, SettledStep, PTL DEF SessionSpec
<1>2. SettledInv => SettledDecoration
  <2> SUFFICES ASSUME SettledInv, NEW id \in live, Quiet, acked[id] > 0, Subcompositor, ~ShmMayFail,
                      ModeOf(id) = Some("ClientSide") \/ ~DecorationMgr
               PROVE  id \in DOMAIN csd /\ (HasContent(frames[id].content_size) => Shown(id))
    BY DEF SettledDecoration
  <2>1. ModesOn(id) = {} /\ ~Coming(id)
    BY QuietAcked
  <2>2. frames[id].decoration_mode = ModeOf(id)
    BY <2>1 DEF SettledInv, SettledParts, ModeDue
  <2>3. id \in DOMAIN csd
    BY <2>2 DEF SettledInv, SettledParts, CsdMade
  <2>4. HasContent(frames[id].content_size) => Shown(id)
    BY <2>1, <2>3 DEF SettledInv, SettledParts, Painted
  <2> QED
    BY <2>3, <2>4
<1> QED
  BY <1>1, <1>2, PTL
=============================================================================
