-------------------- MODULE QueueArbiterRefinementProofs --------------------
(***************************************************************************)
(* The arbiter and its clients implement the Messenger, for any clients,   *)
(* names, capacities and bounds: every step of QueueArbiter is a step of   *)
(* Messenger or changes nothing its users can see.                         *)
(***************************************************************************)
EXTENDS QueueArbiterRefinement, QueueArbiterProofs

-----------------------------------------------------------------------------
\* The texts of one type in a queue.

LEMMA OfTypeIsSeq ==
    ASSUME NEW q \in Seq(Message), NEW b
    PROVE  OfType(q, b) \in Seq(Message)
<1>1. {i \in DOMAIN q : q[i].type = b} \in SUBSET (1..Len(q))
  OBVIOUS
<1>2. QED
  BY <1>1, PickedType, Zenon DEF OfType

LEMMA OfTypeSent ==
    ASSUME NEW q \in Seq(Message), NEW m \in Message, NEW b
    PROVE  OfType(Append(q, m), b) =
              IF m.type = b THEN Append(OfType(q, b), m) ELSE OfType(q, b)
<1> DEFINE P == {i \in DOMAIN q : q[i].type = b}
<1>1. P \in SUBSET (1..Len(q))
  OBVIOUS
<1>2. /\ Picked(Append(q, m), P) = Picked(q, P)
      /\ Picked(Append(q, m), P \union {Len(q) + 1}) = Append(Picked(q, P), m)
  <2> HIDE DEF P
  <2> QED  BY <1>1, PickedSent, ZenonT(40)
<1>3. {i \in DOMAIN Append(q, m) : Append(q, m)[i].type = b} =
          IF m.type = b THEN P \union {Len(q) + 1} ELSE P
  <2>1. DOMAIN Append(q, m) = DOMAIN q \union {Len(q) + 1}
    OBVIOUS
  <2>2. /\ \A i \in DOMAIN q : Append(q, m)[i] = q[i] /\ i # Len(q) + 1
        /\ Append(q, m)[Len(q) + 1] = m
    OBVIOUS
  <2>3. QED
    BY <2>1, <2>2
<1>4. QED
  BY <1>2, <1>3 DEF OfType

LEMMA OfTypeReceived ==
    ASSUME NEW q \in Seq(Message), NEW t, t # 0, HasMessage(q, t), NEW b
    PROVE  /\ Remaining(q, t) \in Seq(Message)
           /\ t # b => OfType(Remaining(q, t), b) = OfType(q, b)
           /\ t = b => /\ OfType(q, b) # <<>> /\ Received(q, t) = Head(OfType(q, b))
                       /\ OfType(Remaining(q, t), b) = Tail(OfType(q, b))
<1> DEFINE P == {i \in DOMAIN q : q[i].type = b}
           k == FirstMatch(q, t)
<1>1. PICK rest : rest = Remaining(q, t)
  OBVIOUS
<1> DEFINE R == {i \in DOMAIN rest : rest[i].type = b}
<1>2. /\ k \in 1..Len(q) /\ Received(q, t) = q[k] /\ q[k].type = t
      /\ \A i \in 1..k - 1 : q[i].type # t
      /\ rest \in Seq(Message) /\ Len(rest) = Len(q) - 1
      /\ \A i \in 1..Len(rest) : rest[i] = IF i < k THEN q[i] ELSE q[i + 1]
  <2>1. /\ k \in 1..Len(q) /\ Received(q, t) = q[k] /\ Matches(Received(q, t), t)
        /\ \A i \in 1..k - 1 : ~Matches(q[i], t)
        /\ Remaining(q, t) \in Seq(Message) /\ Len(Remaining(q, t)) = Len(q) - 1
        /\ \A i \in 1..Len(Remaining(q, t)) :
              Remaining(q, t)[i] = IF i < k THEN q[i] ELSE q[i + 1]
    BY RemainingPositions, ZenonT(40)
  <2> HIDE DEF k
  <2>2. QED
    BY <1>1, <2>1 DEF Matches
<1> HIDE DEF k
<1>3. P \in SUBSET (1..Len(q)) /\ R \in SUBSET (1..Len(rest))
  BY <1>2
<1>4. ASSUME NEW i \in 1..Len(rest)
      PROVE  i \in R <=> (IF i < k THEN i ELSE i + 1) \in P
  <2>1. (IF i < k THEN i ELSE i + 1) \in 1..Len(q)
    BY <1>2
  <2>2. rest[i] = q[IF i < k THEN i ELSE i + 1]
    BY <1>2
  <2>3. QED
    BY <1>2, <2>1, <2>2
<1>5. k \in P <=> t = b
  BY <1>2
<1>6. t = b => \A i \in P : k <= i
  BY <1>2
<1> HIDE DEF P, R
<1>6a. Closes(rest, q, k) /\ Moves(R, P, k, Len(rest))
  BY <1>2, <1>3, <1>4 DEF Closes, Moves
<1>7. /\ k \notin P => Picked(rest, R) = Picked(q, P)
      /\ k \in P /\ (\A i \in P : k <= i) =>
           /\ Picked(q, P) # <<>> /\ Head(Picked(q, P)) = q[k]
           /\ Picked(rest, R) = Tail(Picked(q, P))
  BY <1>2, <1>3, <1>6a, PickedReceived
<1>8. OfType(q, b) = Picked(q, P) /\ OfType(rest, b) = Picked(rest, R)
  BY Zenon DEF OfType, P, R
<1>9. QED
  BY <1>1, <1>2, <1>5, <1>6, <1>7, <1>8

\* What TextsIn does to a queue's messages it does one by one.
LEMMA TextsInAppend ==
    ASSUME NEW q \in Seq(Message), NEW m \in Message
    PROVE  TextsIn(Append(q, m)) = Append(TextsIn(q), m.mes)
<1> DEFINE S == {x.mes : x \in Message}
           u == TextsIn(Append(q, m))
           v == Append(TextsIn(q), m.mes)
<1>1. Append(q, m) \in Seq(Message) /\ Len(Append(q, m)) = Len(q) + 1 /\ Len(q) \in Nat
      /\ Append(q, m)[Len(q) + 1] = m /\ \A i \in 1..Len(q) : Append(q, m)[i] = q[i]
  OBVIOUS
<1>2. \A s \in Seq(Message) : /\ TextsIn(s) \in Seq(S) /\ Len(TextsIn(s)) = Len(s)
                              /\ \A i \in 1..Len(s) : TextsIn(s)[i] = s[i].mes
  <2>1. ASSUME NEW s \in Seq(Message)
        PROVE  /\ TextsIn(s) \in Seq(S) /\ Len(TextsIn(s)) = Len(s)
               /\ \A i \in 1..Len(s) : TextsIn(s)[i] = s[i].mes
    <3>1. \A i \in 1..Len(s) : s[i].mes \in S
      OBVIOUS
    <3> HIDE DEF S
    <3>2. QED
      BY <3>1 DEF TextsIn
  <2>2. QED
    BY <2>1
<1>3. m.mes \in S
  OBVIOUS
<1> HIDE DEF S
<1>4. u \in Seq(S) /\ Len(u) = Len(q) + 1 /\ u[Len(q) + 1] = m.mes
      /\ \A i \in 1..Len(q) : u[i] = q[i].mes
  <2>1. u \in Seq(S) /\ Len(u) = Len(q) + 1
        /\ \A i \in 1..Len(q) + 1 : u[i] = Append(q, m)[i].mes
    BY <1>1, <1>2
  <2> HIDE DEF u
  <2>2. QED
    BY <1>1, <2>1
<1>5. v \in Seq(S) /\ Len(v) = Len(q) + 1 /\ v[Len(q) + 1] = m.mes
      /\ \A i \in 1..Len(q) : v[i] = q[i].mes
  BY <1>1, <1>2, <1>3
<1> HIDE DEF u, v
<1>6. \A i \in 1..Len(u) : u[i] = v[i]
  BY <1>1, <1>4, <1>5
<1>7. u = v
  BY <1>4, <1>5, <1>6, SeqEqual, Zenon
<1>8. QED
  BY <1>7 DEF u, v

LEMMA TextsInTail ==
    ASSUME NEW q \in Seq(Message), q # <<>>
    PROVE  /\ TextsIn(q) # <<>> /\ Head(TextsIn(q)) = Head(q).mes
           /\ TextsIn(Tail(q)) = Tail(TextsIn(q))
<1> DEFINE S == {x.mes : x \in Message}
           u == TextsIn(Tail(q))
           v == Tail(TextsIn(q))
<1>1. Tail(q) \in Seq(Message) /\ Len(Tail(q)) = Len(q) - 1 /\ Len(q) \in Nat \ {0}
      /\ \A i \in 1..Len(q) - 1 : Tail(q)[i] = q[i + 1]
  OBVIOUS
<1>2. ASSUME NEW s \in Seq(Message)
      PROVE  /\ TextsIn(s) \in Seq(S) /\ Len(TextsIn(s)) = Len(s)
             /\ \A i \in 1..Len(s) : TextsIn(s)[i] = s[i].mes
  <2>1. \A i \in 1..Len(s) : s[i].mes \in S
    OBVIOUS
  <2> HIDE DEF S
  <2>2. QED
    BY <2>1 DEF TextsIn
<1> HIDE DEF S
<1>3. u \in Seq(S) /\ Len(u) = Len(q) - 1 /\ \A i \in 1..Len(q) - 1 : u[i] = q[i + 1].mes
  BY <1>1, <1>2
<1>4. v \in Seq(S) /\ Len(v) = Len(q) - 1 /\ \A i \in 1..Len(q) - 1 : v[i] = q[i + 1].mes
  BY <1>1, <1>2
<1> HIDE DEF u, v
<1>5. u = v
  BY <1>3, <1>4, SeqEqual
<1>6. TextsIn(q) # <<>> /\ Head(TextsIn(q)) = Head(q).mes
  BY <1>1, <1>2
<1>7. QED
  BY <1>5, <1>6 DEF u, v

-----------------------------------------------------------------------------
\* The table's slots are filled in their order, and so are its identifiers.

FilledUpTo(t, k) ==
    /\ t.free_id = 2 + 2 * k
    /\ \A i \in Slots :
          IF i < k
          THEN t.client_info[i].id_for_arbiter = 2 + 2 * i
               /\ t.client_info[i].id_for_rmessages = 3 + 2 * i
          ELSE t.client_info[i] = FreeSlot

FilledInOrder == \E k \in 0..MAX_N_CLIENTS : FilledUpTo(client_table, k)

\* Who has not copied its identifiers has none.
NobodysMailbox ==
    \A c \in Clients : client[c].id_for_arbiter = 0 => client[c].id_for_rmessages = 0

MapInv == TypeOK /\ RegistrationInv /\ MessageInv /\ FilledInOrder /\ NobodysMailbox

\* A lookup finds the first of the slots filled that has the name.
LEMMA LookupFirst ==
    ASSUME NEW t, NEW k \in 0..MAX_N_CLIENTS, FilledUpTo(t, k), NEW name
    PROVE  \/ \E i \in 0..k - 1 :
                /\ t.client_info[i].client_name = name
                /\ \A j \in 0..i - 1 : t.client_info[j].client_name # name
                /\ GetIdForRMessagesFromName(t, name) = 3 + 2 * i
           \/ /\ \A i \in 0..k - 1 : t.client_info[i].client_name # name
              /\ GetIdForRMessagesFromName(t, name) \in {0, NotFound}
<1> DEFINE S == SlotsNamed(t, name)
<1>1. S \in SUBSET Nat /\ \A i : i \in S <=> i \in Slots /\ t.client_info[i].client_name = name
  BY TableAssumption DEF SlotsNamed, Slots
<1>2. k \in Nat /\ \A i \in 0..k - 1 : i \in Slots /\ i < k
  BY TableAssumption DEF Slots
<1> HIDE DEF S
<1>3. CASE S = {}
  BY <1>1, <1>2, <1>3 DEF GetIdForRMessagesFromName, S
<1>4. CASE S # {}
  <2> DEFINE i == Min(S)
  <2>1. i \in S /\ \A j \in S : i <= j
    BY <1>1, <1>4, MinProperties
  <2> HIDE DEF i
  <2>2. /\ i \in Slots /\ i \in Nat /\ t.client_info[i].client_name = name
        /\ GetIdForRMessagesFromName(t, name) = t.client_info[i].id_for_rmessages
    BY <1>1, <1>4, <2>1 DEF GetIdForRMessagesFromName, S, i
  <2>3. CASE i < k
    <3>1. \A j \in 0..i - 1 : t.client_info[j].client_name # name
      BY <1>1, <1>2, <2>1, <2>2, <2>3
    <3>2. GetIdForRMessagesFromName(t, name) = 3 + 2 * i
      BY <2>2, <2>3 DEF FilledUpTo
    <3>3. i \in 0..k - 1
      BY <1>2, <2>2, <2>3
    <3>4. QED
      BY <2>2, <3>1, <3>2, <3>3
  <2>4. CASE ~(i < k)
    <3>1. t.client_info[i] = FreeSlot
      BY <2>2, <2>4 DEF FilledUpTo
    <3>2. \A j \in 0..k - 1 : t.client_info[j].client_name # name
      BY <1>1, <1>2, <2>1, <2>2, <2>4
    <3>3. QED
      BY <2>2, <3>1, <3>2 DEF FreeSlot
  <2>5. QED
    BY <2>3, <2>4
<1>5. QED
  BY <1>3, <1>4

\* A name that somebody bears keeps its meaning when a slot is filled; the name
\* of the new slot gets one if it had none.
LEMMA LookupAfterAdd ==
    ASSUME NEW t, NEW u, NEW k \in Slots, FilledUpTo(t, k), FilledUpTo(u, k + 1),
           \A i \in Slots \ {k} : u.client_info[i] = t.client_info[i],
           NEW name
    PROVE  LET x == GetIdForRMessagesFromName(t, name)
               y == GetIdForRMessagesFromName(u, name)
           IN  /\ x > 0 => y = x
               /\ ~(x > 0) /\ u.client_info[k].client_name = name => y = 3 + 2 * k
               /\ ~(x > 0) /\ u.client_info[k].client_name # name => ~(y > 0)
<1> DEFINE x == GetIdForRMessagesFromName(t, name)
           y == GetIdForRMessagesFromName(u, name)
<1>1. k \in 0..MAX_N_CLIENTS /\ k + 1 \in 0..MAX_N_CLIENTS /\ k \in Nat
  BY TableAssumption DEF Slots
<1>2. \A i \in 0..k - 1 : i \in Slots \ {k} /\ u.client_info[i] = t.client_info[i]
  BY TableAssumption DEF Slots
<1>3. \/ \E i \in 0..k - 1 :
            /\ t.client_info[i].client_name = name
            /\ \A j \in 0..i - 1 : t.client_info[j].client_name # name
            /\ x = 3 + 2 * i
      \/ /\ \A i \in 0..k - 1 : t.client_info[i].client_name # name
         /\ x \in {0, NotFound}
  BY <1>1, LookupFirst
<1>4. \/ \E i \in 0..(k + 1) - 1 :
            /\ u.client_info[i].client_name = name
            /\ \A j \in 0..i - 1 : u.client_info[j].client_name # name
            /\ y = 3 + 2 * i
      \/ /\ \A i \in 0..(k + 1) - 1 : u.client_info[i].client_name # name
         /\ y \in {0, NotFound}
  BY <1>1, LookupFirst
<1> HIDE DEF x, y
<1>5. (k + 1) - 1 = k
  BY <1>1
<1>6. CASE \E i \in 0..k - 1 : t.client_info[i].client_name = name
  <2>1. PICK i \in 0..k - 1 : /\ t.client_info[i].client_name = name
                              /\ \A j \in 0..i - 1 : t.client_info[j].client_name # name
                              /\ x = 3 + 2 * i
    BY <1>3, <1>6
  <2>2. i \in 0..k /\ u.client_info[i].client_name = name
    BY <1>1, <1>2, <2>1
  <2>3. PICK l \in 0..k : /\ u.client_info[l].client_name = name
                          /\ \A j \in 0..l - 1 : u.client_info[j].client_name # name
                          /\ y = 3 + 2 * l
    BY <1>4, <1>5, <2>2
  <2>4. ~(i < l)
    BY <2>2, <2>3
  <2>5. ~(l < i)
    <3>1. SUFFICES ASSUME l < i PROVE FALSE
      OBVIOUS
    <3>2. l \in 0..i - 1 /\ l \in 0..k - 1
      BY <1>1, <3>1
    <3>3. QED
      BY <1>2, <2>1, <2>3, <3>2
  <2>6. y = x /\ x > 0
    BY <2>1, <2>3, <2>4, <2>5
  <2>7. QED
    BY <2>6 DEF x, y
<1>7. CASE \A i \in 0..k - 1 : t.client_info[i].client_name # name
  <2>1. ~(x > 0)
    BY <1>3, <1>7 DEF NotFound
  <2>2. \A i \in 0..k - 1 : u.client_info[i].client_name # name
    BY <1>2, <1>7
  <2>3. CASE u.client_info[k].client_name = name
    <3>1. y = 3 + 2 * k
      BY <1>1, <1>4, <1>5, <2>2, <2>3
    <3>2. QED
      BY <2>1, <2>3, <3>1 DEF x, y
  <2>4. CASE u.client_info[k].client_name # name
    <3>1. \A i \in 0..k : u.client_info[i].client_name # name
      BY <1>1, <2>2, <2>4
    <3>2. ~(y > 0)
      BY <1>4, <1>5, <3>1 DEF NotFound
    <3>3. QED
      BY <2>1, <2>4, <3>2 DEF x, y
  <2>5. QED
    BY <2>3, <2>4
<1>8. QED
  BY <1>6, <1>7

\* The mailboxes of a table are those of the slots filled.
LEMMA BoxesOf ==
    ASSUME NEW t, NEW k \in 0..MAX_N_CLIENTS, FilledUpTo(t, k)
    PROVE  /\ \A i \in Slots : t.client_info[i].id_for_arbiter # 0 <=> i < k
           /\ {t.client_info[i].id_for_rmessages : i \in Slots \ AvailableSlots(t)}
                 = {3 + 2 * i : i \in 0..k - 1}
<1>1. \A i \in 0..k - 1 : i \in Slots /\ i < k
  BY TableAssumption DEF Slots
<1>2. \A i \in Slots : i \in Nat /\ (i < k => i \in 0..k - 1)
  BY TableAssumption DEF Slots
<1>3. ASSUME NEW i \in Slots
      PROVE  t.client_info[i].id_for_arbiter # 0 <=> i < k
  BY <1>2 DEF FilledUpTo, FreeSlot
<1>4. Slots \ AvailableSlots(t) = 0..k - 1
  BY <1>1, <1>2, <1>3 DEF AvailableSlots
<1>5. \A i \in 0..k - 1 : t.client_info[i].id_for_rmessages = 3 + 2 * i
  BY <1>1 DEF FilledUpTo
<1>6. QED
  BY <1>3, <1>4, <1>5

\* The mailboxes in use are those of the slots filled.
LEMMA BoxesFilled ==
    ASSUME NEW k \in 0..MAX_N_CLIENTS, FilledUpTo(client_table, k)
    PROVE  /\ \A i \in Slots : Used(i) <=> i < k
           /\ BoxesInUse = {3 + 2 * i : i \in 0..k - 1}
<1>1. BoxesInUse = {client_table.client_info[i].id_for_rmessages :
                       i \in Slots \ AvailableSlots(client_table)}
  BY Zenon DEF BoxesInUse, UsedSlots
<1>2. QED
  BY <1>1, BoxesOf DEF Used, Info

\* Adding a client fills the next slot.
LEMMA AddedNext ==
    ASSUME TypeOK, AddClient, NEW k \in 0..MAX_N_CLIENTS, FilledUpTo(client_table, k)
    PROVE  /\ k \in Slots
           /\ client_table'.client_info[k].client_name = mes.client_name
           /\ \A i \in Slots \ {k} : client_table'.client_info[i] = client_table.client_info[i]
           /\ FilledUpTo(client_table', k + 1)
           /\ new_id'.rmessages = 3 + 2 * k
<1> DEFINE S == AvailableSlots(client_table)
<1>1. S = {i \in Slots : ~(i < k)} /\ S # {}
  BY BoxesFilled DEF AddClient, IsFull, AvailableSlots, Used, Info
<1>2. S \in SUBSET Nat
  BY TableAssumption DEF AvailableSlots, Slots
<1>3. Min(S) \in S /\ \A j \in S : Min(S) <= j
  BY <1>1, <1>2, MinProperties
<1>4. k \in S
  <2>1. Min(S) \in Slots /\ ~(Min(S) < k)
    BY <1>1, <1>3
  <2>2. QED
    <3> DEFINE i == Min(S)
    <3> HIDE DEF i, S
    <3>1. i \in 0..MAX_N_CLIENTS - 1 /\ ~(i < k)
      BY <2>1 DEF i, Slots
    <3>2. k \in 0..MAX_N_CLIENTS - 1 /\ ~(k < k)
      BY <3>1, TableAssumption
    <3>3. QED
      BY <1>1, <3>2 DEF Slots
<1>5. Min(S) = k /\ k \in Slots
  BY <1>1, <1>2, <1>3, <1>4
<1>6. client_table.client_info \in [Slots -> [client_name : Names, id_for_arbiter : Ids,
                                   id_for_rmessages : Ids, is_awaken : BOOLEAN]]
      /\ client_table.free_id = 2 + 2 * k
  BY DEF TypeOK, Table, FilledUpTo
<1>7. client_table' =
          [free_id |-> client_table.free_id + 2,
           client_info |-> [client_table.client_info EXCEPT ![k] =
              [client_name |-> mes.client_name, id_for_arbiter |-> client_table.free_id,
               id_for_rmessages |-> client_table.free_id + 1, is_awaken |-> TRUE]]]
      /\ new_id'.rmessages = client_table.free_id + 1
  BY <1>5 DEF AddClient, AddToTable, NewIdForArbiter, NewIdForRMessages
<1>8. /\ client_table'.free_id = 2 + 2 * (k + 1)
      /\ client_table'.client_info[k] =
            [client_name |-> mes.client_name, id_for_arbiter |-> 2 + 2 * k,
             id_for_rmessages |-> 3 + 2 * k, is_awaken |-> TRUE]
      /\ \A i \in Slots \ {k} : client_table'.client_info[i] = client_table.client_info[i]
      /\ new_id'.rmessages = 3 + 2 * k
  <2> DEFINE old == client_table.client_info
             slot == [client_name |-> mes.client_name, id_for_arbiter |-> 2 + 2 * k,
                      id_for_rmessages |-> 3 + 2 * k, is_awaken |-> TRUE]
  <2>1. (2 + 2 * k) + 2 = 2 + 2 * (k + 1) /\ (2 + 2 * k) + 1 = 3 + 2 * k
    OBVIOUS
  <2>2. client_table' = [free_id |-> 2 + 2 * (k + 1), client_info |-> [old EXCEPT ![k] = slot]]
        /\ new_id'.rmessages = 3 + 2 * k
    BY <1>6, <1>7, <2>1
  <2>3. DOMAIN old = Slots
    BY <1>6
  <2> HIDE DEF old, slot
  <2>4. /\ client_table'.free_id = 2 + 2 * (k + 1)
        /\ client_table'.client_info[k] = slot
        /\ \A i \in Slots \ {k} : client_table'.client_info[i] = old[i]
    BY <1>5, <2>2, <2>3
  <2>5. QED
    BY <2>2, <2>4 DEF old, slot
<1>9. ASSUME NEW i \in Slots
      PROVE  IF i < k + 1
             THEN client_table'.client_info[i].id_for_arbiter = 2 + 2 * i
                  /\ client_table'.client_info[i].id_for_rmessages = 3 + 2 * i
             ELSE client_table'.client_info[i] = FreeSlot
  <2>1. CASE i = k
    BY <1>8, <2>1
  <2>2. CASE i # k
    <3>1. i < k + 1 <=> i < k
      BY <2>2 DEF Slots
    <3>2. QED
      BY <1>8, <2>2, <3>1 DEF FilledUpTo
  <2>3. QED
    BY <2>1, <2>2
<1>10. FilledUpTo(client_table', k + 1)
  BY <1>8, <1>9 DEF FilledUpTo
<1>11. QED
  BY <1>5, <1>8, <1>10

-----------------------------------------------------------------------------
\* The steps that a user could see something of.

visibleVars == <<queue, client_table, client, senderVars, stdout>>

VisibleStep ==
    \/ AddClient \/ SendDestId \/ ListenOnMessages \/ FinishInit
    \/ \E c \in Clients :
          \/ SendRegister(c) \/ CheckResponse(c) \/ AckResponse(c)
          \/ ReadLine(c) \/ EndOfInput(c)
          \/ RequestDestId(c) \/ ReceiveDestId(c) \/ SendToReceiver(c)
          \/ ReaderThreadTask(c) \/ KillClient(c)

LEMMA Visible ==
    ASSUME [Next]_vars
    PROVE  VisibleStep \/ UNCHANGED visibleVars
<1> USE DEF visibleVars, sharedVars, existVars, lockVars, tableVars, arbiterVars, peerVars,
            senderVars, clientVars, dataVars
<1>1. CASE ArbiterStep
  BY <1>1 DEF ArbiterStep, VisibleStep, GetQueue, GetShmem, InitLocks, InitResponseIds,
              AbortOnFullTable, LockToRespond, FillPid, FillIds, UnlockFilled, Broadcast,
              SpinOnClientResp, LockToClear, ClearResponse, UnlockCleared
<1>2. ASSUME NEW c \in Clients, RegisterStep(c)
      PROVE  VisibleStep \/ UNCHANGED visibleVars
  BY <1>2 DEF RegisterStep, VisibleStep, LockToWait, CondWait, LockAwaken, WaitAgain,
              UnlockRegistered
<1>3. ASSUME NEW c \in Clients, SenderStep(c) \/ ReaderThreadTask(c)
      PROVE  VisibleStep
  BY <1>3 DEF SenderStep, VisibleStep
<1>4. CASE EnvironmentStep
  BY <1>4 DEF EnvironmentStep, VisibleStep, KillArbiter, AttachClient, SpuriousWake
<1>5. CASE UNCHANGED vars
  BY <1>5 DEF vars
<1>6. QED
  BY <1>1, <1>2, <1>3, <1>4, <1>5 DEF Next

LEMMA FilledInit == Init => FilledInOrder /\ NobodysMailbox
<1> SUFFICES ASSUME Init PROVE FilledInOrder /\ NobodysMailbox
  OBVIOUS
<1>1. FilledUpTo(client_table, 0) /\ 0 \in 0..MAX_N_CLIENTS
  BY TableAssumption DEF Init, InitTable, FilledUpTo, Slots, kArbiterId
<1>2. QED
  BY <1>1 DEF Init, FilledInOrder, NobodysMailbox

\* The response a client copies holds a pair given away.
LEMMA CopiedPair ==
    ASSUME TypeOK, RegistrationInv, NEW c \in Clients, CheckResponse(c)
    PROVE  /\ a_pc # "fill_ids" /\ response.resp_pid = c /\ c # Nobody
           /\ Issued(response.resp_id_for_arbiter, response.resp_id_for_rmessages)
<1>1. response.resp_pid = c /\ pc[c] = "check" /\ c # Nobody /\ c # Arbiter
  BY ArbiterAssumption DEF CheckResponse, ClientGoto
<1>2. resp_mutex = c
  BY <1>1 DEF RegistrationInv, ResponseIsGuarded
<1>3. a_pc # "fill_ids"
  BY <1>1, <1>2 DEF RegistrationInv, ResponseIsGuarded
<1>4. QED
  BY <1>1, <1>3 DEF RegistrationInv, ResponseFresh

LEMMA FilledInductive ==
    ASSUME MapInv, [Next]_vars
    PROVE  FilledInOrder' /\ NobodysMailbox'
<1> USE DEF visibleVars, sharedVars, existVars, lockVars, tableVars, arbiterVars, peerVars,
            senderVars, clientVars, dataVars
<1>1. \/ AddClient \/ FinishInit \/ \E c \in Clients : CheckResponse(c)
      \/ UNCHANGED <<client_table, client>>
  BY Visible DEF VisibleStep, SendDestId, ListenOnMessages, SendRegister, AckResponse, ReadLine,
                 EndOfInput, RequestDestId, ReceiveDestId, SendToReceiver, ReaderThreadTask,
                 KillClient
<1>2. CASE AddClient
  <2>1. PICK k \in 0..MAX_N_CLIENTS : FilledUpTo(client_table, k)
    BY DEF MapInv, FilledInOrder
  <2>2. k \in Slots /\ FilledUpTo(client_table', k + 1)
    BY <1>2, <2>1, AddedNext DEF MapInv
  <2>3. k + 1 \in 0..MAX_N_CLIENTS
    BY <2>2, TableAssumption DEF Slots
  <2>4. QED
    BY <1>2, <2>2, <2>3 DEF MapInv, FilledInOrder, NobodysMailbox, AddClient
<1>3. CASE FinishInit
  <2>1. FilledUpTo(client_table', 0) /\ 0 \in 0..MAX_N_CLIENTS /\ client' = client
    BY <1>3, TableAssumption DEF FinishInit, InitTable, FilledUpTo, Slots, kArbiterId
  <2>2. QED
    BY <2>1 DEF MapInv, FilledInOrder, NobodysMailbox
<1>4. ASSUME NEW c \in Clients, CheckResponse(c)
      PROVE  FilledInOrder' /\ NobodysMailbox'
  <2>1. 1 < response.resp_id_for_arbiter
    BY <1>4, CopiedPair DEF MapInv, Issued
  <2>2. \A d \in Clients : d # c => client'[d] = client[d]
    BY <1>4 DEF CheckResponse, MapInv, TypeOK
  <2>3. client'[c].id_for_arbiter = response.resp_id_for_arbiter /\ client_table' = client_table
    BY <1>4 DEF CheckResponse, MapInv, TypeOK
  <2>4. NobodysMailbox'
    BY <2>1, <2>2, <2>3 DEF MapInv, NobodysMailbox
  <2>5. QED
    BY <2>3, <2>4 DEF MapInv, FilledInOrder
<1>5. CASE UNCHANGED <<client_table, client>>
  BY <1>5 DEF MapInv, FilledInOrder, NobodysMailbox
<1>6. QED
  BY <1>1, <1>2, <1>3, <1>4, <1>5

LEMMA MapInvariant ==
    ASSUME ~EagerStart, MaxRestarts = 0
    PROVE  Spec => []MapInv
<1>1. Init => MapInv
  BY InitType, RegistrationInit, MessageInit, FilledInit DEF MapInv
<1>2. MapInv /\ [Next]_vars => MapInv'
  <2> SUFFICES ASSUME MapInv, [Next]_vars PROVE MapInv'
    OBVIOUS
  <2>1. TypeOK' /\ RegistrationInv' /\ MessageInv'
    BY RegistrationInductive, TypeStep, MessageInductive DEF MapInv
  <2>2. QED
    BY <2>1, FilledInductive DEF MapInv
<1>3. QED
  BY <1>1, <1>2, PTL DEF Spec

-----------------------------------------------------------------------------
\* What sending and receiving do to the mailboxes and to the lines.

\* A mailbox bears the odd identifier of a slot in use; no client receives
\* answers under one.
LEMMA BoxesAreOdd ==
    ASSUME MapInv
    PROVE  /\ \A b \in BoxesInUse : /\ b \in 2..2 * MAX_N_CLIENTS + 1 /\ b # 1 /\ b # 0
                                    /\ \A c \in Clients : client[c].id_for_arbiter # b
           /\ \A i \in Slots : Used(i) => Info(i).id_for_rmessages \in BoxesInUse
<1>1. PICK k \in 0..MAX_N_CLIENTS : FilledUpTo(client_table, k)
  BY DEF MapInv, FilledInOrder
<1>2. /\ \A i \in Slots : Used(i) <=> i < k
      /\ BoxesInUse = {3 + 2 * i : i \in 0..k - 1}
  BY <1>1, BoxesFilled
<1>3. ASSUME NEW b \in BoxesInUse
      PROVE  /\ b \in 2..2 * MAX_N_CLIENTS + 1 /\ b # 1 /\ b # 0
             /\ \A c \in Clients : client[c].id_for_arbiter # b
  <2>1. PICK i \in 0..k - 1 : b = 3 + 2 * i
    BY <1>2
  <2>2. b \in 2..2 * MAX_N_CLIENTS + 1 /\ b # 1 /\ b # 0
    BY <2>1, TableAssumption
  <2>3. ASSUME NEW c \in Clients, client[c].id_for_arbiter = b PROVE FALSE
    <3>1. PICK j \in Slots : Used(j) /\ Info(j).id_for_arbiter = b
      BY <2>2, <2>3 DEF MapInv, MessageInv, OwnersInTable, Owner, HasSlot
    <3>2. Info(j).id_for_arbiter = 2 + 2 * j /\ j \in Nat
      BY <1>1, <1>2, <3>1, TableAssumption DEF FilledUpTo, Info, Slots
    <3>3. QED
      BY <2>1, <3>1, <3>2
  <2>4. QED
    BY <2>2, <2>3
<1>4. ASSUME NEW i \in Slots, Used(i)
      PROVE  Info(i).id_for_rmessages \in BoxesInUse
  <2>1. i < k /\ i \in 0..k - 1
    BY <1>2, <1>4, TableAssumption DEF Slots
  <2>2. Info(i).id_for_rmessages = 3 + 2 * i
    BY <1>1, <2>1 DEF FilledUpTo, Info
  <2>3. QED
    BY <1>2, <2>1, <2>2
<1>5. QED
  BY <1>3, <1>4

LEMMA MapsSame ==
    ASSUME UNCHANGED client_table
    PROVE  /\ DirectoryMap' = DirectoryMap /\ BoxesInUse' = BoxesInUse
           /\ UNCHANGED queue => MailboxMap' = MailboxMap
  BY DEF DirectoryMap, DirectoryNames, MailboxMap, BoxesInUse, UsedSlots

LEMMA MailboxSent ==
    ASSUME TypeOK, UNCHANGED client_table, NEW m \in Message, queue' = Append(queue, m)
    PROVE  MailboxMap' = IF m.type \in BoxesInUse
                         THEN [MailboxMap EXCEPT ![m.type] = Append(@, m.mes)]
                         ELSE MailboxMap
<1>1. queue \in Seq(Message)
  BY DEF TypeOK, Message
<1>2. MailboxMap' = [b \in BoxesInUse |-> TextsIn(OfType(queue', b))]
  BY MapsSame DEF MailboxMap
<1>3. ASSUME NEW b \in BoxesInUse
      PROVE  TextsIn(OfType(queue', b)) =
                IF m.type = b THEN Append(TextsIn(OfType(queue, b)), m.mes)
                              ELSE TextsIn(OfType(queue, b))
  <2>1. OfType(queue, b) \in Seq(Message)
    BY <1>1, OfTypeIsSeq
  <2>2. OfType(queue', b) = IF m.type = b THEN Append(OfType(queue, b), m) ELSE OfType(queue, b)
    BY <1>1, OfTypeSent
  <2>3. QED
    BY <2>1, <2>2, TextsInAppend
<1>4. QED
  BY <1>2, <1>3 DEF MailboxMap

LEMMA MailboxReceived ==
    ASSUME TypeOK, UNCHANGED client_table, NEW t, t # 0, Receive(t)
    PROVE  /\ t \notin BoxesInUse => MailboxMap' = MailboxMap
           /\ t \in BoxesInUse =>
                /\ MailboxMap[t] # <<>> /\ Head(MailboxMap[t]) = Received(queue, t).mes
                /\ MailboxMap' = [MailboxMap EXCEPT ![t] = Tail(@)]
<1>1. queue \in Seq(Message) /\ HasMessage(queue, t) /\ queue' = Remaining(queue, t)
  BY DEF TypeOK, Message, Receive
<1>2. MailboxMap' = [b \in BoxesInUse |-> TextsIn(OfType(queue', b))]
  BY MapsSame DEF MailboxMap
<1>3. ASSUME NEW b \in BoxesInUse
      PROVE  /\ t # b => TextsIn(OfType(queue', b)) = TextsIn(OfType(queue, b))
             /\ t = b => /\ TextsIn(OfType(queue, b)) # <<>>
                         /\ Head(TextsIn(OfType(queue, b))) = Received(queue, t).mes
                         /\ TextsIn(OfType(queue', b)) = Tail(TextsIn(OfType(queue, b)))
  <2>1. OfType(queue, b) \in Seq(Message)
    BY <1>1, OfTypeIsSeq
  <2>2. /\ t # b => OfType(queue', b) = OfType(queue, b)
        /\ t = b => /\ OfType(queue, b) # <<>> /\ Received(queue, t) = Head(OfType(queue, b))
                    /\ OfType(queue', b) = Tail(OfType(queue, b))
    BY <1>1, OfTypeReceived
  <2>3. QED
    BY <2>1, <2>2, TextsInTail
<1>4. QED
  BY <1>2, <1>3 DEF MailboxMap

\* A line is what it was when its sender and the answer to it are.
LEMMA LineFrame ==
    ASSUME NEW d \in Clients,
           sender_pc'[d] = sender_pc[d], dest_name'[d] = dest_name[d], dest_id'[d] = dest_id[d],
           sender_pc[d] = "await" =>
              /\ RepliesTo(d) = {} <=> RepliesTo(d)' = {}
              /\ RepliesTo(d) # {} =>
                    (queue[CHOOSE i \in RepliesTo(d) : TRUE].dest_id)'
                        = queue[CHOOSE i \in RepliesTo(d) : TRUE].dest_id
    PROVE  LineMap'[d] = LineMap[d]
  BY DEF LineMap

\* There is at most one answer to the line of a sender that waits.
LEMMA OnlyReply ==
    ASSUME MapInv, NEW d \in Clients, sender_pc[d] = "await", NEW i \in RepliesTo(d)
    PROVE  RepliesTo(d) = {i}
<1>1. QuestionOf(d)
  BY DEF MapInv, MessageInv, SendersRun, Questions
<1>2. \A j \in RepliesTo(d) : j \in 1..Len(queue) /\ Concerns(queue[j], client[d].id_for_arbiter)
  BY DEF RepliesTo, Concerns, Answers, MapInv, TypeOK
<1>3. QED
  BY <1>1, <1>2 DEF QuestionOf

LEMMA LineSent ==
    ASSUME TypeOK, NEW d \in Clients, NEW m, queue' = Append(queue, m),
           ~Answers(m, client[d].id_for_arbiter),
           client'[d] = client[d],
           sender_pc'[d] = sender_pc[d], dest_name'[d] = dest_name[d], dest_id'[d] = dest_id[d]
    PROVE  LineMap'[d] = LineMap[d] /\ RepliesTo(d)' = RepliesTo(d)
<1>1. /\ DOMAIN queue' = DOMAIN queue \union {Len(queue) + 1}
      /\ queue'[Len(queue) + 1] = m
      /\ \A i \in DOMAIN queue : queue'[i] = queue[i]
  BY DEF TypeOK
<1>2. RepliesTo(d)' = RepliesTo(d)
  BY <1>1 DEF RepliesTo, Answers
<1>3. \A i \in RepliesTo(d) : queue'[i] = queue[i]
  BY <1>1 DEF RepliesTo
<1>4. RepliesTo(d) # {} => (CHOOSE i \in RepliesTo(d) : TRUE) \in RepliesTo(d)
  OBVIOUS
<1>5. QED
  BY <1>2, <1>3, <1>4, LineFrame

LEMMA LineReceived ==
    ASSUME MapInv, NEW d \in Clients, NEW k \in 1..Len(queue), TakenAt(k),
           ~Answers(queue[k], client[d].id_for_arbiter), UNCHANGED client,
           sender_pc'[d] = sender_pc[d], dest_name'[d] = dest_name[d], dest_id'[d] = dest_id[d]
    PROVE  LineMap'[d] = LineMap[d]
<1>1. SUFFICES ASSUME sender_pc[d] = "await"
               PROVE  /\ RepliesTo(d) = {} <=> RepliesTo(d)' = {}
                      /\ RepliesTo(d) # {} =>
                            (queue[CHOOSE i \in RepliesTo(d) : TRUE].dest_id)'
                                = queue[CHOOSE i \in RepliesTo(d) : TRUE].dest_id
  BY LineFrame
<1>2. RepliesTo(d) = {i \in 1..Len(queue) : Answers(queue[i], client[d].id_for_arbiter)}
  BY DEF RepliesTo, Answers, MapInv, TypeOK
<1>3. RepliesTo(d)' = {i \in 1..Len(queue') : Answers(queue'[i], client[d].id_for_arbiter)}
  <2>1. DOMAIN queue' = 1..Len(queue')
    BY DEF MapInv
  <2>2. QED
    BY <2>1 DEF RepliesTo, Answers
<1>4. CASE RepliesTo(d) = {}
  BY <1>2, <1>3, <1>4 DEF TakenAt
<1>5. CASE RepliesTo(d) # {}
  <2>1. PICK j \in RepliesTo(d) : RepliesTo(d) = {j}
    BY <1>1, <1>5, OnlyReply
  <2>2. j \in 1..Len(queue) \ {k} /\ Answers(queue[j], client[d].id_for_arbiter)
    BY <1>2, <2>1
  <2>3. PICK i \in 1..Len(queue') : queue'[i] = queue[j]
    BY <2>2 DEF TakenAt
  <2>4. i \in RepliesTo(d)'
    BY <1>3, <2>2, <2>3
  <2>5. ASSUME NEW l \in RepliesTo(d)', l # i PROVE FALSE
    <3>1. PICK j1 \in 1..Len(queue) \ {k}, j2 \in 1..Len(queue) \ {k} :
              j1 # j2 /\ queue'[i] = queue[j1] /\ queue'[l] = queue[j2]
      BY <1>3, <2>5 DEF TakenAt
    <3>2. j1 \in RepliesTo(d) /\ j2 \in RepliesTo(d)
      BY <1>2, <1>3, <2>4, <2>5, <3>1
    <3>3. QED
      BY <2>1, <3>1, <3>2
  <2>6. RepliesTo(d)' = {i}
    BY <2>4, <2>5
  <2>7. (CHOOSE x \in {i} : TRUE) = i /\ (CHOOSE x \in {j} : TRUE) = j
    OBVIOUS
  <2>8. QED
    BY <2>1, <2>3, <2>6, <2>7
<1>6. QED
  BY <1>4, <1>5

\* Every line counted, one changed.
LEMMA LineIsMap ==
    /\ LineMap = [c \in Clients |-> LineMap[c]]
    /\ LineMap' = [c \in Clients |-> LineMap'[c]]
  BY Zenon DEF LineMap

LEMMA LinesSame ==
    ASSUME \A d \in Clients : LineMap'[d] = LineMap[d]
    PROVE  LineMap' = LineMap
<1>1. [c \in Clients |-> LineMap'[c]] = [c \in Clients |-> LineMap[c]]
  OBVIOUS
<1>2. QED
  BY <1>1, LineIsMap

LEMMA OneLineChanged ==
    ASSUME NEW c \in Clients, NEW l, LineMap'[c] = l,
           \A d \in Clients \ {c} : LineMap'[d] = LineMap[d]
    PROVE  LineMap' = [LineMap EXCEPT ![c] = l]
<1> DEFINE f == [d \in Clients |-> LineMap[d]]
           g == [d \in Clients |-> LineMap'[d]]
<1>1. LineMap = f /\ LineMap' = g
  BY LineIsMap, Zenon
<1>2. g = [f EXCEPT ![c] = l]
  OBVIOUS
<1>3. QED
  BY <1>1, <1>2, Zenon

\* What a line is, by where its sender stands.
LEMMA LineValue ==
    ASSUME NEW c \in Clients
    PROVE  /\ sender_pc[c] \in {"off", "read", "done"} => LineMap[c] = Abstract!NoLine
           /\ sender_pc[c] = "ask" => LineMap[c] = Abstract!Unresolved(dest_name[c])
           /\ sender_pc[c] = "await" /\ RepliesTo(c) = {} =>
                  LineMap[c] = Abstract!Unresolved(dest_name[c])
           /\ sender_pc[c] = "await" => \A i : RepliesTo(c) = {i} =>
                  LineMap[c] = Abstract!Resolved(dest_name[c], BoxOf(queue[i].dest_id))
           /\ sender_pc[c] = "post" =>
                  LineMap[c] = Abstract!Resolved(dest_name[c], BoxOf(dest_id[c]))
<1>1. \A i : (CHOOSE x \in {i} : TRUE) = i
  OBVIOUS
<1>2. QED
  BY <1>1 DEF LineMap, Abstract!NoLine, Abstract!Unresolved, Abstract!Resolved

LEMMA LineValueNext ==
    ASSUME NEW c \in Clients
    PROVE  /\ sender_pc'[c] \in {"off", "read", "done"} => LineMap'[c] = Abstract!NoLine
           /\ sender_pc'[c] = "ask" => LineMap'[c] = Abstract!Unresolved(dest_name'[c])
           /\ sender_pc'[c] = "await" /\ RepliesTo(c)' = {} =>
                  LineMap'[c] = Abstract!Unresolved(dest_name'[c])
           /\ sender_pc'[c] = "await" => \A i : RepliesTo(c)' = {i} =>
                  LineMap'[c] = Abstract!Resolved(dest_name'[c], BoxOf(queue'[i].dest_id))
           /\ sender_pc'[c] = "post" =>
                  LineMap'[c] = Abstract!Resolved(dest_name'[c], BoxOf(dest_id'[c]))
<1>1. \A i : (CHOOSE x \in {i} : TRUE) = i
  OBVIOUS
<1>2. QED
  BY <1>1 DEF LineMap, Abstract!NoLine, Abstract!Unresolved, Abstract!Resolved

\* Nothing of a user's view changes.
LEMMA MapsStutter ==
    ASSUME UNCHANGED <<client_table, lines, client, stdout>>,
           MailboxMap' = MailboxMap, LineMap' = LineMap
    PROVE  UNCHANGED Abstract!mVars
<1>1. DirectoryMap' = DirectoryMap
  BY MapsSame
<1>2. QED
  BY <1>1 DEF Abstract!mVars, OwnedMap, PrintedMap

LEMMA VisibleStutter ==
    ASSUME UNCHANGED visibleVars
    PROVE  UNCHANGED Abstract!mVars
<1>1. UNCHANGED <<queue, client_table, client, sender_pc, dest_name, dest_id, lines, stdout>>
  BY DEF visibleVars, senderVars
<1>2. MailboxMap' = MailboxMap
  BY <1>1, MapsSame
<1>3. LineMap' = LineMap
  BY <1>1 DEF LineMap, RepliesTo
<1>4. QED
  BY <1>1, <1>2, <1>3, MapsStutter

\* The line of a client is what it was when only others' senders moved.
LEMMA LineOfOther ==
    ASSUME NEW d \in Clients, UNCHANGED queue, client'[d] = client[d],
           sender_pc'[d] = sender_pc[d], dest_name'[d] = dest_name[d], dest_id'[d] = dest_id[d]
    PROVE  LineMap'[d] = LineMap[d]
  BY LineFrame DEF RepliesTo

-----------------------------------------------------------------------------
\* The steps of the implementation that the messenger does not see.

\* Who has a sender thread has its identifiers, and nobody else has its first.
LEMMA SenderRuns ==
    ASSUME MapInv, NEW c \in Clients, sender_pc[c] # "off" \/ pc[c] = "running"
    PROVE  /\ Registered(c) /\ pc[c] = "running" /\ QuestionOf(c)
           /\ client[c].id_for_arbiter \in Ids /\ client[c].id_for_arbiter > 1
           /\ client[c].id_for_rmessages \in BoxesInUse
           /\ \A d \in Clients \ {c} : client[d].id_for_arbiter # client[c].id_for_arbiter
<1>1. pc[c] = "running"
  BY DEF MapInv, MessageInv, SendersRun
<1>2. Registered(c) /\ QuestionOf(c)
  BY <1>1 DEF MapInv, MessageInv, Questions, Registered
<1>3. client[c].id_for_arbiter \in Ids /\ client[c].id_for_arbiter > 1
  BY <1>2 DEF MapInv, TypeOK, RegistrationInv, ClientIdsIssued, Issued
<1>4. Owner(c)
  BY <1>3 DEF Owner
<1>5. \A d \in Clients \ {c} : client[d].id_for_arbiter # client[c].id_for_arbiter
  BY <1>3, <1>4 DEF MapInv, MessageInv, OwnersInTable, Owner
<1>6. PICK i \in Slots : Used(i) /\ Info(i).id_for_arbiter = client[c].id_for_arbiter
  BY <1>4 DEF MapInv, MessageInv, OwnersInTable, HasSlot
<1>7. Info(i).id_for_rmessages = client[c].id_for_rmessages
  BY <1>4, <1>6 DEF MapInv, MessageInv, OwnersInTable, SlotsApart, Issued
<1>8. QED
  BY <1>1, <1>2, <1>3, <1>5, <1>6, <1>7, BoxesAreOdd

\* A client sends its registration: the arbiter's type is no mailbox.
LEMMA RegisterStutters ==
    ASSUME MapInv, NEW c \in Clients, SendRegister(c)
    PROVE  UNCHANGED Abstract!mVars
<1> DEFINE m == [type |-> kArbiterId, policy |-> "register",
                 client_pid |-> c, client_name |-> NameOf[c]]
<1>1. /\ queue' = Append(queue, m)
      /\ UNCHANGED <<client_table, lines, client, stdout, sender_pc, dest_name, dest_id>>
  BY DEF SendRegister, Send, ValidType, kArbiterId, arbiterVars, tableVars, senderVars, dataVars
<1>2. m \in Message /\ m.type = 1 /\ m.policy = "register"
  BY ArbiterAssumption DEF Message, AMessage, RegisterMessages, kArbiterId
<1> HIDE DEF m
<1>3. MailboxMap' = MailboxMap
  BY <1>1, <1>2, MailboxSent, BoxesAreOdd DEF MapInv
<1>4. ASSUME NEW d \in Clients PROVE LineMap'[d] = LineMap[d]
  BY <1>1, <1>2, LineSent DEF MapInv, Answers
<1>5. QED
  BY <1>1, <1>3, <1>4, LinesSame, MapsStutter

\* The arbiter takes a message out that no user waits for.
LEMMA ListenStutters ==
    ASSUME MapInv, ListenOnMessages
    PROVE  UNCHANGED Abstract!mVars
<1>1. /\ Receive(kArbiterId)
      /\ UNCHANGED <<client_table, lines, client, stdout, sender_pc, dest_name, dest_id>>
  BY DEF ListenOnMessages, peerVars, senderVars, clientVars, dataVars
<1>2. MailboxMap' = MailboxMap
  BY <1>1, MailboxReceived, BoxesAreOdd DEF MapInv, kArbiterId
<1>3. PICK k \in 1..Len(queue) :
          Matches(queue[k], kArbiterId) /\ queue[k] \in Message /\ TakenAt(k)
  BY <1>1, ReceivePositions DEF MapInv
<1>4. queue[k] \in AMessage
  BY <1>3, ForArbiter
<1>5. queue[k].policy # "respond"
  BY <1>4 DEF AMessage, RegisterMessages, RequestMessages
<1>6. ASSUME NEW d \in Clients PROVE LineMap'[d] = LineMap[d]
  BY <1>1, <1>3, <1>5, LineReceived DEF Answers
<1>7. QED
  BY <1>1, <1>2, <1>6, LinesSame, MapsStutter

\* The sender thread starts, or ends: there is no line in its hands.
LEMMA IdleStutters ==
    ASSUME MapInv, NEW c \in Clients, AckResponse(c) \/ EndOfInput(c)
    PROVE  UNCHANGED Abstract!mVars
<1>1. /\ UNCHANGED <<queue, client_table, lines, client, stdout, dest_name, dest_id>>
      /\ \A d \in Clients \ {c} : sender_pc'[d] = sender_pc[d]
      /\ sender_pc'[c] \in {"read", "done"}
      /\ sender_pc[c] \in {"off", "read"}
  BY DEF AckResponse, EndOfInput, SenderGoto, ClientGoto, MapInv, TypeOK, MessageInv, SendersRun,
         arbiterVars, tableVars, clientVars, dataVars
<1>2. MailboxMap' = MailboxMap
  BY <1>1, MapsSame
<1>3. LineMap'[c] = LineMap[c]
  BY <1>1, LineValue, LineValueNext
<1>4. ASSUME NEW d \in Clients \ {c} PROVE LineMap'[d] = LineMap[d]
  BY <1>1, LineOfOther
<1>5. QED
  BY <1>1, <1>2, <1>3, <1>4, LinesSame, MapsStutter

\* The sender asks for its addressee's mailbox: the line stays unresolved.
LEMMA RequestStutters ==
    ASSUME MapInv, NEW c \in Clients, RequestDestId(c)
    PROVE  UNCHANGED Abstract!mVars
<1> DEFINE m == [type |-> kArbiterId, policy |-> "request",
                 who_ask_id |-> client[c].id_for_arbiter, dest_name |-> dest_name[c]]
<1>1. /\ queue' = Append(queue, m)
      /\ UNCHANGED <<client_table, lines, client, stdout, dest_name, dest_id>>
      /\ sender_pc[c] = "ask" /\ sender_pc'[c] = "await"
      /\ \A d \in Clients \ {c} : sender_pc'[d] = sender_pc[d]
  BY DEF RequestDestId, SenderGoto, Send, ValidType, kArbiterId, arbiterVars, tableVars,
         clientVars, dataVars, MapInv, TypeOK
<1>2. m \in Message /\ m.type = 1 /\ m.policy = "request"
  <2>1. client[c].id_for_arbiter \in Ids /\ dest_name[c] \in Names
    BY DEF MapInv, TypeOK
  <2>2. QED
    BY <2>1 DEF Message, AMessage, RequestMessages, kArbiterId
<1> HIDE DEF m
<1>3. MailboxMap' = MailboxMap
  BY <1>1, <1>2, MailboxSent, BoxesAreOdd DEF MapInv
<1>4. RepliesTo(c)' = {}
  <2>1. \A i \in 1..Len(queue) : ~Answers(queue[i], client[c].id_for_arbiter)
    BY <1>1, SenderRuns DEF QuestionOf, Concerns
  <2>2. /\ DOMAIN queue' = 1..Len(queue) \union {Len(queue) + 1}
        /\ queue'[Len(queue) + 1] = m
        /\ \A i \in 1..Len(queue) : queue'[i] = queue[i]
    BY <1>1 DEF MapInv, TypeOK
  <2>3. QED
    BY <1>1, <1>2, <2>1, <2>2 DEF RepliesTo, Answers
<1>5. LineMap'[c] = LineMap[c]
  BY <1>1, <1>4, LineValue, LineValueNext
<1>6. ASSUME NEW d \in Clients \ {c} PROVE LineMap'[d] = LineMap[d]
  BY <1>1, <1>2, LineSent DEF MapInv, Answers
<1>7. QED
  BY <1>1, <1>3, <1>5, <1>6, LinesSame, MapsStutter

\* The sender reads the answer, which stood in the queue before.
LEMMA ReplyStutters ==
    ASSUME MapInv, NEW c \in Clients, ReceiveDestId(c)
    PROVE  UNCHANGED Abstract!mVars
<1> DEFINE id == client[c].id_for_arbiter
<1>1. /\ Receive(id) /\ dest_id'[c] = AsDestId(Received(queue, id))
      /\ UNCHANGED <<client_table, lines, client, stdout, dest_name>>
      /\ sender_pc[c] = "await" /\ sender_pc'[c] = "post"
      /\ \A d \in Clients \ {c} : sender_pc'[d] = sender_pc[d] /\ dest_id'[d] = dest_id[d]
  BY DEF ReceiveDestId, SenderGoto, arbiterVars, tableVars, clientVars, dataVars, MapInv, TypeOK
<1>2. /\ Registered(c) /\ id > 1 /\ id \in Ids
      /\ \A d \in Clients \ {c} : client[d].id_for_arbiter # id
  BY <1>1, SenderRuns
<1>3. id # 0 /\ id \notin BoxesInUse
  BY <1>2, BoxesAreOdd
<1>4. MailboxMap' = MailboxMap
  BY <1>1, <1>3, MailboxReceived DEF MapInv
<1>5. PICK k \in 1..Len(queue) :
          /\ Received(queue, id) = queue[k] /\ Matches(queue[k], id)
          /\ queue[k] \in Message /\ TakenAt(k)
  BY <1>1, ReceivePositions DEF MapInv
<1>6. queue[k].type = id /\ queue[k] \in RespondMessages
  BY <1>2, <1>3, <1>5, TypesApart DEF Matches, MapInv
<1>7. Answers(queue[k], id) /\ AsDestId(queue[k]) = queue[k].dest_id
  BY <1>6 DEF RespondMessages, Answers, AsDestId
<1>8. LineMap'[c] = LineMap[c]
  <2>1. k \in RepliesTo(c)
    BY <1>7 DEF RepliesTo, Answers, MapInv, TypeOK
  <2>2. RepliesTo(c) = {k}
    BY <1>1, <2>1, OnlyReply
  <2>3. LineMap[c] = Abstract!Resolved(dest_name[c], BoxOf(queue[k].dest_id))
    BY <1>1, <2>2, LineValue
  <2>4. LineMap'[c] = Abstract!Resolved(dest_name'[c], BoxOf(dest_id'[c]))
    BY <1>1, LineValueNext
  <2>5. QED
    BY <1>1, <1>5, <1>7, <2>3, <2>4
<1>9. ASSUME NEW d \in Clients \ {c} PROVE LineMap'[d] = LineMap[d]
  <2>1. ~Answers(queue[k], client[d].id_for_arbiter)
    BY <1>2, <1>6 DEF Answers
  <2>2. QED
    BY <1>1, <1>5, <2>1, LineReceived
<1>10. QED
  BY <1>1, <1>4, <1>8, <1>9, LinesSame, MapsStutter

-----------------------------------------------------------------------------
\* The steps of the implementation that are steps of the messenger.

LEMMA MapInit == Init => Abstract!Init
<1> SUFFICES ASSUME Init PROVE Abstract!Init
  OBVIOUS
<1>1. FilledUpTo(client_table, 0) /\ 0 \in 0..MAX_N_CLIENTS
  BY TableAssumption DEF Init, InitTable, FilledUpTo, Slots, kArbiterId
<1>2. BoxesInUse = {}
  BY <1>1, BoxesFilled
<1>3. MailboxMap = << >>
  BY <1>2 DEF MailboxMap
<1>4. \A name : ~(GetIdForRMessagesFromName(client_table, name) > 0)
  BY <1>1, LookupFirst DEF NotFound
<1>5. DirectoryMap = << >>
  BY <1>4 DEF DirectoryMap, DirectoryNames
<1>6. OwnedMap = [c \in Clients |-> 0] /\ lines = [c \in Clients |-> 0]
  BY DEF OwnedMap, Init
<1>7. LineMap = [c \in Clients |-> Abstract!NoLine]
  <2>1. \A c \in Clients : LineMap[c] = Abstract!NoLine
    BY LineValue DEF Init
  <2>2. QED
    BY <2>1, LineIsMap
<1>8. PrintedMap = [c \in Clients |-> <<>>]
  <2>1. TextsIn(<<>>) = <<>>
    BY DEF TextsIn
  <2>2. QED
    BY <2>1 DEF PrintedMap, Init
<1>9. QED
  BY <1>3, <1>5, <1>6, <1>7, <1>8 DEF Abstract!Init

\* Copying the response is taking possession of a mailbox nobody has.
LEMMA CopyOwns ==
    ASSUME MapInv, NEW c \in Clients, CheckResponse(c)
    PROVE  Abstract!Next
<1> DEFINE id == response.resp_id_for_arbiter
           b  == response.resp_id_for_rmessages
<1>1. /\ UNCHANGED <<queue, client_table, lines, stdout, sender_pc, dest_name, dest_id>>
      /\ pc[c] = "check" /\ sender_pc[c] = "off"
      /\ client' = [client EXCEPT ![c] = [id_for_arbiter |-> id, id_for_rmessages |-> b]]
      /\ client \in [Clients -> [id_for_arbiter : Ids, id_for_rmessages : Ids]]
  BY DEF CheckResponse, ClientGoto, arbiterVars, tableVars, senderVars, MapInv, TypeOK,
         MessageInv, SendersRun
<1>2. /\ a_pc # "fill_ids" /\ response.resp_pid = c /\ c # Nobody
      /\ 1 < id /\ b = id + 1
  BY CopiedPair DEF MapInv, Issued
<1>3. /\ HasSlot(NameOf[c], id)
      /\ \A d \in Clients \ {c} : client[d].id_for_arbiter # id
  BY <1>2 DEF MapInv, MessageInv, PairsInTable
<1>4. b \in BoxesInUse
  <2>1. PICK i \in Slots : Used(i) /\ Info(i).id_for_arbiter = id
    BY <1>3 DEF HasSlot
  <2>2. Info(i).id_for_rmessages = b
    BY <1>2, <2>1 DEF MapInv, MessageInv, SlotsApart, Issued
  <2>3. QED
    BY <2>1, <2>2, BoxesAreOdd
<1>5. b \in 2..2 * MAX_N_CLIENTS + 1 /\ b # 0 /\ b \in DOMAIN MailboxMap
  BY <1>4, BoxesAreOdd DEF MailboxMap
<1>6. OwnedMap[c] = 0
  <2>1. ~Owner(c)
    BY <1>1 DEF MapInv, MessageInv, OwnersInTable
  <2>2. QED
    BY <2>1 DEF Owner, MapInv, NobodysMailbox, OwnedMap
<1>7. ASSUME NEW d \in Clients PROVE OwnedMap[d] # b
  <2>1. CASE d = c
    BY <1>5, <1>6, <2>1
  <2>2. CASE d # c /\ Owner(d)
    <3>1. client[d].id_for_rmessages = client[d].id_for_arbiter + 1
      BY <2>2 DEF MapInv, MessageInv, OwnersInTable
    <3>2. client[d].id_for_arbiter # id /\ client[d].id_for_arbiter \in Nat /\ id \in Nat
      BY <1>3, <2>2 DEF MapInv, TypeOK, Ids
    <3>3. QED
      BY <1>2, <3>1, <3>2 DEF OwnedMap
  <2>3. CASE ~Owner(d)
    BY <1>5, <2>3 DEF Owner, MapInv, NobodysMailbox, OwnedMap
  <2>4. QED
    BY <2>1, <2>2, <2>3
<1>8. OwnedMap' = [OwnedMap EXCEPT ![c] = b]
  BY <1>1 DEF OwnedMap
<1>9. DirectoryMap' = DirectoryMap /\ MailboxMap' = MailboxMap /\ PrintedMap' = PrintedMap
  BY <1>1, MapsSame DEF PrintedMap
<1>10. LineMap' = LineMap
  <2>1. LineMap'[c] = LineMap[c]
    BY <1>1, LineValue, LineValueNext
  <2>2. ASSUME NEW d \in Clients \ {c} PROVE LineMap'[d] = LineMap[d]
    BY <1>1, LineOfOther
  <2>3. QED
    BY <2>1, <2>2, LinesSame
<1>11. Abstract!Own(c, b)
  BY <1>1, <1>5, <1>6, <1>7, <1>8, <1>9, <1>10 DEF Abstract!Own
<1>12. QED
  BY <1>5, <1>11 DEF Abstract!Next

\* Reading a line is typing it.
LEMMA ReadTypes ==
    ASSUME MapInv, NEW c \in Clients, ReadLine(c)
    PROVE  Abstract!Next
<1>1. PICK name \in Names : dest_name' = [dest_name EXCEPT ![c] = name]
  BY DEF ReadLine
<1>2. /\ UNCHANGED <<queue, client_table, client, stdout, dest_id>>
      /\ sender_pc[c] = "read" /\ sender_pc'[c] = "ask"
      /\ \A d \in Clients \ {c} : sender_pc'[d] = sender_pc[d] /\ dest_name'[d] = dest_name[d]
      /\ dest_name'[c] = name /\ lines' = [lines EXCEPT ![c] = @ + 1]
  BY <1>1 DEF ReadLine, SenderGoto, arbiterVars, tableVars, clientVars, dataVars, MapInv, TypeOK
<1>3. OwnedMap[c] # 0
  BY <1>2, SenderRuns, BoxesAreOdd DEF OwnedMap
<1>4. LineMap[c] = Abstract!NoLine /\ LineMap'[c] = Abstract!Unresolved(name)
  BY <1>2, LineValue, LineValueNext
<1>5. ASSUME NEW d \in Clients \ {c} PROVE LineMap'[d] = LineMap[d]
  BY <1>2, LineOfOther
<1>6. LineMap' = [LineMap EXCEPT ![c] = Abstract!Unresolved(name)]
  BY <1>4, <1>5, OneLineChanged
<1>7. UNCHANGED <<DirectoryMap, MailboxMap, OwnedMap, PrintedMap>>
  BY <1>2, MapsSame DEF OwnedMap, PrintedMap
<1>8. Abstract!Type(c, name)
  BY <1>2, <1>3, <1>4, <1>6, <1>7 DEF Abstract!Type
<1>9. QED
  BY <1>8 DEF Abstract!Next

\* A client that is killed loses its line, if it has one.
LEMMA KillLoses ==
    ASSUME MapInv, NEW c \in Clients, KillClient(c)
    PROVE  Abstract!Next \/ UNCHANGED Abstract!mVars
<1>1. /\ UNCHANGED <<queue, client_table, client, lines, stdout, dest_name, dest_id>>
      /\ sender_pc'[c] = "off"
      /\ \A d \in Clients \ {c} : sender_pc'[d] = sender_pc[d]
  BY DEF KillClient, arbiterVars, tableVars, MapInv, TypeOK
<1>2. LineMap'[c] = Abstract!NoLine
  BY <1>1, LineValueNext
<1>3. ASSUME NEW d \in Clients \ {c} PROVE LineMap'[d] = LineMap[d]
  BY <1>1, LineOfOther
<1>4. UNCHANGED <<DirectoryMap, MailboxMap, OwnedMap, PrintedMap>>
  BY <1>1, MapsSame DEF OwnedMap, PrintedMap
<1>5. CASE LineMap[c] = Abstract!NoLine
  <2>1. LineMap' = LineMap
    BY <1>2, <1>3, <1>5, LinesSame
  <2>2. QED
    BY <1>1, <1>4, <2>1, MapsStutter
<1>6. CASE LineMap[c] # Abstract!NoLine
  <2>1. LineMap' = [LineMap EXCEPT ![c] = Abstract!NoLine]
    BY <1>2, <1>3, OneLineChanged
  <2>2. Abstract!LoseLine(c)
    BY <1>1, <1>4, <1>6, <2>1 DEF Abstract!LoseLine
  <2>3. QED
    BY <2>2 DEF Abstract!Next
<1>7. QED
  BY <1>5, <1>6

\* Sending the line posts it, or drops it when it has no mailbox.
LEMMA SendPosts ==
    ASSUME MapInv, NEW c \in Clients, SendToReceiver(c)
    PROVE  Abstract!Next
<1> DEFINE name == dest_name[c]
           b == BoxOf(dest_id[c])
           m == [type |-> dest_id[c], policy |-> "regular", mes |-> Typed(c)]
<1>1. /\ Send(m)
      /\ UNCHANGED <<client_table, client, lines, stdout, dest_name, dest_id>>
      /\ sender_pc[c] = "post" /\ sender_pc'[c] = "read"
      /\ \A d \in Clients \ {c} : sender_pc'[d] = sender_pc[d]
  BY DEF SendToReceiver, SenderGoto, arbiterVars, tableVars, clientVars, dataVars, MapInv, TypeOK
<1>2. /\ dest_id[c] \in Ids \union {NotFound} /\ name \in Names
      /\ dest_id[c] > 0 => m \in Message
  <2>1. lines[c] \in 1..MaxLines
    BY <1>1, ArbiterAssumption DEF MapInv, TypeOK
  <2>2. dest_id[c] \in Ids \union {NotFound} /\ name \in Names
    BY DEF MapInv, TypeOK
  <2>3. Typed(c) \in Texts
    BY <2>1, <2>2 DEF Typed, Texts
  <2>4. QED
    BY <2>2, <2>3 DEF Message, RegularMessage, TextMessages, Ids, NotFound
<1>3. m.type = dest_id[c] /\ m.policy = "regular" /\ m.mes = Typed(c)
  OBVIOUS
<1> HIDE DEF m
<1>4. dest_id[c] > 0 => dest_id[c] \in BoxesInUse
  BY <1>1, BoxesAreOdd DEF MapInv, MessageInv, DestinationsResolve, Resolves
<1>5. /\ b \in (2..2 * MAX_N_CLIENTS + 1) \union {Abstract!Undeliverable}
      /\ MailboxMap' = IF b = Abstract!Undeliverable THEN MailboxMap
                       ELSE [MailboxMap EXCEPT ![b] = Append(@, Typed(c))]
      /\ \A d \in Clients \ {c} : LineMap'[d] = LineMap[d]
  <2>1. CASE dest_id[c] > 0
    <3>1. queue' = Append(queue, m) /\ b = dest_id[c]
      BY <1>1, <1>3, <2>1 DEF Send, ValidType, BoxOf
    <3>2. b \in 2..2 * MAX_N_CLIENTS + 1 /\ b # 0
      BY <1>4, <2>1, <3>1, BoxesAreOdd
    <3>3. MailboxMap' = [MailboxMap EXCEPT ![b] = Append(@, Typed(c))]
      BY <1>1, <1>2, <1>3, <1>4, <2>1, <3>1, MailboxSent DEF MapInv
    <3>4. ASSUME NEW d \in Clients \ {c} PROVE LineMap'[d] = LineMap[d]
      BY <1>1, <1>3, <3>1, LineSent DEF MapInv, Answers
    <3>5. QED
      BY <3>2, <3>3, <3>4 DEF Abstract!Undeliverable
  <2>2. CASE ~(dest_id[c] > 0)
    <3>1. queue' = queue /\ b = 0
      BY <1>1, <1>3, <2>2 DEF Send, ValidType, BoxOf
    <3>2. MailboxMap' = MailboxMap
      BY <1>1, <3>1, MapsSame
    <3>3. ASSUME NEW d \in Clients \ {c} PROVE LineMap'[d] = LineMap[d]
      BY <1>1, <3>1, LineOfOther
    <3>4. QED
      BY <3>1, <3>2, <3>3 DEF Abstract!Undeliverable
  <2>3. QED
    BY <2>1, <2>2
<1>6. LineMap[c] = Abstract!Resolved(name, b) /\ LineMap'[c] = Abstract!NoLine
  BY <1>1, LineValue, LineValueNext
<1>7. LineMap' = [LineMap EXCEPT ![c] = Abstract!NoLine]
  BY <1>5, <1>6, OneLineChanged
<1>8. UNCHANGED <<DirectoryMap, OwnedMap, PrintedMap>>
  BY <1>1, MapsSame DEF OwnedMap, PrintedMap
<1>9. Abstract!Post(c, name, b)
  BY <1>1, <1>5, <1>6, <1>7, <1>8 DEF Abstract!Post, Typed
<1>10. QED
  BY <1>2, <1>5, <1>9 DEF Abstract!Next

\* The reader prints what stands first in its mailbox.
LEMMA ReaderPrints ==
    ASSUME MapInv, NEW c \in Clients, ReaderThreadTask(c)
    PROVE  Abstract!Next
<1> DEFINE b == client[c].id_for_rmessages
<1>1. /\ Receive(b) /\ pc[c] = "running"
      /\ UNCHANGED <<client_table, client, lines, sender_pc, dest_name, dest_id>>
      /\ stdout' = [stdout EXCEPT ![c] = Append(@, Received(queue, b))]
  BY DEF ReaderThreadTask, arbiterVars, tableVars, senderVars
<1>2. b \in BoxesInUse /\ b # 0
  BY <1>1, SenderRuns, BoxesAreOdd
<1>3. /\ MailboxMap[b] # <<>> /\ Head(MailboxMap[b]) = Received(queue, b).mes
      /\ MailboxMap' = [MailboxMap EXCEPT ![b] = Tail(@)]
  BY <1>1, <1>2, MailboxReceived DEF MapInv
<1>4. PICK k \in 1..Len(queue) :
          /\ Received(queue, b) = queue[k] /\ Matches(queue[k], b)
          /\ queue[k] \in Message /\ TakenAt(k)
  BY <1>1, ReceivePositions DEF MapInv
<1>5. ASSUME NEW d \in Clients PROVE LineMap'[d] = LineMap[d]
  <2>1. ~Answers(queue[k], client[d].id_for_arbiter)
    BY <1>2, <1>4, BoxesAreOdd DEF Answers, Matches
  <2>2. QED
    BY <1>1, <1>4, <2>1, LineReceived
<1>6. PrintedMap' = [PrintedMap EXCEPT ![c] = Append(@, Head(MailboxMap[b]))]
  <2>1. stdout \in [Clients -> Seq(Message)]
    BY DEF MapInv, TypeOK, Message
  <2>2. TextsIn(Append(stdout[c], queue[k])) = Append(TextsIn(stdout[c]), queue[k].mes)
    BY <1>4, <2>1, TextsInAppend
  <2>3. QED
    BY <1>1, <1>3, <1>4, <2>1, <2>2 DEF PrintedMap
<1>7. DirectoryMap' = DirectoryMap /\ OwnedMap' = OwnedMap /\ OwnedMap[c] = b
  BY <1>1, MapsSame DEF OwnedMap
<1>8. LineMap' = LineMap
  BY <1>5, LinesSame
<1>9. Abstract!PrintNext(c)
  BY <1>1, <1>2, <1>3, <1>6, <1>7, <1>8 DEF Abstract!PrintNext
<1>10. QED
  BY <1>9 DEF Abstract!Next

\* The arbiter's answer resolves the line of whoever asked; nobody sees it when
\* that client is dead.
LEMMA AnswerResolves ==
    ASSUME MapInv, SendDestId
    PROVE  Abstract!Next \/ UNCHANGED Abstract!mVars
<1> DEFINE x == GetIdForRMessagesFromName(client_table, mes.dest_name)
           m == [type |-> mes.who_ask_id, policy |-> "respond", dest_id |-> x]
<1>1. /\ a_pc = "respond" /\ Send(m)
      /\ UNCHANGED <<client_table, client, lines, stdout, sender_pc, dest_name, dest_id>>
  BY DEF SendDestId, ArbiterGoto, tableVars, peerVars, senderVars, clientVars, dataVars
<1>2. mes \in RequestMessages /\ mes.policy = "request" /\ MessageOK(mes)
  BY <1>1 DEF MapInv, TypeOK, RequestMessages, MessageInv, MessagesOK
<1>3. PICK c \in Clients : Asker(c, mes.who_ask_id)
  BY <1>2 DEF MessageOK
<1> DEFINE id == client[c].id_for_arbiter
<1>4. id = mes.who_ask_id /\ id \in Ids \ {0} /\ pc[c] \in {"running", "killed"}
  BY <1>3 DEF Asker, MapInv, TypeOK
<1>5. m \in Message /\ m.type = id /\ m.policy = "respond" /\ m.dest_id = x
  <2>1. x \in Ids \union {NotFound}
    BY LookupType DEF MapInv, TypeOK
  <2> HIDE DEF x
  <2>2. QED
    BY <1>4, <2>1 DEF Message, RegularMessage, RespondMessages
<1> HIDE DEF m, x
<1>6. queue' = Append(queue, m)
  BY <1>1, <1>4, <1>5 DEF Send, ValidType, Ids
<1>7. MailboxMap' = MailboxMap
  BY <1>1, <1>5, <1>6, MailboxSent, BoxesAreOdd DEF MapInv
<1>8. ASSUME NEW d \in Clients \ {c} PROVE LineMap'[d] = LineMap[d]
  <2>1. client[d].id_for_arbiter # id
    BY <1>4 DEF MapInv, MessageInv, OwnersInTable, Owner
  <2>2. QED
    BY <1>1, <1>5, <1>6, <2>1, LineSent DEF MapInv, Answers
<1>9. UNCHANGED <<DirectoryMap, OwnedMap, PrintedMap>>
  BY <1>1, MapsSame DEF OwnedMap, PrintedMap
<1>10. CASE pc[c] = "killed"
  <2>1. sender_pc[c] = "off"
    BY <1>10 DEF MapInv, MessageInv, SendersRun
  <2>2. LineMap'[c] = LineMap[c]
    BY <1>1, <2>1, LineValue, LineValueNext
  <2>3. QED
    BY <1>1, <1>7, <1>8, <2>2, LinesSame, MapsStutter
<1>11. CASE pc[c] = "running"
  <2> DEFINE name == dest_name[c]
  <2>1. QuestionOf(c) /\ BeingAnswered(c)
    BY <1>1, <1>4, <1>11, SenderRuns DEF BeingAnswered
  <2>2. /\ sender_pc[c] = "await" /\ mes.dest_name = name /\ name \in Names
        /\ \A i \in 1..Len(queue) : ~Answers(queue[i], id)
    BY <2>1 DEF QuestionOf, Concerns, MapInv, TypeOK
  <2>3. RepliesTo(c) = {} /\ RepliesTo(c)' = {Len(queue) + 1} /\ queue'[Len(queue) + 1] = m
    <3>1. /\ DOMAIN queue = 1..Len(queue) /\ Len(queue) \in Nat
          /\ DOMAIN queue' = 1..Len(queue) \union {Len(queue) + 1}
          /\ queue'[Len(queue) + 1] = m
          /\ \A i \in 1..Len(queue) : queue'[i] = queue[i]
      BY <1>6 DEF MapInv, TypeOK
    <3>2. QED
      BY <1>1, <1>5, <2>2, <3>1 DEF RepliesTo, Answers
  <2>4. /\ LineMap[c] = Abstract!Unresolved(name)
        /\ LineMap'[c] = Abstract!Resolved(name, BoxOf(x))
    BY <1>1, <1>5, <2>2, <2>3, LineValue, LineValueNext
  <2>5. BoxOf(x) = IF name \in DOMAIN DirectoryMap THEN DirectoryMap[name]
                   ELSE Abstract!Undeliverable
    BY <2>2 DEF BoxOf, DirectoryMap, DirectoryNames, Abstract!Undeliverable, x
  <2>6. LineMap' = [LineMap EXCEPT ![c] = Abstract!Resolved(name, BoxOf(x))]
    BY <1>8, <2>4, OneLineChanged
  <2>7. Abstract!Resolve(c, name)
    BY <1>1, <1>7, <1>9, <2>4, <2>5, <2>6 DEF Abstract!Resolve
  <2>8. QED
    BY <2>2, <2>7 DEF Abstract!Next
<1>12. QED
  BY <1>4, <1>10, <1>11

\* Filling a slot announces a name with the slot's mailbox, which is empty.
LEMMA NoTextYet ==
    ASSUME MapInv, NEW k \in Slots, FilledUpTo(client_table, k)
    PROVE  TextsIn(OfType(queue, 3 + 2 * k)) = <<>>
<1>1. k \in Nat /\ k \in 0..MAX_N_CLIENTS
  BY TableAssumption DEF Slots
<1>2. \A i \in Slots : Used(i) =>
          /\ i \in Nat /\ i < k
          /\ Info(i).id_for_arbiter = 2 + 2 * i /\ Info(i).id_for_rmessages = 3 + 2 * i
  BY <1>1, BoxesFilled DEF FilledUpTo, Info, Slots
<1>3. ASSUME NEW i \in 1..Len(queue), queue[i].type = 3 + 2 * k PROVE FALSE
  <2>1. queue[i] \in Message /\ MessageOK(queue[i])
    BY QueueTypes DEF MapInv, MessageInv, MessagesOK
  <2>2. queue[i] \in RegularMessage
    BY <1>1, <1>3, <2>1 DEF Message, AMessage, RegisterMessages, RequestMessages, kArbiterId
  <2>3. CASE queue[i] \in RespondMessages
    <3>1. PICK d \in Clients : Asker(d, queue[i].type)
      BY <2>1, <2>3 DEF MessageOK, RespondMessages
    <3>2. PICK j \in Slots : Used(j) /\ Info(j).id_for_arbiter = 3 + 2 * k
      BY <1>3, <3>1 DEF Asker, MapInv, MessageInv, OwnersInTable, Owner, HasSlot
    <3>3. QED
      BY <1>1, <1>2, <3>2
  <2>4. CASE queue[i] \in TextMessages
    <3>1. PICK j \in Slots : Used(j) /\ Info(j).id_for_rmessages = 3 + 2 * k
      BY <1>1, <1>3, <2>1, <2>4 DEF MessageOK, TextMessages, Resolves
    <3>2. QED
      BY <1>1, <1>2, <3>1
  <2>5. QED
    BY <2>2, <2>3, <2>4 DEF RegularMessage
<1>4. {i \in DOMAIN queue : queue[i].type = 3 + 2 * k} = {}
  <2>1. DOMAIN queue = 1..Len(queue)
    BY DEF MapInv, TypeOK
  <2>2. QED
    BY <1>3, <2>1
<1>5. OfType(queue, 3 + 2 * k) = <<>>
  <2>1. OfType(queue, 3 + 2 * k) = Picked(queue, {})
    BY <1>4, Zenon DEF OfType
  <2>2. 1..Cardinality({}) = {}
    BY FS_EmptySet
  <2>3. Picked(queue, {}) = [i \in {} |-> queue[Nth({}, i)]]
    BY <2>2, Zenon DEF Picked
  <2>4. QED
    BY <2>1, <2>3
<1>6. QED
  BY <1>5 DEF TextsIn

LEMMA AddAnnounces ==
    ASSUME MapInv, AddClient
    PROVE  Abstract!Next
<1>1. PICK k \in 0..MAX_N_CLIENTS : FilledUpTo(client_table, k)
  BY DEF MapInv, FilledInOrder
<1> DEFINE name == mes.client_name
           c == mes.client_pid
           b == 3 + 2 * k
<1>2. /\ k \in Slots
      /\ client_table'.client_info[k].client_name = name
      /\ \A i \in Slots \ {k} : client_table'.client_info[i] = client_table.client_info[i]
      /\ FilledUpTo(client_table', k + 1)
  BY <1>1, AddedNext DEF MapInv
<1>3. k \in Nat /\ k + 1 \in 0..MAX_N_CLIENTS /\ b \in 2..2 * MAX_N_CLIENTS + 1
  BY <1>2, TableAssumption DEF Slots
<1>4. UNCHANGED <<queue, client, lines, stdout, sender_pc, dest_name, dest_id>>
  BY DEF AddClient, peerVars, senderVars, clientVars, dataVars
<1>5. c \in Clients /\ name = NameOf[c]
  BY DEF AddClient, ArbiterGoto, MapInv, TypeOK, RegisterMessages, MessageInv, MessagesOK, MessageOK
<1>6. b \notin BoxesInUse /\ BoxesInUse' = BoxesInUse \union {b}
  <2>1. BoxesInUse = {3 + 2 * i : i \in 0..k - 1}
    BY <1>1, BoxesFilled
  <2>2. BoxesInUse' = {3 + 2 * i : i \in 0..(k + 1) - 1}
    <3>1. BoxesInUse' = {client_table'.client_info[i].id_for_rmessages :
                            i \in Slots \ AvailableSlots(client_table')}
      BY Zenon DEF BoxesInUse, UsedSlots, AvailableSlots
    <3>2. QED
      BY <1>2, <1>3, <3>1, BoxesOf
  <2>3. 0..(k + 1) - 1 = (0..k - 1) \union {k}
    BY <1>3
  <2>4. QED
    BY <1>3, <2>1, <2>2, <2>3
<1>7. MailboxMap' = Abstract!Extend(MailboxMap, b, <<>>)
  <2>1. TextsIn(OfType(queue, b)) = <<>>
    BY <1>1, <1>2, NoTextYet
  <2>2. MailboxMap' = [d \in BoxesInUse \union {b} |-> TextsIn(OfType(queue, d))]
    BY <1>4, <1>6 DEF MailboxMap
  <2> HIDE DEF b
  <2>3. QED
    BY <2>1, <2>2 DEF MailboxMap, Abstract!Extend
<1>8. ASSUME NEW n
      PROVE  LET x == GetIdForRMessagesFromName(client_table, n)
                 y == GetIdForRMessagesFromName(client_table', n)
             IN  /\ x > 0 => y = x
                 /\ ~(x > 0) /\ name = n => y = b
                 /\ ~(x > 0) /\ name # n => ~(y > 0)
  <2>1. PICK u : u = client_table'
    OBVIOUS
  <2>2. FilledUpTo(u, k + 1) /\ u.client_info[k].client_name = name
        /\ \A i \in Slots \ {k} : u.client_info[i] = client_table.client_info[i]
    BY <1>2, <2>1
  <2>3. LET x == GetIdForRMessagesFromName(client_table, n)
            y == GetIdForRMessagesFromName(u, n)
        IN  /\ x > 0 => y = x
            /\ ~(x > 0) /\ u.client_info[k].client_name = n => y = 3 + 2 * k
            /\ ~(x > 0) /\ u.client_info[k].client_name # n => ~(y > 0)
    BY <1>1, <1>2, <2>2, LookupAfterAdd
  <2>4. QED
    BY <2>1, <2>2, <2>3
<1>9. DirectoryMap' = IF name \in DOMAIN DirectoryMap THEN DirectoryMap
                      ELSE Abstract!Extend(DirectoryMap, name, b)
  <2> DEFINE X(n) == GetIdForRMessagesFromName(client_table, n)
             Y(n) == GetIdForRMessagesFromName(client_table', n)
  <2>1. DirectoryMap = [n \in {m \in Names : X(m) > 0} |-> X(n)]
    BY Zenon DEF DirectoryMap, DirectoryNames
  <2>2. DirectoryMap' = [n \in {m \in Names : Y(m) > 0} |-> Y(n)]
    BY Zenon DEF DirectoryMap, DirectoryNames
  <2>3. name \in Names
    BY <1>5, ArbiterAssumption
  <2>4. b > 0
    BY <1>3
  <2>5. \A n : /\ X(n) > 0 => Y(n) = X(n)
               /\ ~(X(n) > 0) /\ name = n => Y(n) = b
               /\ ~(X(n) > 0) /\ name # n => ~(Y(n) > 0)
    BY <1>8
  <2> HIDE DEF X, Y, b, name
  <2>6. CASE X(name) > 0
    <3>1. {m \in Names : Y(m) > 0} = {m \in Names : X(m) > 0}
      BY <2>5, <2>6
    <3>2. QED
      BY <2>1, <2>2, <2>3, <2>5, <2>6, <3>1
  <2>7. CASE ~(X(name) > 0)
    <3>1. {m \in Names : Y(m) > 0} = {m \in Names : X(m) > 0} \union {name}
      BY <2>3, <2>4, <2>5, <2>7
    <3>2. QED
      BY <2>1, <2>2, <2>3, <2>5, <2>7, <3>1 DEF Abstract!Extend
  <2>8. QED
    BY <2>6, <2>7
<1>10. LineMap' = LineMap
  BY <1>4, LineOfOther, LinesSame
<1>11. OwnedMap' = OwnedMap /\ PrintedMap' = PrintedMap
  BY <1>4 DEF OwnedMap, PrintedMap
<1>12. b \notin DOMAIN MailboxMap
  BY <1>6 DEF MailboxMap
<1>13. Abstract!Announce(NameOf[c], b)
  BY <1>4, <1>5, <1>7, <1>9, <1>10, <1>11, <1>12 DEF Abstract!Announce
<1>14. QED
  BY <1>3, <1>5, <1>13 DEF Abstract!Next

-----------------------------------------------------------------------------
\* The refinement.

LEMMA MapStep ==
    ASSUME MapInv, [Next]_vars
    PROVE  Abstract!Next \/ UNCHANGED Abstract!mVars
<1>1. CASE UNCHANGED visibleVars
  BY <1>1, VisibleStutter
<1>2. CASE FinishInit
  <2>1. UNCHANGED visibleVars
    BY <1>2 DEF FinishInit, ArbiterGoto, InitPcs, MapInv, MessageInv, TableStartsEmpty, visibleVars,
                peerVars, clientVars, dataVars
  <2>2. QED
    BY <2>1, VisibleStutter
<1>3. ASSUME NEW c \in Clients,
             \/ SendRegister(c) \/ CheckResponse(c) \/ AckResponse(c)
             \/ ReadLine(c) \/ EndOfInput(c)
             \/ RequestDestId(c) \/ ReceiveDestId(c) \/ SendToReceiver(c)
             \/ ReaderThreadTask(c) \/ KillClient(c)
      PROVE  Abstract!Next \/ UNCHANGED Abstract!mVars
  BY <1>3, RegisterStutters, CopyOwns, IdleStutters, ReadTypes, RequestStutters, ReplyStutters,
     SendPosts, ReaderPrints, KillLoses, Zenon
<1>4. QED
  BY <1>1, <1>2, <1>3, Visible, AddAnnounces, AnswerResolves, ListenStutters, Zenon
     DEF VisibleStep

\* The arbiter and its clients implement the Messenger, when clients start after
\* ArbiterInit and the arbiter is not killed; clients may be killed at any step.
\* However the threads interleave, no text is lost on the way, doubled, reordered
\* within its mailbox or put into another's, and a name always means whoever
\* registered it first (task3.c:5-16).
THEOREM ImplementsMessenger ==
    ASSUME ~EagerStart, MaxRestarts = 0
    PROVE  Spec => MessengerSpec
<1>1. MapInv /\ [Next]_vars => [Abstract!Next]_(Abstract!mVars)
  BY MapStep
<1>2. QED
  BY <1>1, MapInit, MapInvariant, PTL DEF Spec, MessengerSpec, Abstract!Spec
=============================================================================
