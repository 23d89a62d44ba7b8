----------------------- MODULE MessageDeliveryProofs -----------------------
(***************************************************************************)
(* What MessageDelivery promises, for any set of messages and contacts.    *)
(***************************************************************************)
EXTENDS MessageDelivery, TLAPS

\* What the server has was taken: the fact InOrder needs besides Once.
OnlyTaken ==
    \A c \in Contacts : \A j \in DOMAIN inbox[c] :
        \E k \in DOMAIN outbox[c] : outbox[c][k] = inbox[c][j]

IInv == TypeOK /\ Once /\ OnlyTaken /\ InOrder

\* Appending adds one position, the last, and keeps the others.
LEMMA Appended ==
    ASSUME NEW S, NEW s \in Seq(S), NEW e \in S
    PROVE  /\ Append(s, e) \in Seq(S)
           /\ DOMAIN s = 1..Len(s) /\ Len(s) \in Nat
           /\ DOMAIN Append(s, e) = 1..(Len(s) + 1)
           /\ \A i \in DOMAIN s : i \in DOMAIN Append(s, e) /\ Append(s, e)[i] = s[i]
           /\ Append(s, e)[Len(s) + 1] = e
           /\ \A i \in DOMAIN Append(s, e) : i \in DOMAIN s \/ i = Len(s) + 1
  OBVIOUS

\* A list of a contact stays one when a message of that contact that is not in
\* it is appended.
LEMMA OnceAppended ==
    ASSUME NEW c \in Contacts, NEW s \in Seq(Messages), NEW m \in Messages,
           ContactOf[m] = c, ~In(m, s), OfContact(c, s)
    PROVE  OfContact(c, Append(s, m))
<1>1. \A i \in DOMAIN s : s[i] # m
  BY DEF In
<1>2. ASSUME NEW i \in DOMAIN Append(s, m) PROVE ContactOf[Append(s, m)[i]] = c
  BY <1>2, Appended DEF OfContact
<1>3. ASSUME NEW i \in DOMAIN Append(s, m), NEW j \in DOMAIN Append(s, m),
             Append(s, m)[i] = Append(s, m)[j]
      PROVE  i = j
  <2>1. CASE i \in DOMAIN s /\ j \in DOMAIN s
    BY <1>3, <2>1, Appended DEF OfContact
  <2>2. CASE i \notin DOMAIN s \/ j \notin DOMAIN s
    BY <1>1, <1>3, <2>2, Appended
  <2> QED  BY <2>1, <2>2
<1> QED  BY <1>2, <1>3 DEF OfContact

\* Taking a message keeps the invariant: what the server has was taken before,
\* so that the new message is none of it.
LEMMA TakeStep ==
    ASSUME EachHasContact, IInv, NEW m \in Messages, Take(m)
    PROVE  IInv'
<1> DEFINE b == ContactOf[m]
           new == Append(outbox[b], m)
<1>1. b \in Contacts /\ outbox[b] \in Seq(Messages)
  BY DEF EachHasContact, IInv, TypeOK
<1>2. /\ outbox' = [outbox EXCEPT ![b] = new]
      /\ inbox' = inbox /\ refused' = refused
      /\ ~In(m, outbox[b])
  BY DEF Take, Taken
<1>3. /\ new \in Seq(Messages)
      /\ outbox'[b] = new
      /\ \A c \in Contacts : c # b => outbox'[c] = outbox[c]
  BY <1>1, <1>2, Appended DEF IInv, TypeOK
<1>4. \A i \in DOMAIN outbox[b] : i \in DOMAIN new /\ new[i] = outbox[b][i]
  BY <1>1, Appended
<1>5. /\ Len(outbox[b]) \in Nat /\ DOMAIN outbox[b] = 1..Len(outbox[b])
      /\ DOMAIN new = 1..(Len(outbox[b]) + 1)
      /\ new[Len(outbox[b]) + 1] = m
  BY <1>1, Appended
<1>6. TypeOK'
  BY <1>1, <1>2, <1>3 DEF IInv, TypeOK
<1>7. OfContact(b, new)
  BY <1>1, <1>2, OnceAppended DEF IInv, Once
<1> HIDE DEF new
<1>8. Once'
  BY <1>2, <1>3, <1>7 DEF IInv, Once, OfContact
<1>9. OnlyTaken'
  BY <1>2, <1>3, <1>4 DEF IInv, OnlyTaken
<1>10. InOrder'
  <2> SUFFICES ASSUME NEW c \in Contacts, NEW j \in DOMAIN inbox[c],
                      NEW i \in DOMAIN outbox'[c], NEW k \in DOMAIN outbox'[c],
                      i < k, outbox'[c][k] = inbox[c][j]
               PROVE  \/ outbox'[c][i] \in refused
                      \/ \E h \in 1..(j - 1) : inbox[c][h] = outbox'[c][i]
    BY <1>2 DEF InOrder
  <2>1. CASE c # b
    BY <1>3, <2>1 DEF IInv, InOrder
  <2>2. CASE c = b
    <3>1. PICK l \in DOMAIN outbox[b] : outbox[b][l] = inbox[c][j]
      BY <2>2 DEF IInv, OnlyTaken
    <3>2. inbox[c][j] # m
      BY <1>2, <3>1 DEF In
    <3>3. k # Len(outbox[b]) + 1
      BY <1>3, <1>5, <2>2, <3>2
    <3>4. k \in DOMAIN outbox[b] /\ i \in DOMAIN outbox[b]
      <4> DEFINE n == Len(outbox[b])
      <4>1. n \in Nat /\ DOMAIN outbox[b] = 1..n
        BY <1>5
      <4>2. i \in 1..(n + 1) /\ k \in 1..(n + 1)
        BY <1>3, <1>5, <2>2
      <4> HIDE DEF n
      <4>3. i \in 1..n /\ k \in 1..n
        <5>1. k # n + 1
          BY <3>3 DEF n
        <5> QED  BY <4>1, <4>2, <5>1
      <4> QED  BY <4>1, <4>3
    <3>5. outbox[b][k] = inbox[c][j] /\ outbox'[c][i] = outbox[b][i]
      BY <1>3, <1>4, <2>2, <3>4
    <3> QED  BY <2>2, <3>4, <3>5 DEF IInv, InOrder
  <2> QED  BY <2>1, <2>2
<1> QED  BY <1>6, <1>8, <1>9, <1>10 DEF IInv

\* Delivering one keeps it: what was taken before the message is settled.
LEMMA DeliverStep ==
    ASSUME EachHasContact, IInv, NEW m \in Messages, Deliver(m)
    PROVE  IInv'
<1> DEFINE b == ContactOf[m]
           new == Append(inbox[b], m)
<1>1. b \in Contacts /\ inbox[b] \in Seq(Messages) /\ outbox[b] \in Seq(Messages)
  BY DEF EachHasContact, IInv, TypeOK
<1>2. /\ inbox' = [inbox EXCEPT ![b] = new]
      /\ outbox' = outbox /\ refused' = refused
      /\ ~In(m, inbox[b])
  BY DEF Deliver, Delivered
<1>3. /\ new \in Seq(Messages)
      /\ inbox'[b] = new
      /\ \A c \in Contacts : c # b => inbox'[c] = inbox[c]
  BY <1>1, <1>2, Appended DEF IInv, TypeOK
<1>4. \A h \in DOMAIN inbox[b] : h \in DOMAIN new /\ new[h] = inbox[b][h]
  BY <1>1, Appended
<1>5. /\ Len(inbox[b]) \in Nat /\ DOMAIN inbox[b] = 1..Len(inbox[b])
      /\ DOMAIN new = 1..(Len(inbox[b]) + 1)
      /\ new[Len(inbox[b]) + 1] = m
  BY <1>1, Appended
<1>6. TypeOK'
  BY <1>1, <1>2, <1>3 DEF IInv, TypeOK
<1>7. OfContact(b, new)
  BY <1>1, <1>2, OnceAppended DEF IInv, Once
<1>8. PICK n \in DOMAIN outbox[b] :
          outbox[b][n] = m /\ \A i \in 1..(n - 1) : Settled(outbox[b][i])
  BY DEF Deliver, ItsTurn
<1> HIDE DEF new
<1>9. Once'
  BY <1>2, <1>3, <1>7 DEF IInv, Once, OfContact
<1>10. OnlyTaken'
  <2> SUFFICES ASSUME NEW c \in Contacts, NEW j \in DOMAIN inbox'[c]
               PROVE  \E k \in DOMAIN outbox[c] : outbox[c][k] = inbox'[c][j]
    BY <1>2 DEF OnlyTaken
  <2>1. CASE c # b
    BY <1>3, <2>1 DEF IInv, OnlyTaken
  <2>2. CASE c = b /\ j = Len(inbox[b]) + 1
    BY <1>3, <1>5, <1>8, <2>2
  <2>3. CASE c = b /\ j \in DOMAIN inbox[b]
    BY <1>3, <1>4, <2>3 DEF IInv, OnlyTaken
  <2> QED  BY <1>3, <1>5, <2>1, <2>2, <2>3
<1>11. InOrder'
  <2> SUFFICES ASSUME NEW c \in Contacts, NEW j \in DOMAIN inbox'[c],
                      NEW i \in DOMAIN outbox[c], NEW k \in DOMAIN outbox[c],
                      i < k, outbox[c][k] = inbox'[c][j]
               PROVE  \/ outbox[c][i] \in refused
                      \/ \E h \in 1..(j - 1) : inbox'[c][h] = outbox[c][i]
    BY <1>2 DEF InOrder
  <2>1. CASE c # b
    BY <1>3, <2>1 DEF IInv, InOrder
  <2>2. CASE c = b /\ j \in DOMAIN inbox[b]
    <3>1. outbox[c][k] = inbox[c][j]
      BY <1>3, <1>4, <2>2
    <3>2. ASSUME NEW h \in 1..(j - 1) PROVE inbox'[c][h] = inbox[c][h]
      <4>1. h \in DOMAIN inbox[b]
        BY <1>5, <2>2, <3>2
      <4> QED  BY <1>3, <1>4, <2>2, <4>1
    <3> QED  BY <2>2, <3>1, <3>2 DEF IInv, InOrder
  <2>3. CASE c = b /\ j = Len(inbox[b]) + 1
    <3>1. outbox[b][k] = m
      BY <1>3, <1>5, <2>3
    <3>2. k = n
      BY <1>1, <1>8, <2>3, <3>1 DEF IInv, Once, OfContact
    <3>3. i \in 1..(n - 1)
      BY <1>1, <2>3, <3>2
    <3>4. Settled(outbox[b][i]) /\ ContactOf[outbox[b][i]] = b
      BY <1>1, <1>8, <2>3, <3>3 DEF IInv, Once, OfContact
    <3>5. CASE outbox[b][i] \in refused
      BY <2>3, <3>5
    <3>6. CASE Delivered(outbox[b][i])
      <4>1. PICK h \in DOMAIN inbox[b] : inbox[b][h] = outbox[b][i]
        BY <3>4, <3>6 DEF Delivered, In
      <4>2. h \in 1..(j - 1) /\ inbox'[c][h] = outbox[b][i]
        BY <1>3, <1>4, <1>5, <2>3, <4>1
      <4> QED  BY <2>3, <4>2
    <3> QED  BY <3>4, <3>5, <3>6 DEF Settled
  <2> QED  BY <1>3, <1>5, <2>1, <2>2, <2>3
<1> QED  BY <1>6, <1>9, <1>10, <1>11 DEF IInv

\* Every step keeps the invariant.
LEMMA Step == ASSUME EachHasContact, IInv, [Next]_vars PROVE IInv'
<1>1. ASSUME NEW m \in Messages, Refuse(m) PROVE IInv'
  <2>1. inbox' = inbox /\ outbox' = outbox /\ refused' = refused \union {m}
    BY <1>1 DEF Refuse
  <2>2. TypeOK' /\ Once' /\ OnlyTaken'
    BY <2>1 DEF IInv, TypeOK, Once, OnlyTaken
  <2>3. InOrder'
    BY <2>1 DEF IInv, InOrder
  <2> QED  BY <2>2, <2>3 DEF IInv
<1>2. CASE UNCHANGED vars
  BY <1>2 DEF vars, IInv, TypeOK, Once, OfContact, OnlyTaken, InOrder
<1> QED  BY <1>1, <1>2, TakeStep, DeliverStep DEF Next

\* The initial states satisfy it.
LEMMA Start == ASSUME EachHasContact, Init PROVE IInv
<1>1. \A c \in Contacts : outbox[c] = <<>> /\ inbox[c] = <<>>
  BY DEF Init
<1>2. TypeOK
  BY DEF Init, TypeOK
<1> QED  BY <1>1, <1>2 DEF IInv, Once, OfContact, OnlyTaken, InOrder

\* A message is delivered once and, of its contact's messages, after all that
\* were taken earlier and not refused: face::insert_not_sent_message() decides
\* the order in which im::send_message_async() gives messages to the server.
THEOREM Delivery == ASSUME EachHasContact PROVE Spec => [](TypeOK /\ Once /\ InOrder)
<1>1. Init => IInv
  BY Start
<1>2. IInv /\ [Next]_vars => IInv'
  BY Step
<1>3. IInv => TypeOK /\ Once /\ InOrder
  BY DEF IInv
<1> QED  BY <1>1, <1>2, <1>3, PTL DEF Spec
=============================================================================
