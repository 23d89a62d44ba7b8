-------------------------- MODULE PendingTextsProofs --------------------------
(***************************************************************************)
(* The proof that module PendingMessages keeps the edits of a message: the *)
(* last text the archive took is in the list as an edit, on its way, or on *)
(* the server.  It rests on the order of delivery and on the chain being   *)
(* one, both proved in module PendingMessagesProofs.                       *)
(***************************************************************************)
EXTENDS PendingMessagesProofs

-----------------------------------------------------------------------------
(* The entries of a message. *)

\* A list has message m with text v, edited since it was posted or not.
Shows(m, v, e) ==
    \E i \in DOMAIN pending[ContactOf[m]] :
        LET o == heap[pending[ContactOf[m]][i]]
        IN  o.message = m /\ o.version = v /\ o.modified = e

HasEdit(m) == \E v \in Versions : Shows(m, v, TRUE)

\* A step that leaves the entries of message m as they are, post times aside.
SameEntries(m) == \A v \in Versions, e \in BOOLEAN : Shows(m, v, e)' <=> Shows(m, v, e)

\* The message whose entry the first task of the archive thread may change.
Targets(m) ==
    \/ DoInsert /\ Head(archive).object.message = m
    \/ DoReplace /\ Head(archive).object.message = m
    \/ (DoRemove \/ DoImState) /\ Head(archive).message = m

\* What an entry shows, by the object at its place.
ShowsAt(m, v, e, r) == heap[r].message = m /\ heap[r].version = v /\ heap[r].modified = e

\* Where a list shows a message, and what it may show.
LEMMA ShowsPlace ==
    ASSUME TypeOK, NEW m \in Messages, NEW v, NEW e
    PROVE  /\ ContactOf[m] \in Contacts
           /\ Shows(m, v, e) <=> \E i \in 1..Len(pending[ContactOf[m]]) :
                                     ShowsAt(m, v, e, pending[ContactOf[m]][i])
           /\ Shows(m, v, e) => PlacesOf(m) # {} /\ v \in Versions /\ e \in BOOLEAN
<1>1. ContactOf[m] \in Contacts
  BY PendingMessagesAssumption
<1>2. PICK c \in Contacts : c = ContactOf[m]
  BY <1>1
<1>3. DOMAIN pending[c] = 1..Len(pending[c])
  BY ListTypes
<1>4. ASSUME NEW i \in 1..Len(pending[c]), ShowsAt(m, v, e, pending[c][i])
      PROVE  i \in PlacesOf(m) /\ v \in Versions /\ e \in BOOLEAN
  <2>1. pending[c][i] \in Refs
    BY ListTypes
  <2>2. heap[pending[c][i]] \in Objects
    BY <2>1, ReferTypes
  <2> QED  BY <1>2, <1>3, <1>4, <2>2 DEF PlacesOf, ShowsAt, Objects
<1> QED  BY <1>1, <1>2, <1>3, <1>4 DEF Shows, ShowsAt

\* An object that a list goes on holding shows what it did, if its edit is not noted.
LEMMA PlacesShow ==
    ASSUME TypeOK, TypeOK', SameMessages, NEW m \in Messages, NEW c, c = ContactOf[m],
           \A r \in Refs : heap[r].message = m => heap'[r].modified = heap[r].modified,
           \A i \in DOMAIN pending[c] :
               heap[pending[c][i]].message = m
                   => \E j \in DOMAIN pending'[c] : pending'[c][j] = pending[c][i],
           \A j \in DOMAIN pending'[c] :
               heap'[pending'[c][j]].message = m
                   => \E i \in DOMAIN pending[c] : pending[c][i] = pending'[c][j]
    PROVE  SameEntries(m)
<1>1. c \in Contacts
  BY ShowsPlace
<1>2. \A i \in DOMAIN pending[c] : pending[c][i] \in Refs
  BY <1>1, ListTypes
<1>3. ASSUME NEW r \in Refs
      PROVE  /\ heap'[r].message = heap[r].message /\ heap'[r].version = heap[r].version
             /\ heap[r].message = m => heap'[r].modified = heap[r].modified
  BY DEF SameMessages
<1>4. ASSUME NEW v \in Versions, NEW e \in BOOLEAN, Shows(m, v, e)
      PROVE  Shows(m, v, e)'
  <2>1. PICK i \in DOMAIN pending[c] : ShowsAt(m, v, e, pending[c][i])
    BY <1>4 DEF Shows, ShowsAt
  <2>2. PICK j \in DOMAIN pending'[c] : pending'[c][j] = pending[c][i]
    BY <2>1 DEF ShowsAt
  <2>3. PICK r \in Refs : r = pending[c][i] /\ r = pending'[c][j]
    BY <1>2, <2>2
  <2>4. /\ heap'[r].message = m /\ heap'[r].version = v /\ heap'[r].modified = e
    BY <1>3, <2>1, <2>3 DEF ShowsAt
  <2> QED  BY <2>3, <2>4 DEF Shows
<1>5. ASSUME NEW v \in Versions, NEW e \in BOOLEAN, Shows(m, v, e)'
      PROVE  Shows(m, v, e)
  <2>1. PICK j \in DOMAIN pending'[c] :
            /\ heap'[pending'[c][j]].message = m /\ heap'[pending'[c][j]].version = v
            /\ heap'[pending'[c][j]].modified = e
    BY <1>5 DEF Shows
  <2>2. PICK i \in DOMAIN pending[c] : pending[c][i] = pending'[c][j]
    BY <2>1
  <2>3. PICK r \in Refs : r = pending[c][i] /\ r = pending'[c][j]
    BY <1>2, <2>2
  <2>4. ShowsAt(m, v, e, r)
    BY <1>3, <2>1, <2>3 DEF ShowsAt
  <2> QED  BY <2>3, <2>4 DEF Shows, ShowsAt
<1> QED  BY <1>4, <1>5 DEF SameEntries

\* Every step leaves the entries of a message as they are, but for what the
\* archive thread does with that message.
LEMMA EntriesStay ==
    ASSUME TypeInv, [Next]_vars, NEW m \in Messages, ~Targets(m)
    PROVE  SameEntries(m)
<1>h. /\ TypeOK /\ archive \in Seq(ArchiveTasks)
      /\ heap \in Seq(Objects) /\ Len(heap) \in Nat /\ pending \in [Contacts -> Seq(Refs)]
      /\ ContactOf \in [Messages -> Contacts]
  BY TypeParts
<1>g. TypeOK /\ TypeOK' /\ SameMessages
  <2>1. TypeInv'
    BY TypeInvStep
  <2>2. TypeOK'
    BY <2>1 DEF TypeInv
  <2> QED  BY <1>h, <2>2, MessagesStay
<1>c. PICK c \in Contacts : c = ContactOf[m]
  BY <1>h
<1>t. ASSUME \A r \in Refs : heap[r].message = m => heap'[r].modified = heap[r].modified,
             \A i \in DOMAIN pending[c] :
                 heap[pending[c][i]].message = m
                     => \E j \in DOMAIN pending'[c] : pending'[c][j] = pending[c][i],
             \A j \in DOMAIN pending'[c] :
                 heap'[pending'[c][j]].message = m
                     => \E i \in DOMAIN pending[c] : pending[c][i] = pending'[c][j]
      PROVE  SameEntries(m)
  <2>1. TypeOK /\ TypeOK' /\ SameMessages
    BY ONLY <1>g
  <2> QED  BY ONLY <2>1, <1>c, <1>t, PlacesShow, c \in Contacts, m \in Messages
<1>s. ASSUME pending'[c] = pending[c],
             \A r \in Refs : heap[r].message = m => heap'[r].modified = heap[r].modified
      PROVE  SameEntries(m)
  BY <1>s, <1>t
<1>0. ASSUME UNCHANGED <<heap, pending>> PROVE SameEntries(m)
  BY <1>0, <1>s
<1>a. ASSUME NEW o \in Objects, heap' = Append(heap, o), NEW r \in Refs
      PROVE  heap'[r].modified = heap[r].modified
  BY <1>a, <1>h, AppendProperties DEF Refs
<1>1. CASE DoInsert
  <2>1. archive # <<>> /\ Head(archive).kind = "insert"
    BY <1>1 DEF DoInsert, ArchiveTask
  <2>2. PICK o \in Objects : o = Head(archive).object
    BY <1>h, <2>1, ArchiveHead
  <2>3. PICK d \in Contacts : d = ContactOf[o.message]
    BY <1>h DEF Objects
  <2>4. /\ heap' = Append(heap, o)
        /\ pending' = [pending EXCEPT ![d] = Append(@, Len(heap) + 1)]
    BY <1>1, <2>2, <2>3 DEF DoInsert
  <2>5. o.message # m /\ heap'[Len(heap) + 1] = o
    BY <1>1, <1>h, <2>2, <2>4, AppendProperties DEF Targets
  <2>6. CASE d # c
    BY <1>a, <1>h, <1>s, <2>4, <2>6
  <2>7. CASE d = c
    <3>1. /\ pending[c] \in Seq(Nat) /\ pending'[c] = Append(pending[c], Len(heap) + 1)
          /\ Len(heap) + 1 \in Nat
      <4>1. pending[c] \in Seq(Refs) /\ Refs \subseteq Nat
        BY <1>h DEF Refs
      <4>2. pending[c] \in Seq(Nat)
        BY <4>1, SeqGrows
      <4> QED  BY <1>h, <2>4, <2>7, <4>2
    <3>2. /\ DOMAIN pending'[c] = 1..(Len(pending[c]) + 1) /\ DOMAIN pending[c] = 1..Len(pending[c])
          /\ \A i \in 1..Len(pending[c]) : pending'[c][i] = pending[c][i]
          /\ pending'[c][Len(pending[c]) + 1] = Len(heap) + 1 /\ Len(pending[c]) \in Nat
      BY <3>1, AppendProperties, LenProperties
    <3>3. ASSUME NEW i \in DOMAIN pending[c]
          PROVE  \E j \in DOMAIN pending'[c] : pending'[c][j] = pending[c][i]
      BY <3>2
    <3>4. ASSUME NEW j \in DOMAIN pending'[c], heap'[pending'[c][j]].message = m
          PROVE  \E i \in DOMAIN pending[c] : pending[c][i] = pending'[c][j]
      <4>1. j # Len(pending[c]) + 1
        BY <2>5, <3>2, <3>4
      <4> QED  BY <3>2, <4>1
    <3>5. \A r \in Refs : heap'[r].modified = heap[r].modified
      BY <1>a, <2>4
    <3> QED  BY <1>t, <3>3, <3>4, <3>5
  <2> QED  BY <2>6, <2>7
<1>2. CASE DoReplace
  <2>1. archive # <<>> /\ Head(archive).kind = "replace"
    BY <1>2 DEF DoReplace, ArchiveTask
  <2>2. PICK o \in Objects, n \in Messages : o = Head(archive).object /\ n = o.message
    BY <1>h, <2>1, ArchiveHead DEF Objects
  <2>3. CASE PlacesOf(n) = {}
    BY <1>0, <1>2, <2>2, <2>3 DEF DoReplace
  <2>4. CASE PlacesOf(n) # {}
    <3>1. PICK d \in Contacts, i \in Nat :
              /\ d = ContactOf[n] /\ i = Min(PlacesOf(n))
              /\ i \in 1..Len(pending[d]) /\ heap[pending[d][i]].message = n
      <4>1. PICK d \in Contacts : d = ContactOf[n]
        BY <1>h
      <4>2. PICK i \in 1..Len(pending[d]) : /\ i = Min(PlacesOf(n))
                                            /\ heap[pending[d][i]].message = n
        BY <1>h, <2>4, <4>1, PlaceOf
      <4> QED  BY <4>1, <4>2
    <3>2. /\ heap' = Append(heap, o)
          /\ pending' = [pending EXCEPT ![d] = [@ EXCEPT ![i] = Len(heap) + 1]]
      BY <1>2, <2>2, <2>4, <3>1 DEF DoReplace, PutAt
    <3>3. n # m /\ heap'[Len(heap) + 1] = o
      BY <1>2, <1>h, <2>2, <3>2, AppendProperties DEF Targets
    <3>4. CASE d # c
      BY <1>a, <1>h, <1>s, <3>2, <3>4
    <3>5. CASE d = c
      <4>1. pending'[c] = [pending[c] EXCEPT ![i] = Len(heap) + 1]
        BY <1>h, <3>2, <3>5
      <4>2. DOMAIN pending'[c] = DOMAIN pending[c] /\ DOMAIN pending[c] = 1..Len(pending[c])
        BY <1>h, <4>1, ListTypes
      <4>3. /\ pending'[c][i] = Len(heap) + 1
            /\ \A j \in DOMAIN pending[c] : j # i => pending'[c][j] = pending[c][j]
        BY <3>1, <3>5, <4>1, <4>2
      <4>4. ASSUME NEW j \in DOMAIN pending[c], heap[pending[c][j]].message = m
            PROVE  \E k \in DOMAIN pending'[c] : pending'[c][k] = pending[c][j]
        <5>1. j # i
          BY <3>1, <3>3, <3>5, <4>4
        <5> QED  BY <4>2, <4>3, <5>1
      <4>5. ASSUME NEW k \in DOMAIN pending'[c], heap'[pending'[c][k]].message = m
            PROVE  \E j \in DOMAIN pending[c] : pending[c][j] = pending'[c][k]
        <5>1. k # i
          BY <2>2, <3>3, <4>3, <4>5
        <5> QED  BY <4>2, <4>3, <5>1
      <4>6. \A r \in Refs : heap'[r].modified = heap[r].modified
        BY <1>a, <3>2
      <4> QED  BY <1>t, <4>4, <4>5, <4>6
    <3> QED  BY <3>4, <3>5
  <2> QED  BY <2>3, <2>4
<1>3. CASE DoRemove \/ DoImState
  <2>1. archive # <<>> /\ Head(archive).kind \in {"remove", "imstate"}
    BY <1>3 DEF DoRemove, DoImState, ArchiveTask
  <2>2. PICK n \in Messages : n = Head(archive).message /\ n # m
    BY <1>3, <1>h, <2>1, ArchiveHead DEF Targets
  <2>3. \/ UNCHANGED <<heap, pending>>
        \/ /\ PlacesOf(n) # {} /\ pending' = pending
           /\ heap' = [heap EXCEPT ![pending[ContactOf[n]][Min(PlacesOf(n))]].modified = FALSE]
        \/ /\ PlacesOf(n) # {} /\ heap' = heap
           /\ pending' = [pending EXCEPT ![ContactOf[n]] = RemoveAt(@, Min(PlacesOf(n)))]
    <3>1. CASE DoRemove
      BY <2>2, <3>1 DEF DoRemove, RemovePending
    <3>2. CASE DoImState
      BY <2>2, <3>2 DEF DoImState
    <3> QED  BY <1>3, <3>1, <3>2
  <2>4. PlacesOf(n) # {} =>
          \E d \in Contacts, i \in Nat :
              /\ d = ContactOf[n] /\ i = Min(PlacesOf(n)) /\ pending[d][i] \in Refs
              /\ i \in 1..Len(pending[d]) /\ heap[pending[d][i]].message = n
    <3> SUFFICES ASSUME PlacesOf(n) # {}
                 PROVE  \E d \in Contacts, i \in Nat :
                            /\ d = ContactOf[n] /\ i = Min(PlacesOf(n)) /\ pending[d][i] \in Refs
                            /\ i \in 1..Len(pending[d]) /\ heap[pending[d][i]].message = n
      OBVIOUS
    <3>1. PICK d \in Contacts : d = ContactOf[n]
      BY <1>h
    <3>2. PICK i \in 1..Len(pending[d]) : /\ i = Min(PlacesOf(n)) /\ pending[d][i] \in Refs
                                          /\ heap[pending[d][i]].message = n
      BY <1>h, <3>1, PlaceOf
    <3> QED  BY <3>1, <3>2
  <2>5. CASE UNCHANGED <<heap, pending>>
    BY <1>0, <2>5
  <2>6. CASE /\ PlacesOf(n) # {} /\ pending' = pending
             /\ heap' = [heap EXCEPT ![pending[ContactOf[n]][Min(PlacesOf(n))]].modified = FALSE]
    <3>1. PICK x \in Refs :
              /\ heap[x].message = n
              /\ heap' = [heap EXCEPT ![x] = [heap[x] EXCEPT !.modified = FALSE]]
      BY <2>4, <2>6
    <3>2. ASSUME NEW r \in Refs, heap[r].message = m PROVE heap'[r].modified = heap[r].modified
      <4>1. r # x
        BY <2>2, <3>1, <3>2
      <4> QED  BY <1>h, <3>1, <4>1
    <3> QED  BY <1>s, <2>6, <3>2
  <2>7. CASE /\ PlacesOf(n) # {} /\ heap' = heap
             /\ pending' = [pending EXCEPT ![ContactOf[n]] = RemoveAt(@, Min(PlacesOf(n)))]
    <3>1. PICK d \in Contacts, i \in Nat :
              /\ d = ContactOf[n] /\ i = Min(PlacesOf(n))
              /\ i \in 1..Len(pending[d]) /\ heap[pending[d][i]].message = n
      BY <2>4, <2>7
    <3>2. pending' = [pending EXCEPT ![d] = RemoveAt(pending[d], i)]
      BY <2>7, <3>1
    <3>3. CASE d # c
      BY <1>h, <1>s, <2>7, <3>2, <3>3
    <3>4. CASE d = c
      <4>1. pending[c] \in Seq(Refs) /\ pending'[c] = RemoveAt(pending[c], i)
        BY <1>h, <3>2, <3>4
      <4>2. /\ Len(RemoveAt(pending[c], i)) = Len(pending[c]) - 1
            /\ RemoveAt(pending[c], i) \in Seq(Refs)
            /\ \A j \in 1..(Len(pending[c]) - 1) :
                  RemoveAt(pending[c], i)[j]
                    = IF j < i THEN pending[c][j] ELSE pending[c][j + 1]
        <5>1. PICK s \in Seq(Refs) : s = pending[c]
          BY <4>1
        <5>2. i \in 1..Len(s)
          BY <3>1, <3>4, <5>1
        <5>3. /\ RemoveAt(s, i) \in Seq(Refs)
              /\ Len(RemoveAt(s, i)) = Len(s) - 1
              /\ \A j \in 1..(Len(s) - 1) :
                    RemoveAt(s, i)[j] = IF j < i THEN s[j] ELSE s[j + 1]
          BY ONLY s \in Seq(Refs), <5>2, RemoveAtElements
        <5> QED  BY <5>1, <5>3
      <4>3. /\ DOMAIN pending'[c] = 1..(Len(pending[c]) - 1) /\ Len(pending[c]) \in Nat
            /\ DOMAIN pending[c] = 1..Len(pending[c])
        BY <4>1, <4>2, LenProperties
      <4>4. ASSUME NEW j \in DOMAIN pending[c], heap[pending[c][j]].message = m
            PROVE  \E k \in DOMAIN pending'[c] : pending'[c][k] = pending[c][j]
        <5>1. j # i
          BY <2>2, <3>1, <3>4, <4>4
        <5>2. CASE j < i
          <6>1. j \in 1..(Len(pending[c]) - 1)
            BY <3>1, <3>4, <4>3, <5>2
          <6> QED  BY <4>1, <4>2, <4>3, <5>2, <6>1
        <5>3. CASE j > i
          <6>1. j - 1 \in 1..(Len(pending[c]) - 1) /\ ~(j - 1 < i) /\ (j - 1) + 1 = j
            BY <3>1, <3>4, <4>3, <5>3
          <6> QED  BY <4>1, <4>2, <4>3, <6>1
        <5> QED  BY <3>1, <4>3, <5>1, <5>2, <5>3
      <4>5. ASSUME NEW k \in DOMAIN pending'[c]
            PROVE  \E j \in DOMAIN pending[c] : pending[c][j] = pending'[c][k]
        <5>1. /\ k \in 1..(Len(pending[c]) - 1) /\ k \in 1..Len(pending[c])
              /\ k + 1 \in 1..Len(pending[c])
          BY <4>3
        <5> QED  BY <4>1, <4>2, <4>3, <5>1
      <4> QED  BY <1>t, <2>7, <4>4, <4>5
    <3> QED  BY <3>3, <3>4
  <2> QED  BY <2>3, <2>5, <2>6, <2>7
<1>4. CASE DoTouch
  <2>1. archive # <<>> /\ Head(archive).kind = "touch" /\ pending' = pending
    BY <1>4 DEF DoTouch, ArchiveTask
  <2>2. PICK n \in Messages : n = heap[Head(archive).ref].message
    BY <1>h, <2>1, ArchiveHead, ReferTypes
  <2>3. CASE PlacesOf(n) = {}
    BY <1>0, <1>4, <2>1, <2>2, <2>3 DEF DoTouch
  <2>4. CASE PlacesOf(n) # {}
    <3>1. PICK x \in Refs : x = pending[ContactOf[n]][Min(PlacesOf(n))]
      BY <1>h, <2>4, PlaceOf
    <3>2. heap' = [heap EXCEPT ![x] = [heap[x] EXCEPT !.recent = TRUE]] /\ heap[x] \in Objects
      BY <1>4, <1>h, <2>2, <2>4, <3>1, ReferTypes DEF DoTouch
    <3>3. \A r \in Refs : heap'[r].modified = heap[r].modified
      BY <1>h, <3>2 DEF Objects
    <3> QED  BY <1>s, <2>1, <3>3
  <2> QED  BY <2>3, <2>4
<1>5. CASE Tick \/ Crash
  <2>1. /\ heap' = [r \in Refs |-> [heap[r] EXCEPT !.recent = FALSE]] /\ pending' = pending
    BY <1>5 DEF Tick, Crash
  <2>2. \A r \in Refs : heap'[r].modified = heap[r].modified
    BY <1>h, <2>1, ReferTypes DEF Objects
  <2> QED  BY <1>s, <2>1, <2>2
<1>6. CASE [\/ \E n \in Messages : SendMessage(n) \/ EditMessage(n)
            \/ Resume
            \/ \E n \in Messages, how \in Confirmations : Confirm(n, how)
            \/ DoGet
            \/ Core \/ Serve \/ Answer \/ Fire]_vars
  <2>1. UNCHANGED <<heap, pending>>
    BY <1>6 DEF SendMessage, EditMessage, Resume, Confirm, DoGet, Core,
                OnGotNothing, OnGotRecent, OnGotReady, OnTouched, GoOn, CoreTask,
                Serve, ServerTakes, Answer, AnswerOk, AnswerNoHistoryId, AnswerError,
                AnswerRejected, RequestDropped, Answered, Fire, FireTimer, vars
  <2> QED  BY <1>0, <2>1
<1> QED
  BY <1>1, <1>2, <1>3, <1>4, <1>5, <1>6 DEF Next, Archive

\* A message that is about to be taken was not taken before.
LEMMA InsertsNew ==
    ASSUME TypeInv, TakenOnce, DoInsert, NEW m \in Messages, m = Head(archive).object.message
    PROVE  ~Delivery!Taken(m)
<1>1. /\ TypeOK /\ archive \in Seq(ArchiveTasks) /\ archive # <<>>
      /\ Head(archive).kind = "insert"
  BY DEF TypeInv, TypeOK, DoInsert, ArchiveTask
<1>2. PICK o \in Objects : o = Head(archive).object /\ Head(archive) = InsertTask(o)
  BY <1>1, ArchiveHead DEF ArchiveTasks, GetTask, InsertTask
<1>3. Weight(Head(archive), Inserts(m)) = 1
  BY <1>2, InsertWeights
<1>4. Among(archive, Inserts(m)) = Among(Tail(archive), Inserts(m)) + Weight(Head(archive), Inserts(m))
  BY <1>1, AmongTail
<1>5. Tail(archive) \in Seq(ArchiveTasks)
  BY <1>1, ToSetTail
<1>6. Among(Tail(archive), Inserts(m)) \in Nat
  BY <1>5, AmongType
<1>7. ASSUME Delivery!Taken(m) PROVE FALSE
  <2>1. Among(archive, Inserts(m)) + 1 <= IF written[m] = 0 THEN 0 ELSE 1
    BY <1>7 DEF TakenOnce
  <2> QED  BY <1>3, <1>4, <1>6, <2>1
<1> QED  BY <1>7

\* A pending message was taken.
LEMMA ListedTaken ==
    ASSUME TypeOK, Lists, NEW c \in Contacts, NEW j \in DOMAIN pending[c]
    PROVE  Listed(c, j) \in Messages /\ ContactOf[Listed(c, j)] = c /\ Delivery!Taken(Listed(c, j))
<1>1. PICK a \in DOMAIN taken[c] : taken[c][a] = Listed(c, j)
  BY DEF Lists, PendingTurn
<1>2. Listed(c, j) \in Messages /\ ContactOf[Listed(c, j)] = c
  BY ListTypes DEF Lists, RightLists
<1> QED  BY <1>1, <1>2 DEF Delivery!Taken, Delivery!In

\* A message stands in its list once.
ListedOnce ==
    \A c \in Contacts : \A j, k \in DOMAIN pending[c] : Listed(c, j) = Listed(c, k) => j = k

\* Only what was not taken is inserted, so no step puts it there twice.
LEMMA ListedOnceStep ==
    ASSUME TypeInv, Lists, TakenOnce, ListedOnce, [Next]_vars
    PROVE  ListedOnce'
<1>g. TypeOK /\ SameMessages
  BY MessagesStay DEF TypeInv
<1>h. /\ archive \in Seq(ArchiveTasks)
      /\ heap \in Seq(Objects) /\ Len(heap) \in Nat /\ pending \in [Contacts -> Seq(Refs)]
      /\ ContactOf \in [Messages -> Contacts]
  BY <1>g, PendingMessagesAssumption DEF TypeOK
<1>m. \A c \in Contacts : \A j \in 1..Len(pending[c]) :
          heap'[pending[c][j]].message = Listed(c, j)
  BY <1>g, ListTypes DEF SameMessages, Listed
<1>d. \A c \in Contacts : DOMAIN pending[c] = 1..Len(pending[c]) /\ Len(pending[c]) \in Nat
  BY <1>g, ListTypes
<1>0. ASSUME \A c \in Contacts :
                 /\ DOMAIN pending'[c] = DOMAIN pending[c]
                 /\ \A j \in 1..Len(pending[c]) : heap'[pending'[c][j]].message = Listed(c, j)
      PROVE  ListedOnce'
  <2>1. ASSUME NEW c \in Contacts, NEW j \in DOMAIN pending[c]
        PROVE  j \in DOMAIN pending'[c] /\ Listed(c, j)' = Listed(c, j)
    BY <1>0, <1>d DEF Listed
  <2> QED  BY <1>0, <2>1 DEF ListedOnce
<1>1. CASE DoInsert
  <2>1. archive # <<>> /\ Head(archive).kind = "insert"
    BY <1>1 DEF DoInsert, ArchiveTask
  <2>2. PICK o \in Objects : o = Head(archive).object
    BY <1>g, <2>1, ArchiveHead
  <2>3. PICK n \in Messages : n = o.message /\ ~Delivery!Taken(n)
    BY <1>1, <2>2, InsertsNew DEF Objects
  <2>4. PICK d \in Contacts : d = ContactOf[n]
    BY <1>h
  <2>5. /\ heap' = Append(heap, o)
        /\ pending' = [pending EXCEPT ![d] = Append(@, Len(heap) + 1)]
    BY <1>1, <2>2, <2>3, <2>4 DEF DoInsert
  <2>6. heap'[Len(heap) + 1].message = n
    BY <1>h, <2>3, <2>5, AppendProperties
  <2>k. PICK k \in Nat, h \in Nat : k = Len(pending[d]) /\ h = Len(heap) + 1
    BY <1>d, <1>h
  <2>7. /\ DOMAIN pending'[d] = 1..(k + 1) /\ pending'[d][k + 1] = h
        /\ \A i \in 1..k : pending'[d][i] = pending[d][i]
    <3>1. pending[d] \in Seq(Refs) /\ Refs \subseteq Nat
      BY <1>h DEF Refs
    <3>2. pending[d] \in Seq(Nat)
      BY <3>1, SeqGrows
    <3>3. pending'[d] = Append(pending[d], h)
      BY <1>h, <2>5, <2>k
    <3> QED  BY <2>k, <3>2, <3>3, AppendProperties, LenProperties
  <2>8. \A j \in 1..k : Listed(d, j)' = Listed(d, j)
    BY <1>m, <2>7, <2>k DEF Listed
  <2>9. Listed(d, k + 1)' = n
    BY <2>6, <2>7, <2>k DEF Listed
  <2>10. \A j \in 1..k : Listed(d, j) # n
    <3>1. \A j \in 1..k : Delivery!Taken(Listed(d, j))
      BY <1>d, <1>g, <2>k, ListedTaken
    <3> QED  BY <2>3, <3>1
  <2>11. \A i, j \in DOMAIN pending'[d] : Listed(d, i)' = Listed(d, j)' => i = j
    <3>1. k \in Nat /\ DOMAIN pending[d] = 1..k
      BY <1>d, <2>k
    <3>2. \A i, j \in 1..k : Listed(d, i)' = Listed(d, j)' => i = j
      BY <2>8, <3>1 DEF ListedOnce
    <3>3. \A i \in 1..(k + 1) : i \in 1..k \/ i = k + 1
      BY <3>1
    <3> SUFFICES ASSUME NEW i \in 1..(k + 1), NEW j \in 1..(k + 1), Listed(d, i)' = Listed(d, j)'
                 PROVE  i = j
      BY <2>7
    <3>4. CASE i \in 1..k /\ j \in 1..k
      BY <3>2, <3>4
    <3>5. CASE i \in 1..k /\ j = k + 1
      BY <2>8, <2>9, <2>10, <3>5
    <3>6. CASE i = k + 1 /\ j \in 1..k
      BY <2>8, <2>9, <2>10, <3>6
    <3> QED  BY <3>3, <3>4, <3>5, <3>6
  <2>12. ASSUME NEW c \in Contacts, c # d, NEW i \in DOMAIN pending'[c], NEW j \in DOMAIN pending'[c],
                Listed(c, i)' = Listed(c, j)'
         PROVE  i = j
    <3>1. pending'[c] = pending[c]
      BY <1>h, <2>5, <2>12
    <3>2. Listed(c, i)' = Listed(c, i) /\ Listed(c, j)' = Listed(c, j)
      BY <1>d, <1>m, <2>12, <3>1 DEF Listed
    <3> QED  BY <2>12, <3>1, <3>2 DEF ListedOnce
  <2> QED  BY <2>11, <2>12 DEF ListedOnce
<1>2. CASE DoReplace
  BY <1>0, <1>2, <1>g, PlacesReplaced
<1>3. ASSUME UNCHANGED pending PROVE ListedOnce'
  BY <1>0, <1>3, <1>m
<1>4. CASE DoRemove \/ DoImState
  <2>1. archive # <<>> /\ Head(archive).kind \in {"remove", "imstate"}
    BY <1>4 DEF DoRemove, DoImState, ArchiveTask
  <2>2. PICK n \in Messages : n = Head(archive).message
    BY <1>g, <2>1, ArchiveHead
  <2>3. \/ pending' = pending
        \/ /\ PlacesOf(n) # {}
           /\ pending' = [pending EXCEPT ![ContactOf[n]] = RemoveAt(@, Min(PlacesOf(n)))]
    <3>1. CASE DoRemove
      BY <2>2, <3>1 DEF DoRemove, RemovePending
    <3>2. CASE DoImState
      BY <2>2, <3>2 DEF DoImState
    <3> QED  BY <1>4, <3>1, <3>2
  <2>4. CASE /\ PlacesOf(n) # {}
             /\ pending' = [pending EXCEPT ![ContactOf[n]] = RemoveAt(@, Min(PlacesOf(n)))]
    <3>1. PICK d \in Contacts : d = ContactOf[n]
      BY <1>h
    <3>2. PICK i \in 1..Len(pending[d]) : i = Min(PlacesOf(n))
      BY <1>g, <2>4, <3>1, PlaceOf
    <3> DEFINE k == Len(pending[d])
    <3>3. pending[d] \in Seq(Refs) /\ pending' = [pending EXCEPT ![d] = RemoveAt(pending[d], i)]
      BY <1>h, <2>4, <3>1, <3>2
    <3>4. /\ DOMAIN pending'[d] = 1..(k - 1)
          /\ \A j \in 1..(k - 1) :
                pending'[d][j] = IF j < i THEN pending[d][j] ELSE pending[d][j + 1]
      <4>1. pending'[d] = RemoveAt(pending[d], i)
        BY <1>h, <3>3
      <4>2. /\ Len(RemoveAt(pending[d], i)) = k - 1 /\ RemoveAt(pending[d], i) \in Seq(Refs)
            /\ \A j \in 1..(k - 1) :
                 RemoveAt(pending[d], i)[j] = IF j < i THEN pending[d][j] ELSE pending[d][j + 1]
        BY <3>3, RemoveAtElements
      <4> QED  BY <4>1, <4>2, LenProperties
    <3>5. \A j \in 1..(k - 1) : Listed(d, j)' = IF j < i THEN Listed(d, j) ELSE Listed(d, j + 1)
      <4> SUFFICES ASSUME NEW j \in 1..(k - 1)
                   PROVE  Listed(d, j)' = IF j < i THEN Listed(d, j) ELSE Listed(d, j + 1)
        OBVIOUS
      <4>1. j \in 1..k /\ j + 1 \in 1..k
        BY <1>d
      <4> QED  BY <1>m, <3>4, <4>1 DEF Listed
    <3>6. \A a, b \in 1..(k - 1) : Listed(d, a)' = Listed(d, b)' => a = b
      <4> SUFFICES ASSUME NEW a \in 1..(k - 1), NEW b \in 1..(k - 1), Listed(d, a)' = Listed(d, b)'
                   PROVE  a = b
        OBVIOUS
      <4>1. PICK x \in 1..k, y \in 1..k : /\ x = (IF a < i THEN a ELSE a + 1)
                                          /\ y = (IF b < i THEN b ELSE b + 1)
        BY <1>d
      <4>2. Listed(d, x) = Listed(d, y)
        BY <3>5, <4>1
      <4>3. x = y
        BY <1>d, <4>2 DEF ListedOnce
      <4> QED  BY <1>d, <3>2, <4>1, <4>3
    <3>7. ASSUME NEW c \in Contacts, c # d, NEW a \in DOMAIN pending'[c], NEW b \in DOMAIN pending'[c],
                 Listed(c, a)' = Listed(c, b)'
          PROVE  a = b
      <4>1. pending'[c] = pending[c]
        BY <1>h, <3>3, <3>7
      <4>2. Listed(c, a)' = Listed(c, a) /\ Listed(c, b)' = Listed(c, b)
        BY <1>d, <1>m, <3>7, <4>1 DEF Listed
      <4> QED  BY <3>7, <4>1, <4>2 DEF ListedOnce
    <3> QED  BY <3>4, <3>6, <3>7 DEF ListedOnce
  <2> QED  BY <1>3, <2>3, <2>4
<1>5. CASE [\/ \E m \in Messages : SendMessage(m) \/ EditMessage(m)
            \/ Resume
            \/ \E m \in Messages, how \in Confirmations : Confirm(m, how)
            \/ DoGet \/ DoTouch
            \/ Core \/ Serve \/ Answer \/ Tick \/ Fire \/ Crash]_vars
  <2>1. UNCHANGED pending
    BY <1>5 DEF SendMessage, EditMessage, Resume, Confirm, DoGet, DoTouch, Core,
                OnGotNothing, OnGotRecent, OnGotReady, OnTouched, GoOn, CoreTask,
                Serve, ServerTakes, Answer, AnswerOk, AnswerNoHistoryId, AnswerError,
                AnswerRejected, RequestDropped, Answered, Tick, Fire, FireTimer, Crash, vars
  <2> QED  BY <1>3, <2>1
<1> QED
  BY <1>1, <1>2, <1>4, <1>5 DEF Next, Archive

\* What a step other than the archive thread's gives it to do.
NewTask(t) ==
    \/ \E m \in Messages : SendMessage(m) /\ t = InsertTask(NewObject(m, 1, FALSE))
    \/ \E m \in Messages :
          EditMessage(m) /\ t = ReplaceTask(NewObject(m, written[m] + 1, TRUE))
    \/ \E m \in Messages, how \in Confirmations :
          Confirm(m, how) /\ t \in {RemoveTask(m, FALSE, FALSE), ImStateTask(m)}
    \/ OnGotReady /\ t = TouchTask(GotRef)
    \/ \E i \in DOMAIN net : AnswerOk(i) /\ t = RemoveTask(net[i].message, FALSE, TRUE)
    \/ \E i \in DOMAIN net : AnswerNoHistoryId(i) /\ t = ReplaceTask(heap[net[i].ref])
    \/ \E i \in DOMAIN net : AnswerRejected(i) /\ t = RemoveTask(net[i].message, TRUE, FALSE)

\* Appending adds one place.
LEMMA AppendPlaces ==
    ASSUME NEW S, NEW s \in Seq(S), NEW e \in S, NEW i \in DOMAIN Append(s, e)
    PROVE  \/ i \in DOMAIN s /\ Append(s, e)[i] = s[i]
           \/ i = Len(s) + 1 /\ Append(s, e)[i] = e
<1>1. /\ Append(s, e) \in Seq(S) /\ Len(Append(s, e)) = Len(s) + 1
      /\ Append(s, e)[Len(s) + 1] = e
      /\ \A k \in 1..Len(s) : Append(s, e)[k] = s[k]
  BY AppendProperties
<1>2. Len(s) \in Nat /\ DOMAIN s = 1..Len(s) /\ i \in 1..(Len(s) + 1)
  BY <1>1, LenProperties
<1>3. i \in 1..Len(s) \/ i = Len(s) + 1
  BY <1>2
<1> QED  BY <1>1, <1>2, <1>3

\* Where the tasks stand that starting the chain gives.
LEMMA PostedAt ==
    ASSUME TypeOK, NEW t \in ArchiveTasks, PostPending(<<t>>) \/ StartPending(<<t>>),
           NEW i \in DOMAIN archive'
    PROVE  \/ i \in DOMAIN archive /\ archive'[i] = archive[i]
           \/ archive'[i] = GetTask
           \/ i = Len(archive) + 1 /\ archive'[i] = t
<1>1. archive \in Seq(ArchiveTasks) /\ GetTask \in ArchiveTasks
  BY TaskTypes DEF TypeOK
<1>2. PICK h : h = Append(archive, t)
  OBVIOUS
<1>3. h \in Seq(ArchiveTasks) /\ h = archive \o <<t>>
  BY <1>1, <1>2, AppendProperties, AppendIsConcat
<1>4. archive' = h \/ archive' = Append(h, GetTask)
  <2>1. archive' = h \/ archive' = h \o <<GetTask>>
    BY <1>3 DEF PostPending, StartPending
  <2>2. Append(h, GetTask) = h \o <<GetTask>>
    BY <1>1, <1>3, AppendIsConcat
  <2> QED  BY <2>1, <2>2
<1>5. ASSUME i \in DOMAIN h
      PROVE  \/ i \in DOMAIN archive /\ h[i] = archive[i]
             \/ i = Len(archive) + 1 /\ h[i] = t
  BY <1>1, <1>2, <1>5, AppendPlaces
<1>6. CASE archive' = h
  BY <1>5, <1>6
<1>7. CASE archive' = Append(h, GetTask)
  <2>1. \/ i \in DOMAIN h /\ archive'[i] = h[i]
        \/ archive'[i] = GetTask
    BY <1>1, <1>3, <1>7, AppendPlaces
  <2> QED  BY <1>5, <2>1
<1> QED  BY <1>4, <1>6, <1>7

\* The same when there is nothing to do but to start the chain.
LEMMA StartedAt ==
    ASSUME TypeOK, PostPending(<<>>) \/ StartPending(<<>>), NEW i \in DOMAIN archive'
    PROVE  \/ i \in DOMAIN archive /\ archive'[i] = archive[i]
           \/ archive'[i] = GetTask
<1>1. archive \in Seq(ArchiveTasks) /\ GetTask \in ArchiveTasks
  BY TaskTypes DEF TypeOK
<1>2. archive \o <<>> = archive
  BY <1>1, ConcatEmptySeq
<1>3. archive' = archive \/ archive' = archive \o <<GetTask>>
  BY <1>2 DEF PostPending, StartPending
<1>4. Append(archive, GetTask) = archive \o <<GetTask>>
  BY <1>1, AppendIsConcat
<1>5. CASE archive' = Append(archive, GetTask)
  BY <1>1, <1>5, AppendPlaces
<1> QED  BY <1>3, <1>4, <1>5

\* Where the tasks stand that a step gives to the archive thread.
LEMMA NewTasks ==
    ASSUME TypeInv, [Next]_vars, ~Archive, NEW i \in DOMAIN archive'
    PROVE  \/ i \in DOMAIN archive /\ archive'[i] = archive[i]
           \/ archive'[i] = GetTask
           \/ i = Len(archive) + 1 /\ NewTask(archive'[i])
<1>h. /\ TypeOK /\ archive \in Seq(ArchiveTasks) /\ core \in Seq(CoreTasks)
      /\ ContactOf \in [Messages -> Contacts]
  BY TypeParts
<1> DEFINE Goal == \/ i \in DOMAIN archive /\ archive'[i] = archive[i]
                   \/ archive'[i] = GetTask
                   \/ i = Len(archive) + 1 /\ NewTask(archive'[i])
<1>r. ASSUME NEW t \in ArchiveTasks, NewTask(t), archive' = Append(archive, t) PROVE Goal
  <2>1. /\ DOMAIN archive' = 1..(Len(archive) + 1) /\ Len(archive) \in Nat
        /\ DOMAIN archive = 1..Len(archive)
        /\ \A k \in 1..Len(archive) : archive'[k] = archive[k]
        /\ archive'[Len(archive) + 1] = t
    BY <1>h, <1>r, AppendProperties, LenProperties
  <2>2. CASE i \in 1..Len(archive)
    BY <2>1, <2>2
  <2>3. CASE i = Len(archive) + 1
    BY <1>r, <2>1, <2>3
  <2> QED  BY <2>1, <2>2, <2>3
<1>p. ASSUME NEW t \in ArchiveTasks, NewTask(t), PostPending(<<t>>) \/ StartPending(<<t>>)
      PROVE  Goal
  <2>1. \/ i \in DOMAIN archive /\ archive'[i] = archive[i]
        \/ archive'[i] = GetTask
        \/ i = Len(archive) + 1 /\ archive'[i] = t
    BY <1>h, <1>p, PostedAt
  <2> QED  BY <1>p, <2>1
<1>1. ASSUME NEW m \in Messages, SendMessage(m) PROVE Goal
  <2>1. NewObject(m, 1, FALSE) \in Objects
    BY PendingMessagesAssumption DEF NewObject, Objects, Versions
  <2>2. PICK t \in ArchiveTasks : t = InsertTask(NewObject(m, 1, FALSE))
    BY <2>1, TaskTypes
  <2>3. NewTask(t)
    BY <1>1, <2>2 DEF NewTask
  <2>4. StartPending(<<t>>)
    BY <1>1, <2>2 DEF SendMessage
  <2> QED  BY <1>p, <2>3, <2>4
<1>2. ASSUME NEW m \in Messages, EditMessage(m) PROVE Goal
  <2>1. NewObject(m, written[m] + 1, TRUE) \in Objects
    BY <1>2, PendingMessagesAssumption DEF EditMessage, NewObject, Objects, Versions
  <2>2. PICK t \in ArchiveTasks : t = ReplaceTask(NewObject(m, written[m] + 1, TRUE))
    BY <2>1, TaskTypes
  <2>3. NewTask(t)
    BY <1>2, <2>2 DEF NewTask
  <2>4. StartPending(<<t>>)
    BY <1>2, <2>2 DEF EditMessage
  <2> QED  BY <1>p, <2>3, <2>4
<1>3. CASE Resume \/ GoOn
  <2>1. PostPending(<<>>) \/ StartPending(<<>>)
    BY <1>3 DEF Resume, GoOn
  <2> QED  BY <1>h, <2>1, StartedAt
<1>4. ASSUME NEW m \in Messages, NEW how \in Confirmations, Confirm(m, how) PROVE Goal
  <2>1. \/ archive' = Append(archive, RemoveTask(m, FALSE, FALSE))
        \/ archive' = Append(archive, ImStateTask(m))
    BY <1>4 DEF Confirm
  <2>2. NewTask(RemoveTask(m, FALSE, FALSE)) /\ NewTask(ImStateTask(m))
    BY <1>4 DEF NewTask
  <2> QED  BY <1>r, <2>1, <2>2, TaskTypes
<1>5. CASE OnGotReady
  <2>1. PICK r \in Refs : r = GotRef
    BY <1>5, <1>h, CoreHead DEF OnGotReady, CoreTask, GotRef
  <2>2. archive' = Append(archive, TouchTask(r)) /\ NewTask(TouchTask(r))
    BY <1>5, <2>1 DEF OnGotReady, NewTask
  <2> QED  BY <1>r, <2>2, TaskTypes
<1>6. ASSUME NEW k \in DOMAIN net, AnswerOk(k) PROVE Goal
  <2>1. PICK m \in Messages : m = net[k].message
    BY <1>h, ReferTypes
  <2>2. /\ archive' = Append(archive, RemoveTask(m, FALSE, TRUE))
        /\ NewTask(RemoveTask(m, FALSE, TRUE))
    BY <1>6, <2>1 DEF AnswerOk, NewTask
  <2> QED  BY <1>r, <2>2, TaskTypes
<1>7. ASSUME NEW k \in DOMAIN net, AnswerNoHistoryId(k) PROVE Goal
  <2>1. PICK o \in Objects : o = heap[net[k].ref]
    BY <1>h, ReferTypes
  <2>2. PICK t \in ArchiveTasks : t = ReplaceTask(o)
    BY TaskTypes
  <2>3. PostPending(<<t>>) /\ NewTask(t)
    BY <1>7, <2>1, <2>2 DEF AnswerNoHistoryId, NewTask
  <2> QED  BY <1>p, <2>3
<1>8. ASSUME NEW k \in DOMAIN net, AnswerRejected(k) PROVE Goal
  <2>1. PICK m \in Messages : m = net[k].message
    BY <1>h, ReferTypes
  <2>2. /\ archive' = Append(archive, RemoveTask(m, TRUE, FALSE))
        /\ NewTask(RemoveTask(m, TRUE, FALSE))
    BY <1>8, <2>1 DEF AnswerRejected, NewTask
  <2> QED  BY <1>r, <2>2, TaskTypes
<1>9. CASE Crash
  BY <1>9 DEF Crash
<1>10. CASE [\/ OnGotNothing \/ OnGotRecent \/ OnTouched \/ Serve \/ Tick \/ Fire
             \/ \E k \in DOMAIN net : AnswerError(k) \/ RequestDropped(k)]_vars
  <2>1. archive' = archive
    BY <1>10 DEF OnGotNothing, OnGotRecent, OnTouched, Serve, ServerTakes, Tick, Fire,
                 FireTimer, AnswerError, RequestDropped, vars
  <2> QED  BY <2>1
<1>11. CASE Core
  BY <1>3, <1>5, <1>10, <1>11 DEF Core
<1>12. CASE Answer
  BY <1>6, <1>7, <1>8, <1>10, <1>12 DEF Answer
<1>13. CASE Serve \/ Tick \/ Fire \/ UNCHANGED vars
  BY <1>10, <1>13
<1>14. Goal
  BY <1>1, <1>2, <1>3, <1>4, <1>9, <1>11, <1>12, <1>13 DEF Next
<1> QED  BY <1>14

\* The messages that may be left with an older text: see EditsKept.
Exempt == refused \union copied \union confirmed

\* No step takes a message out of them.
LEMMA ExemptGrows ==
    ASSUME TypeInv, [Next]_vars
    PROVE  refused \subseteq refused' /\ copied \subseteq copied' /\ confirmed \subseteq confirmed'
<1>1. refused \subseteq refused'
  BY LedgerStays DEF LedgerGrows
<1>2. CASE Answer
  BY <1>1, <1>2 DEF Answer, AnswerOk, AnswerNoHistoryId, AnswerError, AnswerRejected,
                    RequestDropped, Answered
<1>3. CASE \E m \in Messages, how \in Confirmations : Confirm(m, how)
  BY <1>1, <1>3 DEF Confirm
<1>4. CASE [\/ \E m \in Messages : SendMessage(m) \/ EditMessage(m)
            \/ Resume \/ Archive \/ Core \/ Serve \/ Tick \/ Fire \/ Crash]_vars
  <2>1. UNCHANGED <<copied, confirmed>>
    BY <1>4 DEF SendMessage, EditMessage, Resume, Archive, ArchiveTask, DoInsert, DoReplace,
                DoGet, DoTouch, DoRemove, DoImState, Core, OnGotNothing, OnGotRecent,
                OnGotReady, OnTouched, GoOn, CoreTask, Serve, ServerTakes, Tick, Fire,
                FireTimer, Crash, vars, remote
  <2> QED  BY <1>1, <2>1
<1> QED  BY <1>2, <1>3, <1>4 DEF Next

\* What the server has, the archive took.
DeliveredTaken == \A m \in Messages : Delivery!Delivered(m) => Delivery!Taken(m)

\* A request has its turn before the server takes it.
LEMMA DeliveredTakenStep ==
    ASSUME DeliveryInv, DeliveredTaken, [Next]_vars
    PROVE  DeliveredTaken'
<1>h. /\ TypeOK /\ LedgerGrows /\ net \in Seq(Requests)
      /\ ContactOf \in [Messages -> Contacts] /\ server \in [Contacts -> Seq(Messages)]
  BY LedgerStays, PendingMessagesAssumption DEF DeliveryInv, TypeInv, TypeOK
<1> SUFFICES ASSUME NEW m \in Messages, Delivery!Delivered(m)'
             PROVE  Delivery!Taken(m)'
  BY DEF DeliveredTaken
<1>1. ASSUME Delivery!Taken(m) PROVE Delivery!Taken(m)'
  BY <1>1, <1>h, FactsStay
<1>2. ASSUME UNCHANGED server PROVE Delivery!Taken(m)'
  <2>1. Delivery!Delivered(m)
    BY <1>2 DEF Delivery!Delivered, Delivery!In
  <2> QED  BY <1>1, <2>1 DEF DeliveredTaken
<1>3. CASE Serve
  <2>1. PICK i \in DOMAIN net : ServerTakes(i)
    BY <1>3 DEF Serve
  <2>2. PICK q \in Requests, n \in Messages : q = net[i] /\ n = q.message
    BY <1>h, ReferTypes
  <2>3. q \in ToSet(net)
    BY <2>2 DEF ToSet
  <2>4. Delivery!Taken(n)
    <3>1. Delivery!ItsTurn(n)
      BY <2>2, <2>3 DEF DeliveryInv, InTransit, RequestFits
    <3> QED  BY <3>1 DEF Delivery!ItsTurn, Delivery!Taken, Delivery!In
  <2>5. CASE m = n
    BY <1>1, <2>4, <2>5
  <2>6. CASE m # n
    <3>1. PICK c \in Contacts, d \in Contacts : c = ContactOf[m] /\ d = ContactOf[n]
      BY <1>h
    <3>2. \/ UNCHANGED server
          \/ server' = [server EXCEPT ![d] = Append(@, n)]
      BY <2>1, <2>2, <3>1 DEF ServerTakes
    <3>3. CASE server' = [server EXCEPT ![d] = Append(@, n)]
      <4>1. PICK i2 \in DOMAIN server'[c] : server'[c][i2] = m
        BY <3>1 DEF Delivery!Delivered, Delivery!In
      <4>2. CASE c # d
        <5>1. server'[c] = server[c]
          BY <1>h, <3>3, <4>2
        <5>2. Delivery!Delivered(m)
          BY <3>1, <4>1, <5>1 DEF Delivery!Delivered, Delivery!In
        <5> QED  BY <1>1, <5>2 DEF DeliveredTaken
      <4>3. CASE c = d
        <5>1. server'[c] = Append(server[c], n) /\ server[c] \in Seq(Messages)
          BY <1>h, <3>3, <4>3
        <5>2. i2 \in DOMAIN server[c] /\ server[c][i2] = m
          BY <2>6, <4>1, <5>1, AppendPlaces
        <5>3. Delivery!Delivered(m)
          BY <3>1, <5>2 DEF Delivery!Delivered, Delivery!In
        <5> QED  BY <1>1, <5>3 DEF DeliveredTaken
      <4> QED  BY <4>2, <4>3
    <3> QED  BY <1>2, <3>2, <3>3
  <2> QED  BY <2>5, <2>6
<1>4. CASE [\/ \E n \in Messages : SendMessage(n) \/ EditMessage(n)
            \/ Resume
            \/ \E n \in Messages, how \in Confirmations : Confirm(n, how)
            \/ Archive \/ Core \/ Answer \/ Tick \/ Fire \/ Crash]_vars
  <2>1. UNCHANGED server
    BY <1>4 DEF SendMessage, EditMessage, Resume, Confirm, Archive, ArchiveTask, DoInsert,
                DoReplace, DoGet, DoTouch, DoRemove, DoImState, Core, OnGotNothing,
                OnGotRecent, OnGotReady, OnTouched, GoOn, CoreTask, Answer, AnswerOk,
                AnswerNoHistoryId, AnswerError, AnswerRejected, RequestDropped, Answered,
                Tick, Fire, FireTimer, Crash, vars, remote
  <2> QED  BY <1>2, <2>1
<1> QED  BY <1>3, <1>4 DEF Next

\* A message that is to be removed was taken and answered, or is exempt.
RemovalFits(t) ==
    /\ t.kind = "imstate" => t.message \in confirmed
    /\ t.kind = "remove" => /\ t.goesOn => Delivery!Taken(t.message)
                            /\ ~t.goesOn => t.message \in confirmed \union refused
                            /\ t.force => t.message \in refused
Removals == \A t \in ToSet(archive) : RemovalFits(t)

\* Whoever gives such a task has an answer, a refusal or a confirmation.
LEMMA RemovalsStep ==
    ASSUME DeliveryInv, Removals, [Next]_vars
    PROVE  Removals'
<1>h. /\ TypeInv /\ TypeOK /\ LedgerGrows /\ archive \in Seq(ArchiveTasks)
      /\ net \in Seq(Requests)
  BY LedgerStays DEF DeliveryInv, TypeInv, TypeOK
<1>g. refused \subseteq refused' /\ confirmed \subseteq confirmed'
  BY <1>h, ExemptGrows
<1>0. ASSUME NEW t \in ToSet(archive) PROVE RemovalFits(t)'
  <2>1. RemovalFits(t) /\ t \in ArchiveTasks
    BY <1>0, <1>h, ElementTypes DEF Removals
  <2>2. t.kind = "remove" => t.message \in Messages
    BY <2>1 DEF ArchiveTasks, GetTask
  <2>3. t.kind = "remove" /\ Delivery!Taken(t.message) => Delivery!Taken(t.message)'
    BY <1>h, <2>2, FactsStay
  <2> QED  BY <1>g, <2>1, <2>3 DEF RemovalFits
<1>1. CASE Archive
  <2>1. archive # <<>> /\ archive' = Tail(archive)
    BY <1>1 DEF Archive, DoInsert, DoReplace, DoGet, DoTouch, DoRemove, DoImState, ArchiveTask
  <2>2. \A t \in ToSet(archive') : t \in ToSet(archive)
    BY <1>h, <2>1, ToSetTail
  <2> QED  BY <1>0, <2>2 DEF Removals
<1>2. CASE ~Archive
  <2> SUFFICES ASSUME NEW t \in ToSet(archive') PROVE RemovalFits(t)'
    BY DEF Removals
  <2>1. PICK i \in DOMAIN archive' : t = archive'[i]
    BY DEF ToSet
  <2>2. CASE i \in DOMAIN archive /\ archive'[i] = archive[i]
    BY <1>0, <2>1, <2>2 DEF ToSet
  <2>3. CASE t = GetTask
    BY <2>1, <2>3 DEF RemovalFits, GetTask
  <2>4. CASE NewTask(t)
    <3>1. ASSUME NEW m \in Messages, NEW how \in Confirmations, Confirm(m, how),
                 t \in {RemoveTask(m, FALSE, FALSE), ImStateTask(m)}
          PROVE  RemovalFits(t)'
      BY <3>1 DEF RemovalFits, RemoveTask, ImStateTask, Confirm
    <3>2. ASSUME NEW k \in DOMAIN net, AnswerOk(k), t = RemoveTask(net[k].message, FALSE, TRUE)
          PROVE  RemovalFits(t)'
      <4>1. PICK n \in Messages : n = net[k].message
        BY <1>h, ReferTypes
      <4>2. Delivery!ItsTurn(n)
        BY <4>1 DEF DeliveryInv, InTransit, RequestFits, ToSet
      <4>3. Delivery!Taken(n)'
        <5>1. Delivery!Taken(n)
          BY <4>2 DEF Delivery!ItsTurn, Delivery!Taken, Delivery!In
        <5> QED  BY <1>h, <5>1, FactsStay
      <4>4. t.kind = "remove" /\ t.message = n /\ t.goesOn = TRUE /\ t.force = FALSE
        BY <3>2, <4>1 DEF RemoveTask
      <4> QED  BY <4>3, <4>4 DEF RemovalFits
    <3>3. ASSUME NEW k \in DOMAIN net, AnswerRejected(k),
                 t = RemoveTask(net[k].message, TRUE, FALSE)
          PROVE  RemovalFits(t)'
      <4>1. net[k].message \in refused'
        BY <3>3 DEF AnswerRejected
      <4> QED  BY <3>3, <4>1 DEF RemovalFits, RemoveTask
    <3>4. ASSUME t.kind \in {"insert", "replace", "touch"} PROVE RemovalFits(t)'
      BY <3>4 DEF RemovalFits
    <3>5. \A o, r : /\ InsertTask(o).kind = "insert" /\ ReplaceTask(o).kind = "replace"
                    /\ TouchTask(r).kind = "touch"
      BY DEF InsertTask, ReplaceTask, TouchTask
    <3> QED  BY <2>4, <3>1, <3>2, <3>3, <3>4, <3>5 DEF NewTask
  <2>5. \/ i \in DOMAIN archive /\ archive'[i] = archive[i]
        \/ archive'[i] = GetTask
        \/ NewTask(archive'[i])
    BY <1>2, <1>h, NewTasks
  <2> QED  BY <2>1, <2>2, <2>3, <2>4, <2>5
<1> QED  BY <1>1, <1>2

\* A task that gives message m a text.
NewText(t, m) == t.kind \in {"insert", "replace"} /\ t.object.message = m

\* The texts of a message come to the archive in the order the user gives them.
TextFits(m, t) ==
    NewText(t, m) => /\ t.object.version > kept[m] /\ t.object.version <= written[m]
                     /\ t.kind = "replace" => t.object.modified
Later(m, t, u) == NewText(t, m) /\ NewText(u, m) => t.object.version < u.object.version
TextsOf(m) ==
    /\ kept[m] <= written[m]
    /\ \A i \in DOMAIN archive : TextFits(m, archive[i])
    /\ \A i, j \in DOMAIN archive : i < j => Later(m, archive[i], archive[j])
TextsToCome == \A m \in Messages \ copied : TextsOf(m)

\* What a task of the archive thread says of a text, as numbers.
LEMMA TextNumbers ==
    ASSUME TypeOK, NEW m \in Messages
    PROVE  /\ kept[m] \in Nat /\ written[m] \in Nat
           /\ \A t \in ArchiveTasks :
                 NewText(t, m) => t.object \in Objects /\ t.object.version \in Nat
           /\ ~NewText(GetTask, m)
<1>1. kept[m] \in Nat /\ written[m] \in Nat
  BY DEF TypeOK, Versions
<1>2. ASSUME NEW t \in ArchiveTasks, NewText(t, m)
      PROVE  t.object \in Objects /\ t.object.version \in Nat
  BY <1>2 DEF NewText, ArchiveTasks, GetTask, Objects, Versions
<1>3. ~NewText(GetTask, m)
  BY DEF NewText, GetTask
<1> QED  BY <1>1, <1>2, <1>3

\* The tail of a sequence, place by place.
LEMMA TailPlaces ==
    ASSUME NEW S, NEW s \in Seq(S), s # <<>>, NEW i \in DOMAIN Tail(s)
    PROVE  /\ i \in Nat /\ i + 1 \in DOMAIN s /\ 1 \in DOMAIN s /\ 1 < i + 1
           /\ Tail(s)[i] = s[i + 1] /\ Head(s) = s[1]
<1>1. /\ Tail(s) \in Seq(S) /\ Len(Tail(s)) = Len(s) - 1 /\ Head(s) = s[1]
      /\ \A k \in 1..Len(Tail(s)) : Tail(s)[k] = s[k + 1]
  BY HeadTailProperties
<1>2. Len(s) \in Nat /\ DOMAIN s = 1..Len(s) /\ i \in 1..Len(Tail(s))
  BY <1>1, LenProperties
<1>3. /\ i \in Nat /\ i + 1 \in DOMAIN s /\ 1 \in DOMAIN s /\ 1 < i + 1
  BY <1>1, <1>2
<1> QED  BY <1>1, <1>2, <1>3

\* A step of the archive thread takes the text that comes first, if it takes one.
LEMMA TextsTaken ==
    ASSUME TypeOK, NEW m \in Messages, TextsOf(m), archive # <<>>, archive' = Tail(archive),
           UNCHANGED written,
           \/ kept'[m] = kept[m]
           \/ NewText(Head(archive), m) /\ kept'[m] = Head(archive).object.version
    PROVE  TextsOf(m)'
<1>h. archive \in Seq(ArchiveTasks) /\ \A i \in DOMAIN archive : archive[i] \in ArchiveTasks
  BY ElementOfSeq, LenProperties DEF TypeOK
<1>t. \A i \in DOMAIN archive' : /\ i \in Nat /\ i + 1 \in DOMAIN archive
                                 /\ 1 \in DOMAIN archive /\ 1 < i + 1
                                 /\ archive'[i] = archive[i + 1] /\ Head(archive) = archive[1]
  BY <1>h, TailPlaces
<1>f. archive[1] = Head(archive) /\ 1 \in DOMAIN archive
  BY <1>h, HeadTailProperties, LenProperties, EmptySeq
<1>n. kept[m] \in Nat /\ written[m] \in Nat
  BY TextNumbers
<1>1. ASSUME NEW i \in DOMAIN archive', NEW t, t = archive'[i]
      PROVE  TextFits(m, t)'
  <2>1. PICK k \in DOMAIN archive : k = i + 1 /\ archive[k] = t /\ 1 < k
    BY <1>1, <1>t
  <2>2. TextFits(m, t) /\ Later(m, Head(archive), t) /\ t \in ArchiveTasks
    BY <1>f, <1>h, <2>1 DEF TextsOf
  <2>3. CASE NewText(t, m)
    <3>1. PICK v \in Nat : v = t.object.version
      BY <2>2, <2>3, TextNumbers
    <3>2. v > kept[m] /\ v <= written[m] /\ (t.kind = "replace" => t.object.modified)
      BY <2>2, <2>3, <3>1 DEF TextFits
    <3>3. v > kept'[m]
      BY <2>2, <2>3, <3>1, <3>2 DEF Later
    <3> QED  BY <3>1, <3>2, <3>3 DEF TextFits
  <2>4. CASE ~NewText(t, m)
    BY <2>4 DEF TextFits, NewText
  <2> QED  BY <2>3, <2>4
<1>2. ASSUME NEW i \in DOMAIN archive', NEW j \in DOMAIN archive', i < j,
             NEW t, t = archive'[i], NEW u, u = archive'[j]
      PROVE  Later(m, t, u)'
  <2>1. i + 1 \in DOMAIN archive /\ j + 1 \in DOMAIN archive /\ i + 1 < j + 1
    BY <1>2, <1>t
  <2>2. t = archive[i + 1] /\ u = archive[j + 1]
    BY <1>2, <1>t
  <2>3. Later(m, t, u)
    BY <2>1, <2>2 DEF TextsOf
  <2> QED  BY <2>3 DEF Later, NewText
<1>3. kept'[m] <= written'[m]
  <2>1. CASE NewText(Head(archive), m) /\ kept'[m] = Head(archive).object.version
    <3>1. TextFits(m, Head(archive))
      BY <1>f DEF TextsOf
    <3> QED  BY <2>1, <3>1 DEF TextFits
  <2> QED  BY <2>1 DEF TextsOf
<1> QED  BY <1>1, <1>2, <1>3 DEF TextsOf

\* Other steps may give it one more, later than those it has.
LEMMA TextsGiven ==
    ASSUME TypeOK, NEW m \in Messages, TextsOf(m), UNCHANGED kept,
           written'[m] \in Nat, written[m] <= written'[m],
           \A i \in DOMAIN archive' :
               \/ i \in DOMAIN archive /\ archive'[i] = archive[i]
               \/ ~NewText(archive'[i], m)
               \/ /\ i = Len(archive) + 1 /\ archive'[i].object.version = written[m] + 1
                  /\ written'[m] = written[m] + 1
                  /\ archive'[i].kind = "replace" => archive'[i].object.modified
    PROVE  TextsOf(m)'
<1>h. /\ archive \in Seq(ArchiveTasks) /\ \A i \in DOMAIN archive : archive[i] \in ArchiveTasks
      /\ DOMAIN archive = 1..Len(archive) /\ Len(archive) \in Nat
  BY ElementOfSeq, LenProperties DEF TypeOK
<1>n. kept[m] \in Nat /\ written[m] \in Nat /\ kept[m] <= written[m]
  BY TextNumbers DEF TextsOf
<1>1. ASSUME NEW i \in DOMAIN archive', NEW t, t = archive'[i]
      PROVE  TextFits(m, t)'
  <2>1. CASE i \in DOMAIN archive /\ archive[i] = t
    <3>1. TextFits(m, t) /\ t \in ArchiveTasks
      BY <1>h, <2>1 DEF TextsOf
    <3>2. CASE NewText(t, m)
      <4>1. PICK v \in Nat : v = t.object.version
        BY <3>1, <3>2, TextNumbers
      <4>2. v > kept[m] /\ v <= written[m] /\ (t.kind = "replace" => t.object.modified)
        BY <3>1, <3>2, <4>1 DEF TextFits
      <4>3. v <= written'[m] /\ kept'[m] = kept[m]
        BY <1>n, <4>2
      <4> QED  BY <4>1, <4>2, <4>3 DEF TextFits
    <3>3. CASE ~NewText(t, m)
      BY <3>3 DEF TextFits, NewText
    <3> QED  BY <3>2, <3>3
  <2>2. CASE ~NewText(t, m)
    BY <2>2 DEF TextFits, NewText
  <2>3. CASE /\ t.object.version = written[m] + 1 /\ written'[m] = written[m] + 1
             /\ t.kind = "replace" => t.object.modified
    <3>1. t.object.version > kept'[m] /\ t.object.version <= written'[m]
      BY <1>n, <2>3
    <3> QED  BY <2>3, <3>1 DEF TextFits
  <2> QED  BY <1>1, <2>1, <2>2, <2>3
<1>2. ASSUME NEW i \in DOMAIN archive', NEW j \in DOMAIN archive', i < j,
             NEW t, t = archive'[i], NEW u, u = archive'[j], NewText(t, m), NewText(u, m)
      PROVE  t.object.version < u.object.version
  <2>1. CASE i \in DOMAIN archive /\ archive[i] = t
    <3>1. CASE j \in DOMAIN archive /\ archive[j] = u
      BY <1>2, <2>1, <3>1 DEF TextsOf, Later
    <3>2. CASE j = Len(archive) + 1 /\ u.object.version = written[m] + 1
      <4>1. TextFits(m, t) /\ t \in ArchiveTasks
        BY <1>h, <2>1 DEF TextsOf
      <4>2. PICK v \in Nat : v = t.object.version
        BY <1>2, <4>1, TextNumbers
      <4>3. v <= written[m]
        BY <1>2, <4>1, <4>2 DEF TextFits
      <4> QED  BY <1>n, <3>2, <4>2, <4>3
    <3> QED  BY <1>2, <3>1, <3>2
  <2>2. CASE i = Len(archive) + 1
    <3>1. j \in DOMAIN archive \/ j = Len(archive) + 1
      BY <1>2
    <3> QED  BY <1>2, <1>h, <2>2, <3>1
  <2> QED  BY <1>2, <2>1, <2>2
<1>3. \A i, j \in DOMAIN archive' : i < j => Later(m, archive[i], archive[j])'
  BY <1>2 DEF Later, NewText
<1> QED  BY <1>1, <1>3, <1>n DEF TextsOf

\* The archive thread takes a text for the message its task is about, and for no other.
LEMMA KeptByTask ==
    ASSUME TypeOK, Archive, NEW m \in Messages
    PROVE  /\ archive # <<>> /\ archive' = Tail(archive) /\ UNCHANGED written
           /\ \/ kept'[m] = kept[m]
              \/ NewText(Head(archive), m) /\ kept'[m] = Head(archive).object.version
           /\ ~Targets(m) => kept'[m] = kept[m]
<1>h. kept \in [Messages -> Versions \union {0}] /\ archive # <<>>
  BY DEF TypeOK, Archive, DoInsert, DoReplace, DoGet, DoTouch, DoRemove, DoImState, ArchiveTask
<1>1. archive' = Tail(archive) /\ UNCHANGED written
  BY DEF Archive, DoInsert, DoReplace, DoGet, DoTouch, DoRemove, DoImState, ArchiveTask
<1>2. CASE DoInsert \/ DoReplace
  <2>1. Head(archive).kind \in {"insert", "replace"}
    BY <1>2 DEF DoInsert, DoReplace, ArchiveTask
  <2>2. PICK o \in Objects, n \in Messages : o = Head(archive).object /\ n = o.message
    BY <1>h, <2>1, ArchiveHead DEF Objects
  <2>3. \/ UNCHANGED kept
        \/ kept' = [kept EXCEPT ![n] = o.version]
        \/ kept' = [kept EXCEPT ![n] = IF o.version > @ THEN o.version ELSE @]
    BY <1>2, <2>2 DEF DoInsert, DoReplace
  <2>4. CASE m = n
    <3>1. kept'[m] = kept[m] \/ kept'[m] = o.version
      BY <1>h, <2>3, <2>4
    <3>2. Targets(m) /\ NewText(Head(archive), m)
      BY <1>2, <2>1, <2>2, <2>4 DEF Targets, NewText
    <3> QED  BY <1>1, <1>h, <2>2, <3>1, <3>2
  <2>5. CASE m # n
    <3>1. kept'[m] = kept[m]
      BY <1>h, <2>3, <2>5
    <3> QED  BY <1>1, <1>h, <3>1
  <2> QED  BY <2>4, <2>5
<1>3. CASE DoGet \/ DoTouch \/ DoRemove \/ DoImState
  <2>1. kept' = kept
    BY <1>3 DEF DoGet, DoTouch, DoRemove, DoImState
  <2> QED  BY <1>1, <1>h, <2>1
<1> QED  BY <1>2, <1>3 DEF Archive

\* The other steps take none.
LEMMA KeptByOthers ==
    ASSUME [Next]_vars, ~Archive
    PROVE  UNCHANGED kept
<1>1. CASE [\/ \E m \in Messages : SendMessage(m) \/ EditMessage(m)
            \/ Resume
            \/ \E m \in Messages, how \in Confirmations : Confirm(m, how)
            \/ Core \/ Serve \/ Answer \/ Tick \/ Fire \/ Crash]_vars
  BY <1>1 DEF SendMessage, EditMessage, Resume, Confirm, Core, OnGotNothing, OnGotRecent,
              OnGotReady, OnTouched, GoOn, CoreTask, Serve, ServerTakes, Answer, AnswerOk,
              AnswerNoHistoryId, AnswerError, AnswerRejected, RequestDropped, Answered,
              Tick, Fire, FireTimer, Crash, vars, user
<1> QED  BY <1>1 DEF Next

\* The archive takes the first of these texts, the user gives one after the last.
LEMMA TextsToComeStep ==
    ASSUME DeliveryInv, TextsToCome, [Next]_vars
    PROVE  TextsToCome'
<1>h. /\ TypeInv /\ TypeOK /\ written \in [Messages -> Versions \union {0}]
      /\ net \in Seq(Requests) /\ Versions \subseteq Nat
  <2>1. TypeInv
    BY DEF DeliveryInv
  <2> QED  BY <2>1, TypeParts
<1>i. written' \in [Messages -> Versions \union {0}]
  <2>1. TypeInv'
    BY <1>h, TypeInvStep
  <2> QED  BY <2>1 DEF TypeInv, TypeOK, Versions
<1>0. ASSUME NEW m \in Messages
      PROVE  written[m] \in Nat /\ written'[m] \in Nat
  BY <1>h, <1>i DEF Versions
<1> SUFFICES ASSUME NEW m \in Messages \ copied' PROVE TextsOf(m)'
  BY DEF TextsToCome
<1>1. m \in Messages /\ TextsOf(m)
  BY <1>h, ExemptGrows DEF TextsToCome
<1>2. CASE Archive
  BY <1>1, <1>2, <1>h, KeptByTask, TextsTaken
<1>3. CASE ~Archive
  <2>1. UNCHANGED kept
    BY <1>3, KeptByOthers
  <2> DEFINE GiveOne(t) == /\ t.object.version = written[m] + 1
                           /\ written'[m] = written[m] + 1
                           /\ t.kind = "replace" => t.object.modified
  <2>2. written'[m] \in Nat /\ written[m] <= written'[m]
    <3>1. CASE \E n \in Messages : SendMessage(n) \/ EditMessage(n)
      <4>1. PICK n \in Messages : SendMessage(n) \/ EditMessage(n)
        BY <3>1
      <4>2. \/ written[n] = 0 /\ written' = [written EXCEPT ![n] = 1]
            \/ written' = [written EXCEPT ![n] = written[n] + 1]
        BY <1>h, <4>1 DEF SendMessage, EditMessage
      <4>3. CASE n = m
        <5>1. written'[m] = written[m] + 1
          BY <1>0, <1>h, <4>2, <4>3
        <5> QED  BY <1>0, <5>1
      <4>4. CASE n # m
        BY <1>0, <1>h, <4>2, <4>4
      <4> QED  BY <4>3, <4>4
    <3>2. CASE [\/ Resume
                \/ \E n \in Messages, how \in Confirmations : Confirm(n, how)
                \/ Core \/ Serve \/ Answer \/ Tick \/ Fire \/ Crash]_vars
      <4>1. UNCHANGED written
        BY <3>2 DEF Resume, Confirm, Core, OnGotNothing, OnGotRecent,
              OnGotReady, OnTouched, GoOn, CoreTask, Serve, ServerTakes, Answer, AnswerOk,
              AnswerNoHistoryId, AnswerError, AnswerRejected, RequestDropped, Answered,
              Tick, Fire, FireTimer, Crash, vars, user
      <4> QED  BY <1>0, <4>1
    <3> QED  BY <1>3, <3>1, <3>2 DEF Next
  <2>3. ASSUME NEW t, NewTask(t) PROVE ~NewText(t, m) \/ GiveOne(t)
    <3>1. ASSUME NEW n \in Messages, SendMessage(n), t = InsertTask(NewObject(n, 1, FALSE))
          PROVE  ~NewText(t, m) \/ GiveOne(t)
      <4>1. /\ t.kind = "insert" /\ t.object.message = n /\ t.object.version = 1
        BY <3>1 DEF InsertTask, NewObject
      <4>2. n = m => written[m] = 0 /\ written'[m] = 1
        BY <1>h, <3>1 DEF SendMessage
      <4> QED  BY <4>1, <4>2 DEF NewText
    <3>2. ASSUME NEW n \in Messages, EditMessage(n),
                 t = ReplaceTask(NewObject(n, written[n] + 1, TRUE))
          PROVE  ~NewText(t, m) \/ GiveOne(t)
      <4>1. /\ t.kind = "replace" /\ t.object.message = n /\ t.object.version = written[n] + 1
            /\ t.object.modified = TRUE
        BY <3>2 DEF ReplaceTask, NewObject
      <4>2. n = m => written'[m] = written[m] + 1
        BY <1>h, <3>2 DEF EditMessage
      <4> QED  BY <4>1, <4>2 DEF NewText
    <3>3. ASSUME NEW k \in DOMAIN net, AnswerNoHistoryId(k), t = ReplaceTask(heap[net[k].ref])
          PROVE  ~NewText(t, m)
      <4>1. net[k].message = heap[net[k].ref].message /\ net[k].message \in copied'
        BY <3>3 DEF DeliveryInv, InTransit, RequestFits, ToSet, AnswerNoHistoryId
      <4> QED  BY <3>3, <4>1 DEF NewText, ReplaceTask
    <3>4. ASSUME t.kind \in {"touch", "remove", "imstate"} PROVE ~NewText(t, m)
      BY <3>4 DEF NewText
    <3>5. \A n, f, g, r : /\ RemoveTask(n, f, g).kind = "remove" /\ ImStateTask(n).kind = "imstate"
                          /\ TouchTask(r).kind = "touch"
      BY DEF RemoveTask, ImStateTask, TouchTask
    <3> HIDE DEF GiveOne
    <3> QED  BY <2>3, <3>1, <3>2, <3>3, <3>4, <3>5 DEF NewTask
  <2>4. ASSUME NEW i \in DOMAIN archive'
        PROVE  \/ i \in DOMAIN archive /\ archive'[i] = archive[i]
               \/ ~NewText(archive'[i], m)
               \/ i = Len(archive) + 1 /\ GiveOne(archive'[i])
    <3>1. \/ i \in DOMAIN archive /\ archive'[i] = archive[i]
          \/ archive'[i] = GetTask
          \/ i = Len(archive) + 1 /\ NewTask(archive'[i])
      BY <1>3, <1>h, NewTasks
    <3>2. ~NewText(GetTask, m)
      BY DEF NewText, GetTask
    <3> QED  BY <2>3, <3>1, <3>2
  <2> QED  BY <1>1, <1>h, <2>1, <2>2, <2>4, TextsGiven
<1> QED  BY <1>2, <1>3

\* A message that was just taken has the entry that was given, and no other.
LEMMA InsertedEntry ==
    ASSUME TypeInv, Lists, TakenOnce, DoInsert, NEW m \in Messages, NEW o \in Objects,
           o = Head(archive).object, m = o.message
    PROVE  /\ PlacesOf(m)' # {} /\ kept'[m] = o.version
           /\ \A v, e : Shows(m, v, e)' => v = o.version
<1>h. /\ TypeOK /\ heap \in Seq(Objects) /\ Len(heap) \in Nat
      /\ pending \in [Contacts -> Seq(Refs)] /\ kept \in [Messages -> Versions \union {0}]
      /\ ContactOf \in [Messages -> Contacts]
  BY TypeParts
<1>1. PICK c \in Contacts : c = ContactOf[m]
  BY <1>h
<1>2. /\ heap' = Append(heap, o) /\ kept'[m] = o.version
      /\ pending' = [pending EXCEPT ![c] = Append(@, Len(heap) + 1)]
  BY <1>1, <1>h DEF DoInsert
<1>3. heap'[Len(heap) + 1] = o /\ \A r \in Refs : heap'[r] = heap[r]
  BY <1>h, <1>2, AppendProperties DEF Refs
<1>4. pending'[c] = Append(pending[c], Len(heap) + 1) /\ pending[c] \in Seq(Nat)
  <2>1. pending[c] \in Seq(Refs) /\ Refs \subseteq Nat
    BY <1>h DEF Refs
  <2>2. pending[c] \in Seq(Nat)
    BY <2>1, SeqGrows
  <2> QED  BY <1>h, <1>2, <2>2
<1>5. PICK h \in Nat : h = Len(heap) + 1
  BY <1>h
<1>6. ASSUME NEW j \in DOMAIN pending'[c]
      PROVE  \/ pending'[c][j] = h
             \/ heap'[pending'[c][j]].message # m
  <2>1. \/ j \in DOMAIN pending[c] /\ pending'[c][j] = pending[c][j]
        \/ pending'[c][j] = h
    BY <1>4, <1>5, AppendPlaces
  <2>2. ASSUME j \in DOMAIN pending[c]
        PROVE  heap'[pending[c][j]].message # m
    <3>1. pending[c][j] \in Refs
      BY <1>h, <2>2, ListTypes
    <3>2. Delivery!Taken(Listed(c, j))
      BY <1>h, <2>2, ListedTaken
    <3>3. ~Delivery!Taken(m)
      BY InsertsNew
    <3> QED  BY <1>3, <3>1, <3>2, <3>3 DEF Listed
  <2> QED  BY <2>1, <2>2
<1>7. \A v, e : Shows(m, v, e)' => v = o.version
  <2> SUFFICES ASSUME NEW v, NEW e, Shows(m, v, e)' PROVE v = o.version
    OBVIOUS
  <2>1. PICK j \in DOMAIN pending'[c] :
            heap'[pending'[c][j]].message = m /\ heap'[pending'[c][j]].version = v
    BY <1>1 DEF Shows
  <2>2. pending'[c][j] = h
    BY <1>6, <2>1
  <2> QED  BY <1>3, <1>5, <2>1, <2>2
<1>8. PlacesOf(m)' # {}
  <2>1. PICK n \in Nat : n = Len(pending[c]) + 1
    BY <1>4, LenProperties
  <2>2. n \in DOMAIN pending'[c] /\ pending'[c][n] = h
    BY <1>4, <1>5, <2>1, AppendProperties, LenProperties
  <2>3. heap'[pending'[c][n]].message = m
    BY <1>3, <1>5, <2>2
  <2> QED  BY <1>1, <2>2, <2>3 DEF PlacesOf
<1> QED  BY <1>2, <1>7, <1>8

\* A message whose entry was replaced has the new entry, and no other.
LEMMA ReplacedEntry ==
    ASSUME TypeInv, ListedOnce, DoReplace, NEW m \in Messages, NEW o \in Objects,
           o = Head(archive).object, m = o.message, PlacesOf(m) # {}
    PROVE  /\ Shows(m, o.version, o.modified)'
           /\ kept'[m] = IF o.version > kept[m] THEN o.version ELSE kept[m]
           /\ \A v, e : Shows(m, v, e)' => v = o.version
<1>h. /\ TypeOK /\ heap \in Seq(Objects) /\ Len(heap) \in Nat
      /\ pending \in [Contacts -> Seq(Refs)] /\ kept \in [Messages -> Versions \union {0}]
      /\ ContactOf \in [Messages -> Contacts]
  BY TypeParts
<1>1. PICK c \in Contacts : c = ContactOf[m]
  BY <1>h
<1>2. PICK i \in 1..Len(pending[c]) : i = Min(PlacesOf(m)) /\ Listed(c, i) = m
  BY <1>1, <1>h, PlaceOf DEF Listed
<1>3. PICK h \in Nat : h = Len(heap) + 1
  BY <1>h
<1>4. /\ heap' = Append(heap, o)
      /\ pending' = [pending EXCEPT ![c] = [@ EXCEPT ![i] = h]]
  BY <1>1, <1>2, <1>3 DEF DoReplace, PutAt
<1>5. kept'[m] = IF o.version > kept[m] THEN o.version ELSE kept[m]
  BY <1>h DEF DoReplace
<1>6. heap'[h] = o /\ \A r \in Refs : heap'[r] = heap[r]
  BY <1>h, <1>3, <1>4, AppendProperties DEF Refs
<1>7. /\ DOMAIN pending'[c] = DOMAIN pending[c] /\ DOMAIN pending[c] = 1..Len(pending[c])
      /\ pending'[c] = [pending[c] EXCEPT ![i] = h]
  BY <1>h, <1>4, ListTypes
<1>8. pending'[c][i] = h /\ \A j \in DOMAIN pending[c] : j # i => pending'[c][j] = pending[c][j]
  BY <1>2, <1>7
<1>9. ASSUME NEW j \in DOMAIN pending'[c], j # i
      PROVE  heap'[pending'[c][j]].message # m
  <2>1. j \in DOMAIN pending[c] /\ pending[c][j] \in Refs /\ pending'[c][j] = pending[c][j]
    BY <1>7, <1>8, <1>9, <1>h, ListTypes
  <2>2. Listed(c, j) # m
    BY <1>2, <1>7, <1>9, <2>1 DEF ListedOnce
  <2> QED  BY <1>6, <2>1, <2>2 DEF Listed
<1>10. \A v, e : Shows(m, v, e)' => v = o.version
  <2> SUFFICES ASSUME NEW v, NEW e, Shows(m, v, e)' PROVE v = o.version
    OBVIOUS
  <2>1. PICK j \in DOMAIN pending'[c] :
            heap'[pending'[c][j]].message = m /\ heap'[pending'[c][j]].version = v
    BY <1>1 DEF Shows
  <2>2. j = i
    BY <1>9, <2>1
  <2> QED  BY <1>6, <1>8, <2>1, <2>2
<1>11. Shows(m, o.version, o.modified)'
  <2>1. i \in DOMAIN pending'[c] /\ heap'[pending'[c][i]] = o
    BY <1>2, <1>6, <1>7, <1>8
  <2> QED  BY <1>1, <2>1 DEF Shows
<1> QED  BY <1>5, <1>10, <1>11

\* What a removal leaves shows no text that was not there.
LEMMA RemovedShows ==
    ASSUME TypeInv, SameMessages, DoRemove \/ DoImState, NEW m \in Messages,
           m = Head(archive).message, NEW v, NEW e, Shows(m, v, e)'
    PROVE  \E f \in BOOLEAN : Shows(m, v, f)
<1>h. /\ TypeOK /\ heap \in Seq(Objects) /\ pending \in [Contacts -> Seq(Refs)]
      /\ ContactOf \in [Messages -> Contacts]
  BY TypeParts
<1>1. PICK c \in Contacts : c = ContactOf[m]
  BY <1>h
<1>2. PICK j \in DOMAIN pending'[c] :
          heap'[pending'[c][j]].message = m /\ heap'[pending'[c][j]].version = v
  BY <1>1 DEF Shows
<1>3. ASSUME NEW k \in DOMAIN pending[c], pending[c][k] = pending'[c][j]
      PROVE  \E f \in BOOLEAN : Shows(m, v, f)
  <2>1. PICK r \in Refs : r = pending[c][k]
    BY <1>h, ListTypes
  <2>2. heap[r].message = m /\ heap[r].version = v /\ heap[r].modified \in BOOLEAN
    <3>1. heap[r] \in Objects
      BY <1>h, ReferTypes
    <3> QED  BY <1>2, <1>3, <2>1, <3>1 DEF SameMessages, Objects
  <2> QED  BY <1>1, <2>1, <2>2 DEF Shows
<1>4. \/ pending' = pending
      \/ /\ PlacesOf(m) # {}
         /\ pending' = [pending EXCEPT ![c] = RemoveAt(@, Min(PlacesOf(m)))]
  <2>1. CASE DoRemove
    BY <1>1, <2>1 DEF DoRemove, RemovePending
  <2>2. CASE DoImState
    BY <1>1, <2>2 DEF DoImState
  <2> QED  BY <2>1, <2>2
<1>5. CASE pending' = pending
  BY <1>3, <1>5
<1>6. CASE /\ PlacesOf(m) # {}
           /\ pending' = [pending EXCEPT ![c] = RemoveAt(@, Min(PlacesOf(m)))]
  <2>1. PICK i \in 1..Len(pending[c]) : i = Min(PlacesOf(m))
    BY <1>1, <1>6, <1>h, PlaceOf
  <2>2. pending[c] \in Seq(Refs) /\ pending'[c] = RemoveAt(pending[c], i)
    BY <1>6, <1>h, <2>1
  <2>3. PICK n \in Nat : n = Len(pending[c]) /\ DOMAIN pending[c] = 1..n
    BY <2>2, LenProperties
  <2>4. /\ Len(RemoveAt(pending[c], i)) = n - 1 /\ RemoveAt(pending[c], i) \in Seq(Refs)
        /\ \A k \in 1..(n - 1) :
             RemoveAt(pending[c], i)[k] = IF k < i THEN pending[c][k] ELSE pending[c][k + 1]
    BY <2>2, <2>3, RemoveAtElements
  <2>5. j \in 1..(n - 1)
    BY <2>2, <2>4, LenProperties
  <2>6. pending'[c][j] = pending[c][j] \/ pending'[c][j] = pending[c][j + 1]
    BY <2>2, <2>4, <2>5
  <2>7. j \in DOMAIN pending[c] /\ j + 1 \in DOMAIN pending[c]
    BY <2>3, <2>5
  <2> QED  BY <1>3, <2>6, <2>7
<1> QED  BY <1>4, <1>5, <1>6

\* What an answer does to the message: its entry goes, or an edit of it is noted.
LEMMA AnsweredEntry ==
    ASSUME TypeInv, ListedOnce, DoRemove, NEW m \in Messages, m = Head(archive).message,
           ~Head(archive).force, PlacesOf(m) # {}
    PROVE  \/ PlacesOf(m)' = {} /\ ~HasEdit(m) /\ UNCHANGED known
           \/ /\ PlacesOf(m)' # {}
              /\ \E v \in Versions : Shows(m, v, TRUE) /\ known' = known \union {<<m, v>>}
<1>h. /\ TypeOK /\ heap \in Seq(Objects) /\ pending \in [Contacts -> Seq(Refs)]
      /\ ContactOf \in [Messages -> Contacts]
  BY TypeParts
<1>1. PICK c \in Contacts : c = ContactOf[m]
  BY <1>h
<1>2. PICK i \in 1..Len(pending[c]) : i = Min(PlacesOf(m)) /\ Listed(c, i) = m
  BY <1>1, <1>h, PlaceOf DEF Listed
<1>3. PICK r \in Refs : r = pending[c][i] /\ heap[r] \in Objects /\ heap[r].message = m
  BY <1>2, <1>h, ListTypes, ReferTypes DEF Listed
<1>4. PICK n \in Nat : n = Len(pending[c]) /\ DOMAIN pending[c] = 1..n
  BY <1>h, ListTypes
<1>5. RemovePending(m, Head(archive).force)
  BY DEF DoRemove
<1>6. CASE heap[r].modified
  <2>1. /\ heap' = [heap EXCEPT ![r].modified = FALSE]
        /\ known' = known \union {<<m, heap[r].version>>} /\ pending' = pending
    BY <1>1, <1>2, <1>3, <1>5, <1>6 DEF RemovePending, KeepsEdit
  <2>2. Shows(m, heap[r].version, TRUE) /\ heap[r].version \in Versions
    <3>1. heap[r].modified = TRUE /\ heap[r].version \in Versions
      BY <1>3, <1>6 DEF Objects
    <3> QED  BY <1>1, <1>2, <1>3, <1>4, <3>1 DEF Shows
  <2>3. PlacesOf(m)' # {}
    <3>1. heap' = [heap EXCEPT ![r] = [heap[r] EXCEPT !.modified = FALSE]]
      BY <2>1
    <3>2. heap'[r].message = m
      BY <1>3, <1>h, <3>1 DEF Objects
    <3>3. i \in DOMAIN pending'[c] /\ pending'[c][i] = r
      BY <1>2, <1>3, <1>4, <2>1
    <3> QED  BY <1>1, <3>2, <3>3 DEF PlacesOf
  <2> QED  BY <2>1, <2>2, <2>3
<1>7. CASE ~heap[r].modified
  <2>1. heap' = heap /\ known' = known /\ pending' = [pending EXCEPT ![c] = RemoveAt(@, i)]
    BY <1>1, <1>2, <1>3, <1>5, <1>7 DEF RemovePending, KeepsEdit
  <2>2. pending[c] \in Seq(Refs) /\ pending'[c] = RemoveAt(pending[c], i)
    BY <1>h, <2>1
  <2>3. /\ Len(RemoveAt(pending[c], i)) = n - 1 /\ RemoveAt(pending[c], i) \in Seq(Refs)
        /\ \A k \in 1..(n - 1) :
             RemoveAt(pending[c], i)[k] = IF k < i THEN pending[c][k] ELSE pending[c][k + 1]
    BY <1>4, <2>2, RemoveAtElements
  <2>4. PlacesOf(m)' = {}
    <3>1. ASSUME NEW j \in DOMAIN pending'[c] PROVE heap'[pending'[c][j]].message # m
      <4>1. j \in 1..(n - 1)
        BY <2>2, <2>3, <3>1, LenProperties
      <4>2. PICK k \in 1..n : k # i /\ pending'[c][j] = pending[c][k]
        <5>1. CASE j < i
          <6>1. j \in 1..n /\ j # i
            BY <1>4, <4>1, <5>1
          <6> QED  BY <2>2, <2>3, <4>1, <5>1, <6>1
        <5>2. CASE ~(j < i)
          <6>1. j + 1 \in 1..n /\ j + 1 # i
            BY <1>2, <1>4, <4>1, <5>2
          <6> QED  BY <2>2, <2>3, <4>1, <5>2, <6>1
        <5> QED  BY <5>1, <5>2
      <4>3. Listed(c, k) # m
        BY <1>2, <1>4, <4>2 DEF ListedOnce
      <4> QED  BY <2>1, <4>2, <4>3 DEF Listed
    <3> QED  BY <1>1, <3>1 DEF PlacesOf
  <2>5. ~HasEdit(m)
    <3> SUFFICES ASSUME NEW v \in Versions, Shows(m, v, TRUE) PROVE FALSE
      BY DEF HasEdit
    <3>1. PICK j \in DOMAIN pending[c] : Listed(c, j) = m /\ heap[pending[c][j]].modified = TRUE
      BY <1>1 DEF Shows, Listed
    <3>2. j = i
      BY <1>2, <1>4, <3>1 DEF ListedOnce
    <3> QED  BY <1>3, <1>7, <3>1, <3>2
  <2> QED  BY <2>1, <2>4, <2>5
<1> QED  BY <1>6, <1>7

\* An entry shows the last text the archive took.
LastTexts == \A m \in Messages \ copied : \A v, e : Shows(m, v, e) => v = kept[m]

\* A new entry comes with a new last text, and no other entry of the message stays.
LEMMA LastTextsStep ==
    ASSUME DeliveryInv, ListedOnce, TextsToCome, LastTexts, [Next]_vars
    PROVE  LastTexts'
<1>h. /\ TypeInv /\ TypeOK /\ SameMessages /\ Lists /\ TakenOnce
      /\ archive \in Seq(ArchiveTasks)
  BY MessagesStay DEF DeliveryInv, TypeInv, TypeOK
<1>i. TypeOK'
  BY <1>h, TypeInvStep DEF TypeInv
<1> SUFFICES ASSUME NEW m \in Messages \ copied', NEW v, NEW e, Shows(m, v, e)'
             PROVE  v = kept'[m]
  BY DEF LastTexts
<1>1. m \in Messages \ copied /\ TextsOf(m)
  BY <1>h, ExemptGrows DEF TextsToCome
<1>2. CASE ~Targets(m)
  <2>1. kept'[m] = kept[m]
    BY <1>1, <1>2, <1>h, KeptByTask, KeptByOthers
  <2>2. v \in Versions /\ e \in BOOLEAN
    <3>1. PICK c \in Contacts : c = ContactOf[m]
      BY PendingMessagesAssumption
    <3>2. PICK j \in DOMAIN pending'[c] :
              heap'[pending'[c][j]].version = v /\ heap'[pending'[c][j]].modified = e
      BY <3>1 DEF Shows
    <3>3. heap' \in Seq(Objects) /\ pending'[c] \in Seq(1..Len(heap'))
      BY <1>i DEF TypeOK, Refs, Objects, Versions
    <3>4. pending'[c][j] \in 1..Len(heap')
      BY <3>2, <3>3, ElementOfSeq, LenProperties
    <3>5. heap'[pending'[c][j]] \in Objects
      BY <3>3, <3>4, ElementOfSeq
    <3> QED  BY <3>2, <3>5 DEF Objects
  <2>3. Shows(m, v, e)
    BY <1>1, <1>2, <1>h, <2>2, EntriesStay DEF SameEntries
  <2> QED  BY <1>1, <2>1, <2>3 DEF LastTexts
<1>3. CASE DoInsert /\ Head(archive).object.message = m
  <2>1. archive # <<>> /\ Head(archive).kind = "insert"
    BY <1>3 DEF DoInsert, ArchiveTask
  <2>2. PICK o \in Objects : o = Head(archive).object /\ m = o.message
    BY <1>3, <1>h, <2>1, ArchiveHead
  <2> QED  BY <1>3, <1>h, <2>2, InsertedEntry
<1>4. CASE DoReplace /\ Head(archive).object.message = m
  <2>1. archive # <<>> /\ Head(archive).kind = "replace"
    BY <1>4 DEF DoReplace, ArchiveTask
  <2>2. PICK o \in Objects : o = Head(archive).object /\ m = o.message
    BY <1>4, <1>h, <2>1, ArchiveHead
  <2>3. CASE PlacesOf(m) = {}
    <3>1. UNCHANGED <<heap, pending, kept>>
      BY <1>4, <2>2, <2>3 DEF DoReplace
    <3>2. Shows(m, v, e)
      BY <3>1 DEF Shows
    <3> QED  BY <1>1, <3>1, <3>2 DEF LastTexts
  <2>4. CASE PlacesOf(m) # {}
    <3>1. /\ kept'[m] = IF o.version > kept[m] THEN o.version ELSE kept[m]
          /\ v = o.version
      BY <1>1, <1>4, <1>h, <2>2, <2>4, ReplacedEntry
    <3>2. o.version > kept[m]
      <4>1. Head(archive) = archive[1] /\ 1 \in DOMAIN archive
        BY <1>h, <2>1, HeadTailProperties, LenProperties, EmptySeq
      <4>2. TextFits(m, Head(archive))
        BY <1>1, <4>1 DEF TextsOf
      <4> QED  BY <2>1, <2>2, <4>2 DEF TextFits, NewText
    <3> QED  BY <3>1, <3>2
  <2> QED  BY <2>3, <2>4
<1>5. CASE (DoRemove \/ DoImState) /\ Head(archive).message = m
  <2>1. PICK f \in BOOLEAN : Shows(m, v, f)
    BY <1>1, <1>5, <1>h, RemovedShows
  <2>2. kept'[m] = kept[m]
    BY <1>5 DEF DoRemove, DoImState
  <2> QED  BY <1>1, <2>1, <2>2 DEF LastTexts
<1> QED  BY <1>2, <1>3, <1>4, <1>5 DEF Targets

\* The text that is on its way, or that the server shows, is the last one.
AgreesTask(m, t) ==
    /\ t.kind = "touch" /\ heap[t.ref].message = m => heap[t.ref].version = kept[m]
    /\ t.kind = "remove" /\ t.message = m => text[m] = kept[m]
AgreesCallback(m, t) ==
    t.ref # 0 /\ heap[t.ref].message = m => heap[t.ref].version = kept[m]
AgreesRequest(m, q) ==
    q.message = m => /\ q.version = kept[m]
                     /\ q.edit <=> <<m, kept[m]>> \in known
                     /\ q.served => text[m] = kept[m]
AgreesServer(m) ==
    /\ Delivery!Delivered(m) /\ <<m, kept[m]>> \notin known => text[m] = kept[m]
    /\ kept[m] # 0 /\ PlacesOf(m) = {} => text[m] = kept[m]
Agrees(m) ==
    /\ \A t \in ToSet(archive) : AgreesTask(m, t)
    /\ \A t \in ToSet(core) : AgreesCallback(m, t)
    /\ \A q \in ToSet(net) : AgreesRequest(m, q)
    /\ AgreesServer(m)

\* The entry of a message that may lose no edit was edited since it was posted, or
\* its last text is on its way.
EditInv == \A m \in Messages \ Exempt : HasEdit(m) \/ Agrees(m)

\* A step after which the last text is the same and the server shows the one it did,
\* or the last.
Steady(m) ==
    /\ kept'[m] = kept[m]
    /\ <<m, kept[m]>> \in known' <=> <<m, kept[m]>> \in known
    /\ text'[m] = text[m] \/ text'[m] = kept[m]

\* What agrees goes on agreeing, where it stays.
LEMMA AgreementStays ==
    ASSUME TypeOK, SameMessages, NEW m \in Messages, Steady(m)
    PROVE  /\ \A t \in ArchiveTasks : AgreesTask(m, t) => AgreesTask(m, t)'
           /\ \A t \in CoreTasks : AgreesCallback(m, t) => AgreesCallback(m, t)'
           /\ \A q \in Requests : AgreesRequest(m, q) => AgreesRequest(m, q)'
<1>1. ASSUME NEW t \in ArchiveTasks, AgreesTask(m, t) PROVE AgreesTask(m, t)'
  <2>1. t.kind = "touch" => t.ref \in Refs
    BY DEF ArchiveTasks, GetTask
  <2>2. t.kind = "touch" => /\ heap'[t.ref].message = heap[t.ref].message
                            /\ heap'[t.ref].version = heap[t.ref].version
    BY <2>1 DEF SameMessages
  <2> QED  BY <1>1, <2>2 DEF AgreesTask, Steady
<1>2. ASSUME NEW t \in CoreTasks, AgreesCallback(m, t) PROVE AgreesCallback(m, t)'
  <2>1. t.ref # 0 => t.ref \in Refs
    BY DEF CoreTasks
  <2>2. t.ref # 0 => /\ heap'[t.ref].message = heap[t.ref].message
                     /\ heap'[t.ref].version = heap[t.ref].version
    BY <2>1 DEF SameMessages
  <2> QED  BY <1>2, <2>2 DEF AgreesCallback, Steady
<1>3. ASSUME NEW q \in Requests, AgreesRequest(m, q) PROVE AgreesRequest(m, q)'
  BY <1>3 DEF AgreesRequest, Steady
<1> QED  BY <1>1, <1>2, <1>3

\* What is given to the archive thread agrees.
LEMMA TasksAgree ==
    ASSUME TypeInv, [Next]_vars, NEW m \in Messages, m \notin Exempt', Steady(m), Agrees(m)
    PROVE  \A t \in ToSet(archive') : AgreesTask(m, t)'
<1>h. /\ TypeOK /\ SameMessages /\ archive \in Seq(ArchiveTasks) /\ core \in Seq(CoreTasks)
      /\ net \in Seq(Requests)
  BY MessagesStay DEF TypeInv, TypeOK
<1>0. ASSUME NEW t \in ToSet(archive) PROVE AgreesTask(m, t)'
  <2>1. t \in ArchiveTasks /\ AgreesTask(m, t)
    BY <1>h, ElementTypes DEF Agrees
  <2> QED  BY <1>h, <2>1, AgreementStays
<1>1. CASE Archive
  <2>1. archive # <<>> /\ archive' = Tail(archive)
    BY <1>1, <1>h, KeptByTask
  <2>2. \A t \in ToSet(archive') : t \in ToSet(archive)
    BY <1>h, <2>1, ToSetTail
  <2> QED  BY <1>0, <2>2
<1>2. CASE ~Archive
  <2> SUFFICES ASSUME NEW t \in ToSet(archive') PROVE AgreesTask(m, t)'
    OBVIOUS
  <2>1. PICK i \in DOMAIN archive' : t = archive'[i]
    BY DEF ToSet
  <2>2. CASE i \in DOMAIN archive /\ archive'[i] = archive[i]
    BY <1>0, <2>1, <2>2 DEF ToSet
  <2>3. CASE t = GetTask
    BY <2>3 DEF AgreesTask, GetTask
  <2>4. CASE NewTask(t)
    <3>1. ASSUME NEW n \in Messages, NEW how \in Confirmations, Confirm(n, how),
                 t \in {RemoveTask(n, FALSE, FALSE), ImStateTask(n)}
          PROVE  AgreesTask(m, t)'
      <4>1. n # m
        BY <3>1 DEF Confirm, Exempt
      <4> QED  BY <3>1, <4>1 DEF AgreesTask, RemoveTask, ImStateTask
    <3>2. ASSUME NEW k \in DOMAIN net, AnswerOk(k), t = RemoveTask(net[k].message, FALSE, TRUE)
          PROVE  AgreesTask(m, t)'
      <4>1. PICK q \in Requests : q = net[k] /\ q.served
        BY <1>h, <3>2, ReferTypes DEF AnswerOk
      <4>2. AgreesRequest(m, q)
        BY <4>1 DEF Agrees, ToSet
      <4>3. q.message = m => text'[m] = kept'[m]
        BY <4>1, <4>2 DEF AgreesRequest, Steady
      <4> QED  BY <3>2, <4>1, <4>3 DEF AgreesTask, RemoveTask
    <3>3. ASSUME NEW k \in DOMAIN net, AnswerRejected(k),
                 t = RemoveTask(net[k].message, TRUE, FALSE)
          PROVE  AgreesTask(m, t)'
      <4>1. net[k].message # m
        BY <3>3 DEF AnswerRejected, Exempt
      <4> QED  BY <3>3, <4>1 DEF AgreesTask, RemoveTask
    <3>4. ASSUME OnGotReady, t = TouchTask(GotRef) PROVE AgreesTask(m, t)'
      <4>1. core # <<>> /\ GotRef # 0
        BY <3>4 DEF OnGotReady, CoreTask
      <4>2. PICK r \in Refs : r = Head(core).ref /\ r # 0
        BY <1>h, <4>1, CoreHead DEF GotRef
      <4>3. Head(core) \in ToSet(core)
        BY <1>h, <4>1, ToSetTail
      <4>4. heap[r].message = m => heap[r].version = kept[m]
        BY <4>2, <4>3 DEF Agrees, AgreesCallback
      <4>5. heap'[r].message = heap[r].message /\ heap'[r].version = heap[r].version
        BY <1>h DEF SameMessages
      <4>6. t.kind = "touch" /\ t.ref = r
        BY <3>4, <4>2 DEF TouchTask, GotRef
      <4> QED  BY <4>4, <4>5, <4>6 DEF AgreesTask, Steady
    <3>5. ASSUME t.kind \in {"insert", "replace"} PROVE AgreesTask(m, t)'
      BY <3>5 DEF AgreesTask
    <3>6. \A o : InsertTask(o).kind = "insert" /\ ReplaceTask(o).kind = "replace"
      BY DEF InsertTask, ReplaceTask
    <3> QED  BY <2>4, <3>1, <3>2, <3>3, <3>4, <3>5, <3>6 DEF NewTask
  <2>5. \/ i \in DOMAIN archive /\ archive'[i] = archive[i]
        \/ archive'[i] = GetTask
        \/ NewTask(archive'[i])
    BY <1>2, NewTasks
  <2> QED  BY <2>1, <2>2, <2>3, <2>4, <2>5
<1> QED  BY <1>1, <1>2

\* The first message of a list is known by its last text.
LEMMA FirstReadyAgrees ==
    ASSUME TypeOK, Lists, LastTexts, FirstReady # 0, NEW m \in Messages \ copied,
           heap[FirstReady].message = m
    PROVE  heap[FirstReady].version = kept[m]
<1>1. Busy # {} /\ Busy \in SUBSET Nat
  BY PendingMessagesAssumption DEF FirstReady, Busy
<1>2. PICK c \in Contacts : c = Min(Busy) /\ pending[c] # <<>>
  BY <1>1, MinNat DEF Busy
<1>3. 1 \in 1..Len(pending[c]) /\ FirstReady = pending[c][1]
  <2>1. FirstReady = Head(pending[c]) /\ pending[c] \in Seq(Refs)
    BY <1>1, <1>2 DEF FirstReady, TypeOK
  <2> QED  BY <1>2, <2>1
<1>4. 1 \in DOMAIN pending[c] /\ ContactOf[m] = c
  <2>1. 1 \in DOMAIN pending[c] /\ Listed(c, 1) = m
    BY <1>3, ListTypes DEF Listed
  <2> QED  BY <2>1 DEF Lists, RightLists
<1>5. Shows(m, heap[FirstReady].version, heap[FirstReady].modified)
  BY <1>3, <1>4 DEF Shows
<1> QED  BY <1>5 DEF LastTexts

\* What is given to the core thread agrees.
LEMMA CallbacksAgree ==
    ASSUME TypeInv, Lists, LastTexts, [Next]_vars, NEW m \in Messages \ copied, Steady(m),
           Agrees(m)
    PROVE  \A t \in ToSet(core') : AgreesCallback(m, t)'
<1>h. /\ TypeOK /\ SameMessages /\ archive \in Seq(ArchiveTasks) /\ core \in Seq(CoreTasks)
  BY MessagesStay DEF TypeInv, TypeOK
<1>0. ASSUME NEW t \in ToSet(core) PROVE AgreesCallback(m, t)'
  <2>1. t \in CoreTasks /\ AgreesCallback(m, t)
    BY <1>h, ElementTypes DEF Agrees
  <2> QED  BY <1>h, <2>1, AgreementStays
<1>r. ASSUME NEW t, t \in CoreTasks, AgreesCallback(m, t)', core' = Append(core, t)
      PROVE  \A u \in ToSet(core') : AgreesCallback(m, u)'
  BY <1>0, <1>h, <1>r, ToSetAppend
<1>1. CASE DoGet
  <2>1. CASE FirstReady = 0
    <3>1. AgreesCallback(m, Callback("got", 0))' /\ Callback("got", 0) \in CoreTasks
      BY CallbackTypes DEF AgreesCallback, Callback
    <3> QED  BY <1>1, <1>r, <2>1, <3>1 DEF DoGet
  <2>2. CASE FirstReady # 0
    <3>1. PICK r \in Refs : r = FirstReady
      BY <1>h, <2>2, FirstReadyTurn
    <3>2. heap[r].message = m => heap[r].version = kept[m]
      BY <1>h, <2>2, <3>1, FirstReadyAgrees
    <3>3. Callback("got", r) \in CoreTasks /\ AgreesCallback(m, Callback("got", r))
      BY <3>2, CallbackTypes DEF AgreesCallback, Callback
    <3>4. AgreesCallback(m, Callback("got", r))'
      BY <1>h, <3>3, AgreementStays
    <3> QED  BY <1>1, <1>r, <3>1, <3>3, <3>4 DEF DoGet
  <2> QED  BY <2>1, <2>2
<1>2. CASE DoTouch
  <2>1. archive # <<>> /\ Head(archive).kind = "touch"
    BY <1>2 DEF DoTouch, ArchiveTask
  <2>2. PICK r \in Refs : r = Head(archive).ref
    BY <1>h, <2>1, ArchiveHead
  <2>3. Head(archive) \in ToSet(archive)
    BY <1>h, <2>1, ToSetTail
  <2>4. heap[r].message = m => heap[r].version = kept[m]
    BY <2>1, <2>2, <2>3 DEF Agrees, AgreesTask
  <2>5. Callback("touched", r) \in CoreTasks /\ AgreesCallback(m, Callback("touched", r))
    BY <2>4, CallbackTypes DEF AgreesCallback, Callback
  <2>6. AgreesCallback(m, Callback("touched", r))'
    BY <1>h, <2>5, AgreementStays
  <2>7. core' = Append(core, Callback("touched", r))
    BY <1>2, <2>2 DEF DoTouch
  <2> QED  BY <1>r, <2>5, <2>6, <2>7
<1>3. CASE DoRemove
  <2>1. AgreesCallback(m, Callback("removed", 0))' /\ Callback("removed", 0) \in CoreTasks
    BY CallbackTypes DEF AgreesCallback, Callback
  <2>2. core' = core \/ core' = Append(core, Callback("removed", 0))
    BY <1>3 DEF DoRemove
  <2> QED  BY <1>0, <1>r, <2>1, <2>2
<1>4. CASE Fire
  <2>1. AgreesCallback(m, Callback("timer", 0))' /\ Callback("timer", 0) \in CoreTasks
    BY CallbackTypes DEF AgreesCallback, Callback
  <2>2. core' = Append(core, Callback("timer", 0))
    BY <1>4 DEF Fire, FireTimer
  <2> QED  BY <1>r, <2>1, <2>2
<1>5. CASE Core
  <2>1. core # <<>> /\ core' = Tail(core)
    BY <1>5 DEF Core, OnGotNothing, OnGotRecent, OnGotReady, OnTouched, GoOn, CoreTask
  <2> QED  BY <1>0, <1>h, <2>1, ToSetTail
<1>6. CASE Crash
  <2>1. ToSet(core') = {}
    BY <1>6 DEF Crash, ToSet
  <2> QED  BY <2>1
<1>7. CASE [\/ \E n \in Messages : SendMessage(n) \/ EditMessage(n)
            \/ Resume
            \/ \E n \in Messages, how \in Confirmations : Confirm(n, how)
            \/ DoInsert \/ DoReplace \/ DoImState
            \/ Serve \/ Answer \/ Tick]_vars
  <2>1. core' = core
    BY <1>7 DEF SendMessage, EditMessage, Resume, Confirm, DoInsert, DoReplace, DoImState,
                Serve, ServerTakes, Answer, AnswerOk, AnswerNoHistoryId, AnswerError,
                AnswerRejected, RequestDropped, Answered, Tick, vars
  <2> QED  BY <1>0, <2>1
<1> QED
  BY <1>1, <1>2, <1>3, <1>4, <1>5, <1>6, <1>7 DEF Next, Archive

\* A request that agrees brings the server to show the last text.
LEMMA ServerAgrees ==
    ASSUME TypeInv, NEW i \in DOMAIN net, ServerTakes(i), NEW m \in Messages, Agrees(m)
    PROVE  /\ net[i].message = m => text'[m] = kept[m]
           /\ net[i].message # m => /\ text'[m] = text[m]
                                    /\ Delivery!Delivered(m)' => Delivery!Delivered(m)
<1>h. /\ TypeOK /\ net \in Seq(Requests) /\ text \in [Messages -> Versions \union {0}]
      /\ ContactOf \in [Messages -> Contacts] /\ server \in [Contacts -> Seq(Messages)]
  BY TypeParts
<1>1. PICK q \in Requests, n \in Messages : q = net[i] /\ n = q.message
  BY <1>h, ReferTypes
<1>2. AgreesRequest(m, q)
  BY <1>1 DEF Agrees, ToSet
<1>3. PICK c \in Contacts : c = ContactOf[n]
  BY <1>h
<1>4. CASE n \notin ToSet(server[c])
  <2>1. text' = [text EXCEPT ![n] = q.version] /\ server' = [server EXCEPT ![c] = Append(@, n)]
    BY <1>1, <1>3, <1>4 DEF ServerTakes
  <2>2. CASE n = m
    BY <1>1, <1>2, <1>h, <2>1, <2>2 DEF AgreesRequest
  <2>3. CASE n # m
    <3>1. text'[m] = text[m]
      BY <1>h, <2>1, <2>3
    <3>2. ASSUME Delivery!Delivered(m)' PROVE Delivery!Delivered(m)
      <4>1. PICK d \in Contacts : d = ContactOf[m]
        BY <1>h
      <4>2. PICK j \in DOMAIN server'[d] : server'[d][j] = m
        BY <3>2, <4>1 DEF Delivery!Delivered, Delivery!In
      <4>3. CASE d # c
        <5>1. server'[d] = server[d]
          BY <1>h, <2>1, <4>3
        <5> QED  BY <4>1, <4>2, <5>1 DEF Delivery!Delivered, Delivery!In
      <4>4. CASE d = c
        <5>1. server'[d] = Append(server[d], n) /\ server[d] \in Seq(Messages)
          BY <1>h, <2>1, <4>4
        <5>2. j \in DOMAIN server[d] /\ server[d][j] = m
          BY <2>3, <4>2, <5>1, AppendPlaces
        <5> QED  BY <4>1, <5>2 DEF Delivery!Delivered, Delivery!In
      <4> QED  BY <4>3, <4>4
    <3> QED  BY <1>1, <2>3, <3>1, <3>2
  <2> QED  BY <2>2, <2>3
<1>5. CASE n \in ToSet(server[c])
  <2>1. server' = server /\ text' = IF q.edit THEN [text EXCEPT ![n] = q.version] ELSE text
    BY <1>1, <1>3, <1>5 DEF ServerTakes
  <2>2. CASE n = m
    <3>1. CASE q.edit
      BY <1>1, <1>2, <1>h, <2>1, <2>2, <3>1 DEF AgreesRequest
    <3>2. CASE ~q.edit
      <4>1. Delivery!Delivered(m)
        BY <1>3, <1>5, <2>2 DEF Delivery!Delivered, Delivery!In, ToSet
      <4>2. <<m, kept[m]>> \notin known
        BY <1>1, <1>2, <2>2, <3>2 DEF AgreesRequest
      <4>3. text[m] = kept[m]
        BY <4>1, <4>2 DEF Agrees, AgreesServer
      <4> QED  BY <1>1, <2>1, <2>2, <3>2, <4>3
    <3> QED  BY <3>1, <3>2
  <2>3. CASE n # m
    <3>1. text'[m] = text[m]
      BY <1>h, <2>1, <2>3
    <3>2. Delivery!Delivered(m)' => Delivery!Delivered(m)
      BY <2>1 DEF Delivery!Delivered, Delivery!In
    <3> QED  BY <1>1, <2>3, <3>1, <3>2
  <2> QED  BY <2>2, <2>3
<1> QED  BY <1>4, <1>5

\* Only the server changes what it has and shows.
LEMMA ServerByServe ==
    ASSUME [Next]_vars, ~Serve
    PROVE  UNCHANGED <<server, text>>
<1>1. CASE [\/ \E n \in Messages : SendMessage(n) \/ EditMessage(n)
            \/ Resume
            \/ \E n \in Messages, how \in Confirmations : Confirm(n, how)
            \/ Archive \/ Core \/ Answer \/ Tick \/ Fire \/ Crash]_vars
  BY <1>1 DEF SendMessage, EditMessage, Resume, Confirm, Archive, ArchiveTask, DoInsert,
              DoReplace, DoGet, DoTouch, DoRemove, DoImState, Core, OnGotNothing,
              OnGotRecent, OnGotReady, OnTouched, GoOn, CoreTask, Answer, AnswerOk,
              AnswerNoHistoryId, AnswerError, AnswerRejected, RequestDropped, Answered,
              Tick, Fire, FireTimer, Crash, vars, remote
<1> QED  BY <1>1 DEF Next

\* An id is noted for an edit of the message that the archive thread is told to remove.
LEMMA KnownByTask ==
    ASSUME TypeOK, [Next]_vars, NEW m \in Messages, NEW v, ~Targets(m)
    PROVE  <<m, v>> \in known' <=> <<m, v>> \in known
<1>h. /\ archive \in Seq(ArchiveTasks)
  BY DEF TypeOK
<1>1. CASE DoRemove
  <2>1. archive # <<>> /\ Head(archive).kind = "remove"
    BY <1>1 DEF DoRemove, ArchiveTask
  <2>2. PICK n \in Messages : n = Head(archive).message /\ n # m
    BY <1>1, <2>1, ArchiveHead DEF Targets
  <2>3. \/ known' = known
        \/ \E w : known' = known \union {<<n, w>>}
    BY <1>1, <2>2 DEF DoRemove, RemovePending
  <2> QED  BY <2>2, <2>3
<1>2. CASE [\/ \E n \in Messages : SendMessage(n) \/ EditMessage(n)
            \/ Resume
            \/ \E n \in Messages, how \in Confirmations : Confirm(n, how)
            \/ DoInsert \/ DoReplace \/ DoGet \/ DoTouch \/ DoImState
            \/ Core \/ Serve \/ Answer \/ Tick \/ Fire \/ Crash]_vars
  <2>1. known' = known
    BY <1>2 DEF SendMessage, EditMessage, Resume, Confirm, DoInsert,
              DoReplace, DoGet, DoTouch, DoImState, Core, OnGotNothing,
              OnGotRecent, OnGotReady, OnTouched, GoOn, CoreTask, Serve, ServerTakes,
              Answer, AnswerOk, AnswerNoHistoryId, AnswerError, AnswerRejected,
              RequestDropped, Answered, Tick, Fire, FireTimer, Crash, vars
  <2> QED  BY <2>1
<1> QED  BY <1>1, <1>2 DEF Next, Archive

\* What is sent to the server, and what it does with it, agrees.
LEMMA RequestsAgree ==
    ASSUME TypeInv, [Next]_vars, NEW m \in Messages, Steady(m), Agrees(m)
    PROVE  \A q \in ToSet(net') : AgreesRequest(m, q)'
<1>h. /\ TypeOK /\ SameMessages /\ core \in Seq(CoreTasks) /\ net \in Seq(Requests)
  BY MessagesStay DEF TypeInv, TypeOK
<1>0. ASSUME NEW q \in ToSet(net) PROVE AgreesRequest(m, q)'
  <2>1. q \in Requests /\ AgreesRequest(m, q)
    BY <1>h, ElementTypes DEF Agrees
  <2> QED  BY <1>h, <2>1, AgreementStays
<1>1. CASE OnTouched
  <2>1. core # <<>> /\ Head(core).kind = "touched"
    BY <1>1 DEF OnTouched, CoreTask
  <2>2. PICK r \in Refs : r = Head(core).ref
    BY <1>h, <2>1, CoreHead
  <2>3. Head(core) \in ToSet(core) /\ r # 0
    BY <1>h, <2>1, ToSetTail DEF Refs
  <2>4. /\ heap[r].message = m => heap[r].version = kept[m]
        /\ heap[r] \in Objects
    BY <1>h, <2>2, <2>3, ReferTypes DEF Agrees, AgreesCallback
  <2> DEFINE e == <<heap[r].message, heap[r].version>> \in known
             q == [ref |-> r, message |-> heap[r].message,
                   version |-> heap[r].version, edit |-> e, served |-> FALSE]
  <2>5. net' = Append(net, q)
    BY <1>1, <2>2 DEF OnTouched
  <2>6. q \in Requests
    BY <2>4 DEF Requests, Objects
  <2>7. PICK p \in Requests : p = q
    BY <2>6
  <2>8. AgreesRequest(m, p)'
    <3>1. /\ p.message = heap[r].message /\ p.version = heap[r].version
          /\ p.edit = (<<heap[r].message, heap[r].version>> \in known) /\ p.served = FALSE
      BY <2>7
    <3>2. AgreesRequest(m, p)
      BY <2>4, <3>1 DEF AgreesRequest
    <3> QED  BY <1>h, <3>2, AgreementStays
  <2>9. net' = Append(net, p)
    BY <2>5, <2>7
  <2> QED  BY <1>0, <1>h, <2>8, <2>9, ToSetAppend
<1>2. CASE Serve
  <2>1. PICK i \in DOMAIN net : ServerTakes(i)
    BY <1>2 DEF Serve
  <2>2. PICK q \in Requests : q = net[i] /\ i \in 1..Len(net)
    BY <1>h, ReferTypes
  <2>p. PICK p : p = [q EXCEPT !.served = TRUE]
    OBVIOUS
  <2>3. p \in Requests /\ p.message = q.message /\ p.version = q.version /\ p.edit = q.edit
    BY <2>p DEF Requests
  <2>4. net' = [net EXCEPT ![i] = p]
    BY <2>1, <2>2, <2>p DEF ServerTakes
  <2>5. ToSet(net') \subseteq ToSet(net) \union {p}
    BY <1>h, <2>2, <2>4, ToSetRemoveAt
  <2>6. AgreesRequest(m, q)
    BY <2>2 DEF Agrees, ToSet
  <2>7. q.message = m => text'[m] = kept[m]
    BY <2>1, <2>2, ServerAgrees
  <2>8. AgreesRequest(m, p)'
    BY <2>3, <2>6, <2>7 DEF AgreesRequest, Steady
  <2> QED  BY <1>0, <2>5, <2>8
<1>3. CASE Answer
  <2>1. PICK i \in DOMAIN net : net' = RemoveAt(net, i)
    BY <1>3 DEF Answer, AnswerOk, AnswerNoHistoryId, AnswerError, AnswerRejected,
                RequestDropped, Answered
  <2>2. i \in 1..Len(net)
    BY <1>h, ReferTypes
  <2> QED  BY <1>0, <1>h, <2>1, <2>2, ToSetRemoveAt
<1>4. CASE Crash
  <2>1. ToSet(net') = {}
    BY <1>4 DEF Crash, ToSet
  <2> QED  BY <2>1
<1>5. CASE [\/ \E n \in Messages : SendMessage(n) \/ EditMessage(n)
            \/ Resume
            \/ \E n \in Messages, how \in Confirmations : Confirm(n, how)
            \/ Archive
            \/ OnGotNothing \/ OnGotRecent \/ OnGotReady \/ GoOn
            \/ Tick \/ Fire]_vars
  <2>1. net' = net
    BY <1>5 DEF SendMessage, EditMessage, Resume, Confirm, Archive, DoInsert, DoReplace,
                DoGet, DoTouch, DoRemove, DoImState, ArchiveTask, OnGotNothing, OnGotRecent,
                OnGotReady, GoOn, Tick, Fire, FireTimer, vars, chain
  <2> QED  BY <1>0, <2>1
<1> QED
  BY <1>1, <1>2, <1>3, <1>4, <1>5 DEF Next, Core

\* Agreement lasts as long as the archive takes no other text, notes no other id and
\* removes no entry whose text the server does not show.
LEMMA AgreesStep ==
    ASSUME DeliveryInv, LastTexts, [Next]_vars, NEW m \in Messages, m \notin Exempt',
           Agrees(m), kept'[m] = kept[m],
           <<m, kept[m]>> \in known' <=> <<m, kept[m]>> \in known,
           PlacesOf(m)' = {} => PlacesOf(m) = {} \/ text[m] = kept[m]
    PROVE  Agrees(m)'
<1>h. /\ TypeInv /\ TypeOK /\ Lists
  BY DEF DeliveryInv, TypeInv
<1>g. m \in Messages \ copied
  BY <1>h, ExemptGrows DEF Exempt
<1>1. CASE Serve
  <2>1. PICK i \in DOMAIN net : ServerTakes(i)
    BY <1>1 DEF Serve
  <2>2. /\ net[i].message = m => text'[m] = kept[m]
        /\ net[i].message # m => /\ text'[m] = text[m]
                                 /\ Delivery!Delivered(m)' => Delivery!Delivered(m)
    BY <1>h, <2>1, ServerAgrees
  <2>3. Steady(m) /\ AgreesServer(m)'
    BY <2>2 DEF Steady, Agrees, AgreesServer
  <2> QED  BY <1>g, <1>h, <2>3, TasksAgree, CallbacksAgree, RequestsAgree DEF Agrees
<1>2. CASE ~Serve
  <2>1. server' = server /\ text' = text
    BY <1>2, ServerByServe
  <2>2. Delivery!Delivered(m)' => Delivery!Delivered(m)
    BY <2>1 DEF Delivery!Delivered, Delivery!In
  <2>3. Steady(m) /\ AgreesServer(m)'
    BY <2>1, <2>2 DEF Steady, Agrees, AgreesServer
  <2> QED  BY <1>g, <1>h, <2>3, TasksAgree, CallbacksAgree, RequestsAgree DEF Agrees
<1> QED  BY <1>1, <1>2

\* Where an entry is, a list shows it.
LEMMA PlacesShown ==
    ASSUME NEW m \in Messages
    PROVE  PlacesOf(m) # {} <=> \E v, e : Shows(m, v, e)
BY DEF PlacesOf, Shows

\* Nothing is on its way for a message that was not taken.
LEMMA NotCarried ==
    ASSUME DeliveryInv, DeliveredTaken, Removals, NEW m \in Messages \ Exempt,
           ~Delivery!Taken(m)
    PROVE  /\ \A t \in ToSet(archive) : /\ t.kind = "touch" => heap[t.ref].message # m
                                        /\ t.kind = "remove" => t.message # m
           /\ \A t \in ToSet(core) : t.ref # 0 => heap[t.ref].message # m
           /\ \A q \in ToSet(net) : q.message # m
           /\ ~Delivery!Delivered(m)
<1>1. ~Delivery!ItsTurn(m) /\ ~Delivery!Delivered(m)
  BY DEF Delivery!ItsTurn, Delivery!Taken, Delivery!In, DeliveredTaken
<1>2. ASSUME NEW t \in ToSet(archive)
      PROVE  /\ t.kind = "touch" => heap[t.ref].message # m
             /\ t.kind = "remove" => t.message # m
  <2>1. TaskFits(t) /\ RemovalFits(t)
    BY DEF DeliveryInv, InTransit, Removals
  <2>2. t.kind = "touch" => heap[t.ref].message # m
    BY <1>1, <2>1 DEF TaskFits
  <2>3. t.kind = "remove" => t.message # m
    BY <2>1 DEF RemovalFits, Exempt
  <2> QED  BY <2>2, <2>3
<1>3. \A t \in ToSet(core) : t.ref # 0 => heap[t.ref].message # m
  BY <1>1 DEF DeliveryInv, InTransit, CallbackFits
<1>4. \A q \in ToSet(net) : q.message # m
  BY <1>1 DEF DeliveryInv, InTransit, RequestFits
<1> QED  BY <1>1, <1>2, <1>3, <1>4

\* A message that is taken is on its way nowhere else.
LEMMA InsertAgrees ==
    ASSUME DeliveryInv, DeliveredTaken, Removals, [Next]_vars, DoInsert,
           NEW m \in Messages \ Exempt, m = Head(archive).object.message
    PROVE  Agrees(m)'
<1>h. /\ TypeInv /\ TypeOK /\ Lists /\ TakenOnce /\ SameMessages /\ archive # <<>>
      /\ archive \in Seq(ArchiveTasks) /\ core \in Seq(CoreTasks) /\ net \in Seq(Requests)
      /\ Head(archive).kind = "insert"
  BY MessagesStay DEF DeliveryInv, TypeInv, TypeOK, DoInsert, ArchiveTask
<1>1. archive' = Tail(archive) /\ UNCHANGED <<core, net, server>>
  BY DEF DoInsert, ArchiveTask, remote
<1>2. /\ \A t \in ToSet(archive) : /\ t.kind = "touch" => heap[t.ref].message # m
                                   /\ t.kind = "remove" => t.message # m
      /\ \A t \in ToSet(core) : t.ref # 0 => heap[t.ref].message # m
      /\ \A q \in ToSet(net) : q.message # m
      /\ ~Delivery!Delivered(m)
  BY <1>h, InsertsNew, NotCarried
<1>3. ASSUME NEW t \in ToSet(archive') PROVE AgreesTask(m, t)'
  <2>1. t \in ToSet(archive) /\ t \in ArchiveTasks
    BY <1>1, <1>h, ToSetTail, ElementTypes
  <2>2. t.kind = "touch" => t.ref \in Refs
    BY <2>1 DEF ArchiveTasks, GetTask
  <2>3. t.kind = "touch" => heap'[t.ref].message # m
    BY <1>2, <1>h, <2>1, <2>2 DEF SameMessages
  <2> QED  BY <1>2, <2>1, <2>3 DEF AgreesTask
<1>4. ASSUME NEW t \in ToSet(core') PROVE AgreesCallback(m, t)'
  <2>1. t \in ToSet(core) /\ t \in CoreTasks
    BY <1>1, <1>h, ElementTypes
  <2>2. t.ref # 0 => t.ref \in Refs
    BY <2>1 DEF CoreTasks
  <2>3. t.ref # 0 => heap'[t.ref].message # m
    BY <1>2, <1>h, <2>1, <2>2 DEF SameMessages
  <2> QED  BY <2>3 DEF AgreesCallback
<1>5. \A q \in ToSet(net') : AgreesRequest(m, q)'
  BY <1>1, <1>2 DEF AgreesRequest
<1>6. AgreesServer(m)'
  <2>1. ~Delivery!Delivered(m)'
    BY <1>1, <1>2 DEF Delivery!Delivered, Delivery!In
  <2>2. PICK o \in Objects : o = Head(archive).object
    BY <1>h, ArchiveHead
  <2>3. PlacesOf(m)' # {}
    BY <1>h, <2>2, InsertedEntry
  <2> QED  BY <2>1, <2>3 DEF AgreesServer
<1> QED  BY <1>3, <1>4, <1>5, <1>6 DEF Agrees

\* When an answer finds an edit, the chain is there, and nowhere else: what is sent
\* next is the edit.
LEMMA KeepsEditAgrees ==
    ASSUME DeliveryInv, ChainInv, Removals, LastTexts, [Next]_vars, DoRemove,
           NEW m \in Messages, m \notin Exempt, m = Head(archive).message,
           PlacesOf(m)' # {}, NEW v \in Versions, Shows(m, v, TRUE),
           known' = known \union {<<m, v>>}
    PROVE  Agrees(m)'
<1>h. /\ TypeInv /\ TypeOK /\ archive # <<>> /\ Head(archive).kind = "remove"
      /\ archive \in Seq(ArchiveTasks) /\ core \in Seq(CoreTasks) /\ net \in Seq(Requests)
  BY DEF DeliveryInv, TypeInv, TypeOK, DoRemove, ArchiveTask
<1>1. /\ archive' = Tail(archive) /\ UNCHANGED <<net, kept>>
      /\ core' = core \/ core' = Append(core, Callback("removed", 0))
  BY DEF DoRemove, ArchiveTask
<1>2. v = kept[m]
  BY DEF LastTexts, Exempt
<1>3. PICK t0 \in ArchiveTasks : t0 = Head(archive) /\ t0 \in ToSet(archive)
  BY <1>h, ToSetTail
<1>4. t0.kind = "remove" /\ t0.goesOn
  <2>1. RemovalFits(t0)
    BY <1>3 DEF Removals
  <2> QED  BY <1>3, <1>h, <2>1 DEF RemovalFits, Exempt
<1>5. Among(archive, Carriers) = Among(archive', Carriers) + 1
  <2>1. Weight(t0, Carriers) = 1
    BY <1>4, TaskWeights DEF Flag
  <2> QED  BY <1>1, <1>3, <1>h, <2>1, AmongTail
<1>6. archive' \in Seq(ArchiveTasks) /\ Among(archive', Carriers) \in Nat
  <2>1. archive' \in Seq(ArchiveTasks)
    BY <1>1, <1>h, ToSetTail
  <2> QED  BY <2>1, AmongType
<1>7. /\ Among(archive, Carriers) \in Nat /\ Among(core, Links) \in Nat /\ Len(net) \in Nat
  BY <1>h, ChainNumbers
<1>8. Among(archive, Carriers) # 0
  BY <1>5, <1>6
<1>9. Among(archive, Carriers) + Among(core, Links) + Len(net) = 1
  BY <1>8, ChainHere
<1>10. Among(archive', Carriers) = 0 /\ Among(core, Links) = 0 /\ Len(net) = 0
  BY <1>5, <1>6, <1>7, <1>9
<1>11. ASSUME NEW t \in ToSet(archive') PROVE AgreesTask(m, t)'
  <2>1. PICK i \in DOMAIN archive' : t = archive'[i]
    BY DEF ToSet
  <2>2. t \in ArchiveTasks /\ t \notin Carriers
    BY <1>6, <1>10, <2>1, AmongZero, ElementOfSeq, LenProperties
  <2>3. t \in ToSet(archive)
    BY <1>1, <1>h, ToSetTail
  <2>4. t.kind # "touch"
    BY <2>2, TaskWeights DEF Weight, Flag
  <2>5. t.kind = "remove" => ~t.goesOn
    BY <2>2, TaskWeights DEF Weight, Flag
  <2>6. t.kind = "remove" => t.message # m
    BY <2>3, <2>5 DEF Removals, RemovalFits, Exempt
  <2> QED  BY <2>4, <2>6 DEF AgreesTask
<1>12. ASSUME NEW t \in ToSet(core') PROVE AgreesCallback(m, t)'
  <2>1. CASE t \in ToSet(core)
    <3>1. PICK i \in DOMAIN core : t = core[i]
      BY <2>1 DEF ToSet
    <3>2. t \in CoreTasks /\ t \notin Links
      BY <1>10, <1>h, <3>1, AmongZero, ElementOfSeq, LenProperties
    <3>3. t.ref = 0
      BY <3>2 DEF CoreTasks, Links, Refs
    <3> QED  BY <3>3 DEF AgreesCallback
  <2>2. CASE t = Callback("removed", 0)
    BY <2>2 DEF AgreesCallback, Callback
  <2>3. Callback("removed", 0) \in CoreTasks
    BY CallbackTypes
  <2>4. t \in ToSet(core) \/ t = Callback("removed", 0)
    <3>1. CASE core' = Append(core, Callback("removed", 0))
      <4>1. ToSet(core') = ToSet(core) \union {Callback("removed", 0)}
        BY <1>h, <2>3, <3>1, ToSetAppend
      <4> QED  BY <4>1
    <3> QED  BY <1>1, <3>1
  <2> QED  BY <2>1, <2>2, <2>4
<1>13. \A q \in ToSet(net') : AgreesRequest(m, q)'
  <2>1. ToSet(net') = {}
    BY <1>1, <1>10, <1>h, EmptySeq, LenProperties DEF ToSet
  <2> QED  BY <2>1
<1>14. AgreesServer(m)'
  BY <1>1, <1>2 DEF AgreesServer
<1> QED  BY <1>11, <1>12, <1>13, <1>14 DEF Agrees

\* Each step keeps an edit in the list, or what agrees on its way.
LEMMA EditInvStep ==
    ASSUME DeliveryInv, ChainInv, ListedOnce, DeliveredTaken, Removals, TextsToCome, LastTexts,
           EditInv, [Next]_vars
    PROVE  EditInv'
<1>h. /\ TypeInv /\ TypeOK /\ SameMessages /\ Lists /\ TakenOnce
      /\ archive \in Seq(ArchiveTasks)
  BY MessagesStay DEF DeliveryInv, TypeInv, TypeOK
<1>i. TypeOK'
  BY <1>h, TypeInvStep DEF TypeInv
<1> SUFFICES ASSUME NEW m \in Messages, m \notin Exempt'
             PROVE  HasEdit(m)' \/ Agrees(m)'
  BY DEF EditInv
<1>1. m \in Messages \ Exempt /\ m \in Messages \ copied /\ TextsOf(m)
  BY <1>h, ExemptGrows DEF Exempt, TextsToCome
<1>2. HasEdit(m) \/ Agrees(m)
  BY <1>1 DEF EditInv
<1>3. CASE ~Targets(m)
  <2>1. SameEntries(m)
    BY <1>3, <1>h, EntriesStay
  <2>2. CASE HasEdit(m)
    <3>1. PICK v \in Versions : Shows(m, v, TRUE)'
      BY <2>1, <2>2 DEF HasEdit, SameEntries
    <3> QED  BY <3>1 DEF HasEdit, Versions
  <2>3. CASE Agrees(m)
    <3>1. kept'[m] = kept[m]
      BY <1>3, <1>h, KeptByTask, KeptByOthers
    <3>2. <<m, kept[m]>> \in known' <=> <<m, kept[m]>> \in known
      BY <1>3, <1>h, KnownByTask
    <3>3. PlacesOf(m)' = {} => PlacesOf(m) = {}
      <4>1. PlacesOf(m) # {} => \E v \in Versions, e \in BOOLEAN : Shows(m, v, e)
        BY <1>h, PlacesShown, ShowsPlace
      <4>2. (\E v \in Versions, e \in BOOLEAN : Shows(m, v, e)') => PlacesOf(m)' # {}
        BY DEF PlacesOf, Shows
      <4> QED  BY <2>1, <4>1, <4>2 DEF SameEntries
    <3> QED  BY <2>3, <3>1, <3>2, <3>3, AgreesStep
  <2> QED  BY <1>2, <2>2, <2>3
<1>4. CASE DoInsert /\ Head(archive).object.message = m
  BY <1>1, <1>4, InsertAgrees
<1>5. CASE DoReplace /\ Head(archive).object.message = m
  <2>1. archive # <<>> /\ Head(archive).kind = "replace"
    BY <1>5 DEF DoReplace, ArchiveTask
  <2>2. PICK o \in Objects : o = Head(archive).object /\ m = o.message
    BY <1>5, <1>h, <2>1, ArchiveHead
  <2>3. CASE PlacesOf(m) = {}
    <3>1. UNCHANGED <<heap, pending, kept, known>>
      BY <1>5, <2>2, <2>3 DEF DoReplace
    <3>2. ~HasEdit(m)
      BY <2>3 DEF PlacesOf, HasEdit, Shows
    <3> QED  BY <1>2, <2>3, <3>1, <3>2, AgreesStep
  <2>4. CASE PlacesOf(m) # {}
    <3>1. o.modified /\ o.version \in Versions
      <4>1. Head(archive) = archive[1] /\ 1 \in DOMAIN archive
        BY <1>h, <2>1, HeadTailProperties, LenProperties, EmptySeq
      <4>2. TextFits(m, Head(archive))
        BY <1>1, <4>1 DEF TextsOf
      <4> QED  BY <2>1, <2>2, <4>2 DEF TextFits, NewText, Objects
    <3>2. Shows(m, o.version, o.modified)'
      BY <1>5, <1>h, <2>2, <2>4, ReplacedEntry
    <3>3. PICK v \in Versions : v = o.version
      BY <3>1
    <3>4. o.modified = TRUE
      BY <3>1 DEF Objects
    <3>5. Shows(m, v, TRUE)'
      BY <3>2, <3>3, <3>4
    <3> QED  BY <3>5 DEF HasEdit, Versions
  <2> QED  BY <2>3, <2>4
<1>6. CASE DoRemove /\ Head(archive).message = m
  <2>1. archive # <<>> /\ Head(archive).kind = "remove"
    BY <1>6 DEF DoRemove, ArchiveTask
  <2>2. Head(archive) \in ToSet(archive) /\ Head(archive).force \in BOOLEAN
    BY <1>h, <2>1, ToSetTail, ArchiveHead
  <2>3. ~Head(archive).force
    BY <1>1, <1>6, <2>1, <2>2 DEF Removals, RemovalFits, Exempt
  <2>4. kept' = kept
    BY <1>6 DEF DoRemove
  <2>5. CASE PlacesOf(m) = {}
    <3>1. known' = known
      BY <1>6, <2>5 DEF DoRemove, RemovePending
    <3>2. ~HasEdit(m)
      BY <2>5 DEF PlacesOf, HasEdit, Shows
    <3> QED  BY <1>2, <2>4, <2>5, <3>1, <3>2, AgreesStep
  <2>6. CASE PlacesOf(m)' = {} /\ ~HasEdit(m) /\ UNCHANGED known
    <3>1. Agrees(m)
      BY <1>2, <2>6
    <3>2. text[m] = kept[m]
      BY <1>6, <2>1, <2>2, <3>1 DEF Agrees, AgreesTask
    <3> QED  BY <2>4, <2>6, <3>1, <3>2, AgreesStep
  <2>7. CASE /\ PlacesOf(m)' # {}
             /\ \E v \in Versions : Shows(m, v, TRUE) /\ known' = known \union {<<m, v>>}
    BY <1>1, <1>6, <2>7, KeepsEditAgrees
  <2> QED  BY <1>6, <1>h, <2>3, <2>5, <2>6, <2>7, AnsweredEntry
<1>7. CASE DoImState /\ Head(archive).message = m
  <2>1. archive # <<>> /\ Head(archive).kind = "imstate"
    BY <1>7 DEF DoImState, ArchiveTask
  <2>2. Head(archive) \in ToSet(archive)
    BY <1>h, <2>1, ToSetTail
  <2> QED  BY <1>1, <1>7, <2>1, <2>2 DEF Removals, RemovalFits, Exempt
<1> QED  BY <1>3, <1>4, <1>5, <1>6, <1>7 DEF Targets

\* The inductive invariant: what a message's entry, what is on its way and what the
\* server shows have to do with the last text the archive took.
EditsInv ==
    /\ DeliveryInv /\ ChainInv
    /\ ListedOnce /\ DeliveredTaken /\ Removals /\ TextsToCome /\ LastTexts /\ EditInv

\* No list, no task and no text: it holds at the start.
LEMMA EditsInit == Init => EditsInv
<1> SUFFICES ASSUME Init PROVE EditsInv
  OBVIOUS
<1>1. DeliveryInv /\ ChainInv
  BY DeliveryInit, ChainInit
<1>2. /\ \A c \in Contacts : pending[c] = <<>> /\ server[c] = <<>>
      /\ archive = <<>> /\ core = <<>> /\ net = <<>>
      /\ \A m \in Messages : kept[m] = 0 /\ written[m] = 0
      /\ ContactOf \in [Messages -> Contacts]
  BY PendingMessagesAssumption DEF Init
<1>3. /\ \A c \in Contacts : DOMAIN pending[c] = {} /\ DOMAIN server[c] = {}
      /\ ToSet(archive) = {} /\ ToSet(core) = {} /\ ToSet(net) = {} /\ DOMAIN archive = {}
  BY <1>2 DEF ToSet
<1>4. \A m \in Messages : ~Delivery!Delivered(m)
  BY <1>2, <1>3 DEF Delivery!Delivered, Delivery!In
<1>5. \A m \in Messages : \A v, e : ~Shows(m, v, e)
  BY <1>2, <1>3 DEF Shows
<1>6. ListedOnce /\ Removals
  BY <1>3 DEF ListedOnce, Removals
<1>7. DeliveredTaken /\ LastTexts
  BY <1>4, <1>5 DEF DeliveredTaken, LastTexts
<1>8. TextsToCome
  BY <1>2, <1>3 DEF TextsToCome, TextsOf
<1>9. EditInv
  BY <1>2, <1>3, <1>4 DEF EditInv, Agrees, AgreesServer
<1> QED  BY <1>1, <1>6, <1>7, <1>8, <1>9 DEF EditsInv

\* A message that has left its list has no edit, so the server shows its last text.
LEMMA EditsShown == EditsInv => EditsKept
<1> SUFFICES ASSUME EditsInv, NEW m \in Messages, kept[m] # 0, PlacesOf(m) = {}, m \notin Exempt
             PROVE  text[m] = kept[m]
  BY DEF EditsKept, Exempt
<1>1. ~HasEdit(m)
  BY DEF PlacesOf, HasEdit, Shows
<1> QED  BY <1>1 DEF EditsInv, EditInv, Agrees, AgreesServer

\* EditsKept: a message that has left its list is on the server with the last text the
\* archive took for it, whatever edits, errors, restarts and lost answers there were,
\* unless it was refused, answered without a history id or confirmed besides the
\* answer.  The proof has the chain be one: when an answer finds an edit, nothing
\* else of the message is on its way.
THEOREM EditsSurvive == ASSUME KeepsUp PROVE Spec => []EditsKept
<1>1. EditsInv /\ [Next]_vars => EditsInv'
  <2> SUFFICES ASSUME EditsInv, [Next]_vars PROVE EditsInv'
    OBVIOUS
  <2>1. DeliveryInv' /\ ChainInv'
    BY DeliveryInvStep, ChainStep DEF EditsInv
  <2>2. ListedOnce' /\ DeliveredTaken' /\ Removals'
    BY ListedOnceStep, DeliveredTakenStep, RemovalsStep DEF EditsInv, DeliveryInv
  <2>3. TextsToCome' /\ LastTexts'
    BY TextsToComeStep, LastTextsStep DEF EditsInv
  <2>4. EditInv'
    BY EditInvStep DEF EditsInv
  <2> QED  BY <2>1, <2>2, <2>3, <2>4 DEF EditsInv
<1> QED  BY <1>1, EditsInit, EditsShown, PTL DEF Spec
=============================================================================
