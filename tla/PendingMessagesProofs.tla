------------------------ MODULE PendingMessagesProofs ------------------------
(***************************************************************************)
(* Proofs about PendingMessages for every set of messages and contacts,    *)
(* every choice of outcomes and confirmations, and any number of edits,    *)
(* faults and crashes.                                                     *)
(***************************************************************************)
EXTENDS PendingMessages, SequenceLemmas

-----------------------------------------------------------------------------
(* Type correctness. *)

\* The scheduler's timers are finitely many: each was started by a step.
TypeInv == TypeOK /\ IsFiniteSet(timers)

\* The types of the variables, one by one: what most of the proofs below start from.
LEMMA TypeParts ==
    ASSUME TypeInv
    PROVE  /\ TypeOK
           /\ heap \in Seq(Objects) /\ Len(heap) \in Nat
           /\ pending \in [Contacts -> Seq(Refs)]
           /\ archive \in Seq(ArchiveTasks)
           /\ core \in Seq(CoreTasks)
           /\ net \in Seq(Requests)
           /\ server \in [Contacts -> Seq(Messages)]
           /\ taken \in [Contacts -> Seq(Messages)]
           /\ text \in [Messages -> Versions \union {0}]
           /\ written \in [Messages -> Versions \union {0}]
           /\ kept \in [Messages -> Versions \union {0}]
           /\ ContactOf \in [Messages -> Contacts]
           /\ Versions \subseteq Nat
<1>1. TypeOK
  BY DEF TypeInv
<1>2. /\ heap \in Seq(Objects) /\ archive \in Seq(ArchiveTasks) /\ core \in Seq(CoreTasks)
      /\ net \in Seq(Requests)
  BY <1>1 DEF TypeOK
<1>3. pending \in [Contacts -> Seq(Refs)]
  BY <1>1 DEF TypeOK
<1>4. server \in [Contacts -> Seq(Messages)] /\ taken \in [Contacts -> Seq(Messages)]
  BY <1>1 DEF TypeOK
<1>5. /\ text \in [Messages -> Versions \union {0}]
      /\ written \in [Messages -> Versions \union {0}]
      /\ kept \in [Messages -> Versions \union {0}]
  BY <1>1 DEF TypeOK
<1>6. Len(heap) \in Nat
  BY <1>2, LenProperties
<1>7. ContactOf \in [Messages -> Contacts] /\ Versions \subseteq Nat
  BY PendingMessagesAssumption DEF Versions
<1> QED  BY ONLY <1>1, <1>2, <1>3, <1>4, <1>5, <1>6, <1>7

\* A sequence over a set is one over every larger set.
LEMMA SeqGrows ==
    ASSUME NEW S, NEW T, S \subseteq T, NEW s \in Seq(S)
    PROVE  s \in Seq(T)
<1>1. /\ Len(s) \in Nat /\ s = [i \in 1..Len(s) |-> s[i]]
      /\ \A i \in 1..Len(s) : s[i] \in T
  BY LenProperties, ElementOfSeq
<1> QED  BY <1>1, IsASeq

\* Appending tasks one after the other.
LEMMA AppendsType ==
    ASSUME NEW S, NEW s \in Seq(S), NEW t \in Seq(S), NEW e \in S
    PROVE  s \o t \in Seq(S) /\ (s \o t) \o <<e>> \in Seq(S)
<1>1. s \o t \in Seq(S) /\ <<e>> \in Seq(S)
  BY ConcatProperties
<1> QED  BY <1>1, ConcatProperties

\* References stay good: the heap only grows.
LEMMA HeapGrows ==
    ASSUME TypeOK, Len(heap') \in Nat, Len(heap) <= Len(heap')
    PROVE  /\ Refs \subseteq Refs'
           /\ pending \in [Contacts -> Seq(Refs')]
           /\ archive \in Seq(ArchiveTasks')
           /\ core \in Seq(CoreTasks')
           /\ net \in Seq(Requests')
<1>1. Len(heap) \in Nat
  BY DEF TypeOK
<1>2. Refs \subseteq Refs'
  BY <1>1 DEF Refs
<1>3. /\ ArchiveTasks \subseteq ArchiveTasks'
      /\ CoreTasks \subseteq CoreTasks'
      /\ Requests \subseteq Requests'
  BY <1>2 DEF ArchiveTasks, CoreTasks, Requests, Objects, Versions, GetTask
<1>4. pending \in [Contacts -> Seq(Refs')]
  <2>1. \A c \in Contacts : pending[c] \in Seq(Refs)
    BY DEF TypeOK
  <2>2. \A c \in Contacts : pending[c] \in Seq(Refs')
    BY <1>2, <2>1, SeqGrows
  <2> QED  BY <2>2 DEF TypeOK
<1>5. archive \in Seq(ArchiveTasks')
  BY <1>3, SeqGrows DEF TypeOK
<1>6. core \in Seq(CoreTasks')
  BY <1>3, SeqGrows DEF TypeOK
<1>7. net \in Seq(Requests')
  BY <1>3, SeqGrows DEF TypeOK
<1> QED  BY <1>2, <1>4, <1>5, <1>6, <1>7

\* The tasks given to the archive thread.
LEMMA TaskTypes ==
    /\ \A o \in Objects : InsertTask(o) \in ArchiveTasks /\ ReplaceTask(o) \in ArchiveTasks
    /\ GetTask \in ArchiveTasks
    /\ \A r \in Refs : TouchTask(r) \in ArchiveTasks
    /\ \A m \in Messages, f, g \in BOOLEAN : RemoveTask(m, f, g) \in ArchiveTasks
    /\ \A m \in Messages : ImStateTask(m) \in ArchiveTasks
BY DEF ArchiveTasks, InsertTask, ReplaceTask, GetTask, TouchTask, RemoveTask, ImStateTask

\* The callbacks given to the core thread.
LEMMA CallbackTypes ==
    /\ \A r \in Refs \union {0} : Callback("got", r) \in CoreTasks
    /\ \A r \in Refs : Callback("touched", r) \in CoreTasks
    /\ Callback("removed", 0) \in CoreTasks
    /\ Callback("timer", 0) \in CoreTasks
BY DEF CoreTasks, Callback

\* Starting the chain keeps its variables' types.
LEMMA StartType ==
    ASSUME TypeInv, UNCHANGED heap, NEW tasks \in Seq(ArchiveTasks),
           PostPending(tasks) \/ StartPending(tasks)
    PROVE  /\ archive' \in Seq(ArchiveTasks')
           /\ active' \in BOOLEAN
           /\ timers' \subseteq Nat \ {0} /\ IsFiniteSet(timers')
           /\ timer' \in timers' \union {0}
           /\ due' \subseteq timers'
<1>0. ArchiveTasks' = ArchiveTasks
  BY DEF ArchiveTasks, Refs, Objects, Versions, GetTask
<1>1. archive \in Seq(ArchiveTasks) /\ GetTask \in ArchiveTasks
  BY TaskTypes DEF TypeInv, TypeOK
<1>2. CASE PostPending(tasks)
  <2>1. archive' = (archive \o tasks) \o <<GetTask>>
    BY <1>2 DEF PostPending
  <2>2. archive' \in Seq(ArchiveTasks)
    BY <1>1, <2>1, AppendsType
  <2>3. IsFiniteSet(timers')
    BY <1>2, FS_Difference DEF PostPending, TypeInv
  <2> QED  BY <1>0, <1>2, <2>2, <2>3 DEF PostPending, TypeInv, TypeOK
<1>3. CASE archive' = archive \o tasks /\ UNCHANGED chain
  <2>1. archive' \in Seq(ArchiveTasks)
    BY <1>1, <1>3, AppendsType
  <2> QED  BY <1>0, <1>3, <2>1 DEF chain, TypeInv, TypeOK
<1> QED  BY <1>2, <1>3 DEF StartPending

\* A new timer gets a number of its own.
LEMMA NewTimerType ==
    ASSUME TypeInv
    PROVE  NewTimer \in Nat \ {0} /\ NewTimer \notin timers
<1> DEFINE n == Cardinality(timers)
           free == (1..(n + 1)) \ timers
<1>1. n \in Nat
  BY FS_CardinalityType DEF TypeInv
<1>2. free # {}
  <2> SUFFICES ASSUME free = {} PROVE FALSE
    OBVIOUS
  <2>1. (1..(n + 1)) \subseteq timers
    OBVIOUS
  <2>2. Cardinality(1..(n + 1)) <= n
    BY <2>1, FS_Subset DEF TypeInv
  <2>3. Cardinality(1..(n + 1)) = n + 1
    <3>1. 1 \in Int /\ n + 1 \in Int
      BY <1>1
    <3>2. Cardinality(1..(n + 1)) = IF 1 > n + 1 THEN 0 ELSE (n + 1) - 1 + 1
      BY <3>1, FS_Interval
    <3> HIDE DEF n
    <3> QED  BY <1>1, <3>2
  <2> HIDE DEF n
  <2> QED  BY <1>1, <2>2, <2>3
<1>3. Min(free) \in free
  <2> HIDE DEF n
  <2> QED  BY <1>1, <1>2, MinPosition, free \in SUBSET (1..(n + 1)), n + 1 \in Nat
<1> HIDE DEF n
<1> QED  BY <1>1, <1>3 DEF NewTimer, n


\* The first place of a message in its list, when there is one.
LEMMA PlaceOf ==
    ASSUME TypeOK, NEW m \in Messages, PlacesOf(m) # {}
    PROVE  /\ ContactOf[m] \in Contacts
           /\ Min(PlacesOf(m)) \in 1..Len(pending[ContactOf[m]])
           /\ pending[ContactOf[m]][Min(PlacesOf(m))] \in Refs
           /\ heap[pending[ContactOf[m]][Min(PlacesOf(m))]].message = m
<1> DEFINE s == pending[ContactOf[m]]
<1>1. ContactOf[m] \in Contacts /\ s \in Seq(Refs)
  BY PendingMessagesAssumption DEF TypeOK
<1>2. Len(s) \in Nat /\ DOMAIN s = 1..Len(s)
  BY <1>1, LenProperties
<1>3. PlacesOf(m) \in SUBSET (1..Len(s))
  BY <1>2 DEF PlacesOf
<1>4. Min(PlacesOf(m)) \in PlacesOf(m)
  BY <1>2, <1>3, MinPosition
<1>5. Min(PlacesOf(m)) \in 1..Len(s)
  BY <1>3, <1>4
<1>6. s[Min(PlacesOf(m))] \in Refs
  BY <1>1, <1>5, ElementOfSeq
<1> QED  BY <1>1, <1>4, <1>5, <1>6 DEF PlacesOf

\* The first task of the archive thread.
LEMMA ArchiveHead ==
    ASSUME TypeOK, archive # <<>>
    PROVE  /\ Head(archive) \in ArchiveTasks
           /\ Tail(archive) \in Seq(ArchiveTasks)
           /\ Head(archive).kind \in {"insert", "replace"} => Head(archive).object \in Objects
           /\ Head(archive).kind = "touch" => Head(archive).ref \in Refs
           /\ Head(archive).kind = "remove" => /\ Head(archive).message \in Messages
                                              /\ Head(archive).force \in BOOLEAN
                                              /\ Head(archive).goesOn \in BOOLEAN
           /\ Head(archive).kind = "imstate" => Head(archive).message \in Messages
<1>1. Head(archive) \in ArchiveTasks /\ Tail(archive) \in Seq(ArchiveTasks)
  BY ToSetTail DEF TypeOK
<1> QED  BY <1>1 DEF ArchiveTasks, GetTask

\* The first callback of the core thread.
LEMMA CoreHead ==
    ASSUME TypeOK, core # <<>>
    PROVE  /\ Head(core) \in CoreTasks
           /\ Tail(core) \in Seq(CoreTasks)
           /\ Head(core).ref \in Refs \union {0}
           /\ Head(core).kind = "touched" => Head(core).ref \in Refs
<1>1. Head(core) \in CoreTasks /\ Tail(core) \in Seq(CoreTasks)
  BY ToSetTail DEF TypeOK
<1> QED  BY <1>1 DEF CoreTasks

\* What every step of the archive thread does: it takes a task.
TaskTaken ==
    /\ archive # <<>>
    /\ archive' = Tail(archive)
    /\ UNCHANGED <<net, chain, remote, written, dropped, budget>>

\* What it must show to keep the types.
LEMMA ArchiveKeepsType ==
    ASSUME TypeInv, TaskTaken,
           heap' \in Seq(Objects), Len(heap) <= Len(heap'),
           pending' \in [Contacts -> Seq(Refs')],
           known' \subseteq Messages \X Versions,
           core' \in Seq(CoreTasks'),
           kept' \in [Messages -> Versions \union {0}],
           taken' \in [Contacts -> Seq(Messages)]
    PROVE  TypeInv'
<1>1. Len(heap') \in Nat
  BY LenProperties
<1>2. archive' \in Seq(ArchiveTasks') /\ net' \in Seq(Requests')
  <2>1. archive \in Seq(ArchiveTasks') /\ net \in Seq(Requests')
    BY <1>1, HeapGrows DEF TypeInv
  <2>2. archive # <<>> /\ archive' = Tail(archive) /\ net' = net
    BY DEF TaskTaken
  <2> QED  BY <2>1, <2>2, ToSetTail
<1>3. UNCHANGED <<chain, remote, written, dropped, budget>>
  BY DEF TaskTaken
<1>4. TypeOK'
  BY <1>2, <1>3 DEF TypeInv, TypeOK, chain, remote, budget, Versions
<1>5. IsFiniteSet(timers')
  BY <1>3 DEF TypeInv, chain
<1> QED  BY <1>4, <1>5 DEF TypeInv

\* remove() takes a message off its list, or notes that it was sent.
LEMMA RemoveType ==
    ASSUME TypeOK, NEW m \in Messages, NEW f \in BOOLEAN, RemovePending(m, f)
    PROVE  /\ heap' \in Seq(Objects) /\ Len(heap') = Len(heap)
           /\ pending' \in [Contacts -> Seq(Refs)]
           /\ known' \subseteq Messages \X Versions
<1> DEFINE c == ContactOf[m]
           i == Min(PlacesOf(m))
           r == pending[c][i]
<1>1. /\ heap \in Seq(Objects) /\ Len(heap) \in Nat
      /\ pending \in [Contacts -> Seq(Refs)] /\ known \subseteq Messages \X Versions
  BY DEF TypeOK
<1>2. CASE PlacesOf(m) = {}
  BY <1>1, <1>2 DEF RemovePending
<1>3. CASE PlacesOf(m) # {}
  <2>1. c \in Contacts /\ i \in 1..Len(pending[c]) /\ r \in 1..Len(heap)
    BY <1>3, PlaceOf DEF Refs
  <2>2. heap[r] \in Objects
    BY <1>1, <2>1, ElementOfSeq
  <2>3. \/ /\ heap' = [heap EXCEPT ![r] = [heap[r] EXCEPT !.modified = FALSE]]
           /\ known' = known \union {<<m, heap[r].version>>}
           /\ pending' = pending
        \/ /\ pending' = [pending EXCEPT ![c] = RemoveAt(@, i)]
           /\ UNCHANGED <<heap, known>>
    BY <1>3 DEF RemovePending
  <2> HIDE DEF c, i, r
  <2>4. [heap[r] EXCEPT !.modified = FALSE] \in Objects /\ heap[r].version \in Versions
    BY <2>2 DEF Objects
  <2>5. /\ [heap EXCEPT ![r] = [heap[r] EXCEPT !.modified = FALSE]] \in Seq(Objects)
        /\ Len([heap EXCEPT ![r] = [heap[r] EXCEPT !.modified = FALSE]]) = Len(heap)
    BY <1>1, <2>1, <2>4, ExceptSeq
  <2>6. RemoveAt(pending[c], i) \in Seq(Refs)
    <3>1. pending[c] \in Seq(Refs)
      BY <1>1, <2>1
    <3> QED  BY <2>1, <3>1, RemoveAtElements
  <2>7. CASE UNCHANGED <<heap, known>> /\ pending' = [pending EXCEPT ![c] = RemoveAt(@, i)]
    BY <1>1, <2>1, <2>6, <2>7
  <2>8. CASE /\ heap' = [heap EXCEPT ![r] = [heap[r] EXCEPT !.modified = FALSE]]
             /\ known' = known \union {<<m, heap[r].version>>}
             /\ pending' = pending
    BY <1>1, <2>4, <2>5, <2>8
  <2> QED  BY <2>3, <2>7, <2>8
<1> QED  BY <1>2, <1>3

\* The archive thread's steps keep the types.
LEMMA ArchiveType == TypeInv /\ Archive => TypeInv'
<1> SUFFICES ASSUME TypeInv, Archive PROVE TypeInv'
  OBVIOUS
<1>t. TypeOK /\ heap \in Seq(Objects) /\ Len(heap) \in Nat
  BY DEF TypeInv, TypeOK
<1>a. ContactOf \in [Messages -> Contacts]
  BY PendingMessagesAssumption
<1>g. ASSUME heap' \in Seq(Objects), Len(heap) <= Len(heap')
      PROVE  /\ Refs \subseteq Refs'
             /\ pending \in [Contacts -> Seq(Refs')]
             /\ core \in Seq(CoreTasks')
  BY <1>t, <1>g, LenProperties, HeapGrows
<1>1. CASE DoInsert
  <2> DEFINE o == Head(archive).object
             c == ContactOf[o.message]
  <2>1. TaskTaken /\ archive # <<>> /\ Head(archive).kind = "insert"
    BY <1>1 DEF DoInsert, ArchiveTask, TaskTaken
  <2>2. o \in Objects
    BY <1>t, <2>1, ArchiveHead
  <2>3. o.message \in Messages /\ o.version \in Versions /\ c \in Contacts
    BY <1>a, <2>2 DEF Objects
  <2>4. /\ heap' = Append(heap, o)
        /\ pending' = [pending EXCEPT ![c] = Append(@, Len(heap) + 1)]
        /\ kept' = [kept EXCEPT ![o.message] = o.version]
        /\ taken' = [taken EXCEPT ![c] = Append(@, o.message)]
        /\ UNCHANGED <<known, core>>
    BY <1>1 DEF DoInsert
  <2> HIDE DEF o, c
  <2>5. heap' \in Seq(Objects) /\ Len(heap') = Len(heap) + 1 /\ Len(heap) <= Len(heap')
    BY <1>t, <2>2, <2>4, AppendProperties
  <2>6. pending \in [Contacts -> Seq(Refs')] /\ core \in Seq(CoreTasks')
    BY <1>g, <2>5
  <2>7. Len(heap) + 1 \in Refs'
    BY <1>t, <2>5 DEF Refs
  <2>8. Append(pending[c], Len(heap) + 1) \in Seq(Refs')
    BY <2>3, <2>6, <2>7, AppendProperties
  <2>9. pending' \in [Contacts -> Seq(Refs')]
    BY <2>4, <2>6, <2>8
  <2>10. kept' \in [Messages -> Versions \union {0}]
    BY <1>t, <2>3, <2>4 DEF TypeOK
  <2>11. taken' \in [Contacts -> Seq(Messages)]
    <3>1. taken \in [Contacts -> Seq(Messages)]
      BY <1>t DEF TypeOK
    <3>2. Append(taken[c], o.message) \in Seq(Messages)
      BY <2>3, <3>1, AppendProperties
    <3> QED  BY <2>4, <3>1, <3>2
  <2>12. known' \subseteq Messages \X Versions
    BY <1>t, <2>4 DEF TypeOK
  <2> QED  BY <2>1, <2>4, <2>5, <2>6, <2>9, <2>10, <2>11, <2>12, ArchiveKeepsType
<1>2. CASE DoReplace
  <2> DEFINE o == Head(archive).object
             c == ContactOf[o.message]
  <2>1. TaskTaken /\ archive # <<>> /\ Head(archive).kind = "replace"
    BY <1>2 DEF DoReplace, ArchiveTask, TaskTaken
  <2>2. o \in Objects
    BY <1>t, <2>1, ArchiveHead
  <2>3. o.message \in Messages /\ o.version \in Versions /\ c \in Contacts
    BY <1>a, <2>2 DEF Objects
  <2>4. UNCHANGED <<known, core, taken>>
    BY <1>2 DEF DoReplace
  <2>5. /\ known' \subseteq Messages \X Versions
        /\ taken' \in [Contacts -> Seq(Messages)]
    BY <1>t, <2>4 DEF TypeOK
  <2>6. CASE PlacesOf(o.message) = {}
    <3>1. UNCHANGED <<heap, pending, kept>>
      BY <1>2, <2>6 DEF DoReplace
    <3>2. heap' \in Seq(Objects) /\ Len(heap) <= Len(heap')
      BY <1>t, <3>1
    <3>3. pending \in [Contacts -> Seq(Refs')] /\ core \in Seq(CoreTasks')
      BY <1>g, <3>2
    <3>4. kept' \in [Messages -> Versions \union {0}]
      BY <1>t, <3>1 DEF TypeOK
    <3> QED  BY <2>1, <2>4, <2>5, <3>1, <3>2, <3>3, <3>4, ArchiveKeepsType
  <2>7. CASE PlacesOf(o.message) # {}
    <3> DEFINE i == Min(PlacesOf(o.message))
    <3>1. /\ heap' = Append(heap, o)
          /\ pending' = [pending EXCEPT ![c] = PutAt(@, i, Len(heap) + 1)]
          /\ kept' = [kept EXCEPT ![o.message] = IF o.version > @ THEN o.version ELSE @]
      BY <1>2, <2>7 DEF DoReplace
    <3>2. i \in 1..Len(pending[c])
      BY <1>t, <2>3, <2>7, PlaceOf
    <3> HIDE DEF o, c, i
    <3>3. heap' \in Seq(Objects) /\ Len(heap') = Len(heap) + 1 /\ Len(heap) <= Len(heap')
      BY <1>t, <2>2, <3>1, AppendProperties
    <3>4. pending \in [Contacts -> Seq(Refs')] /\ core \in Seq(CoreTasks')
      BY <1>g, <3>3
    <3>5. Len(heap) + 1 \in Refs'
      BY <1>t, <3>3 DEF Refs
    <3>6. PutAt(pending[c], i, Len(heap) + 1) \in Seq(Refs')
      <4>1. pending[c] \in Seq(Refs')
        BY <2>3, <3>4
      <4> QED  BY <3>2, <3>5, <4>1, ExceptSeq DEF PutAt
    <3>7. pending' \in [Contacts -> Seq(Refs')]
      BY <3>1, <3>4, <3>6
    <3>8. kept' \in [Messages -> Versions \union {0}]
      BY <1>t, <2>3, <3>1 DEF TypeOK
    <3> QED  BY <2>1, <2>4, <2>5, <3>3, <3>4, <3>7, <3>8, ArchiveKeepsType
  <2> QED  BY <2>6, <2>7
<1>3. CASE DoGet
  <2>1. /\ TaskTaken
        /\ core' = Append(core, Callback("got", FirstReady))
        /\ UNCHANGED <<heap, pending, known, kept, taken>>
    BY <1>3 DEF DoGet, ArchiveTask, TaskTaken
  <2>2. FirstReady \in Refs \union {0}
    <3>1. CASE Busy = {}
      BY <3>1 DEF FirstReady
    <3>2. CASE Busy # {}
      <4>1. Min(Busy) \in Busy
        <5>1. Busy \in SUBSET Nat
          BY PendingMessagesAssumption DEF Busy
        <5> QED  BY <3>2, <5>1, MinNat
      <4>2. pending[Min(Busy)] \in Seq(Refs) /\ pending[Min(Busy)] # <<>>
        BY <1>t, <4>1 DEF Busy, TypeOK
      <4> QED  BY <3>2, <4>2, ToSetTail DEF FirstReady
    <3> QED  BY <3>1, <3>2
  <2>3. heap' \in Seq(Objects) /\ Len(heap) <= Len(heap')
    BY <1>t, <2>1
  <2>4. /\ pending' \in [Contacts -> Seq(Refs')] /\ core \in Seq(CoreTasks')
        /\ Refs \subseteq Refs'
    BY <1>g, <2>1, <2>3
  <2>5. Callback("got", FirstReady) \in CoreTasks'
    BY <2>2, <2>4 DEF CoreTasks, Callback
  <2>6. core' \in Seq(CoreTasks')
    BY <2>1, <2>4, <2>5, AppendProperties
  <2>7. /\ known' \subseteq Messages \X Versions
        /\ kept' \in [Messages -> Versions \union {0}]
        /\ taken' \in [Contacts -> Seq(Messages)]
    BY <1>t, <2>1 DEF TypeOK
  <2> QED  BY <2>1, <2>3, <2>4, <2>6, <2>7, ArchiveKeepsType
<1>4. CASE DoTouch
  <2> DEFINE r == Head(archive).ref
             m == heap[r].message
             x == pending[ContactOf[m]][Min(PlacesOf(m))]
  <2>1. TaskTaken /\ archive # <<>> /\ Head(archive).kind = "touch"
    BY <1>4 DEF DoTouch, ArchiveTask, TaskTaken
  <2>2. r \in Refs
    BY <1>t, <2>1, ArchiveHead
  <2>3. heap[r] \in Objects
    BY <1>t, <2>2, ElementOfSeq DEF Refs
  <2>4. m \in Messages
    BY <2>3 DEF Objects
  <2>5. /\ IF PlacesOf(m) = {} THEN UNCHANGED heap
           ELSE heap' = [heap EXCEPT ![x].recent = TRUE]
        /\ core' = Append(core, Callback("touched", r))
        /\ UNCHANGED <<pending, known, kept, taken>>
    BY <1>4 DEF DoTouch
  <2>6. heap' \in Seq(Objects) /\ Len(heap') = Len(heap)
    <3>1. CASE PlacesOf(m) = {}
      BY <1>t, <2>5, <3>1
    <3>2. CASE PlacesOf(m) # {}
      <4>1. x \in 1..Len(heap)
        BY <1>t, <2>4, <3>2, PlaceOf DEF Refs
      <4>2. heap[x] \in Objects
        BY <1>t, <4>1, ElementOfSeq
      <4>3. heap' = [heap EXCEPT ![x] = [heap[x] EXCEPT !.recent = TRUE]]
        BY <2>5, <3>2
      <4> HIDE DEF x
      <4>4. [heap[x] EXCEPT !.recent = TRUE] \in Objects
        BY <4>2 DEF Objects
      <4> QED  BY <1>t, <4>1, <4>3, <4>4, ExceptSeq
    <3> QED  BY <3>1, <3>2
  <2>7. /\ pending' \in [Contacts -> Seq(Refs')] /\ core \in Seq(CoreTasks')
        /\ Refs \subseteq Refs'
    <3>1. Len(heap) <= Len(heap')
      BY <1>t, <2>6
    <3>2. /\ Refs \subseteq Refs'
          /\ pending \in [Contacts -> Seq(Refs')]
          /\ core \in Seq(CoreTasks')
      BY <1>g, <2>6, <3>1
    <3> QED  BY <2>5, <3>2
  <2>8. Callback("touched", r) \in CoreTasks'
    BY <2>2, <2>7 DEF CoreTasks, Callback
  <2>9. core' \in Seq(CoreTasks')
    BY <2>5, <2>7, <2>8, AppendProperties
  <2>10. /\ known' \subseteq Messages \X Versions
         /\ kept' \in [Messages -> Versions \union {0}]
         /\ taken' \in [Contacts -> Seq(Messages)]
    BY <1>t, <2>5 DEF TypeOK
  <2>11. Len(heap) <= Len(heap')
    BY <1>t, <2>6
  <2> QED  BY <2>1, <2>6, <2>7, <2>9, <2>10, <2>11, ArchiveKeepsType
<1>5. CASE DoRemove \/ DoImState
  <2>1. /\ TaskTaken /\ archive # <<>>
        /\ Head(archive).kind \in {"remove", "imstate"}
        /\ UNCHANGED <<kept, taken>>
    BY <1>5 DEF DoRemove, DoImState, ArchiveTask, TaskTaken
  <2>2. heap' \in Seq(Objects) /\ Len(heap') = Len(heap)
        /\ pending' \in [Contacts -> Seq(Refs)]
        /\ known' \subseteq Messages \X Versions
    <3>1. CASE DoRemove
      <4>1. /\ RemovePending(Head(archive).message, Head(archive).force)
            /\ Head(archive).kind = "remove"
        BY <3>1 DEF DoRemove, ArchiveTask
      <4> QED  BY <1>t, <2>1, <4>1, ArchiveHead, RemoveType
    <3>2. CASE DoImState
      <4> DEFINE m == Head(archive).message
                 c == ContactOf[m]
                 i == Min(PlacesOf(m))
      <4>1. /\ UNCHANGED <<heap, known>> /\ Head(archive).kind = "imstate"
            /\ \/ pending' = pending
               \/ PlacesOf(m) # {} /\ pending' = [pending EXCEPT ![c] = RemoveAt(@, i)]
        BY <3>2 DEF DoImState, ArchiveTask
      <4>2. m \in Messages
        BY <1>t, <2>1, <4>1, ArchiveHead
      <4>3. pending \in [Contacts -> Seq(Refs)] /\ known \subseteq Messages \X Versions
        BY <1>t DEF TypeOK
      <4>4. CASE pending' = pending
        BY <1>t, <4>1, <4>3, <4>4
      <4>5. CASE PlacesOf(m) # {} /\ pending' = [pending EXCEPT ![c] = RemoveAt(@, i)]
        <5>1. c \in Contacts /\ i \in 1..Len(pending[c])
          BY <1>t, <4>2, <4>5, PlaceOf
        <5> HIDE DEF m, c, i
        <5>2. RemoveAt(pending[c], i) \in Seq(Refs)
          <6>1. pending[c] \in Seq(Refs)
            BY <4>3, <5>1
          <6> QED  BY <5>1, <6>1, RemoveAtElements
        <5> QED  BY <1>t, <4>1, <4>3, <4>5, <5>2
      <4> QED  BY <4>1, <4>4, <4>5
    <3> QED  BY <1>5, <3>1, <3>2
  <2>3. Refs' = Refs /\ Len(heap) <= Len(heap')
    BY <1>t, <2>2 DEF Refs
  <2>4. core \in Seq(CoreTasks')
    BY <1>g, <2>2, <2>3
  <2>5. core' \in Seq(CoreTasks')
    <3>1. core' = core \/ core' = Append(core, Callback("removed", 0))
      BY <1>5 DEF DoRemove, DoImState
    <3>2. Callback("removed", 0) \in CoreTasks'
      BY DEF CoreTasks, Callback
    <3> QED  BY <2>4, <3>1, <3>2, AppendProperties
  <2>6. /\ kept' \in [Messages -> Versions \union {0}]
        /\ taken' \in [Contacts -> Seq(Messages)]
    BY <1>t, <2>1 DEF TypeOK
  <2>7. pending' \in [Contacts -> Seq(Refs')]
    BY <2>2, <2>3
  <2> QED  BY <2>1, <2>2, <2>3, <2>5, <2>6, <2>7, ArchiveKeepsType
<1> QED
  BY <1>1, <1>2, <1>3, <1>4, <1>5 DEF Archive

\* Steps that leave the heap alone leave the sets of tasks as they are.
LEMMA SameHeap ==
    ASSUME Len(heap') = Len(heap)
    PROVE  Refs' = Refs /\ ArchiveTasks' = ArchiveTasks /\ CoreTasks' = CoreTasks
           /\ Requests' = Requests
BY DEF Refs, ArchiveTasks, CoreTasks, Requests, Objects, Versions, GetTask

\* The variables of the chain, and those of the user and the server.
ChainType ==
    /\ active \in BOOLEAN
    /\ timers \subseteq Nat \ {0} /\ IsFiniteSet(timers)
    /\ timer \in timers \union {0}
    /\ due \subseteq timers
LedgerType ==
    /\ {server, taken} \subseteq [Contacts -> Seq(Messages)]
    /\ {text, written, kept} \subseteq [Messages -> Versions \union {0}]
    /\ {refused, copied} \subseteq SUBSET Messages
    /\ dropped \in BOOLEAN
    /\ {faults, crashes} \subseteq Nat
    /\ confirmed \subseteq Messages

\* What a step that leaves the lists alone must show.
LEMMA OthersKeepType ==
    ASSUME TypeInv, UNCHANGED <<pending, known>>,
           heap' \in Seq(Objects), Len(heap') = Len(heap),
           archive' \in Seq(ArchiveTasks), core' \in Seq(CoreTasks), net' \in Seq(Requests),
           ChainType', LedgerType'
    PROVE  TypeInv'
<1>1. /\ Refs' = Refs /\ ArchiveTasks' = ArchiveTasks /\ CoreTasks' = CoreTasks
      /\ Requests' = Requests
  BY SameHeap
<1>2. pending' \in [Contacts -> Seq(Refs')] /\ known' \subseteq Messages \X Versions
  BY <1>1 DEF TypeInv, TypeOK
<1>3. Objects' = Objects /\ Versions' = Versions
  BY DEF Objects, Versions
<1> QED
  BY <1>1, <1>2, <1>3 DEF TypeInv, TypeOK, ChainType, LedgerType

\* The variables of a step that are unchanged keep their types.
LEMMA PartsOfType ==
    ASSUME TypeInv
    PROVE  /\ ChainType /\ LedgerType
           /\ UNCHANGED chain => ChainType'
           /\ UNCHANGED <<remote, user, dropped, budget>> => LedgerType'
BY DEF TypeInv, TypeOK, ChainType, LedgerType, chain, remote, user, budget, Versions

\* The other steps keep the types.
LEMMA TypeInvStep == TypeInv /\ [Next]_vars => TypeInv'
<1> SUFFICES ASSUME TypeInv, [Next]_vars PROVE TypeInv'
  OBVIOUS
<1>t. TypeOK /\ ChainType /\ LedgerType
  BY PartsOfType DEF TypeInv
<1>h. /\ heap \in Seq(Objects) /\ Len(heap) \in Nat
      /\ pending \in [Contacts -> Seq(Refs)]
      /\ archive \in Seq(ArchiveTasks) /\ core \in Seq(CoreTasks) /\ net \in Seq(Requests)
      /\ ContactOf \in [Messages -> Contacts]
  BY <1>t, PendingMessagesAssumption DEF TypeOK
<1>o. ASSUME NEW m \in Messages, NEW v \in Versions, NEW b \in BOOLEAN
      PROVE  NewObject(m, v, b) \in Objects
  BY DEF NewObject, Objects
<1>s. ASSUME NEW tasks \in Seq(ArchiveTasks), UNCHANGED heap,
             PostPending(tasks) \/ StartPending(tasks)
      PROVE  archive' \in Seq(ArchiveTasks) /\ ChainType'
  BY <1>s, StartType, SameHeap DEF ChainType
<1>e. EndChain => ChainType'
  BY <1>t DEF EndChain, ChainType
<1>u. UNCHANGED chain => ChainType'
  BY PartsOfType
<1>l. UNCHANGED <<remote, user, dropped, budget>> => LedgerType'
  BY PartsOfType
<1>1. ASSUME NEW m \in Messages, SendMessage(m) \/ EditMessage(m) PROVE TypeInv'
  <2>1. PICK t \in ArchiveTasks : StartPending(<<t>>)
    <3>1. CASE SendMessage(m)
      <4>1. 1 \in Versions
        BY PendingMessagesAssumption DEF Versions
      <4> QED  BY <1>o, <3>1, <4>1, TaskTypes DEF SendMessage
    <3>2. CASE EditMessage(m)
      <4>1. written[m] + 1 \in Versions
        BY <3>2, PendingMessagesAssumption DEF EditMessage, Versions
      <4> QED  BY <1>o, <3>2, <4>1, TaskTypes DEF EditMessage
    <3> QED  BY <1>1, <3>1, <3>2
  <2>2. written' \in [Messages -> Versions \union {0}]
    <3>1. written \in [Messages -> Versions \union {0}] /\ 1 \in Versions
      BY <1>t, PendingMessagesAssumption DEF TypeOK, Versions
    <3>2. CASE SendMessage(m)
      BY <3>1, <3>2 DEF SendMessage
    <3>3. CASE EditMessage(m)
      <4>1. written[m] + 1 \in Versions
        BY <3>3, PendingMessagesAssumption DEF EditMessage, Versions
      <4> QED  BY <3>1, <3>3, <4>1 DEF EditMessage
    <3> QED  BY <1>1, <3>2, <3>3
  <2>3. UNCHANGED <<heap, pending, known, core, net, remote, kept, taken, dropped, budget>>
    BY <1>1 DEF SendMessage, EditMessage
  <2>4. archive' \in Seq(ArchiveTasks) /\ ChainType'
    <3>1. <<t>> \in Seq(ArchiveTasks) /\ t \in ArchiveTasks
      BY <2>1
    <3> QED  BY <1>s, <2>1, <2>3, <3>1
  <2>5. LedgerType'
    BY <1>t, <2>2, <2>3 DEF LedgerType, remote, budget, Versions
  <2> QED  BY <1>h, <2>3, <2>4, <2>5, OthersKeepType
<1>2. CASE Resume
  <2>1. /\ StartPending(<<>>) /\ <<>> \in Seq(ArchiveTasks)
        /\ UNCHANGED <<heap, pending, known, core, net, remote, user, dropped, budget>>
    BY <1>2 DEF Resume
  <2>2. archive' \in Seq(ArchiveTasks) /\ ChainType'
    BY <1>s, <2>1
  <2> QED  BY <1>h, <1>l, <2>1, <2>2, OthersKeepType
<1>3. ASSUME NEW m \in Messages, NEW how \in Confirmations, Confirm(m, how) PROVE TypeInv'
  <2>1. PICK t \in ArchiveTasks : archive' = Append(archive, t)
    BY <1>3, TaskTypes DEF Confirm
  <2>2. /\ confirmed' = confirmed \union {m}
        /\ UNCHANGED <<heap, pending, known, core, net, chain, server, text, refused, copied,
                       user, dropped, budget>>
    BY <1>3 DEF Confirm
  <2>3. LedgerType'
    BY <1>t, <2>2 DEF LedgerType, user, budget, Versions
  <2>4. archive' \in Seq(ArchiveTasks)
    BY <1>h, <2>1, AppendProperties
  <2> QED  BY <1>h, <1>u, <2>2, <2>3, <2>4, OthersKeepType
<1>4. CASE Core
  <2>1. /\ core # <<>> /\ core' = Tail(core)
        /\ UNCHANGED <<heap, pending, known, remote, user, dropped, budget>>
    BY <1>4 DEF Core, OnGotNothing, OnGotRecent, OnGotReady, OnTouched, GoOn, CoreTask
  <2>2. /\ core' \in Seq(CoreTasks) /\ Head(core) \in CoreTasks
        /\ Head(core).ref \in Refs \union {0}
        /\ Head(core).kind = "touched" => Head(core).ref \in Refs
    BY <1>t, <2>1, CoreHead
  <2>3. ASSUME archive' \in Seq(ArchiveTasks), ChainType', net' \in Seq(Requests) PROVE TypeInv'
    BY <1>h, <1>l, <2>1, <2>2, <2>3, OthersKeepType
  <2>4. CASE OnGotNothing
    BY <1>e, <1>h, <2>3, <2>4 DEF OnGotNothing
  <2>5. CASE OnGotRecent
    <3>1. NewTimer \in Nat \ {0}
      BY NewTimerType
    <3>2. IsFiniteSet(timers \union {NewTimer})
      BY <1>t, FS_AddElement DEF ChainType
    <3>3. ChainType'
      BY <1>t, <2>5, <3>1, <3>2 DEF OnGotRecent, ChainType
    <3> QED  BY <1>h, <2>3, <2>5, <3>3 DEF OnGotRecent
  <2>6. CASE OnGotReady
    <3>0. Head(core).ref \in Refs
      BY <2>2, <2>6 DEF OnGotReady, GotRef
    <3>1. TouchTask(GotRef) \in ArchiveTasks
      BY <3>0, TaskTypes DEF GotRef
    <3>2. archive' \in Seq(ArchiveTasks)
      BY <1>h, <2>6, <3>1, AppendProperties DEF OnGotReady
    <3> QED  BY <1>h, <1>u, <2>3, <2>6, <3>2 DEF OnGotReady
  <2>7. CASE OnTouched
    <3> DEFINE r == Head(core).ref
               q == [ref |-> r, message |-> heap[r].message, version |-> heap[r].version,
                     edit |-> <<heap[r].message, heap[r].version>> \in known,
                     served |-> FALSE]
    <3>1. net' = Append(net, q) /\ UNCHANGED <<chain, archive>> /\ Head(core).kind = "touched"
      BY <2>7 DEF OnTouched, CoreTask
    <3>0. Head(core).kind = "touched" /\ Head(core).ref \in Refs
      BY <2>2, <3>1
    <3>2. r \in Refs
      BY <3>0
    <3>3. heap[r] \in Objects
      BY <1>h, <3>2, ElementOfSeq DEF Refs
    <3>4. q \in Requests
      BY <3>2, <3>3 DEF Requests, Objects
    <3>5. net' \in Seq(Requests)
      BY <1>h, <3>1, <3>4, AppendProperties
    <3> QED  BY <1>h, <1>u, <2>3, <3>1, <3>5
  <2>8. CASE GoOn
    <3>1. PostPending(<<>>) /\ <<>> \in Seq(ArchiveTasks) /\ net' = net
      BY <2>8 DEF GoOn
    <3> QED  BY <1>h, <1>s, <2>1, <2>3, <3>1
  <2> QED  BY <1>4, <2>4, <2>5, <2>6, <2>7, <2>8 DEF Core
<1>5. ASSUME NEW i \in DOMAIN net, ServerTakes(i) PROVE TypeInv'
  <2> DEFINE q == net[i]
             c == ContactOf[q.message]
  <2>1. /\ i \in 1..Len(net) /\ q \in Requests
    BY <1>h, <1>5, LenProperties, ElementOfSeq
  <2>2. q.message \in Messages /\ q.version \in Versions /\ c \in Contacts
    BY <1>h, <2>1 DEF Requests
  <2>3. /\ net' = [net EXCEPT ![i] = [q EXCEPT !.served = TRUE]]
        /\ server' = server \/ server' = [server EXCEPT ![c] = Append(@, q.message)]
        /\ text' = text \/ text' = [text EXCEPT ![q.message] = q.version]
        /\ UNCHANGED <<heap, pending, known, archive, core, chain, refused, copied, confirmed,
                       user, dropped, budget>>
    BY <1>5 DEF ServerTakes
  <2> HIDE DEF c
  <2>4. net' \in Seq(Requests)
    <3>1. [q EXCEPT !.served = TRUE] \in Requests
      BY <2>1 DEF Requests
    <3> HIDE DEF q
    <3> QED  BY <1>h, <2>1, <2>3, <3>1, ExceptSeq
  <2>5. server' \in [Contacts -> Seq(Messages)]
    <3>1. server \in [Contacts -> Seq(Messages)]
      BY <1>t DEF TypeOK
    <3>2. Append(server[c], q.message) \in Seq(Messages)
      BY <2>2, <3>1, AppendProperties
    <3> QED  BY <2>3, <3>1, <3>2
  <2>6. text' \in [Messages -> Versions \union {0}]
    BY <1>t, <2>2, <2>3 DEF TypeOK
  <2>7. LedgerType'
    BY <1>t, <2>3, <2>5, <2>6 DEF LedgerType, user, budget, Versions
  <2> QED  BY <1>h, <1>u, <2>3, <2>4, <2>7, OthersKeepType
<1>6. ASSUME NEW i \in DOMAIN net,
             \/ AnswerOk(i) \/ AnswerNoHistoryId(i) \/ AnswerError(i)
             \/ AnswerRejected(i) \/ RequestDropped(i)
      PROVE  TypeInv'
  <2>1. /\ i \in 1..Len(net) /\ net[i] \in Requests
    BY <1>h, <1>6, LenProperties, ElementOfSeq
  <2>2. net[i].message \in Messages /\ net[i].ref \in Refs
    BY <2>1 DEF Requests
  <2>3. /\ net' = RemoveAt(net, i)
        /\ UNCHANGED <<heap, pending, known, core, server, text, user, crashes, confirmed>>
    BY <1>6 DEF AnswerOk, AnswerNoHistoryId, AnswerError, AnswerRejected, RequestDropped,
                Answered
  <2>4. net' \in Seq(Requests)
    BY <1>h, <2>1, <2>3, RemoveAtElements
  <2>5. LedgerType'
    <3>1. refused' \subseteq Messages /\ copied' \subseteq Messages
      BY <1>6, <1>t, <2>2 DEF AnswerOk, AnswerNoHistoryId, AnswerError, AnswerRejected,
                              RequestDropped, TypeOK
    <3>2. dropped' \in BOOLEAN
      BY <1>6, <1>t DEF AnswerOk, AnswerNoHistoryId, AnswerError, AnswerRejected,
                        RequestDropped, TypeOK
    <3>3. faults \in Nat
      BY <1>t DEF TypeOK
    <3>4. faults' = faults \/ faults' = faults + 1
      BY <1>6 DEF AnswerOk, AnswerNoHistoryId, AnswerError, AnswerRejected,
                  RequestDropped, Fault
    <3>5. faults' \in Nat
      BY <3>3, <3>4
    <3> QED  BY <1>t, <2>3, <3>1, <3>2, <3>5 DEF LedgerType, user, Versions
  <2>6. archive' \in Seq(ArchiveTasks) /\ ChainType'
    <3>1. CASE AnswerNoHistoryId(i)
      <4>1. heap[net[i].ref] \in Objects
        BY <1>h, <2>2, ElementOfSeq DEF Refs
      <4>2. PICK t \in ArchiveTasks : PostPending(<<t>>)
        BY <3>1, <4>1, TaskTypes DEF AnswerNoHistoryId
      <4>3. <<t>> \in Seq(ArchiveTasks)
        BY <4>2
      <4> QED  BY <1>s, <2>3, <4>2, <4>3
    <3>2. CASE ~AnswerNoHistoryId(i)
      <4>1. UNCHANGED archive \/ \E t \in ArchiveTasks : archive' = Append(archive, t)
        BY <1>6, <2>2, <3>2, TaskTypes DEF AnswerOk, AnswerError, AnswerRejected,
                                           RequestDropped
      <4>2. archive' \in Seq(ArchiveTasks)
        <5>1. CASE UNCHANGED archive
          BY <1>h, <5>1
        <5>2. CASE \E t \in ArchiveTasks : archive' = Append(archive, t)
          BY <1>h, <5>2, AppendProperties
        <5> QED  BY <4>1, <5>1, <5>2
      <4>3. EndChain \/ UNCHANGED chain
        BY <1>6, <3>2 DEF AnswerOk, AnswerError, AnswerRejected, RequestDropped
      <4> QED  BY <1>e, <1>u, <4>2, <4>3
    <3> QED  BY <3>1, <3>2
  <2> QED  BY <1>h, <2>3, <2>4, <2>5, <2>6, OthersKeepType
<1>7. CASE Tick \/ Crash
  <2>1. heap' = [r \in 1..Len(heap) |-> [heap[r] EXCEPT !.recent = FALSE]]
        /\ UNCHANGED <<pending, known>>
    BY <1>7 DEF Tick, Crash, Refs
  <2>2. heap' \in Seq(Objects) /\ Len(heap') = Len(heap)
    <3>1. ASSUME NEW r \in 1..Len(heap) PROVE [heap[r] EXCEPT !.recent = FALSE] \in Objects
      <4>1. heap[r] \in Objects
        BY <1>h, ElementOfSeq
      <4> QED  BY <4>1 DEF Objects
    <3> DEFINE older == [r \in 1..Len(heap) |-> [heap[r] EXCEPT !.recent = FALSE]]
    <3>2. older \in Seq(Objects)
      BY <1>h, <3>1, IsASeq
    <3>3. DOMAIN older = 1..Len(heap)
      OBVIOUS
    <3>4. Len(older) = Len(heap)
      <4> HIDE DEF older
      <4> QED  BY <1>h, <3>2, <3>3, LenProperties
    <3> QED  BY <2>1, <3>2, <3>4
  <2>3. archive' \in Seq(ArchiveTasks) /\ core' \in Seq(CoreTasks) /\ net' \in Seq(Requests)
    <3>1. CASE Tick
      BY <1>h, <3>1 DEF Tick
    <3>2. CASE Crash
      <4>1. archive' = <<>> /\ core' = <<>> /\ net' = <<>>
        BY <3>2 DEF Crash
      <4> QED  BY <4>1
    <3> QED  BY <1>7, <3>1, <3>2
  <2>4. ChainType'
    <3>1. IsFiniteSet({})
      BY FS_EmptySet
    <3> QED  BY <1>7, <1>t, <3>1 DEF Tick, Crash, ChainType
  <2>5. LedgerType'
    <3>1. CASE Tick
      BY <1>l, <3>1 DEF Tick
    <3>2. CASE Crash
      <4>1. crashes' \in Nat
        BY <1>t, <3>2 DEF Crash, LedgerType
      <4>2. dropped' \in BOOLEAN /\ UNCHANGED <<pending, known, remote, user, faults>>
        BY <3>2 DEF Crash
      <4> QED  BY <1>t, <4>1, <4>2 DEF LedgerType, remote, user, Versions
    <3> QED  BY <1>7, <3>1, <3>2
  <2> QED  BY <2>1, <2>2, <2>3, <2>4, <2>5, OthersKeepType
<1>8. ASSUME NEW t \in due, FireTimer(t) PROVE TypeInv'
  <2>1. /\ due' = due \ {t} /\ core' = Append(core, Callback("timer", 0))
        /\ UNCHANGED <<heap, pending, known, archive, net, active, timer, timers, remote, user,
                       dropped, budget>>
    BY <1>8 DEF FireTimer
  <2>2. core' \in Seq(CoreTasks)
    BY <1>h, <2>1, CallbackTypes, AppendProperties
  <2>3. ChainType'
    BY <1>t, <2>1 DEF ChainType
  <2> QED  BY <1>h, <1>l, <2>1, <2>2, <2>3, OthersKeepType
<1>9. CASE UNCHANGED vars
  <2>1. UNCHANGED <<heap, pending, known, archive, core, net, chain, remote, user, dropped,
                    budget>>
    BY <1>9 DEF vars
  <2> QED  BY <1>h, <1>l, <1>u, <2>1, OthersKeepType
<1> QED
  BY <1>1, <1>2, <1>3, <1>4, <1>5, <1>6, <1>7, <1>8, <1>9, ArchiveType
     DEF Next, Serve, Answer, Fire

\* There are no references and no tasks at first.
LEMMA InitTypes == Init => TypeInv
<1> SUFFICES ASSUME Init PROVE TypeInv
  OBVIOUS
<1>1. \A S : <<>> \in Seq(S)
  OBVIOUS
<1>2. IsFiniteSet({})
  BY FS_EmptySet
<1>3. /\ heap \in Seq(Objects) /\ archive \in Seq(ArchiveTasks)
      /\ core \in Seq(CoreTasks) /\ net \in Seq(Requests)
  BY <1>1 DEF Init
<1>4. pending \in [Contacts -> Seq(Refs)] /\ known \subseteq Messages \X Versions
  BY <1>1 DEF Init
<1>5. server \in [Contacts -> Seq(Messages)] /\ taken \in [Contacts -> Seq(Messages)]
  BY <1>1 DEF Init
<1>6. {text, written, kept} \subseteq [Messages -> Versions \union {0}]
  BY DEF Init
<1>7. active = FALSE /\ timer = 0 /\ timers = {} /\ due = {} /\ dropped = FALSE
      /\ refused = {} /\ copied = {} /\ confirmed = {} /\ faults = 0 /\ crashes = 0
  BY DEF Init
<1>8. Nat # {} /\ 0 \in Nat
  OBVIOUS
<1> QED  BY <1>2, <1>3, <1>4, <1>5, <1>6, <1>7, <1>8, Zenon DEF TypeInv, TypeOK

\* Every reachable state has the types TypeOK states: no reference to a
\* not_sent_message is ever to none, and no text has a number the user did not
\* give.
THEOREM TypeCorrect == Spec => [](TypeOK /\ IsFiniteSet(timers))
BY InitTypes, TypeInvStep, PTL DEF Spec, TypeInv

-----------------------------------------------------------------------------
(* What no step undoes. *)

\* What references and requests refer to.
LEMMA ReferTypes ==
    ASSUME TypeOK
    PROVE  /\ \A r \in Refs : heap[r] \in Objects /\ heap[r].message \in Messages
           /\ \A i \in DOMAIN net : /\ i \in 1..Len(net) /\ net[i] \in Requests
                                  /\ net[i].message \in Messages /\ net[i].ref \in Refs
<1>1. heap \in Seq(Objects) /\ net \in Seq(Requests)
  BY DEF TypeOK
<1>2. \A r \in Refs : heap[r] \in Objects
  BY <1>1, ElementOfSeq DEF Refs
<1>3. \A i \in DOMAIN net : i \in 1..Len(net) /\ net[i] \in Requests
  BY <1>1, ElementOfSeq, LenProperties
<1>4. \A r \in Refs : heap[r].message \in Messages
  BY <1>2 DEF Objects
<1>5. \A i \in DOMAIN net : net[i].message \in Messages /\ net[i].ref \in Refs
  BY <1>3 DEF Requests
<1> QED  BY <1>2, <1>3, <1>4, <1>5

\* The objects there are keep their message and its text.
SameMessages ==
    /\ Len(heap) <= Len(heap')
    /\ \A r \in Refs : heap'[r].message = heap[r].message
    /\ \A r \in Refs : heap'[r].version = heap[r].version

\* What was taken, what the server has and what it refused only grow.
LedgerGrows ==
    /\ \A c \in Contacts : \A i \in DOMAIN taken[c] :
          i \in DOMAIN taken'[c] /\ taken'[c][i] = taken[c][i]
    /\ \A c \in Contacts : \A i \in DOMAIN server[c] :
          i \in DOMAIN server'[c] /\ server'[c][i] = server[c][i]
    /\ refused \subseteq refused'

\* No step gives an object another message or text.
LEMMA MessagesStay == TypeInv /\ [Next]_vars => SameMessages
<1> SUFFICES ASSUME TypeInv, [Next]_vars PROVE SameMessages
  OBVIOUS
<1>h. /\ TypeOK /\ heap \in Seq(Objects) /\ Len(heap) \in Nat
  BY DEF TypeInv, TypeOK
<1>1. CASE UNCHANGED heap
  BY <1>h, <1>1 DEF SameMessages
<1>2. ASSUME NEW o \in Objects, heap' = Append(heap, o) PROVE SameMessages
  <2>1. /\ Len(heap') = Len(heap) + 1
        /\ \A r \in 1..Len(heap) : heap'[r] = heap[r]
    BY <1>h, <1>2, AppendProperties
  <2> QED  BY <1>h, <2>1 DEF SameMessages, Refs
<1>3. ASSUME NEW x \in Refs, NEW o, o.message = heap[x].message,
             o.version = heap[x].version, heap' = [heap EXCEPT ![x] = o]
      PROVE  SameMessages
  <2>1. DOMAIN heap = 1..Len(heap)
    BY <1>h, LenProperties
  <2>2. \A r \in Refs : /\ heap'[r].message = heap[r].message
                        /\ heap'[r].version = heap[r].version
    BY <1>3, <2>1 DEF Refs
  <2>3. Len(heap') = Len(heap)
    <3>1. DOMAIN heap' = 1..Len(heap)
      BY <1>3, <2>1
    <3>2. heap' \in Seq(Objects)
      BY TypeInvStep DEF TypeInv, TypeOK
    <3> QED  BY <1>h, <3>1, <3>2, LenProperties
  <2> QED  BY <1>h, <2>2, <2>3 DEF SameMessages
<1>4. CASE DoInsert \/ DoReplace
  <2>1. /\ archive # <<>> /\ Head(archive).kind \in {"insert", "replace"}
        /\ heap' = heap \/ heap' = Append(heap, Head(archive).object)
    BY <1>4 DEF DoInsert, DoReplace, ArchiveTask
  <2>2. Head(archive).object \in Objects
    BY <1>h, <2>1, ArchiveHead
  <2> QED  BY <1>1, <1>2, <2>1, <2>2
<1>5. CASE DoTouch
  <2> DEFINE m == heap[Head(archive).ref].message
             x == pending[ContactOf[m]][Min(PlacesOf(m))]
  <2>1. /\ archive # <<>> /\ Head(archive).kind = "touch"
        /\ \/ heap' = heap
           \/ PlacesOf(m) # {} /\ heap' = [heap EXCEPT ![x] = [heap[x] EXCEPT !.recent = TRUE]]
    BY <1>5 DEF DoTouch, ArchiveTask
  <2>2. Head(archive).ref \in Refs
    BY <1>h, <2>1, ArchiveHead
  <2>3. m \in Messages
    BY <1>h, <2>2, ReferTypes
  <2>4. PlacesOf(m) # {} => x \in Refs
    BY <1>h, <2>3, PlaceOf
  <2> HIDE DEF m, x
  <2>5. x \in Refs => heap[x] \in Objects
    BY <1>h, ElementOfSeq DEF Refs
  <2>6. x \in Refs => /\ [heap[x] EXCEPT !.recent = TRUE].message = heap[x].message
                      /\ [heap[x] EXCEPT !.recent = TRUE].version = heap[x].version
    BY <2>5 DEF Objects
  <2> QED  BY <1>1, <1>3, <2>1, <2>4, <2>6
<1>6. CASE DoRemove
  <2> DEFINE m == Head(archive).message
             x == pending[ContactOf[m]][Min(PlacesOf(m))]
  <2>1. /\ archive # <<>> /\ Head(archive).kind = "remove"
        /\ \/ heap' = heap
           \/ PlacesOf(m) # {}
                /\ heap' = [heap EXCEPT ![x] = [heap[x] EXCEPT !.modified = FALSE]]
    BY <1>6 DEF DoRemove, RemovePending, ArchiveTask
  <2>2. m \in Messages
    BY <1>h, <2>1, ArchiveHead
  <2>3. PlacesOf(m) # {} => x \in Refs
    BY <1>h, <2>2, PlaceOf
  <2> HIDE DEF m, x
  <2>4. x \in Refs => heap[x] \in Objects
    BY <1>h, ElementOfSeq DEF Refs
  <2>5. x \in Refs => /\ [heap[x] EXCEPT !.modified = FALSE].message = heap[x].message
                      /\ [heap[x] EXCEPT !.modified = FALSE].version = heap[x].version
    BY <2>4 DEF Objects
  <2> QED  BY <1>1, <1>3, <2>1, <2>3, <2>5
<1>7. CASE Tick \/ Crash
  <2>1. heap' = [r \in 1..Len(heap) |-> [heap[r] EXCEPT !.recent = FALSE]]
    BY <1>7 DEF Tick, Crash, Refs
  <2>2. \A r \in 1..Len(heap) : heap[r] \in Objects
    BY <1>h, ElementOfSeq
  <2>3. \A r \in 1..Len(heap) : /\ heap'[r].message = heap[r].message
                                /\ heap'[r].version = heap[r].version
    BY <2>1, <2>2 DEF Objects
  <2>4. DOMAIN heap' = 1..Len(heap)
    BY <2>1
  <2>5. heap' \in Seq(Objects)
    BY TypeInvStep DEF TypeInv, TypeOK
  <2>6. Len(heap') = Len(heap)
    BY <1>h, <2>4, <2>5, LenProperties
  <2> QED  BY <1>h, <2>3, <2>6 DEF SameMessages, Refs
<1>8. CASE [\/ \E m \in Messages : SendMessage(m) \/ EditMessage(m)
            \/ Resume
            \/ \E m \in Messages, how \in Confirmations : Confirm(m, how)
            \/ DoGet \/ DoImState
            \/ Core \/ Serve \/ Answer \/ Fire]_vars
  <2>1. UNCHANGED heap
    BY <1>8 DEF SendMessage, EditMessage, Resume, Confirm, DoGet, DoImState, Core,
                OnGotNothing, OnGotRecent, OnGotReady, OnTouched, GoOn, CoreTask,
                Serve, ServerTakes, Answer, AnswerOk, AnswerNoHistoryId, AnswerError,
                AnswerRejected, RequestDropped, Answered, Fire, FireTimer, vars
  <2> QED  BY <1>1, <2>1
<1> QED
  BY <1>4, <1>5, <1>6, <1>7, <1>8 DEF Next, Archive

\* No step forgets a message that was taken, delivered or refused.
LEMMA LedgerStays == TypeInv /\ [Next]_vars => LedgerGrows
<1> SUFFICES ASSUME TypeInv, [Next]_vars PROVE LedgerGrows
  OBVIOUS
<1>h. /\ TypeOK /\ ContactOf \in [Messages -> Contacts]
      /\ taken \in [Contacts -> Seq(Messages)] /\ server \in [Contacts -> Seq(Messages)]
  BY TypeParts
<1>a. ASSUME NEW s \in Seq(Messages), NEW e \in Messages, NEW i \in DOMAIN s
      PROVE  i \in DOMAIN Append(s, e) /\ Append(s, e)[i] = s[i]
  BY AppendProperties
<1>1. CASE UNCHANGED <<taken, server>> /\ refused \subseteq refused'
  BY <1>1 DEF LedgerGrows
<1>2. CASE DoInsert
  <2> DEFINE m == Head(archive).object.message
             c == ContactOf[m]
  <2>1. /\ archive # <<>> /\ Head(archive).kind = "insert"
        /\ taken' = [taken EXCEPT ![c] = Append(@, m)]
        /\ UNCHANGED <<server, refused>>
    BY <1>2 DEF DoInsert, ArchiveTask, remote
  <2>2. m \in Messages
    BY <1>h, <2>1, ArchiveHead DEF Objects
  <2>3. c \in Contacts
    BY <1>h, <2>2
  <2> HIDE DEF m, c
  <2>4. ASSUME NEW d \in Contacts, NEW i \in DOMAIN taken[d]
        PROVE  i \in DOMAIN taken'[d] /\ taken'[d][i] = taken[d][i]
    <3>1. taken[d] \in Seq(Messages)
      BY <1>h
    <3>2. CASE d = c
      BY <1>a, <1>h, <2>1, <2>2, <2>3, <3>1, <3>2
    <3>3. CASE d # c
      BY <1>h, <2>1, <3>3
    <3> QED  BY <3>2, <3>3
  <2> QED  BY <2>1, <2>4 DEF LedgerGrows
<1>3. CASE Serve
  <2>1. PICK i \in DOMAIN net : ServerTakes(i)
    BY <1>3 DEF Serve
  <2> DEFINE m == net[i].message
             c == ContactOf[m]
  <2>2. /\ UNCHANGED <<taken, refused>>
        /\ server' = server \/ server' = [server EXCEPT ![c] = Append(@, m)]
    BY <2>1 DEF ServerTakes, user
  <2>3. m \in Messages
    BY <1>h, ReferTypes
  <2>4. c \in Contacts
    BY <1>h, <2>3
  <2> HIDE DEF m, c
  <2>5. ASSUME NEW d \in Contacts, NEW j \in DOMAIN server[d]
        PROVE  j \in DOMAIN server'[d] /\ server'[d][j] = server[d][j]
    <3>1. server[d] \in Seq(Messages)
      BY <1>h
    <3>2. CASE d = c
      <4>1. server'[d] = server[d] \/ server'[d] = Append(server[d], m)
        BY <1>h, <2>2, <2>4, <3>2
      <4> QED  BY <1>a, <2>3, <3>1, <4>1
    <3>3. CASE d # c
      BY <1>h, <2>2, <3>3
    <3> QED  BY <3>2, <3>3
  <2> QED  BY <2>2, <2>5 DEF LedgerGrows
<1>4. CASE [\/ \E m \in Messages : SendMessage(m) \/ EditMessage(m)
            \/ Resume
            \/ \E m \in Messages, how \in Confirmations : Confirm(m, how)
            \/ DoReplace \/ DoGet \/ DoTouch \/ DoRemove \/ DoImState
            \/ Core \/ Answer \/ Tick \/ Fire \/ Crash]_vars
  <2>1. UNCHANGED <<taken, server>> /\ refused \subseteq refused'
    BY <1>4 DEF SendMessage, EditMessage, Resume, Confirm, DoReplace, DoGet, DoTouch,
                DoRemove, DoImState, ArchiveTask, Core,
                OnGotNothing, OnGotRecent, OnGotReady, OnTouched, GoOn, CoreTask,
                Answer, AnswerOk, AnswerNoHistoryId, AnswerError,
                AnswerRejected, RequestDropped, Answered, Tick, Fire, FireTimer, Crash,
                vars, remote, user
  <2> QED  BY <1>1, <2>1
<1> QED
  BY <1>2, <1>3, <1>4 DEF Next, Archive

\* A message that was taken, delivered or settled, or whose turn it is, stays so.
LEMMA FactsStay ==
    ASSUME TypeOK, LedgerGrows, NEW m \in Messages
    PROVE  /\ Delivery!Taken(m) => Delivery!Taken(m)'
           /\ Delivery!Delivered(m) => Delivery!Delivered(m)'
           /\ Delivery!Settled(m) => Delivery!Settled(m)'
           /\ Delivery!ItsTurn(m) => Delivery!ItsTurn(m)'
<1>1. /\ ContactOf \in [Messages -> Contacts]
      /\ taken \in [Contacts -> Seq(Messages)] /\ server \in [Contacts -> Seq(Messages)]
  BY PendingMessagesAssumption DEF TypeOK
<1>2. ASSUME NEW n \in Messages, Delivery!Delivered(n) PROVE Delivery!Delivered(n)'
  BY <1>1, <1>2 DEF Delivery!Delivered, Delivery!In, LedgerGrows
<1>3. ASSUME NEW n \in Messages, Delivery!Settled(n) PROVE Delivery!Settled(n)'
  BY <1>2, <1>3 DEF Delivery!Settled, LedgerGrows
<1>4. ASSUME Delivery!Taken(m) PROVE Delivery!Taken(m)'
  BY <1>1, <1>4 DEF Delivery!Taken, Delivery!In, LedgerGrows
<1>5. ASSUME Delivery!ItsTurn(m) PROVE Delivery!ItsTurn(m)'
  <2> DEFINE c == ContactOf[m]
  <2>1. c \in Contacts /\ taken[c] \in Seq(Messages)
    BY <1>1
  <2>2. PICK i \in DOMAIN taken[c] :
            taken[c][i] = m /\ \A j \in 1..(i - 1) : Delivery!Settled(taken[c][j])
    BY <1>5 DEF Delivery!ItsTurn
  <2>3. /\ i \in DOMAIN taken'[c] /\ taken'[c][i] = m
        /\ i \in 1..Len(taken[c]) /\ Len(taken[c]) \in Nat
    BY <2>1, <2>2, LenProperties DEF LedgerGrows
  <2>4. ASSUME NEW j \in 1..(i - 1) PROVE Delivery!Settled(taken[c][j])'
    <3>1. j \in DOMAIN taken[c]
      BY <2>1, <2>3, LenProperties
    <3>2. taken[c][j] \in Messages /\ taken'[c][j] = taken[c][j]
      BY <2>1, <3>1, ElementOfSeq DEF LedgerGrows
    <3>3. PICK n \in Messages : n = taken[c][j]
      BY <3>2
    <3>4. Delivery!Settled(n)'
      BY <1>3, <2>2, <3>3
    <3> QED  BY <3>2, <3>3, <3>4
  <2> QED  BY <2>3, <2>4 DEF Delivery!ItsTurn
<1> QED  BY <1>2, <1>3, <1>4, <1>5

-----------------------------------------------------------------------------
(* The lists of pending messages, against the messages taken. *)

Listed(c, j) == heap[pending[c][j]].message

\* Lists hold messages of their contacts.
RightLists ==
    /\ \A c \in Contacts : \A j \in DOMAIN pending[c] : ContactOf[Listed(c, j)] = c
    /\ \A c \in Contacts : \A a \in DOMAIN taken[c] : ContactOf[taken[c][a]] = c

\* Message m is settled, or pending among the first n of contact c.
SettledOrAmong(m, c, n) ==
    \/ Delivery!Settled(m)
    \/ \E j \in 1..n : Listed(c, j) = m

\* What was taken is settled or still pending.
TakenCovered ==
    \A c \in Contacts : \A a \in DOMAIN taken[c] :
        SettledOrAmong(taken[c][a], c, Len(pending[c]))

\* A pending message was taken, and what was taken before it is settled or
\* pending in front of it.
PendingTurn ==
    \A c \in Contacts : \A k \in DOMAIN pending[c] :
        \E a \in DOMAIN taken[c] :
            /\ taken[c][a] = Listed(c, k)
            /\ \A b \in 1..(a - 1) : SettledOrAmong(taken[c][b], c, k - 1)

Lists == RightLists /\ TakenCovered /\ PendingTurn

\* The types the lists have.
LEMMA ListTypes ==
    ASSUME TypeOK, NEW c \in Contacts
    PROVE  /\ pending[c] \in Seq(Refs) /\ Len(pending[c]) \in Nat
           /\ DOMAIN pending[c] = 1..Len(pending[c])
           /\ \A j \in 1..Len(pending[c]) : pending[c][j] \in Refs /\ Listed(c, j) \in Messages
           /\ taken[c] \in Seq(Messages) /\ Len(taken[c]) \in Nat
           /\ DOMAIN taken[c] = 1..Len(taken[c])
           /\ \A a \in 1..Len(taken[c]) : taken[c][a] \in Messages
<1>1. pending[c] \in Seq(Refs) /\ taken[c] \in Seq(Messages)
  BY DEF TypeOK
<1>2. \A j \in 1..Len(pending[c]) : pending[c][j] \in Refs
  BY <1>1, ElementOfSeq
<1>3. \A j \in 1..Len(pending[c]) : Listed(c, j) \in Messages
  BY <1>2, ReferTypes DEF Listed
<1> QED  BY <1>1, <1>2, <1>3, LenProperties, ElementOfSeq

\* A step that leaves every list with the same messages in the same places.
LEMMA ListsSame ==
    ASSUME TypeOK, LedgerGrows, Lists, UNCHANGED taken,
           \A c \in Contacts :
               /\ Len(pending'[c]) = Len(pending[c])
               /\ DOMAIN pending'[c] = DOMAIN pending[c]
               /\ \A j \in 1..Len(pending[c]) : heap'[pending'[c][j]].message = Listed(c, j)
    PROVE  Lists'
<1>1. ASSUME NEW m \in Messages, NEW c \in Contacts, NEW n \in Nat, n <= Len(pending[c]),
             SettledOrAmong(m, c, n)
      PROVE  SettledOrAmong(m, c, n)'
  <2>1. CASE Delivery!Settled(m)
    BY <2>1, FactsStay DEF SettledOrAmong
  <2>2. CASE \E j \in 1..n : Listed(c, j) = m
    <3>1. PICK j \in 1..n : Listed(c, j) = m
      BY <2>2
    <3>2. j \in 1..Len(pending[c])
      BY <1>1, <3>1, ListTypes
    <3> QED  BY <3>1, <3>2 DEF SettledOrAmong, Listed
  <2> QED  BY <1>1, <2>1, <2>2 DEF SettledOrAmong
<1>2. RightLists'
  BY ListTypes DEF Lists, RightLists, Listed
<1>3. TakenCovered'
  <2> SUFFICES ASSUME NEW c \in Contacts, NEW a \in DOMAIN taken[c]
               PROVE  SettledOrAmong(taken[c][a], c, Len(pending[c]))'
    BY DEF TakenCovered
  <2>1. /\ taken[c][a] \in Messages /\ Len(pending[c]) \in Nat
        /\ SettledOrAmong(taken[c][a], c, Len(pending[c]))
    BY ListTypes DEF Lists, TakenCovered
  <2>2. PICK m \in Messages, n \in Nat : m = taken[c][a] /\ n = Len(pending[c])
    BY <2>1
  <2>3. SettledOrAmong(m, c, n)'
    BY <1>1, <2>1, <2>2
  <2> QED  BY <2>2, <2>3
<1>4. PendingTurn'
  <2> SUFFICES ASSUME NEW c \in Contacts, NEW k \in DOMAIN pending[c]
               PROVE  \E a \in DOMAIN taken[c] :
                          /\ taken[c][a] = Listed(c, k)
                          /\ \A b \in 1..(a - 1) : SettledOrAmong(taken[c][b], c, k - 1)'
    <3>1. \A c \in Contacts : \A k \in DOMAIN pending[c] : Listed(c, k)' = Listed(c, k)
      BY ListTypes DEF Listed
    <3> QED  BY <3>1 DEF PendingTurn
  <2>1. PICK a \in DOMAIN taken[c] :
            /\ taken[c][a] = Listed(c, k)
            /\ \A b \in 1..(a - 1) : SettledOrAmong(taken[c][b], c, k - 1)
    BY DEF Lists, PendingTurn
  <2>2. ASSUME NEW b \in 1..(a - 1) PROVE SettledOrAmong(taken[c][b], c, k - 1)'
    <3>1. /\ a \in 1..Len(taken[c]) /\ Len(taken[c]) \in Nat
          /\ k \in 1..Len(pending[c]) /\ Len(pending[c]) \in Nat
      BY ListTypes
    <3>2. b \in 1..Len(taken[c]) /\ k - 1 \in Nat /\ k - 1 <= Len(pending[c])
      BY <3>1
    <3>3. PICK m \in Messages, n \in Nat : m = taken[c][b] /\ n = k - 1
      BY <3>2, ListTypes
    <3>4. SettledOrAmong(m, c, n)
      BY <2>1, <3>3
    <3>5. SettledOrAmong(m, c, n)'
      BY <1>1, <3>2, <3>3, <3>4
    <3> QED  BY <3>3, <3>5
  <2> QED  BY <2>1, <2>2
<1> QED  BY <1>2, <1>3, <1>4 DEF Lists

\* A settled message leaves its list.
LEMMA ListsRemove ==
    ASSUME TypeOK, LedgerGrows, SameMessages, Lists, UNCHANGED taken,
           NEW m \in Messages, PlacesOf(m) # {}, Delivery!Settled(m)',
           pending' = [pending EXCEPT ![ContactOf[m]] = RemoveAt(@, Min(PlacesOf(m)))]
    PROVE  Lists'
<1> DEFINE c == ContactOf[m]
           i == Min(PlacesOf(m))
<1>1. /\ c \in Contacts /\ i \in 1..Len(pending[c]) /\ Listed(c, i) = m
  BY PlaceOf DEF Listed
<1>2. pending' = [pending EXCEPT ![c] = RemoveAt(pending[c], i)]
      /\ pending \in [Contacts -> Seq(Refs)]
  BY DEF TypeOK
<1> HIDE DEF c, i
<1>3. /\ Len(pending'[c]) = Len(pending[c]) - 1
      /\ DOMAIN pending'[c] = 1..(Len(pending[c]) - 1)
      /\ \A j \in 1..(Len(pending[c]) - 1) :
            pending'[c][j] = IF j < i THEN pending[c][j] ELSE pending[c][j + 1]
  <2>1. pending[c] \in Seq(Refs) /\ pending'[c] = RemoveAt(pending[c], i)
    BY <1>1, <1>2
  <2>2. /\ RemoveAt(pending[c], i) \in Seq(Refs)
        /\ Len(RemoveAt(pending[c], i)) = Len(pending[c]) - 1
        /\ \A j \in 1..(Len(pending[c]) - 1) :
              RemoveAt(pending[c], i)[j] = IF j < i THEN pending[c][j] ELSE pending[c][j + 1]
    BY <1>1, <2>1, RemoveAtElements
  <2> QED  BY <2>1, <2>2, LenProperties
<1>4. \A d \in Contacts : d # c => pending'[d] = pending[d]
  BY <1>1, <1>2
<1>5. \A d \in Contacts : \A j \in 1..Len(pending[d]) :
          heap'[pending[d][j]].message = Listed(d, j)
  BY ListTypes DEF SameMessages, Listed
<1>6. ASSUME NEW j \in 1..(Len(pending[c]) - 1)
      PROVE  Listed(c, j)' = IF j < i THEN Listed(c, j) ELSE Listed(c, j + 1)
  <2>1. j \in 1..Len(pending[c]) /\ j + 1 \in 1..Len(pending[c])
    BY <1>1, ListTypes
  <2>2. CASE j < i
    BY <1>1, <1>3, <1>5, <2>1, <2>2 DEF Listed
  <2>3. CASE ~(j < i)
    BY <1>1, <1>3, <1>5, <2>1, <2>3 DEF Listed
  <2> QED  BY <2>2, <2>3
<1>7. ASSUME NEW d \in Contacts, d # c, NEW j \in 1..Len(pending[d])
      PROVE  Listed(d, j)' = Listed(d, j)
  BY <1>4, <1>5, <1>7 DEF Listed
<1>8. ASSUME NEW x \in Messages, NEW d \in Contacts, NEW n \in Nat, n <= Len(pending[d]),
             d # c \/ n < i, SettledOrAmong(x, d, n)
      PROVE  SettledOrAmong(x, d, n)'
  <2>1. CASE Delivery!Settled(x)
    BY <2>1, FactsStay DEF SettledOrAmong
  <2>2. CASE \E j \in 1..n : Listed(d, j) = x
    <3>1. PICK j \in 1..n : Listed(d, j) = x
      BY <2>2
    <3>2. j \in 1..Len(pending[d]) /\ Len(pending[d]) \in Nat
      BY <1>8, <3>1, ListTypes
    <3>3. CASE d # c
      BY <1>7, <3>1, <3>2, <3>3 DEF SettledOrAmong
    <3>4. CASE d = c /\ n < i
      <4>1. j \in 1..(Len(pending[c]) - 1) /\ j < i
        BY <1>1, <1>8, <3>1, <3>2, <3>4
      <4> QED  BY <1>6, <3>1, <3>4, <4>1 DEF SettledOrAmong
    <3> QED  BY <1>8, <3>3, <3>4
  <2> QED  BY <1>8, <2>1, <2>2 DEF SettledOrAmong
<1>9. ASSUME NEW x \in Messages, NEW n \in Nat, n <= Len(pending[c]), i <= n,
             SettledOrAmong(x, c, n)
      PROVE  SettledOrAmong(x, c, n - 1)'
  <2>1. CASE Delivery!Settled(x)
    BY <2>1, FactsStay DEF SettledOrAmong
  <2>2. CASE \E j \in 1..n : Listed(c, j) = x
    <3>1. PICK j \in 1..n : Listed(c, j) = x
      BY <2>2
    <3>2. i \in Nat /\ j \in Nat /\ Len(pending[c]) \in Nat /\ i >= 1
      BY <1>1, <3>1, ListTypes
    <3>3. CASE j < i
      <4>1. j \in 1..(n - 1) /\ j \in 1..(Len(pending[c]) - 1)
        BY <1>9, <3>1, <3>2, <3>3
      <4> QED  BY <1>6, <3>1, <3>3, <4>1 DEF SettledOrAmong
    <3>4. CASE j = i
      BY <1>1, <3>1, <3>4 DEF SettledOrAmong
    <3>5. CASE j > i
      <4>1. /\ j - 1 \in 1..(n - 1) /\ j - 1 \in 1..(Len(pending[c]) - 1)
            /\ ~(j - 1 < i) /\ (j - 1) + 1 = j
        BY <1>9, <3>1, <3>2, <3>5
      <4>2. Listed(c, j - 1)' = Listed(c, j)
        BY <1>6, <4>1
      <4> QED  BY <3>1, <4>1, <4>2 DEF SettledOrAmong
    <3> QED  BY <3>2, <3>3, <3>4, <3>5
  <2> QED  BY <1>9, <2>1, <2>2 DEF SettledOrAmong
<1>10. RightLists'
  <2>1. ASSUME NEW d \in Contacts, NEW j \in DOMAIN pending'[d]
        PROVE  ContactOf[Listed(d, j)'] = d
    <3>1. CASE d # c
      <4>1. j \in 1..Len(pending[d]) /\ j \in DOMAIN pending[d]
        BY <1>4, <2>1, <3>1, ListTypes
      <4> QED  BY <1>7, <3>1, <4>1 DEF Lists, RightLists
    <3>2. CASE d = c
      <4>1. j \in 1..(Len(pending[c]) - 1)
        BY <1>3, <2>1, <3>2
      <4>2. j \in DOMAIN pending[c] /\ j + 1 \in DOMAIN pending[c]
        BY <1>1, <4>1, ListTypes
      <4>3. ContactOf[Listed(c, j)] = c /\ ContactOf[Listed(c, j + 1)] = c
        BY <1>1, <4>2 DEF Lists, RightLists
      <4> QED  BY <1>6, <3>2, <4>1, <4>3
    <3> QED  BY <3>1, <3>2
  <2> QED  BY <2>1 DEF Lists, RightLists
<1>11. TakenCovered'
  <2> SUFFICES ASSUME NEW d \in Contacts, NEW a \in DOMAIN taken[d]
               PROVE  SettledOrAmong(taken[d][a], d, Len(pending[d]))'
    BY DEF TakenCovered
  <2>1. /\ taken[d][a] \in Messages /\ Len(pending[d]) \in Nat
        /\ SettledOrAmong(taken[d][a], d, Len(pending[d]))
    BY ListTypes DEF Lists, TakenCovered
  <2>2. PICK x \in Messages, n \in Nat : x = taken[d][a] /\ n = Len(pending[d])
    BY <2>1
  <2>3. CASE d # c
    <3>1. SettledOrAmong(x, d, n)'
      BY <1>8, <2>1, <2>2, <2>3
    <3>2. n = Len(pending[d])'
      BY <1>4, <2>2, <2>3
    <3> QED  BY <2>2, <3>1, <3>2
  <2>4. CASE d = c
    <3>1. SettledOrAmong(x, c, n - 1)'
      BY <1>1, <1>9, <2>1, <2>2, <2>4
    <3>2. n - 1 = Len(pending[d])'
      BY <1>3, <2>2, <2>4
    <3> QED  BY <2>2, <2>4, <3>1, <3>2
  <2> QED  BY <2>3, <2>4
<1>12. PendingTurn'
  <2>1. ASSUME NEW d \in Contacts, NEW k \in 1..Len(pending[d]), NEW l \in Nat,
               NEW x \in Messages, x = Listed(d, k),
               \/ d # c /\ l = k - 1
               \/ d = c /\ k < i /\ l = k - 1
               \/ d = c /\ i < k /\ l = k - 2
        PROVE  \E a \in DOMAIN taken[d] :
                   /\ taken[d][a] = x
                   /\ \A b \in 1..(a - 1) : SettledOrAmong(taken[d][b], d, l)'
    <3>1. k \in DOMAIN pending[d] /\ Len(pending[d]) \in Nat /\ Len(taken[d]) \in Nat
      BY ListTypes
    <3>2. PICK a \in DOMAIN taken[d] :
              /\ taken[d][a] = x
              /\ \A b \in 1..(a - 1) : SettledOrAmong(taken[d][b], d, k - 1)
      BY <2>1, <3>1 DEF Lists, PendingTurn
    <3>3. ASSUME NEW b \in 1..(a - 1) PROVE SettledOrAmong(taken[d][b], d, l)'
      <4>1. a \in 1..Len(taken[d]) /\ b \in 1..Len(taken[d])
        <5>1. a \in 1..Len(taken[d])
          BY ListTypes
        <5> QED  BY <3>1, <3>3, <5>1
      <4>2. k - 1 \in Nat /\ k - 1 <= Len(pending[d])
        BY <3>1
      <4>3. PICK y \in Messages, n \in Nat : y = taken[d][b] /\ n = k - 1
        BY <4>1, <4>2, ListTypes
      <4>4. SettledOrAmong(y, d, n)
        BY <3>2, <4>3
      <4>5. CASE d # c
        <5>1. SettledOrAmong(y, d, n)'
          BY <1>8, <4>2, <4>3, <4>4, <4>5
        <5> QED  BY <2>1, <4>3, <4>5, <5>1
      <4>6. CASE d = c /\ k < i
        <5>1. n < i /\ n = l
          BY <1>1, <2>1, <3>1, <4>3, <4>6
        <5>2. SettledOrAmong(y, d, n)'
          BY <1>8, <4>2, <4>3, <4>4, <5>1
        <5> QED  BY <4>3, <5>1, <5>2
      <4>7. CASE d = c /\ i < k
        <5>1. i <= n /\ n - 1 = l
          BY <1>1, <2>1, <3>1, <4>3, <4>7
        <5>2. SettledOrAmong(y, c, n - 1)'
          BY <1>9, <4>2, <4>3, <4>4, <4>7, <5>1
        <5> QED  BY <4>3, <4>7, <5>1, <5>2
      <4> QED  BY <2>1, <4>5, <4>6, <4>7
    <3> QED  BY <3>2, <3>3
  <2> SUFFICES ASSUME NEW d \in Contacts, NEW k \in DOMAIN pending'[d]
               PROVE  \E a \in DOMAIN taken[d] :
                          /\ taken[d][a] = Listed(d, k)'
                          /\ \A b \in 1..(a - 1) : SettledOrAmong(taken[d][b], d, k - 1)'
    BY DEF PendingTurn
  <2>2. CASE d # c
    <3>1. k \in 1..Len(pending[d]) /\ Len(pending[d]) \in Nat
      BY <1>4, <2>2, ListTypes
    <3>2. k - 1 \in Nat /\ Listed(d, k)' = Listed(d, k) /\ Listed(d, k) \in Messages
      BY <1>7, <2>2, <3>1, ListTypes
    <3> QED  BY <2>1, <2>2, <3>1, <3>2
  <2>3. CASE d = c
    <3>1. k \in 1..(Len(pending[c]) - 1) /\ Len(pending[c]) \in Nat /\ i \in Nat /\ i >= 1
      BY <1>1, <1>3, <2>3, ListTypes
    <3>2. CASE k < i
      <4>1. k \in 1..Len(pending[d]) /\ k - 1 \in Nat
        BY <2>3, <3>1
      <4>2. Listed(d, k)' = Listed(d, k) /\ Listed(d, k) \in Messages
        BY <1>6, <2>3, <3>1, <3>2, <4>1, ListTypes
      <4> QED  BY <2>1, <2>3, <3>2, <4>1, <4>2
    <3>3. CASE ~(k < i)
      <4>1. /\ k + 1 \in 1..Len(pending[d]) /\ k - 1 \in Nat
            /\ i < k + 1 /\ k - 1 = (k + 1) - 2
        BY <2>3, <3>1, <3>3
      <4>2. Listed(d, k)' = Listed(d, k + 1) /\ Listed(d, k + 1) \in Messages
        BY <1>6, <2>3, <3>1, <3>3, <4>1, ListTypes
      <4> QED  BY <2>1, <2>3, <4>1, <4>2
    <3> QED  BY <3>2, <3>3
  <2> QED  BY <2>2, <2>3
<1> QED  BY <1>10, <1>11, <1>12 DEF Lists

\* A message is taken: the last of its list, in both.
LEMMA ListsInsert ==
    ASSUME TypeOK, LedgerGrows, Lists, NEW o \in Objects, NEW c \in Contacts,
           c = ContactOf[o.message],
           heap' = Append(heap, o),
           pending' = [pending EXCEPT ![c] = Append(@, Len(heap) + 1)],
           taken' = [taken EXCEPT ![c] = Append(@, o.message)]
    PROVE  Lists'
<1>0. PICK p \in Nat, t \in Nat : p = Len(pending[c]) /\ t = Len(taken[c])
  BY ListTypes
<1>1. /\ heap \in Seq(Objects) /\ Len(heap) \in Nat /\ o.message \in Messages
      /\ pending \in [Contacts -> Seq(Refs)] /\ taken \in [Contacts -> Seq(Messages)]
  BY DEF TypeOK, Objects
<1>2. /\ \A r \in 1..Len(heap) : heap'[r] = heap[r]
      /\ heap'[Len(heap) + 1] = o
  BY <1>1, AppendProperties
<1>3. \A d \in Contacts : d # c => pending'[d] = pending[d] /\ taken'[d] = taken[d]
  BY <1>1
<1>4. p \in Nat /\ t \in Nat
  OBVIOUS
<1>5. /\ DOMAIN pending'[c] = 1..(p + 1) /\ Len(pending'[c]) = p + 1
      /\ pending'[c][p + 1] = Len(heap) + 1
      /\ \A j \in 1..p : pending'[c][j] = pending[c][j]
  <2>1. pending'[c] = Append(pending[c], Len(heap) + 1) /\ pending[c] \in Seq(Nat)
    <3>1. Refs \subseteq Nat /\ pending[c] \in Seq(Refs)
      BY <1>1 DEF Refs
    <3> QED  BY <1>1, <3>1, SeqGrows
  <2> QED  BY <1>0, <1>1, <2>1, AppendProperties, LenProperties
<1>6. /\ DOMAIN taken'[c] = 1..(t + 1) /\ taken'[c][t + 1] = o.message
      /\ \A a \in 1..t : taken'[c][a] = taken[c][a]
  <2>1. taken'[c] = Append(taken[c], o.message) /\ taken[c] \in Seq(Messages)
    BY <1>1
  <2> QED  BY <1>0, <1>1, <2>1, AppendProperties, LenProperties
<1>7. ASSUME NEW d \in Contacts, NEW j \in 1..Len(pending[d])
      PROVE  Listed(d, j)' = Listed(d, j) /\ j \in 1..Len(pending'[d])
  <2>1. pending'[d][j] = pending[d][j] /\ j \in 1..Len(pending'[d])
    BY <1>0, <1>3, <1>4, <1>5
  <2>2. pending[d][j] \in 1..Len(heap)
    BY ListTypes DEF Refs
  <2> QED  BY <1>2, <2>1, <2>2 DEF Listed
<1>8. Listed(c, p + 1)' = o.message
  BY <1>2, <1>5 DEF Listed
<1>9. ASSUME NEW x \in Messages, NEW d \in Contacts, NEW n \in Nat, n <= Len(pending[d]),
             NEW l \in Nat, n <= l, SettledOrAmong(x, d, n)
      PROVE  SettledOrAmong(x, d, l)'
  <2>1. CASE Delivery!Settled(x)
    BY <2>1, FactsStay DEF SettledOrAmong
  <2>2. CASE \E j \in 1..n : Listed(d, j) = x
    <3>1. PICK j \in 1..n : Listed(d, j) = x
      BY <2>2
    <3>2. j \in 1..Len(pending[d]) /\ j \in 1..l
      BY <1>9, <3>1, ListTypes
    <3> QED  BY <1>7, <3>1, <3>2 DEF SettledOrAmong
  <2> QED  BY <1>9, <2>1, <2>2 DEF SettledOrAmong
<1>10. RightLists'
  <2>1. ASSUME NEW d \in Contacts, NEW j \in DOMAIN pending'[d]
        PROVE  ContactOf[Listed(d, j)'] = d
    <3>1. CASE j \in 1..Len(pending[d])
      <4>1. j \in DOMAIN pending[d]
        BY <3>1, ListTypes
      <4> QED  BY <1>7, <3>1, <4>1 DEF Lists, RightLists
    <3>2. CASE j \notin 1..Len(pending[d])
      <4>1. d = c /\ j = p + 1
        BY <1>0, <1>3, <1>4, <1>5, <2>1, <3>2, ListTypes
      <4> QED  BY <1>8, <4>1
    <3> QED  BY <3>1, <3>2
  <2>2. ASSUME NEW d \in Contacts, NEW a \in DOMAIN taken'[d]
        PROVE  ContactOf[taken'[d][a]] = d
    <3>1. CASE d # c
      BY <1>3, <2>2, <3>1 DEF Lists, RightLists
    <3>2. CASE d = c /\ a = t + 1
      BY <1>6, <3>2
    <3>3. CASE d = c /\ a # t + 1
      <4>1. a \in 1..t
        BY <1>4, <1>6, <2>2, <3>3
      <4>2. a \in DOMAIN taken[c]
        BY <1>0, <4>1, ListTypes
      <4> QED  BY <1>6, <3>3, <4>1, <4>2 DEF Lists, RightLists
    <3> QED  BY <3>1, <3>2, <3>3
  <2> QED  BY <2>1, <2>2 DEF RightLists
<1>11. TakenCovered'
  <2> SUFFICES ASSUME NEW d \in Contacts, NEW a \in DOMAIN taken'[d]
               PROVE  SettledOrAmong(taken[d][a], d, Len(pending[d]))'
    BY DEF TakenCovered
  <2>1. PICK l \in Nat : l = Len(pending'[d]) /\ Len(pending[d]) <= l
    BY <1>0, <1>3, <1>4, <1>5, ListTypes
  <2>2. CASE d = c /\ a = t + 1
    <3>1. p + 1 \in 1..Len(pending'[c])
      BY <1>4, <1>5
    <3>2. Listed(c, p + 1)' = taken'[d][a]
      BY <1>6, <1>8, <2>2
    <3> QED  BY <2>2, <3>1, <3>2 DEF SettledOrAmong
  <2>3. CASE ~(d = c /\ a = t + 1)
    <3>1. a \in DOMAIN taken[d] /\ taken'[d][a] = taken[d][a]
      <4>1. CASE d # c
        BY <1>3, <4>1
      <4>2. CASE d = c
        <5>1. a \in 1..t
          BY <1>4, <1>6, <2>3, <4>2
        <5> QED  BY <1>0, <1>6, <4>2, <5>1, ListTypes
      <4> QED  BY <4>1, <4>2
    <3>2. /\ taken[d][a] \in Messages /\ Len(pending[d]) \in Nat
          /\ SettledOrAmong(taken[d][a], d, Len(pending[d]))
      BY <3>1, ListTypes DEF Lists, TakenCovered
    <3>3. PICK x \in Messages, n \in Nat : x = taken[d][a] /\ n = Len(pending[d])
      BY <3>2
    <3>4. SettledOrAmong(x, d, l)'
      BY <1>9, <2>1, <3>2, <3>3
    <3> QED  BY <2>1, <3>1, <3>3, <3>4
  <2> QED  BY <2>2, <2>3
<1>12. PendingTurn'
  <2> SUFFICES ASSUME NEW d \in Contacts, NEW k \in DOMAIN pending'[d]
               PROVE  \E a \in DOMAIN taken'[d] :
                          /\ taken'[d][a] = Listed(d, k)'
                          /\ \A b \in 1..(a - 1) : SettledOrAmong(taken[d][b], d, k - 1)'
    BY DEF PendingTurn
  <2>1. CASE k \in 1..Len(pending[d])
    <3>1. k \in DOMAIN pending[d] /\ Len(pending[d]) \in Nat /\ Len(taken[d]) \in Nat
          /\ DOMAIN taken[d] = 1..Len(taken[d])
      BY <2>1, ListTypes
    <3>2. PICK a \in DOMAIN taken[d] :
              /\ taken[d][a] = Listed(d, k)
              /\ \A b \in 1..(a - 1) : SettledOrAmong(taken[d][b], d, k - 1)
      BY <3>1 DEF Lists, PendingTurn
    <3>3. \A e \in 1..Len(taken[d]) : e \in DOMAIN taken'[d] /\ taken'[d][e] = taken[d][e]
      <4>1. CASE d # c
        BY <1>3, <3>1, <4>1
      <4>2. CASE d = c
        <5>1. Len(taken[d]) = t
          BY <1>0, <4>2
        <5> QED  BY <1>4, <1>6, <4>2, <5>1
      <4> QED  BY <4>1, <4>2
    <3>4. ASSUME NEW b \in 1..(a - 1) PROVE SettledOrAmong(taken[d][b], d, k - 1)'
      <4>1. b \in 1..Len(taken[d]) /\ k - 1 \in Nat /\ k - 1 <= Len(pending[d])
        <5>1. a \in 1..Len(taken[d])
          BY <3>1, <3>2
        <5> QED  BY <2>1, <3>1, <3>4, <5>1
      <4>2. PICK y \in Messages, n \in Nat : y = taken[d][b] /\ n = k - 1
        BY <4>1, ListTypes
      <4>3. SettledOrAmong(y, d, n)
        BY <3>2, <4>2
      <4>4. SettledOrAmong(y, d, n)'
        BY <1>9, <4>1, <4>2, <4>3
      <4>5. y = taken'[d][b]
        BY <3>3, <4>1, <4>2
      <4> QED  BY <4>2, <4>4, <4>5
    <3>5. Listed(d, k)' = Listed(d, k)
      BY <1>7, <2>1
    <3>6. a \in DOMAIN taken'[d] /\ taken'[d][a] = taken[d][a]
      BY <3>1, <3>2, <3>3
    <3> QED  BY <3>2, <3>4, <3>5, <3>6
  <2>2. CASE k \notin 1..Len(pending[d])
    <3>1. d = c /\ k = p + 1
      BY <1>0, <1>3, <1>4, <1>5, <2>2, ListTypes
    <3>2. t + 1 \in DOMAIN taken'[d] /\ taken'[d][t + 1] = Listed(d, k)'
      BY <1>4, <1>6, <1>8, <3>1
    <3>3. ASSUME NEW b \in 1..((t + 1) - 1) PROVE SettledOrAmong(taken[d][b], d, k - 1)'
      <4>1. b \in 1..t /\ k - 1 = p
        BY <1>4, <3>1, <3>3
      <4>2. b \in DOMAIN taken[c] /\ b \in 1..Len(taken[c]) /\ p = Len(pending[c])
        BY <1>0, <4>1, ListTypes
      <4>3. PICK y \in Messages, n \in Nat : y = taken[c][b] /\ n = p
        BY <1>4, <4>2, ListTypes
      <4>4. SettledOrAmong(y, c, n)
        BY <4>2, <4>3 DEF Lists, TakenCovered
      <4>5. SettledOrAmong(y, c, n)'
        <5>1. n <= Len(pending[c])
          BY ONLY <4>2, <4>3
        <5> QED  BY ONLY <1>9, <4>3, <4>4, <5>1, c \in Contacts
      <4>6. y = taken'[d][b]
        BY <1>6, <3>1, <4>1, <4>3
      <4>7. d = c /\ n = k - 1
        BY <3>1, <4>1, <4>3
      <4>8. SettledOrAmong(y, d, k - 1)'
        BY ONLY <4>5, <4>7
      <4> QED  BY ONLY <4>6, <4>8
    <3> QED  BY <3>2, <3>3
  <2> QED  BY <2>1, <2>2
<1> QED  BY <1>10, <1>11, <1>12 DEF Lists

-----------------------------------------------------------------------------
(* What is on its way between the threads and the server. *)

TaskFits(t) ==
    /\ t.kind = "touch" => Delivery!ItsTurn(heap[t.ref].message)
    /\ t.kind \in {"remove", "imstate"} => Delivery!Settled(t.message)
CallbackFits(t) == t.ref # 0 => Delivery!ItsTurn(heap[t.ref].message)
RequestFits(q) ==
    /\ q.message = heap[q.ref].message
    /\ Delivery!ItsTurn(q.message)
    /\ q.served => Delivery!Delivered(q.message)

\* The message the chain is at has its turn, and a message that is to be removed
\* is settled.
InTransit ==
    /\ \A t \in ToSet(archive) : TaskFits(t)
    /\ \A t \in ToSet(core) : CallbackFits(t)
    /\ \A q \in ToSet(net) : RequestFits(q)

\* What fits goes on fitting, where it stays.
LEMMA FitsStay ==
    ASSUME TypeOK, LedgerGrows, SameMessages
    PROVE  /\ \A t \in ArchiveTasks : TaskFits(t) => TaskFits(t)'
           /\ \A t \in CoreTasks : CallbackFits(t) => CallbackFits(t)'
           /\ \A q \in Requests : RequestFits(q) => RequestFits(q)'
<1>1. ASSUME NEW r \in Refs, Delivery!ItsTurn(heap[r].message)
      PROVE  Delivery!ItsTurn(heap[r].message)'
  <2>1. heap[r].message \in Messages /\ heap'[r].message = heap[r].message
    BY ReferTypes DEF SameMessages
  <2>2. PICK m \in Messages : m = heap[r].message
    BY <2>1
  <2>3. Delivery!ItsTurn(m)'
    BY <1>1, <2>2, FactsStay
  <2> QED  BY <2>1, <2>2, <2>3
<1>2. ASSUME NEW t \in ArchiveTasks, TaskFits(t) PROVE TaskFits(t)'
  <2>1. CASE t.kind = "touch"
    <3>1. t.ref \in Refs
      BY <2>1 DEF ArchiveTasks, GetTask
    <3> QED  BY <1>1, <1>2, <2>1, <3>1 DEF TaskFits
  <2>2. CASE t.kind \in {"remove", "imstate"}
    <3>1. t.message \in Messages
      BY <2>2 DEF ArchiveTasks, GetTask
    <3> QED  BY <1>2, <2>2, <3>1, FactsStay DEF TaskFits
  <2> QED  BY <2>1, <2>2 DEF TaskFits
<1>3. ASSUME NEW t \in CoreTasks, CallbackFits(t) PROVE CallbackFits(t)'
  <2>1. t.ref # 0 => t.ref \in Refs
    BY DEF CoreTasks
  <2> QED  BY <1>1, <1>3, <2>1 DEF CallbackFits
<1>4. ASSUME NEW q \in Requests, RequestFits(q) PROVE RequestFits(q)'
  <2>1. q.message \in Messages /\ q.ref \in Refs
    BY DEF Requests
  <2> QED  BY <1>4, <2>1, FactsStay DEF RequestFits, SameMessages
<1> QED  BY <1>2, <1>3, <1>4

\* The elements of the queues have the queues' types.
LEMMA ElementTypes ==
    ASSUME TypeOK
    PROVE  /\ ToSet(archive) \subseteq ArchiveTasks
           /\ ToSet(core) \subseteq CoreTasks
           /\ ToSet(net) \subseteq Requests
<1>1. ASSUME NEW S, NEW s \in Seq(S) PROVE ToSet(s) \subseteq S
  BY ElementOfSeq, LenProperties DEF ToSet
<1> QED  BY <1>1 DEF TypeOK

\* Starting the chain gives the archive thread the tasks, and one more.
LEMMA PostedTasks ==
    ASSUME TypeOK, NEW tasks \in Seq(ArchiveTasks),
           PostPending(tasks) \/ StartPending(tasks)
    PROVE  ToSet(archive') \subseteq ToSet(archive) \union ToSet(tasks) \union {GetTask}
<1>1. archive \in Seq(ArchiveTasks) /\ <<GetTask>> \in Seq(ArchiveTasks)
  BY TaskTypes DEF TypeOK
<1>2. archive \o tasks \in Seq(ArchiveTasks)
  BY <1>1, ConcatProperties
<1>3. ToSet(archive \o tasks) \subseteq ToSet(archive) \union ToSet(tasks)
  BY <1>1, ToSetConcat
<1>4. ToSet(<<GetTask>>) = {GetTask}
  BY DEF ToSet
<1>5. ToSet((archive \o tasks) \o <<GetTask>>)
        \subseteq ToSet(archive \o tasks) \union {GetTask}
  BY <1>1, <1>2, <1>4, ToSetConcat
<1>6. archive' = archive \o tasks \/ archive' = (archive \o tasks) \o <<GetTask>>
  BY DEF PostPending, StartPending
<1> QED  BY <1>3, <1>5, <1>6

\* The first message of the first list has its turn.
LEMMA FirstReadyTurn ==
    ASSUME TypeOK, Lists, FirstReady # 0
    PROVE  FirstReady \in Refs /\ Delivery!ItsTurn(heap[FirstReady].message)
<1>1. Busy # {} /\ Busy \in SUBSET Nat
  BY PendingMessagesAssumption DEF FirstReady, Busy
<1>2. PICK c \in Contacts : c = Min(Busy) /\ pending[c] # <<>>
  BY <1>1, MinNat DEF Busy
<1>3. FirstReady = Head(pending[c])
  BY <1>1, <1>2 DEF FirstReady
<1>4. 1 \in 1..Len(pending[c]) /\ FirstReady = pending[c][1]
  <2>1. pending[c] \in Seq(Refs)
    BY DEF TypeOK
  <2> QED  BY <1>2, <1>3, <2>1
<1>5. PICK m \in Messages : m = Listed(c, 1) /\ m = heap[FirstReady].message
  BY <1>4, ListTypes DEF Listed
<1>6. 1 \in DOMAIN pending[c] /\ ContactOf[m] = c
  BY <1>4, <1>5, ListTypes DEF Lists, RightLists
<1>7. PICK a \in DOMAIN taken[c] :
          /\ taken[c][a] = m
          /\ \A b \in 1..(a - 1) : SettledOrAmong(taken[c][b], c, 1 - 1)
  BY <1>5, <1>6 DEF Lists, PendingTurn
<1>8. \A b \in 1..(a - 1) : Delivery!Settled(taken[c][b])
  BY <1>7 DEF SettledOrAmong
<1>9. Delivery!ItsTurn(m)
  BY <1>6, <1>7, <1>8 DEF Delivery!ItsTurn
<1>10. FirstReady \in Refs
  BY <1>4, ListTypes
<1> QED  BY <1>5, <1>9, <1>10

\* What is given to the archive thread fits.
LEMMA NewTasksFit ==
    ASSUME TypeInv, Lists, InTransit, [Next]_vars
    PROVE  \A t \in ToSet(archive') : t \in ToSet(archive) \/ TaskFits(t)'
<1>h. /\ TypeOK /\ LedgerGrows /\ SameMessages
      /\ archive \in Seq(ArchiveTasks) /\ core \in Seq(CoreTasks)
      /\ ContactOf \in [Messages -> Contacts]
  BY LedgerStays, MessagesStay, PendingMessagesAssumption DEF TypeInv, TypeOK
<1>k. /\ \A o : TaskFits(InsertTask(o))' /\ TaskFits(ReplaceTask(o))'
      /\ TaskFits(GetTask)'
  BY DEF TaskFits, InsertTask, ReplaceTask, GetTask
<1>p. ASSUME NEW t, t \in ArchiveTasks, TaskFits(t)', PostPending(<<t>>) \/ StartPending(<<t>>)
      PROVE  \A u \in ToSet(archive') : u \in ToSet(archive) \/ TaskFits(u)'
  <2>1. <<t>> \in Seq(ArchiveTasks) /\ ToSet(<<t>>) = {t}
    BY <1>p DEF ToSet
  <2>2. ToSet(archive') \subseteq ToSet(archive) \union {t} \union {GetTask}
    BY <1>h, <1>p, <2>1, PostedTasks
  <2> QED  BY <1>k, <1>p, <2>2
<1>q. ASSUME PostPending(<<>>) \/ StartPending(<<>>)
      PROVE  \A u \in ToSet(archive') : u \in ToSet(archive) \/ TaskFits(u)'
  <2>1. <<>> \in Seq(ArchiveTasks) /\ ToSet(<<>>) = {}
    BY DEF ToSet
  <2>2. ToSet(archive') \subseteq ToSet(archive) \union {} \union {GetTask}
    BY <1>h, <1>q, <2>1, PostedTasks
  <2> QED  BY <1>k, <2>2
<1>r. ASSUME NEW t, t \in ArchiveTasks, TaskFits(t)', archive' = Append(archive, t)
      PROVE  \A u \in ToSet(archive') : u \in ToSet(archive) \/ TaskFits(u)'
  BY <1>h, <1>r, ToSetAppend
<1>1. ASSUME NEW m \in Messages, SendMessage(m)
      PROVE  \A u \in ToSet(archive') : u \in ToSet(archive) \/ TaskFits(u)'
  <2>1. NewObject(m, 1, FALSE) \in Objects
    BY PendingMessagesAssumption DEF NewObject, Objects, Versions
  <2> QED  BY <1>1, <1>k, <1>p, <2>1, TaskTypes DEF SendMessage
<1>2. ASSUME NEW m \in Messages, EditMessage(m)
      PROVE  \A u \in ToSet(archive') : u \in ToSet(archive) \/ TaskFits(u)'
  <2>1. NewObject(m, written[m] + 1, TRUE) \in Objects
    BY <1>2, PendingMessagesAssumption DEF EditMessage, NewObject, Objects, Versions
  <2> QED  BY <1>2, <1>k, <1>p, <2>1, TaskTypes DEF EditMessage
<1>3. CASE Resume \/ GoOn
  BY <1>3, <1>q DEF Resume, GoOn
<1>4. ASSUME NEW m \in Messages, NEW how, Confirm(m, how)
      PROVE  \A u \in ToSet(archive') : u \in ToSet(archive) \/ TaskFits(u)'
  <2>1. Delivery!Settled(m)
    BY <1>4 DEF Confirm, ToSet, Delivery!Settled, Delivery!Delivered, Delivery!In
  <2>2. Delivery!Settled(m)'
    BY <1>h, <2>1, FactsStay
  <2>3. TaskFits(RemoveTask(m, FALSE, FALSE))' /\ TaskFits(ImStateTask(m))'
    BY <2>2 DEF TaskFits, RemoveTask, ImStateTask
  <2>4. \/ archive' = Append(archive, RemoveTask(m, FALSE, FALSE))
        \/ archive' = Append(archive, ImStateTask(m))
    BY <1>4 DEF Confirm
  <2> QED  BY <1>r, <2>3, <2>4, TaskTypes
<1>5. CASE Archive
  <2>1. archive # <<>> /\ archive' = Tail(archive)
    BY <1>5 DEF Archive, DoInsert, DoReplace, DoGet, DoTouch, DoRemove, DoImState, ArchiveTask
  <2> QED  BY <1>h, <2>1, ToSetTail
<1>6. CASE OnGotReady
  <2>1. PICK r \in Refs : r = GotRef
    BY <1>6, <1>h, CoreHead DEF OnGotReady, CoreTask, GotRef
  <2>2. Head(core) \in ToSet(core) /\ Head(core).ref # 0
    BY <1>6, <1>h, ToSetTail DEF OnGotReady, CoreTask, GotRef
  <2>3. Head(core) \in CoreTasks /\ CallbackFits(Head(core))
    BY <1>h, <2>2, ElementTypes DEF InTransit
  <2>4. Delivery!ItsTurn(heap[r].message)
    BY <2>1, <2>2, <2>3 DEF CallbackFits, GotRef
  <2>5. TouchTask(r) \in ArchiveTasks /\ TaskFits(TouchTask(r))
    BY <2>4, TaskTypes DEF TaskFits, TouchTask
  <2>6. TaskFits(TouchTask(r))'
    BY <1>h, <2>5, FitsStay
  <2>7. archive' = Append(archive, TouchTask(r))
    BY <1>6, <2>1 DEF OnGotReady
  <2> QED  BY <1>r, <2>5, <2>6, <2>7
<1>7. ASSUME NEW i \in DOMAIN net, AnswerOk(i)
      PROVE  \A u \in ToSet(archive') : u \in ToSet(archive) \/ TaskFits(u)'
  <2>1. PICK m \in Messages : m = net[i].message
    BY <1>h, ReferTypes
  <2>2. RequestFits(net[i]) /\ net[i].served
    BY <1>7 DEF InTransit, ToSet, AnswerOk
  <2>3. Delivery!Settled(m)'
    BY <1>h, <2>1, <2>2, FactsStay DEF RequestFits, Delivery!Settled
  <2>4. TaskFits(RemoveTask(m, FALSE, TRUE))'
    BY <2>3 DEF TaskFits, RemoveTask
  <2>5. archive' = Append(archive, RemoveTask(m, FALSE, TRUE))
    BY <1>7, <2>1 DEF AnswerOk
  <2> QED  BY <1>r, <2>4, <2>5, TaskTypes
<1>8. ASSUME NEW i \in DOMAIN net, AnswerNoHistoryId(i)
      PROVE  \A u \in ToSet(archive') : u \in ToSet(archive) \/ TaskFits(u)'
  <2>1. heap[net[i].ref] \in Objects
    BY <1>h, ReferTypes
  <2>2. PostPending(<<ReplaceTask(heap[net[i].ref])>>)
    BY <1>8 DEF AnswerNoHistoryId
  <2> QED  BY <1>k, <1>p, <2>1, <2>2, TaskTypes
<1>9. ASSUME NEW i \in DOMAIN net, AnswerRejected(i)
      PROVE  \A u \in ToSet(archive') : u \in ToSet(archive) \/ TaskFits(u)'
  <2>1. PICK m \in Messages : m = net[i].message
    BY <1>h, ReferTypes
  <2>2. /\ m \in refused'
        /\ archive' = Append(archive, RemoveTask(m, TRUE, FALSE))
    BY <1>9, <2>1 DEF AnswerRejected
  <2>3. Delivery!Settled(m)'
    BY <2>2 DEF Delivery!Settled
  <2>4. TaskFits(RemoveTask(m, TRUE, FALSE))'
    BY <2>3 DEF TaskFits, RemoveTask
  <2> QED  BY <1>r, <2>2, <2>4, TaskTypes
<1>10. CASE archive' = archive
  BY <1>10
<1>11. CASE Crash
  <2>1. ToSet(archive') = {}
    BY <1>11 DEF Crash, ToSet
  <2> QED  BY <2>1
<1>12. CASE [\/ OnGotNothing \/ OnGotRecent \/ OnTouched \/ Serve \/ Tick \/ Fire
             \/ \E i \in DOMAIN net : AnswerError(i) \/ RequestDropped(i)]_vars
  <2>1. archive' = archive
    BY <1>12 DEF OnGotNothing, OnGotRecent, OnTouched, Serve, ServerTakes, Tick, Fire,
                 FireTimer, AnswerError, RequestDropped, vars
  <2> QED  BY <2>1
<1> QED
  BY <1>1, <1>2, <1>3, <1>4, <1>5, <1>6, <1>7, <1>8, <1>9, <1>11, <1>12
     DEF Next, Core, Answer

\* What is given to the core thread fits.
LEMMA NewCallbacksFit ==
    ASSUME TypeInv, Lists, InTransit, [Next]_vars
    PROVE  \A t \in ToSet(core') : t \in ToSet(core) \/ CallbackFits(t)'
<1>h. /\ TypeOK /\ LedgerGrows /\ SameMessages
      /\ archive \in Seq(ArchiveTasks) /\ core \in Seq(CoreTasks)
  BY LedgerStays, MessagesStay DEF TypeInv, TypeOK
<1>r. ASSUME NEW t, t \in CoreTasks, CallbackFits(t)', core' = Append(core, t)
      PROVE  \A u \in ToSet(core') : u \in ToSet(core) \/ CallbackFits(u)'
  BY <1>h, <1>r, ToSetAppend
<1>1. CASE DoGet
  <2>1. CASE FirstReady = 0
    <3>1. CallbackFits(Callback("got", 0))' /\ Callback("got", 0) \in CoreTasks
      BY CallbackTypes DEF CallbackFits, Callback
    <3> QED  BY <1>1, <1>r, <2>1, <3>1 DEF DoGet
  <2>2. CASE FirstReady # 0
    <3>1. PICK r \in Refs : r = FirstReady /\ Delivery!ItsTurn(heap[r].message)
      BY <1>h, <2>2, FirstReadyTurn
    <3>2. Callback("got", r) \in CoreTasks /\ CallbackFits(Callback("got", r))
      BY <3>1, CallbackTypes DEF CallbackFits, Callback
    <3>3. CallbackFits(Callback("got", r))'
      BY <1>h, <3>2, FitsStay
    <3> QED  BY <1>1, <1>r, <3>1, <3>2, <3>3 DEF DoGet
  <2> QED  BY <2>1, <2>2
<1>2. CASE DoTouch
  <2>1. archive # <<>> /\ Head(archive).kind = "touch"
    BY <1>2 DEF DoTouch, ArchiveTask
  <2>2. PICK r \in Refs : r = Head(archive).ref
    BY <1>h, <2>1, ArchiveHead
  <2>3. Head(archive) \in ToSet(archive)
    BY <1>h, <2>1, ToSetTail
  <2>4. Delivery!ItsTurn(heap[r].message)
    BY <2>1, <2>2, <2>3 DEF InTransit, TaskFits
  <2>5. Callback("touched", r) \in CoreTasks /\ CallbackFits(Callback("touched", r))
    BY <2>4, CallbackTypes DEF CallbackFits, Callback
  <2>6. CallbackFits(Callback("touched", r))'
    BY <1>h, <2>5, FitsStay
  <2>7. core' = Append(core, Callback("touched", r))
    BY <1>2, <2>2 DEF DoTouch
  <2> QED  BY <1>r, <2>5, <2>6, <2>7
<1>3. CASE DoRemove
  <2>1. CallbackFits(Callback("removed", 0))' /\ Callback("removed", 0) \in CoreTasks
    BY CallbackTypes DEF CallbackFits, Callback
  <2>2. core' = core \/ core' = Append(core, Callback("removed", 0))
    BY <1>3 DEF DoRemove
  <2> QED  BY <1>r, <2>1, <2>2
<1>4. CASE Fire
  <2>1. CallbackFits(Callback("timer", 0))' /\ Callback("timer", 0) \in CoreTasks
    BY CallbackTypes DEF CallbackFits, Callback
  <2>2. core' = Append(core, Callback("timer", 0))
    BY <1>4 DEF Fire, FireTimer
  <2> QED  BY <1>r, <2>1, <2>2
<1>5. CASE Core
  <2>1. core # <<>> /\ core' = Tail(core)
    BY <1>5 DEF Core, OnGotNothing, OnGotRecent, OnGotReady, OnTouched, GoOn, CoreTask
  <2> QED  BY <1>h, <2>1, ToSetTail
<1>6. CASE Crash
  <2>1. ToSet(core') = {}
    BY <1>6 DEF Crash, ToSet
  <2> QED  BY <2>1
<1>7. CASE [\/ \E m \in Messages : SendMessage(m) \/ EditMessage(m)
            \/ Resume
            \/ \E m \in Messages, how \in Confirmations : Confirm(m, how)
            \/ DoInsert \/ DoReplace \/ DoImState
            \/ Serve \/ Answer \/ Tick]_vars
  <2>1. core' = core
    BY <1>7 DEF SendMessage, EditMessage, Resume, Confirm, DoInsert, DoReplace, DoImState,
                Serve, ServerTakes, Answer, AnswerOk, AnswerNoHistoryId, AnswerError,
                AnswerRejected, RequestDropped, Answered, Tick, vars
  <2> QED  BY <2>1
<1> QED
  BY <1>1, <1>2, <1>3, <1>4, <1>5, <1>6, <1>7 DEF Next, Archive

\* What is sent to the server, and what it does with it, fits.
LEMMA NewRequestsFit ==
    ASSUME TypeInv, Lists, InTransit, [Next]_vars
    PROVE  \A q \in ToSet(net') : q \in ToSet(net) \/ RequestFits(q)'
<1>h. /\ TypeOK /\ LedgerGrows /\ SameMessages
      /\ core \in Seq(CoreTasks) /\ net \in Seq(Requests)
      /\ ContactOf \in [Messages -> Contacts] /\ server \in [Contacts -> Seq(Messages)]
  BY LedgerStays, MessagesStay, PendingMessagesAssumption DEF TypeInv, TypeOK
<1>1. CASE OnTouched
  <2>1. core # <<>> /\ Head(core).kind = "touched"
    BY <1>1 DEF OnTouched, CoreTask
  <2>2. PICK r \in Refs : r = Head(core).ref
    BY <1>h, <2>1, CoreHead
  <2>3. Head(core) \in ToSet(core) /\ r # 0
    BY <1>h, <2>1, ToSetTail DEF Refs
  <2>4. Delivery!ItsTurn(heap[r].message) /\ heap[r] \in Objects
    BY <1>h, <2>2, <2>3, ReferTypes DEF InTransit, CallbackFits
  <2> DEFINE e == <<heap[r].message, heap[r].version>> \in known
             q == [ref |-> r, message |-> heap[r].message,
                   version |-> heap[r].version, edit |-> e, served |-> FALSE]
  <2>5. net' = Append(net, q)
    BY <1>1, <2>2 DEF OnTouched
  <2>6. q \in Requests /\ RequestFits(q)
    BY <2>4 DEF Requests, Objects, RequestFits
  <2>7. PICK p \in Requests : p = q /\ RequestFits(p)
    BY <2>6
  <2>8. RequestFits(p)'
    BY <1>h, <2>7, FitsStay
  <2>9. net' = Append(net, p)
    BY <2>5, <2>7
  <2> QED  BY <1>h, <2>8, <2>9, ToSetAppend
<1>2. CASE Serve
  <2>1. PICK i \in DOMAIN net : ServerTakes(i)
    BY <1>2 DEF Serve
  <2>2. PICK m \in Messages, q \in Requests : m = q.message /\ q = net[i] /\ i \in 1..Len(net)
    BY <1>h, ReferTypes
  <2> DEFINE p == [q EXCEPT !.served = TRUE]
  <2>3. net' = [net EXCEPT ![i] = p]
    BY <2>1, <2>2 DEF ServerTakes
  <2>4. ToSet(net') \subseteq ToSet(net) \union {p}
    <3> HIDE DEF p
    <3> QED  BY <1>h, <2>2, <2>3, ToSetRemoveAt
  <2>5. RequestFits(q) /\ p \in Requests /\ p.message = m /\ p.ref = q.ref
    BY <2>2 DEF InTransit, ToSet, Requests
  <2>6. Delivery!Delivered(m)'
    <3> DEFINE c == ContactOf[m]
    <3>1. c \in Contacts /\ server[c] \in Seq(Messages)
      BY <1>h
    <3>2. \/ m \in ToSet(server[c]) /\ server' = server
          \/ server' = [server EXCEPT ![c] = Append(@, m)]
      BY <2>1, <2>2 DEF ServerTakes
    <3> HIDE DEF c
    <3>3. m \in ToSet(server'[c])
      <4>1. CASE m \in ToSet(server[c]) /\ server' = server
        BY <4>1
      <4>2. CASE server' = [server EXCEPT ![c] = Append(@, m)]
        <5>1. server'[c] = Append(server[c], m)
          BY <1>h, <3>1, <4>2
        <5> QED  BY <3>1, <5>1, ToSetAppend
      <4> QED  BY <3>2, <4>1, <4>2
    <3> QED  BY <3>3 DEF ToSet, c, Delivery!Delivered, Delivery!In
  <2>7. RequestFits(q)'
    BY <1>h, <2>5, FitsStay
  <2>8. PICK u \in Requests : u = p
    BY <2>5
  <2>9. u.message = m /\ u.ref = q.ref /\ m = q.message
    BY <2>2, <2>5, <2>8
  <2>10. RequestFits(u)'
    BY <2>6, <2>7, <2>9 DEF RequestFits
  <2> QED  BY <2>4, <2>8, <2>10
<1>3. CASE Answer
  <2>1. PICK i \in DOMAIN net : net' = RemoveAt(net, i)
    BY <1>3 DEF Answer, AnswerOk, AnswerNoHistoryId, AnswerError, AnswerRejected,
                RequestDropped, Answered
  <2>2. i \in 1..Len(net)
    BY <1>h, ReferTypes
  <2> QED  BY <1>h, <2>1, <2>2, ToSetRemoveAt
<1>4. CASE Crash
  <2>1. ToSet(net') = {}
    BY <1>4 DEF Crash, ToSet
  <2> QED  BY <2>1
<1>5. CASE [\/ \E m \in Messages : SendMessage(m) \/ EditMessage(m)
            \/ Resume
            \/ \E m \in Messages, how \in Confirmations : Confirm(m, how)
            \/ Archive
            \/ OnGotNothing \/ OnGotRecent \/ OnGotReady \/ GoOn
            \/ Tick \/ Fire]_vars
  <2>1. net' = net
    BY <1>5 DEF SendMessage, EditMessage, Resume, Confirm, Archive, DoInsert, DoReplace,
                DoGet, DoTouch, DoRemove, DoImState, ArchiveTask, OnGotNothing, OnGotRecent,
                OnGotReady, GoOn, Tick, Fire, FireTimer, vars, chain
  <2> QED  BY <2>1
<1> QED
  BY <1>1, <1>2, <1>3, <1>4, <1>5 DEF Next, Core

\* What is on its way fits in every state.
LEMMA InTransitStep ==
    ASSUME TypeInv, Lists, InTransit, [Next]_vars
    PROVE  InTransit'
<1>1. TypeOK /\ LedgerGrows /\ SameMessages
  BY LedgerStays, MessagesStay DEF TypeInv
<1>2. \A t \in ToSet(archive') : TaskFits(t)'
  BY <1>1, NewTasksFit, ElementTypes, FitsStay DEF InTransit
<1>3. \A t \in ToSet(core') : CallbackFits(t)'
  BY <1>1, NewCallbacksFit, ElementTypes, FitsStay DEF InTransit
<1>4. \A q \in ToSet(net') : RequestFits(q)'
  BY <1>1, NewRequestsFit, ElementTypes, FitsStay DEF InTransit
<1> QED  BY <1>2, <1>3, <1>4 DEF InTransit

\* Replacing an entry leaves a message where it is.
LEMMA PlacesReplaced ==
    ASSUME TypeInv, SameMessages, DoReplace, NEW d \in Contacts
    PROVE  /\ Len(pending'[d]) = Len(pending[d])
           /\ DOMAIN pending'[d] = DOMAIN pending[d]
           /\ \A j \in 1..Len(pending[d]) : heap'[pending'[d][j]].message = Listed(d, j)
<1>h. /\ TypeOK /\ archive \in Seq(ArchiveTasks)
      /\ heap \in Seq(Objects) /\ Len(heap) \in Nat
      /\ pending \in [Contacts -> Seq(Refs)]
  BY DEF TypeInv, TypeOK
<1>m. \A j \in 1..Len(pending[d]) : heap'[pending[d][j]].message = Listed(d, j)
  BY <1>h, ListTypes DEF SameMessages, Listed
<1>1. archive # <<>> /\ Head(archive).kind = "replace"
  BY DEF DoReplace, ArchiveTask
<1>2. PICK o \in Objects, m \in Messages : o = Head(archive).object /\ m = o.message
  BY <1>h, <1>1, ArchiveHead DEF Objects
<1>3. CASE PlacesOf(m) = {}
  BY <1>2, <1>3, <1>m DEF DoReplace
<1>4. CASE PlacesOf(m) # {}
  <2>c. PICK c \in Contacts : c = ContactOf[m]
    BY <1>h, <1>4, PlaceOf
  <2>1. PICK i \in 1..Len(pending[c]) : i = Min(PlacesOf(m)) /\ Listed(c, i) = m
    BY <1>h, <1>4, <2>c, PlaceOf DEF Listed
  <2>2. /\ heap' = Append(heap, o)
        /\ pending' = [pending EXCEPT ![c] = [@ EXCEPT ![i] = Len(heap) + 1]]
    BY <1>2, <1>4, <2>c, <2>1 DEF DoReplace, PutAt
  <2>3. heap'[Len(heap) + 1].message = m
    BY <1>h, <1>2, <2>2, AppendProperties
  <2>4. CASE d # c
    BY <1>h, <2>2, <1>m, <2>4
  <2>5. CASE d = c
    <3>1. pending'[c] = [pending[c] EXCEPT ![i] = Len(heap) + 1]
      BY <1>h, <2>2
    <3>2. pending[c] \in Seq(Nat)
      <4>1. pending[c] \in Seq(Refs) /\ Refs \subseteq Nat
        BY <1>h DEF Refs
      <4> QED  BY <4>1, SeqGrows
    <3>3. Len(pending'[c]) = Len(pending[c])
      BY <1>h, <2>1, <3>1, <3>2, ExceptSeq
    <3>4. DOMAIN pending'[c] = DOMAIN pending[c]
      BY <3>1
    <3>5. DOMAIN pending[c] = 1..Len(pending[c])
      BY <1>h, ListTypes
    <3>6. \A j \in 1..Len(pending[c]) : heap'[pending'[c][j]].message = Listed(c, j)
      BY <2>1, <2>3, <1>m, <2>5, <3>1, <3>5
    <3> QED  BY <2>5, <3>3, <3>4, <3>6
  <2> QED  BY <2>4, <2>5
<1> QED  BY <1>3, <1>4

\* The lists stay in line with the messages taken, whatever the step.
LEMMA ListsStep ==
    ASSUME TypeInv, Lists, InTransit, [Next]_vars
    PROVE  Lists'
<1>l. LedgerGrows /\ SameMessages
  BY LedgerStays, MessagesStay
<1>t. TypeOK /\ ContactOf \in [Messages -> Contacts]
  BY PendingMessagesAssumption DEF TypeInv
<1>v. /\ archive \in Seq(ArchiveTasks)
      /\ heap \in Seq(Objects) /\ Len(heap) \in Nat
      /\ pending \in [Contacts -> Seq(Refs)]
  <2>1. archive \in Seq(ArchiveTasks) /\ heap \in Seq(Objects) /\ pending \in [Contacts -> Seq(Refs)]
    BY <1>t DEF TypeOK
  <2> QED  BY <2>1, LenProperties
<1>h. /\ TypeOK /\ LedgerGrows /\ SameMessages
      /\ archive \in Seq(ArchiveTasks)
      /\ heap \in Seq(Objects) /\ Len(heap) \in Nat
      /\ pending \in [Contacts -> Seq(Refs)]
      /\ ContactOf \in [Messages -> Contacts]
  BY ONLY <1>l, <1>t, <1>v
<1>1. ASSUME UNCHANGED <<pending, taken>> PROVE Lists'
  <2>1. \A c \in Contacts : \A j \in 1..Len(pending[c]) :
            heap'[pending'[c][j]].message = Listed(c, j)
    BY <1>h, <1>1, ListTypes DEF SameMessages, Listed
  <2> QED  BY <1>h, <1>1, <2>1, ListsSame
<1>2. CASE DoInsert
  <2>1. archive # <<>> /\ Head(archive).kind = "insert"
    BY <1>2 DEF DoInsert, ArchiveTask
  <2>2. PICK o \in Objects : o = Head(archive).object
    BY <1>h, <2>1, ArchiveHead
  <2>3. PICK c \in Contacts : c = ContactOf[o.message]
    BY <1>h DEF Objects
  <2>4. /\ heap' = Append(heap, o)
        /\ pending' = [pending EXCEPT ![c] = Append(@, Len(heap) + 1)]
        /\ taken' = [taken EXCEPT ![c] = Append(@, o.message)]
    BY <1>2, <2>2, <2>3 DEF DoInsert
  <2> QED  BY <1>h, <2>3, <2>4, ListsInsert
<1>3. CASE DoReplace
  <2>1. archive # <<>> /\ Head(archive).kind = "replace" /\ taken' = taken
    BY <1>3 DEF DoReplace, ArchiveTask
  <2> QED  BY <1>h, <1>3, <2>1, PlacesReplaced, ListsSame
<1>4. CASE DoRemove \/ DoImState
  <2>1. /\ archive # <<>> /\ Head(archive).kind \in {"remove", "imstate"}
        /\ taken' = taken
    BY <1>4 DEF DoRemove, DoImState, ArchiveTask
  <2>2. PICK m \in Messages : m = Head(archive).message
    BY <1>h, <2>1, ArchiveHead
  <2>3. Delivery!Settled(m)
    <3>1. Head(archive) \in ToSet(archive)
      BY <1>h, <2>1, ToSetTail
    <3> QED  BY <2>1, <2>2, <3>1 DEF InTransit, TaskFits
  <2>4. Delivery!Settled(m)'
    BY <1>h, <2>3, FactsStay
  <2>5. \/ pending' = pending
        \/ /\ PlacesOf(m) # {}
           /\ pending' = [pending EXCEPT ![ContactOf[m]] = RemoveAt(@, Min(PlacesOf(m)))]
    <3>1. CASE DoRemove
      BY <2>2, <3>1 DEF DoRemove, RemovePending
    <3>2. CASE DoImState
      BY <2>2, <3>2 DEF DoImState
    <3> QED  BY <1>4, <3>1, <3>2
  <2> QED  BY <1>1, <1>h, <2>1, <2>4, <2>5, ListsRemove
<1>5. CASE [\/ \E m \in Messages : SendMessage(m) \/ EditMessage(m)
            \/ Resume
            \/ \E m \in Messages, how \in Confirmations : Confirm(m, how)
            \/ DoGet \/ DoTouch
            \/ Core \/ Serve \/ Answer \/ Tick \/ Fire \/ Crash]_vars
  <2>1. UNCHANGED <<pending, taken>>
    BY <1>5 DEF SendMessage, EditMessage, Resume, Confirm, DoGet, DoTouch, Core,
                OnGotNothing, OnGotRecent, OnGotReady, OnTouched, GoOn, CoreTask,
                Serve, ServerTakes, Answer, AnswerOk, AnswerNoHistoryId, AnswerError,
                AnswerRejected, RequestDropped, Answered, Tick, Fire, FireTimer, Crash,
                vars, user
  <2> QED  BY <1>1, <2>1
<1> QED
  BY <1>2, <1>3, <1>4, <1>5 DEF Next, Archive

-----------------------------------------------------------------------------
(* A message is taken once. *)

\* The tasks that insert message m.
Inserts(m) == {InsertTask(o) : o \in {x \in Objects : x.message = m}}

\* A message the user sent waits to be taken, or was taken, but not twice.
TakenOnce ==
    \A m \in Messages :
        Among(archive, Inserts(m)) + (IF Delivery!Taken(m) THEN 1 ELSE 0)
            <= IF written[m] = 0 THEN 0 ELSE 1

\* A message the archive holds a text of was taken.
KeptTaken == \A m \in Messages : kept[m] # 0 => Delivery!Taken(m)

\* Only insertions count.
LEMMA InsertWeights ==
    ASSUME NEW m \in Messages
    PROVE  /\ \A t : t.kind # "insert" => Weight(t, Inserts(m)) = 0
           /\ \A o \in Objects :
                Weight(InsertTask(o), Inserts(m)) = IF o.message = m THEN 1 ELSE 0
<1>1. ASSUME NEW t, t.kind # "insert" PROVE Weight(t, Inserts(m)) = 0
  BY <1>1 DEF Weight, Inserts, InsertTask
<1>2. ASSUME NEW o \in Objects
      PROVE  Weight(InsertTask(o), Inserts(m)) = IF o.message = m THEN 1 ELSE 0
  <2>1. InsertTask(o) \in Inserts(m) <=> o.message = m
    <3>1. \A x \in Objects : InsertTask(o) = InsertTask(x) => x = o
      BY DEF InsertTask
    <3> QED  BY <3>1 DEF Inserts
  <2> QED  BY <2>1 DEF Weight
<1> QED  BY <1>1, <1>2

\* What starting the chain adds to a count of tasks.
LEMMA PostedCount ==
    ASSUME TypeOK, NEW tasks \in Seq(ArchiveTasks), NEW A,
           PostPending(tasks) \/ StartPending(tasks)
    PROVE  /\ Among(archive, A) \in Nat /\ Among(tasks, A) \in Nat
           /\ archive' = archive \o tasks
                => Among(archive', A) = Among(archive, A) + Among(tasks, A)
           /\ PostPending(tasks)
                => Among(archive', A)
                     = Among(archive, A) + Among(tasks, A) + Weight(GetTask, A)
<1>1. archive \in Seq(ArchiveTasks) /\ GetTask \in ArchiveTasks
  BY TaskTypes DEF TypeOK
<1>2. Among(archive, A) \in Nat /\ Among(tasks, A) \in Nat
  BY <1>1, AmongType
<1>3. /\ archive \o tasks \in Seq(ArchiveTasks)
      /\ Among(archive \o tasks, A) = Among(archive, A) + Among(tasks, A)
  BY <1>1, ConcatProperties, AmongConcat
<1>4. <<GetTask>> \in Seq(ArchiveTasks)
  BY <1>1
<1>5. Among((archive \o tasks) \o <<GetTask>>, A)
        = Among(archive \o tasks, A) + Among(<<GetTask>>, A)
  <2>1. PICK f \in Seq(ArchiveTasks) : f = archive \o tasks
    BY <1>3
  <2>2. PICK g \in Seq(ArchiveTasks) : g = <<GetTask>>
    BY <1>4
  <2>3. Among(f \o g, A) = Among(f, A) + Among(g, A)
    BY ONLY f \in Seq(ArchiveTasks), g \in Seq(ArchiveTasks), AmongConcat
  <2> QED  BY <2>1, <2>2, <2>3
<1>6. Among(<<GetTask>>, A) = Weight(GetTask, A)
  BY <1>1, AmongSingle
<1>7. ASSUME PostPending(tasks)
      PROVE  Among(archive', A) = Among(archive, A) + Among(tasks, A) + Weight(GetTask, A)
  BY <1>3, <1>5, <1>6, <1>7 DEF PostPending
<1> QED  BY <1>2, <1>3, <1>7

\* A step that takes no message and gives the archive thread none to take.
LEMMA TakenOnceKept ==
    ASSUME TypeOK, TakenOnce, UNCHANGED taken,
           \A m \in Messages : /\ Among(archive', Inserts(m)) = Among(archive, Inserts(m))
                               /\ written'[m] = 0 => written[m] = 0
    PROVE  TakenOnce'
<1> SUFFICES ASSUME NEW m \in Messages
             PROVE  Among(archive', Inserts(m)) + (IF Delivery!Taken(m)' THEN 1 ELSE 0)
                      <= IF written'[m] = 0 THEN 0 ELSE 1
  <2>1. \A m : Inserts(m)' = Inserts(m)
    BY DEF Inserts, Objects, Versions
  <2> QED  BY <2>1 DEF TakenOnce
<1>1. Delivery!Taken(m)' <=> Delivery!Taken(m)
  BY DEF Delivery!Taken, Delivery!In
<1>2. /\ Among(archive, Inserts(m)) + (IF Delivery!Taken(m) THEN 1 ELSE 0)
            <= IF written[m] = 0 THEN 0 ELSE 1
      /\ Among(archive', Inserts(m)) = Among(archive, Inserts(m))
      /\ written'[m] = 0 => written[m] = 0
  BY DEF TakenOnce
<1>3. Among(archive, Inserts(m)) \in Nat
  BY AmongType DEF TypeOK
<1>4. CASE Delivery!Taken(m)
  BY <1>1, <1>2, <1>3, <1>4
<1>5. CASE ~Delivery!Taken(m)
  BY <1>1, <1>2, <1>3, <1>5
<1> QED  BY <1>4, <1>5

\* No step lets a message be taken twice.
LEMMA TakenOnceStep ==
    ASSUME TypeInv, TakenOnce, [Next]_vars
    PROVE  TakenOnce'
<1>h. /\ TypeOK /\ archive \in Seq(ArchiveTasks) /\ core \in Seq(CoreTasks)
      /\ ContactOf \in [Messages -> Contacts] /\ taken \in [Contacts -> Seq(Messages)]
      /\ written \in [Messages -> Versions \union {0}]
  BY TypeParts
<1>c. \A m \in Messages : Among(archive, Inserts(m)) \in Nat
  BY <1>h, AmongType
<1>g. \A m \in Messages : Weight(GetTask, Inserts(m)) = 0
  BY InsertWeights DEF GetTask
<1>p. ASSUME NEW t \in ArchiveTasks, PostPending(<<t>>) \/ StartPending(<<t>>),
             NEW m \in Messages
      PROVE  Among(archive', Inserts(m)) = Among(archive, Inserts(m)) + Weight(t, Inserts(m))
  <2>1. <<t>> \in Seq(ArchiveTasks) /\ Among(<<t>>, Inserts(m)) = Weight(t, Inserts(m))
    BY AmongSingle
  <2>2. PostPending(<<t>>) \/ archive' = archive \o <<t>>
    BY <1>p DEF StartPending
  <2>3. Weight(t, Inserts(m)) \in Nat
    BY DEF Weight
  <2>4. CASE PostPending(<<t>>)
    <3>1. Among(archive', Inserts(m))
            = Among(archive, Inserts(m)) + Among(<<t>>, Inserts(m))
                + Weight(GetTask, Inserts(m))
      BY <1>h, <2>1, <2>4, PostedCount
    <3>2. Among(archive, Inserts(m)) \in Nat /\ Weight(GetTask, Inserts(m)) = 0
      BY <1>c, <1>g
    <3> QED  BY <2>1, <2>3, <3>1, <3>2
  <2>5. CASE archive' = archive \o <<t>>
    BY <1>h, <1>p, <2>1, <2>5, PostedCount
  <2> QED  BY <2>2, <2>4, <2>5
<1>q. ASSUME PostPending(<<>>) \/ StartPending(<<>>), NEW m \in Messages
      PROVE  Among(archive', Inserts(m)) = Among(archive, Inserts(m))
  <2>1. <<>> \in Seq(ArchiveTasks) /\ Among(<<>>, Inserts(m)) = 0
    BY AmongEmpty
  <2>2. PostPending(<<>>) \/ archive' = archive \o <<>>
    BY <1>q DEF StartPending
  <2>3. Among(archive, Inserts(m)) \in Nat /\ Weight(GetTask, Inserts(m)) = 0
    BY <1>c, <1>g
  <2>4. CASE PostPending(<<>>)
    <3>1. Among(archive', Inserts(m))
            = Among(archive, Inserts(m)) + Among(<<>>, Inserts(m))
                + Weight(GetTask, Inserts(m))
      BY <1>h, <2>1, <2>4, PostedCount
    <3> QED  BY <2>1, <2>3, <3>1
  <2>5. CASE archive' = archive \o <<>>
    <3>1. Among(archive', Inserts(m))
            = Among(archive, Inserts(m)) + Among(<<>>, Inserts(m))
      BY <1>h, <1>q, <2>1, <2>5, PostedCount
    <3> QED  BY <2>1, <2>3, <3>1
  <2> QED  BY <2>2, <2>4, <2>5
<1>r. ASSUME NEW t \in ArchiveTasks, t.kind # "insert", archive' = Append(archive, t),
             NEW m \in Messages
      PROVE  Among(archive', Inserts(m)) = Among(archive, Inserts(m))
  <2>1. Among(archive', Inserts(m)) = Among(archive, Inserts(m)) + Weight(t, Inserts(m))
    BY <1>h, <1>r, AmongAppend
  <2> QED  BY <1>c, <1>r, <2>1, InsertWeights
<1>1. ASSUME NEW n \in Messages, SendMessage(n) PROVE TakenOnce'
  <2>0. NewObject(n, 1, FALSE) \in Objects /\ NewObject(n, 1, FALSE).message = n
    BY PendingMessagesAssumption DEF NewObject, Objects, Versions
  <2>1. PICK o \in Objects : o = NewObject(n, 1, FALSE) /\ o.message = n
    BY <2>0
  <2>2. /\ StartPending(<<InsertTask(o)>>) /\ written[n] = 0 /\ taken' = taken
        /\ written' = [written EXCEPT ![n] = 1]
    BY <1>1, <2>1 DEF SendMessage
  <2> SUFFICES ASSUME NEW m \in Messages
               PROVE  Among(archive', Inserts(m)) + (IF Delivery!Taken(m)' THEN 1 ELSE 0)
                        <= IF written'[m] = 0 THEN 0 ELSE 1
    <3>1. \A m : Inserts(m)' = Inserts(m)
      BY DEF Inserts, Objects, Versions
    <3> QED  BY <3>1 DEF TakenOnce
  <2>3. Delivery!Taken(m)' <=> Delivery!Taken(m)
    BY <2>2 DEF Delivery!Taken, Delivery!In
  <2>4. Among(archive', Inserts(m)) = Among(archive, Inserts(m)) + (IF n = m THEN 1 ELSE 0)
    <3>1. InsertTask(o) \in ArchiveTasks
      BY TaskTypes
    <3>2. Among(archive', Inserts(m))
            = Among(archive, Inserts(m)) + Weight(InsertTask(o), Inserts(m))
      BY <1>p, <2>2, <3>1
    <3> QED  BY <2>1, <3>2, InsertWeights
  <2>5. Among(archive, Inserts(m)) + (IF Delivery!Taken(m) THEN 1 ELSE 0)
          <= IF written[m] = 0 THEN 0 ELSE 1
    BY DEF TakenOnce
  <2>6. CASE n = m
    <3>1. Among(archive, Inserts(m)) = 0 /\ ~Delivery!Taken(m)
      BY <1>c, <2>2, <2>5, <2>6
    <3>2. written'[m] = 1
      BY <1>h, <2>2, <2>6
    <3> QED  BY <2>3, <2>4, <2>6, <3>1, <3>2
  <2>7. CASE n # m
    <3>1. written'[m] = written[m] /\ Among(archive', Inserts(m)) = Among(archive, Inserts(m))
      BY <1>c, <1>h, <2>2, <2>4, <2>7
    <3> QED  BY <2>3, <2>5, <3>1
  <2> QED  BY <2>6, <2>7
<1>2. ASSUME NEW n \in Messages, EditMessage(n) PROVE TakenOnce'
  <2>0. NewObject(n, written[n] + 1, TRUE) \in Objects
    BY <1>2, PendingMessagesAssumption DEF EditMessage, NewObject, Objects, Versions
  <2>1. PICK o \in Objects : o = NewObject(n, written[n] + 1, TRUE)
    BY <2>0
  <2>2. /\ StartPending(<<ReplaceTask(o)>>) /\ taken' = taken
        /\ written[n] \in 1..(MaxVersions - 1)
        /\ written' = [written EXCEPT ![n] = @ + 1]
    BY <1>2, <2>1 DEF EditMessage
  <2>3. ReplaceTask(o) \in ArchiveTasks /\ ReplaceTask(o).kind # "insert"
    BY TaskTypes DEF ReplaceTask
  <2>4. ASSUME NEW m \in Messages
        PROVE  /\ Among(archive', Inserts(m)) = Among(archive, Inserts(m))
               /\ written'[m] = 0 => written[m] = 0
    <3>1. written'[m] = 0 => written[m] = 0
      BY <1>h, <2>2
    <3>2. Weight(ReplaceTask(o), Inserts(m)) = 0
      BY <2>3, InsertWeights
    <3> QED  BY <1>c, <1>p, <2>2, <2>3, <3>1, <3>2
  <2> QED  BY <1>h, <2>2, <2>4, TakenOnceKept
<1>3. CASE Resume \/ GoOn
  <2>1. (PostPending(<<>>) \/ StartPending(<<>>)) /\ UNCHANGED <<taken, written>>
    BY <1>3 DEF Resume, GoOn, CoreTask, user
  <2> QED  BY <1>h, <1>q, <2>1, TakenOnceKept
<1>4. ASSUME NEW t \in ArchiveTasks, t.kind # "insert", archive' = Append(archive, t),
             UNCHANGED <<taken, written>>
      PROVE  TakenOnce'
  BY <1>h, <1>r, <1>4, TakenOnceKept
<1>5. ASSUME NEW m \in Messages, NEW how, Confirm(m, how) PROVE TakenOnce'
  <2>1. \/ archive' = Append(archive, RemoveTask(m, FALSE, FALSE))
        \/ archive' = Append(archive, ImStateTask(m))
    BY <1>5 DEF Confirm
  <2>2. /\ RemoveTask(m, FALSE, FALSE).kind # "insert" /\ ImStateTask(m).kind # "insert"
        /\ UNCHANGED <<taken, written>>
    BY <1>5 DEF Confirm, user, RemoveTask, ImStateTask
  <2> QED  BY <1>4, <2>1, <2>2, TaskTypes
<1>6. CASE OnGotReady
  <2>1. GotRef \in Refs
    BY <1>6, <1>h, CoreHead DEF OnGotReady, CoreTask, GotRef
  <2>2. TouchTask(GotRef) \in ArchiveTasks /\ TouchTask(GotRef).kind # "insert"
    BY <2>1, TaskTypes DEF TouchTask
  <2>3. archive' = Append(archive, TouchTask(GotRef)) /\ UNCHANGED <<taken, written>>
    BY <1>6 DEF OnGotReady, CoreTask, user
  <2> QED  BY <1>4, <2>2, <2>3
<1>7. ASSUME NEW i \in DOMAIN net, AnswerOk(i) \/ AnswerRejected(i) PROVE TakenOnce'
  <2>1. net[i].message \in Messages
    BY <1>h, ReferTypes
  <2>2. \/ archive' = Append(archive, RemoveTask(net[i].message, FALSE, TRUE))
        \/ archive' = Append(archive, RemoveTask(net[i].message, TRUE, FALSE))
    BY <1>7 DEF AnswerOk, AnswerRejected
  <2>3. \A f, g : RemoveTask(net[i].message, f, g).kind # "insert"
    BY DEF RemoveTask
  <2>4. UNCHANGED <<taken, written>>
    BY <1>7 DEF AnswerOk, AnswerRejected, Answered, user
  <2> QED  BY <1>4, <2>1, <2>2, <2>3, <2>4, TaskTypes
<1>8. ASSUME NEW i \in DOMAIN net, AnswerNoHistoryId(i) PROVE TakenOnce'
  <2>1. PICK t \in ArchiveTasks : t = ReplaceTask(heap[net[i].ref])
    BY <1>h, ReferTypes, TaskTypes
  <2>2. t.kind # "insert" /\ PostPending(<<t>>) /\ UNCHANGED <<taken, written>>
    BY <1>8, <2>1 DEF AnswerNoHistoryId, Answered, user, ReplaceTask
  <2>3. \A m \in Messages : Among(archive', Inserts(m)) = Among(archive, Inserts(m))
    BY <1>c, <1>p, <2>2, InsertWeights
  <2> QED  BY <1>h, <2>2, <2>3, TakenOnceKept
<1>9. CASE DoInsert
  <2>1. /\ archive # <<>> /\ Head(archive).kind = "insert"
        /\ archive' = Tail(archive) /\ written' = written
    BY <1>9 DEF DoInsert, ArchiveTask
  <2>2. PICK o \in Objects : Head(archive) = InsertTask(o) /\ o = Head(archive).object
    BY <1>h, <2>1, ArchiveHead DEF ArchiveTasks, GetTask, InsertTask
  <2>3. PICK n \in Messages, c \in Contacts : n = o.message /\ c = ContactOf[n]
    BY <1>h DEF Objects
  <2>4. taken' = [taken EXCEPT ![c] = Append(@, n)]
    BY <1>9, <2>2, <2>3 DEF DoInsert
  <2> SUFFICES ASSUME NEW m \in Messages
               PROVE  Among(archive', Inserts(m)) + (IF Delivery!Taken(m)' THEN 1 ELSE 0)
                        <= IF written'[m] = 0 THEN 0 ELSE 1
    <3>1. \A m : Inserts(m)' = Inserts(m)
      BY DEF Inserts, Objects, Versions
    <3> QED  BY <3>1 DEF TakenOnce
  <2>5. /\ Among(archive, Inserts(m)) = Among(archive', Inserts(m)) + (IF n = m THEN 1 ELSE 0)
        /\ Among(archive', Inserts(m)) \in Nat
    <3>1. Among(archive, Inserts(m))
            = Among(Tail(archive), Inserts(m)) + Weight(InsertTask(o), Inserts(m))
      BY <1>h, <2>1, <2>2, AmongTail
    <3>2. Among(Tail(archive), Inserts(m)) \in Nat
      <4>1. Tail(archive) \in Seq(ArchiveTasks)
        BY <1>h, <2>1, ToSetTail
      <4> QED  BY <4>1, AmongType
    <3> QED  BY <2>1, <2>3, <3>1, <3>2, InsertWeights
  <2>6. Among(archive, Inserts(m)) + (IF Delivery!Taken(m) THEN 1 ELSE 0)
          <= IF written[m] = 0 THEN 0 ELSE 1
    BY DEF TakenOnce
  <2>7. CASE n = m
    <3>1. Among(archive', Inserts(m)) = 0 /\ written[m] # 0
      BY <2>5, <2>6, <2>7
    <3> QED  BY <2>1, <3>1
  <2>8. CASE n # m
    <3>1. Delivery!Taken(m)' => Delivery!Taken(m)
      <4>1. CASE ContactOf[m] # c
        BY <1>h, <2>4, <4>1 DEF Delivery!Taken, Delivery!In
      <4>2. CASE ContactOf[m] = c
        <5>1. taken'[c] = Append(taken[c], n) /\ taken[c] \in Seq(Messages)
          BY <1>h, <2>4
        <5>2. m \in ToSet(taken'[c]) => m \in ToSet(taken[c])
          BY <2>8, <5>1, ToSetAppend
        <5> QED  BY <4>2, <5>2 DEF ToSet, Delivery!Taken, Delivery!In
      <4> QED  BY <4>1, <4>2
    <3>2. Among(archive, Inserts(m)) = Among(archive', Inserts(m))
      BY <2>5, <2>8
    <3>3. CASE Delivery!Taken(m)
      BY <2>1, <2>5, <2>6, <3>2, <3>3
    <3>4. CASE ~Delivery!Taken(m)
      BY <2>1, <2>5, <2>6, <3>1, <3>2, <3>4
    <3> QED  BY <3>3, <3>4
  <2> QED  BY <2>7, <2>8
<1>10. CASE DoReplace \/ DoGet \/ DoTouch \/ DoRemove \/ DoImState
  <2>1. /\ archive # <<>> /\ Head(archive).kind # "insert"
        /\ archive' = Tail(archive) /\ UNCHANGED <<taken, written>>
    BY <1>10 DEF DoReplace, DoGet, DoTouch, DoRemove, DoImState, ArchiveTask
  <2>2. ASSUME NEW m \in Messages
        PROVE  Among(archive', Inserts(m)) = Among(archive, Inserts(m))
    <3>1. Weight(Head(archive), Inserts(m)) = 0
      BY <2>1, InsertWeights
    <3>2. Among(archive, Inserts(m)) = Among(Tail(archive), Inserts(m)) + 0
      BY <1>h, <2>1, <3>1, AmongTail
    <3>3. Among(Tail(archive), Inserts(m)) \in Nat
      <4>1. Tail(archive) \in Seq(ArchiveTasks)
        BY <1>h, <2>1, ToSetTail
      <4> QED  BY <4>1, AmongType
    <3> QED  BY <2>1, <3>2, <3>3
  <2> QED  BY <1>h, <2>1, <2>2, TakenOnceKept
<1>11. CASE Crash
  <2>1. archive' = <<>> /\ UNCHANGED <<taken, written>>
    BY <1>11 DEF Crash, user
  <2>2. \A m \in Messages : Among(archive', Inserts(m)) = 0
    BY <2>1, AmongEmpty
  <2> SUFFICES ASSUME NEW m \in Messages
               PROVE  Among(archive', Inserts(m)) + (IF Delivery!Taken(m)' THEN 1 ELSE 0)
                        <= IF written'[m] = 0 THEN 0 ELSE 1
    <3>1. \A m : Inserts(m)' = Inserts(m)
      BY DEF Inserts, Objects, Versions
    <3> QED  BY <3>1 DEF TakenOnce
  <2>3. Delivery!Taken(m)' <=> Delivery!Taken(m)
    BY <2>1 DEF Delivery!Taken, Delivery!In
  <2>4. Among(archive, Inserts(m)) + (IF Delivery!Taken(m) THEN 1 ELSE 0)
          <= IF written[m] = 0 THEN 0 ELSE 1
    BY DEF TakenOnce
  <2>5. CASE Delivery!Taken(m)
    BY <1>c, <2>1, <2>2, <2>3, <2>4, <2>5
  <2>6. CASE ~Delivery!Taken(m)
    BY <2>1, <2>2, <2>3, <2>6
  <2> QED  BY <2>5, <2>6
<1>12. CASE [\/ OnGotNothing \/ OnGotRecent \/ OnTouched \/ Serve \/ Tick \/ Fire
             \/ \E i \in DOMAIN net : AnswerError(i) \/ RequestDropped(i)]_vars
  <2>1. archive' = archive /\ UNCHANGED <<taken, written>>
    BY <1>12 DEF OnGotNothing, OnGotRecent, OnTouched, CoreTask, Serve, ServerTakes, Tick,
                 Fire, FireTimer, AnswerError, RequestDropped, Answered, vars, user
  <2> QED  BY <1>h, <2>1, TakenOnceKept
<1> QED
  BY <1>1, <1>2, <1>3, <1>5, <1>6, <1>7, <1>8, <1>9, <1>10, <1>11, <1>12
     DEF Next, Archive, Core, Answer

\* The archive has a text of a message it took only: an edit of a message that is
\* not pending is thrown away.
LEMMA KeptTakenStep ==
    ASSUME TypeInv, Lists, KeptTaken, [Next]_vars
    PROVE  KeptTaken'
<1>h. /\ TypeOK /\ archive \in Seq(ArchiveTasks)
      /\ ContactOf \in [Messages -> Contacts] /\ taken \in [Contacts -> Seq(Messages)]
      /\ kept \in [Messages -> Versions \union {0}]
  BY TypeParts
<1>l. LedgerGrows
  BY LedgerStays
<1>k. ASSUME NEW n \in Messages, Delivery!Taken(n)', \A m \in Messages \ {n} : kept'[m] = kept[m]
      PROVE  KeptTaken'
  BY <1>h, <1>k, <1>l, FactsStay DEF KeptTaken
<1>1. CASE DoInsert
  <2>1. archive # <<>> /\ Head(archive).kind = "insert"
    BY <1>1 DEF DoInsert, ArchiveTask
  <2>2. PICK o \in Objects : o = Head(archive).object
    BY <1>h, <2>1, ArchiveHead
  <2>3. PICK n \in Messages, c \in Contacts : n = o.message /\ c = ContactOf[n]
    BY <1>h DEF Objects
  <2>4. /\ taken' = [taken EXCEPT ![c] = Append(@, n)]
        /\ kept' = [kept EXCEPT ![n] = o.version]
    BY <1>1, <2>2, <2>3 DEF DoInsert
  <2>5. Delivery!Taken(n)'
    <3>1. taken'[c] = Append(taken[c], n) /\ taken[c] \in Seq(Messages)
      BY <1>h, <2>4
    <3>2. n \in ToSet(taken'[c])
      BY <3>1, ToSetAppend
    <3> QED  BY <2>3, <3>2 DEF ToSet, Delivery!Taken, Delivery!In
  <2> QED  BY <1>h, <1>k, <2>4, <2>5
<1>2. CASE DoReplace
  <2>1. archive # <<>> /\ Head(archive).kind = "replace"
    BY <1>2 DEF DoReplace, ArchiveTask
  <2>2. PICK o \in Objects : o = Head(archive).object
    BY <1>h, <2>1, ArchiveHead
  <2>3. PICK n \in Messages : n = o.message
    BY DEF Objects
  <2>4. CASE PlacesOf(n) = {}
    <3>1. kept' = kept
      BY <1>2, <2>2, <2>3, <2>4 DEF DoReplace
    <3> QED  BY <1>l, <1>h, <3>1, FactsStay DEF KeptTaken
  <2>5. CASE PlacesOf(n) # {}
    <3>1. PICK c \in Contacts, i \in Nat :
              i \in 1..Len(pending[c]) /\ c = ContactOf[n] /\ Listed(c, i) = n
      BY <1>h, <2>5, PlaceOf DEF Listed
    <3>2. i \in DOMAIN pending[c]
      BY <1>h, <3>1, ListTypes
    <3>3. Delivery!Taken(n)
      BY <3>1, <3>2 DEF Lists, PendingTurn, Delivery!Taken, Delivery!In
    <3>4. \A m \in Messages \ {n} : kept'[m] = kept[m]
      BY <1>2, <1>h, <2>2, <2>3, <2>5 DEF DoReplace
    <3> QED  BY <1>h, <1>k, <1>l, <3>3, <3>4, FactsStay
  <2> QED  BY <2>4, <2>5
<1>3. CASE [\/ \E m \in Messages : SendMessage(m) \/ EditMessage(m)
            \/ Resume
            \/ \E m \in Messages, how \in Confirmations : Confirm(m, how)
            \/ DoGet \/ DoTouch \/ DoRemove \/ DoImState
            \/ Core \/ Serve \/ Answer \/ Tick \/ Fire \/ Crash]_vars
  <2>1. kept' = kept
    BY <1>3 DEF SendMessage, EditMessage, Resume, Confirm, DoGet, DoTouch, DoRemove,
                DoImState, Core,
                OnGotNothing, OnGotRecent, OnGotReady, OnTouched, GoOn, CoreTask,
                Serve, ServerTakes, Answer, AnswerOk, AnswerNoHistoryId, AnswerError,
                AnswerRejected, RequestDropped, Answered, Tick, Fire, FireTimer, Crash,
                vars, user
  <2> QED  BY <1>l, <1>h, <2>1, FactsStay DEF KeptTaken
<1> QED
  BY <1>1, <1>2, <1>3 DEF Next, Archive

-----------------------------------------------------------------------------
(* The refinement. *)

\* What every reachable state has, so that each step is one of MessageDelivery.
DeliveryInv == TypeInv /\ Lists /\ InTransit /\ TakenOnce /\ KeptTaken

\* The parts hold together: each step keeps them all.
LEMMA DeliveryInvStep == DeliveryInv /\ [Next]_vars => DeliveryInv'
BY TypeInvStep, ListsStep, InTransitStep, TakenOnceStep, KeptTakenStep DEF DeliveryInv

\* A step takes, delivers or refuses the message whose turn it is, or does none
\* of the three.
LEMMA DeliveryStep ==
    ASSUME DeliveryInv, [Next]_vars
    PROVE  [Delivery!Next]_(Delivery!vars)
<1>h. /\ TypeOK /\ Lists /\ InTransit /\ TakenOnce
      /\ archive \in Seq(ArchiveTasks) /\ net \in Seq(Requests)
  BY DEF DeliveryInv, TypeInv, TypeOK
<1>0. UNCHANGED <<taken, server, refused>> => [Delivery!Next]_(Delivery!vars)
  BY DEF Delivery!vars
<1>1. CASE DoInsert
  <2>1. /\ archive # <<>> /\ Head(archive).kind = "insert"
        /\ UNCHANGED <<server, refused>>
    BY <1>1 DEF DoInsert, ArchiveTask, remote
  <2>2. PICK o \in Objects : Head(archive) = InsertTask(o) /\ o = Head(archive).object
    BY <1>h, <2>1, ArchiveHead DEF ArchiveTasks, GetTask, InsertTask
  <2>3. PICK m \in Messages : m = o.message
    BY DEF Objects
  <2>4. taken' = [taken EXCEPT ![ContactOf[m]] = Append(@, m)]
    BY <1>1, <2>2, <2>3 DEF DoInsert
  <2>5. ~Delivery!Taken(m)
    <3>1. Among(archive, Inserts(m))
            = Among(Tail(archive), Inserts(m)) + Weight(InsertTask(o), Inserts(m))
      BY <1>h, <2>1, <2>2, AmongTail
    <3>2. Among(Tail(archive), Inserts(m)) \in Nat
      <4>1. Tail(archive) \in Seq(ArchiveTasks)
        BY <1>h, <2>1, ToSetTail
      <4> QED  BY <4>1, AmongType
    <3>3. Weight(InsertTask(o), Inserts(m)) = 1
      BY <2>3, InsertWeights
    <3>4. Among(archive, Inserts(m)) + (IF Delivery!Taken(m) THEN 1 ELSE 0)
            <= IF written[m] = 0 THEN 0 ELSE 1
      BY <1>h DEF TakenOnce
    <3>5. CASE Delivery!Taken(m)
      BY <3>1, <3>2, <3>3, <3>4, <3>5
    <3> QED  BY <3>5
  <2>6. Delivery!Take(m)
    BY <2>1, <2>4, <2>5 DEF Delivery!Take
  <2> QED  BY <2>6 DEF Delivery!Next
<1>2. CASE Serve
  <2>1. PICK i \in DOMAIN net : ServerTakes(i)
    BY <1>2 DEF Serve
  <2>2. PICK m \in Messages : m = net[i].message
    BY <1>h, ReferTypes
  <2>3. RequestFits(net[i])
    BY <1>h DEF InTransit, ToSet
  <2>4. /\ UNCHANGED <<taken, refused>>
        /\ server' = IF m \notin ToSet(server[ContactOf[m]])
                     THEN [server EXCEPT ![ContactOf[m]] = Append(@, m)] ELSE server
    BY <2>1, <2>2 DEF ServerTakes, user
  <2>5. CASE m \in ToSet(server[ContactOf[m]])
    BY <1>0, <2>4, <2>5
  <2>6. CASE m \notin ToSet(server[ContactOf[m]])
    <3>1. ~Delivery!Delivered(m)
      BY <2>6 DEF Delivery!Delivered, Delivery!In, ToSet
    <3>2. Delivery!ItsTurn(m)
      BY <2>2, <2>3 DEF RequestFits
    <3>3. Delivery!Deliver(m)
      BY <2>4, <2>6, <3>1, <3>2 DEF Delivery!Deliver
    <3> QED  BY <3>3 DEF Delivery!Next
  <2> QED  BY <2>5, <2>6
<1>3. ASSUME NEW i \in DOMAIN net, AnswerRejected(i)
      PROVE  [Delivery!Next]_(Delivery!vars)
  <2>1. PICK m \in Messages : m = net[i].message
    BY <1>h, ReferTypes
  <2>2. RequestFits(net[i])
    BY <1>h DEF InTransit, ToSet
  <2>3. refused' = refused \union {m} /\ UNCHANGED <<taken, server>>
    BY <1>3, <2>1 DEF AnswerRejected, Answered, user
  <2>4. Delivery!Refuse(m)
    BY <2>1, <2>2, <2>3 DEF RequestFits, Delivery!Refuse
  <2> QED  BY <2>4 DEF Delivery!Next
<1>4. CASE [\/ \E m \in Messages : SendMessage(m) \/ EditMessage(m)
            \/ Resume
            \/ \E m \in Messages, how \in Confirmations : Confirm(m, how)
            \/ DoReplace \/ DoGet \/ DoTouch \/ DoRemove \/ DoImState
            \/ Core \/ Tick \/ Fire \/ Crash
            \/ \E i \in DOMAIN net : \/ AnswerOk(i) \/ AnswerNoHistoryId(i)
                                     \/ AnswerError(i) \/ RequestDropped(i)]_vars
  <2>1. UNCHANGED <<taken, server, refused>>
    BY <1>4 DEF SendMessage, EditMessage, Resume, Confirm, DoReplace, DoGet, DoTouch,
                DoRemove, DoImState, ArchiveTask, Core,
                OnGotNothing, OnGotRecent, OnGotReady, OnTouched, GoOn, CoreTask,
                AnswerOk, AnswerNoHistoryId, AnswerError, RequestDropped, Answered,
                Tick, Fire, FireTimer, Crash, vars, remote, user
  <2> QED  BY <1>0, <2>1
<1> QED
  BY <1>1, <1>2, <1>3, <1>4 DEF Next, Archive, Answer

\* Nothing is taken, pending or on its way at first.
LEMMA DeliveryInit == Init => DeliveryInv /\ Delivery!Init
<1> SUFFICES ASSUME Init PROVE DeliveryInv /\ Delivery!Init
  OBVIOUS
<1>1. TypeInv
  BY InitTypes
<1>2. /\ \A c \in Contacts : pending[c] = <<>> /\ taken[c] = <<>>
      /\ archive = <<>> /\ core = <<>> /\ net = <<>>
      /\ \A m \in Messages : kept[m] = 0 /\ written[m] = 0
  BY DEF Init
<1>3. Lists
  BY <1>2 DEF Lists, RightLists, TakenCovered, PendingTurn
<1>4. InTransit
  BY <1>2 DEF InTransit, ToSet
<1>5. ASSUME NEW m \in Messages PROVE ~Delivery!Taken(m)
  <2>1. ContactOf[m] \in Contacts
    BY PendingMessagesAssumption
  <2>2. taken[ContactOf[m]] = <<>>
    BY <1>2, <2>1
  <2> QED  BY <2>2 DEF Delivery!Taken, Delivery!In
<1>6. TakenOnce /\ KeptTaken
  BY <1>2, <1>5, AmongEmpty DEF TakenOnce, KeptTaken
<1>7. Delivery!Init
  BY DEF Init, Delivery!Init
<1> QED  BY <1>1, <1>3, <1>4, <1>6, <1>7 DEF DeliveryInv

\* The chain of callbacks, with its timers, errors, edits and restarts, delivers
\* the messages of a contact in the order the archive took them, each once, and
\* refuses them in that order: what it does is a behaviour of MessageDelivery.
THEOREM ImplementsDelivery == Spec => DeliversInOrder
<1>1. Spec => []DeliveryInv
  BY DeliveryInit, DeliveryInvStep, PTL DEF Spec
<1>2. DeliveryInv /\ [Next]_vars => [Delivery!Next]_(Delivery!vars)
  BY DeliveryStep
<1> QED  BY <1>1, <1>2, DeliveryInit, PTL DEF Spec, DeliversInOrder, Delivery!Spec

\* A message the archive took is pending until the server has it or has refused
\* it: no order of edits, errors, confirmations and restarts loses it.
THEOREM NeverLost == Spec => []NotLost
<1>1. DeliveryInv => NotLost
  <2> SUFFICES ASSUME DeliveryInv, NEW m \in Messages, kept[m] # 0
               PROVE  \/ PlacesOf(m) # {}
                      \/ m \in ToSet(server[ContactOf[m]])
                      \/ m \in refused
    BY DEF NotLost
  <2>1. TypeOK /\ Lists /\ Delivery!Taken(m)
    BY DEF DeliveryInv, TypeInv, KeptTaken
  <2>2. PICK c \in Contacts : c = ContactOf[m]
    BY PendingMessagesAssumption
  <2>3. PICK a \in DOMAIN taken[c] : taken[c][a] = m
    BY <2>1, <2>2 DEF Delivery!Taken, Delivery!In
  <2>4. SettledOrAmong(m, c, Len(pending[c]))
    BY <2>1, <2>3 DEF Lists, TakenCovered
  <2>5. CASE Delivery!Settled(m)
    BY <2>5 DEF Delivery!Settled, Delivery!Delivered, Delivery!In, ToSet
  <2>6. CASE \E j \in 1..Len(pending[c]) : Listed(c, j) = m
    BY <2>1, <2>2, <2>6, ListTypes DEF PlacesOf, Listed
  <2> QED  BY <2>4, <2>5, <2>6 DEF SettledOrAmong
<1>2. Spec => []DeliveryInv
  BY DeliveryInit, DeliveryInvStep, PTL DEF Spec
<1> QED  BY <1>1, <1>2, PTL

-----------------------------------------------------------------------------
(* The chain. *)

\* The tasks of the archive thread that are the chain's next step, the callbacks
\* of the core thread that are, and the timer's.
Carriers ==
    {GetTask} \union [kind : {"touch"}, ref : Nat]
      \union [kind : {"remove"}, message : Messages, force : BOOLEAN, goesOn : {TRUE}]
Links == [kind : {"got", "touched", "removed"}, ref : Nat]
TimerCalls == {Callback("timer", 0)}

Flag(b) == IF b THEN 1 ELSE 0

\* Where the chain is, counted.
ChainSum ==
    Among(archive, Carriers) + Among(core, Links) + Len(net)
      + Flag(timers # {}) + Flag(dropped)

\* There is no timer but post_messages_timer_, its callback waits once at most,
\* and the timer is still there when it does.
OneTimer ==
    /\ timers \subseteq {timer}
    /\ Among(core, TimerCalls) <= 1
    /\ Among(core, TimerCalls) # 0 => timers # {}

ChainInv == TypeInv /\ OneTimer /\ ChainSum = Flag(active)

\* The core thread runs the timer's callback before a second has passed again.
KeepsUp == MaxFired <= 1

\* Which tasks carry the chain.
LEMMA CarrierWeights ==
    /\ \A o \in Objects : /\ Weight(InsertTask(o), Carriers) = 0
                          /\ Weight(ReplaceTask(o), Carriers) = 0
    /\ Weight(GetTask, Carriers) = 1
    /\ \A r \in Nat : Weight(TouchTask(r), Carriers) = 1
    /\ \A m \in Messages, f \in BOOLEAN : /\ Weight(RemoveTask(m, f, TRUE), Carriers) = 1
                                          /\ Weight(RemoveTask(m, f, FALSE), Carriers) = 0
    /\ \A m \in Messages : Weight(ImStateTask(m), Carriers) = 0
<1>1. \A o \in Objects : InsertTask(o) \notin Carriers /\ ReplaceTask(o) \notin Carriers
  BY DEF Carriers, InsertTask, ReplaceTask, GetTask
<1>2. GetTask \in Carriers
  BY DEF Carriers
<1>3. \A r \in Nat : TouchTask(r) \in Carriers
  BY DEF Carriers, TouchTask
<1>4. \A m \in Messages, f \in BOOLEAN : /\ RemoveTask(m, f, TRUE) \in Carriers
                                         /\ RemoveTask(m, f, FALSE) \notin Carriers
  BY DEF Carriers, RemoveTask, GetTask
<1>5. \A m \in Messages : ImStateTask(m) \notin Carriers
  BY DEF Carriers, ImStateTask, GetTask
<1> QED  BY <1>1, <1>2, <1>3, <1>4, <1>5 DEF Weight

\* What a task of the archive thread counts.
LEMMA TaskWeights ==
    ASSUME NEW t \in ArchiveTasks
    PROVE  Weight(t, Carriers)
             = Flag(t.kind \in {"get", "touch"} \/ (t.kind = "remove" /\ t.goesOn))
<1>1. CASE \E o \in Objects : t = InsertTask(o) \/ t = ReplaceTask(o)
  <2>1. PICK o \in Objects : t = InsertTask(o) \/ t = ReplaceTask(o)
    BY <1>1
  <2>2. t.kind \in {"insert", "replace"}
    BY <2>1 DEF InsertTask, ReplaceTask
  <2>3. Weight(t, Carriers) = 0
    BY <2>1, CarrierWeights
  <2> QED  BY <2>2, <2>3 DEF Flag
<1>2. CASE t = GetTask
  BY <1>2, CarrierWeights DEF Flag, GetTask
<1>3. CASE \E r \in Refs : t = TouchTask(r)
  BY <1>3, CarrierWeights DEF Flag, TouchTask, Refs
<1>4. CASE \E m \in Messages, f, g \in BOOLEAN : t = RemoveTask(m, f, g)
  <2>1. PICK m \in Messages, f \in BOOLEAN :
            t = RemoveTask(m, f, TRUE) \/ t = RemoveTask(m, f, FALSE)
    BY <1>4
  <2>2. CASE t = RemoveTask(m, f, TRUE)
    <3>1. t.kind = "remove" /\ t.goesOn
      BY <2>2 DEF RemoveTask
    <3>2. Weight(t, Carriers) = 1
      BY <2>2, CarrierWeights
    <3> QED  BY <3>1, <3>2 DEF Flag
  <2>3. CASE t = RemoveTask(m, f, FALSE)
    <3>1. t.kind = "remove" /\ ~t.goesOn
      BY <2>3 DEF RemoveTask
    <3>2. Weight(t, Carriers) = 0
      BY <2>3, CarrierWeights
    <3> QED  BY <3>1, <3>2 DEF Flag
  <2> QED  BY <2>1, <2>2, <2>3
<1>5. CASE \E m \in Messages : t = ImStateTask(m)
  BY <1>5, CarrierWeights DEF Flag, ImStateTask
<1>6. \/ \E o \in Objects : t = InsertTask(o) \/ t = ReplaceTask(o)
      \/ t = GetTask
      \/ \E r \in Refs : t = TouchTask(r)
      \/ \E m \in Messages, f, g \in BOOLEAN : t = RemoveTask(m, f, g)
      \/ \E m \in Messages : t = ImStateTask(m)
  BY DEF ArchiveTasks, InsertTask, ReplaceTask, TouchTask, RemoveTask, ImStateTask
<1> QED  BY <1>1, <1>2, <1>3, <1>4, <1>5, <1>6

\* What a callback of the core thread counts.
LEMMA CallbackWeights ==
    ASSUME NEW t \in CoreTasks
    PROVE  /\ Weight(t, Links) = Flag(t.kind # "timer")
           /\ Weight(t, TimerCalls) = Flag(t.kind = "timer")
<1>1. t.kind \in {"got", "touched", "removed", "timer"} /\ t.ref \in Nat
  BY DEF CoreTasks, Refs
<1>2. t \in Links <=> t.kind # "timer"
  BY <1>1 DEF CoreTasks, Links
<1>3. t \in TimerCalls <=> t.kind = "timer"
  BY <1>1 DEF CoreTasks, TimerCalls, Callback
<1> QED  BY <1>2, <1>3 DEF Weight, Flag

\* The numbers are numbers.
LEMMA ChainNumbers ==
    ASSUME TypeOK
    PROVE  /\ Among(archive, Carriers) \in Nat /\ Among(core, Links) \in Nat
           /\ Among(core, TimerCalls) \in Nat /\ Len(net) \in Nat
           /\ Flag(timers # {}) \in {0, 1} /\ Flag(dropped) \in {0, 1}
           /\ Flag(active) \in {0, 1}
<1>1. /\ Among(archive, Carriers) \in Nat /\ Among(core, Links) \in Nat
      /\ Among(core, TimerCalls) \in Nat
  BY AmongType DEF TypeOK
<1>2. Len(net) \in Nat
  BY DEF TypeOK
<1> QED  BY <1>1, <1>2 DEF Flag

\* ChainSum is the length OneChain speaks of.
LEMMA SumIsLength == ChainInv => OneChain
<1> SUFFICES ASSUME ChainInv PROVE OneChain
  OBVIOUS
<1>1. /\ TypeOK /\ OneTimer /\ ChainSum = Flag(active)
      /\ archive \in Seq(ArchiveTasks) /\ core \in Seq(CoreTasks)
  BY DEF ChainInv, TypeInv, TypeOK
<1>2. {i \in DOMAIN archive : \/ archive[i].kind \in {"get", "touch"}
                              \/ archive[i].kind = "remove" /\ archive[i].goesOn}
        = Positions(archive, Carriers)
  <2>1. ASSUME NEW i \in DOMAIN archive
        PROVE  \/ archive[i].kind \in {"get", "touch"}
               \/ archive[i].kind = "remove" /\ archive[i].goesOn
               <=> archive[i] \in Carriers
    <3>1. archive[i] \in ArchiveTasks
      BY <1>1, ElementOfSeq, LenProperties
    <3> QED  BY <3>1, TaskWeights DEF Weight, Flag
  <2> QED  BY <2>1 DEF Positions
<1>3. ASSUME NEW i \in DOMAIN core
      PROVE  /\ core[i].kind # "timer" <=> core[i] \in Links
             /\ core[i].kind = "timer" <=> core[i] \in TimerCalls
  <2>1. core[i] \in CoreTasks
    BY <1>1, ElementOfSeq, LenProperties
  <2> QED  BY <2>1, CallbackWeights DEF Weight, Flag
<1>4. {i \in DOMAIN core : core[i].kind # "timer"} = Positions(core, Links)
  BY <1>3 DEF Positions
<1>5. Waiting <=> timers # {}
  <2>1. ASSUME NEW t \in ToSet(core), t.kind = "timer" PROVE timers # {}
    <3>1. PICK i \in DOMAIN core : core[i] = t
      BY <2>1 DEF ToSet
    <3>2. core[i] \in TimerCalls
      BY <1>3, <2>1, <3>1
    <3>3. Among(core, TimerCalls) # 0
      BY <1>1, <3>2, AmongZero
    <3> QED  BY <1>1, <3>3 DEF OneTimer
  <2> QED  BY <2>1 DEF Waiting
<1>6. /\ ChainLength = Among(archive, Carriers) + Among(core, Links) + Len(net)
                         + (IF Waiting THEN 1 ELSE 0) + (IF dropped THEN 1 ELSE 0)
  BY <1>2, <1>4 DEF ChainLength, Among
<1>7. Flag(timers # {}) = IF Waiting THEN 1 ELSE 0
  BY <1>5 DEF Flag
<1> QED  BY <1>1, <1>6, <1>7 DEF OneChain, ChainSum, Flag

\* Starting the chain with tasks that do not carry it.
LEMMA ChainPosted ==
    ASSUME TypeOK, OneTimer, NEW tasks \in Seq(ArchiveTasks), Among(tasks, Carriers) = 0,
           PostPending(tasks)
    PROVE  /\ Among(archive', Carriers) = Among(archive, Carriers) + 1
           /\ timers' = {} /\ Flag(timers' # {}) = 0 /\ Flag(active') = 1
<1>1. Among(archive', Carriers)
        = Among(archive, Carriers) + Among(tasks, Carriers) + Weight(GetTask, Carriers)
  BY PostedCount
<1>2. Weight(GetTask, Carriers) = 1 /\ Among(archive, Carriers) \in Nat
  BY CarrierWeights, ChainNumbers
<1>3. timers' = {} /\ active' = TRUE
  BY DEF PostPending, OneTimer
<1> QED  BY <1>1, <1>2, <1>3 DEF Flag

\* A step of the user or of a fetch starts the chain when there is none.
LEMMA ChainStarted ==
    ASSUME ChainInv, TypeInv', NEW tasks \in Seq(ArchiveTasks), Among(tasks, Carriers) = 0,
           StartPending(tasks), UNCHANGED <<core, net, dropped>>
    PROVE  ChainInv'
<1>1. /\ TypeOK /\ OneTimer /\ ChainSum = Flag(active) /\ active \in BOOLEAN
  BY DEF ChainInv, TypeInv, TypeOK
<1>2. /\ Among(archive, Carriers) \in Nat /\ Among(core, Links) \in Nat
      /\ Among(core, TimerCalls) \in Nat /\ Len(net) \in Nat
      /\ Flag(timers # {}) \in {0, 1} /\ Flag(dropped) \in {0, 1}
  BY <1>1, ChainNumbers
<1>3. CASE active = TRUE
  <2>1. archive' = archive \o tasks /\ UNCHANGED <<active, timer, timers>>
    BY <1>3 DEF StartPending, chain
  <2>2. Among(archive', Carriers) = Among(archive, Carriers)
    <3>1. Among(archive', Carriers) = Among(archive, Carriers) + Among(tasks, Carriers)
      BY <1>1, <2>1, PostedCount
    <3> QED  BY <1>2, <3>1
  <2>3. ChainSum' = ChainSum /\ Flag(active)' = Flag(active)
    BY <2>1, <2>2 DEF ChainSum
  <2>4. OneTimer'
    BY <1>1, <2>1 DEF OneTimer
  <2> QED  BY <1>1, <2>3, <2>4 DEF ChainInv
<1>4. CASE active = FALSE
  <2>1. PostPending(tasks)
    BY <1>4 DEF StartPending
  <2>2. /\ Among(archive', Carriers) = Among(archive, Carriers) + 1
        /\ timers' = {} /\ Flag(timers' # {}) = 0 /\ Flag(active') = 1
    BY <1>1, <2>1, ChainPosted
  <2>3. Flag(active) = 0
    BY <1>4 DEF Flag
  <2>4. /\ Among(archive, Carriers) = 0 /\ Among(core, Links) = 0 /\ Len(net) = 0
        /\ Flag(timers # {}) = 0 /\ Flag(dropped) = 0
    BY <1>1, <1>2, <2>3 DEF ChainSum
  <2>5. timers = {}
    BY <2>4 DEF Flag
  <2>6. Among(core', TimerCalls) = 0
    BY <1>1, <2>5 DEF OneTimer
  <2>7. OneTimer'
    BY <2>2, <2>6 DEF OneTimer
  <2>8. Flag(dropped') = 0 /\ Among(core', Links) = 0 /\ Len(net') = 0
    BY <2>4
  <2>9. ChainSum' = 1
    BY <2>2, <2>4, <2>8 DEF ChainSum
  <2> QED  BY <2>2, <2>7, <2>9 DEF ChainInv
<1> QED  BY <1>1, <1>3, <1>4

\* A step that moves the chain: what it leaves is what it takes.
LEMMA ChainMoved ==
    ASSUME ChainInv, TypeInv', UNCHANGED <<active, timer, timers, dropped>>,
           Among(core', TimerCalls) = Among(core, TimerCalls),
           Among(archive', Carriers) + Among(core', Links) + Len(net')
             = Among(archive, Carriers) + Among(core, Links) + Len(net)
    PROVE  ChainInv'
<1>1. TypeOK /\ TypeOK' /\ OneTimer /\ ChainSum = Flag(active)
  BY DEF ChainInv, TypeInv
<1>2. /\ Among(archive, Carriers) \in Nat /\ Among(core, Links) \in Nat
      /\ Len(net) \in Nat
      /\ Flag(timers # {}) \in {0, 1} /\ Flag(dropped) \in {0, 1}
  BY <1>1, ChainNumbers
<1>3. /\ Among(archive', Carriers) \in Nat /\ Among(core', Links) \in Nat /\ Len(net') \in Nat
  BY <1>1, AmongType DEF TypeOK
<1>4. Flag(timers' # {}) = Flag(timers # {}) /\ Flag(dropped') = Flag(dropped)
      /\ Flag(active') = Flag(active)
  OBVIOUS
<1>5. ChainSum' = ChainSum
  BY <1>2, <1>3, <1>4 DEF ChainSum
<1>6. OneTimer'
  BY <1>1 DEF OneTimer
<1> QED  BY <1>1, <1>4, <1>5, <1>6 DEF ChainInv

\* When a task, a callback or a request carries the chain, that is all there is.
LEMMA ChainHere ==
    ASSUME ChainInv,
           \/ Among(archive, Carriers) # 0 \/ Among(core, Links) # 0 \/ Len(net) # 0
    PROVE  /\ Among(archive, Carriers) + Among(core, Links) + Len(net) = 1
           /\ active = TRUE /\ timers = {} /\ dropped = FALSE
           /\ Among(core, TimerCalls) = 0
<1>1. /\ TypeOK /\ OneTimer /\ ChainSum = Flag(active)
      /\ active \in BOOLEAN /\ dropped \in BOOLEAN
  BY DEF ChainInv, TypeInv, TypeOK
<1>2. /\ Among(archive, Carriers) \in Nat /\ Among(core, Links) \in Nat
      /\ Among(core, TimerCalls) \in Nat /\ Len(net) \in Nat
      /\ Flag(timers # {}) \in {0, 1} /\ Flag(dropped) \in {0, 1} /\ Flag(active) \in {0, 1}
  BY <1>1, ChainNumbers
<1>3. Among(archive, Carriers) + Among(core, Links) + Len(net)
        + Flag(timers # {}) + Flag(dropped) = Flag(active)
  BY <1>1 DEF ChainSum
<1>4. /\ Among(archive, Carriers) + Among(core, Links) + Len(net) = 1
      /\ Flag(active) = 1 /\ Flag(timers # {}) = 0 /\ Flag(dropped) = 0
  BY <1>2, <1>3
<1>5. active = TRUE /\ timers = {} /\ dropped = FALSE
  BY <1>1, <1>4 DEF Flag
<1> QED  BY <1>1, <1>4, <1>5 DEF OneTimer

\* The invariant, from the numbers of the next state.
LEMMA ChainCounted ==
    ASSUME TypeInv',
           Among(archive', Carriers) + Among(core', Links) + Len(net')
             + Flag(timers' # {}) + Flag(dropped') = Flag(active'),
           timers' \subseteq {timer'}, Among(core', TimerCalls) = 0
    PROVE  ChainInv'
<1>1. ChainSum' = Flag(active')
  BY DEF ChainSum
<1>2. OneTimer'
  BY DEF OneTimer
<1> QED  BY <1>1, <1>2 DEF ChainInv

\* The core thread's callbacks keep the chain one.
LEMMA ChainCore ==
    ASSUME ChainInv, TypeInv', Core
    PROVE  ChainInv'
<1>h. /\ TypeOK /\ TypeInv /\ OneTimer /\ ChainSum = Flag(active)
      /\ archive \in Seq(ArchiveTasks) /\ core \in Seq(CoreTasks) /\ net \in Seq(Requests)
  BY DEF ChainInv, TypeInv, TypeOK
<1>n. /\ Among(archive, Carriers) \in Nat /\ Among(core, Links) \in Nat
      /\ Among(core, TimerCalls) \in Nat /\ Len(net) \in Nat
      /\ Flag(timers # {}) \in {0, 1} /\ Flag(dropped) \in {0, 1} /\ Flag(active) \in {0, 1}
  BY <1>h, ChainNumbers
<1>t. /\ core # <<>> /\ core' = Tail(core)
      /\ UNCHANGED <<heap, pending, known, remote, user, dropped, budget>>
  BY DEF Core, OnGotNothing, OnGotRecent, OnGotReady, OnTouched, GoOn, CoreTask
<1>c. /\ Head(core) \in CoreTasks
      /\ Among(core, Links) = Among(core', Links) + Weight(Head(core), Links)
      /\ Among(core, TimerCalls) = Among(core', TimerCalls) + Weight(Head(core), TimerCalls)
      /\ Among(core', Links) \in Nat /\ Among(core', TimerCalls) \in Nat
  <2>1. Head(core) \in CoreTasks /\ Tail(core) \in Seq(CoreTasks)
    BY <1>h, <1>t, ToSetTail
  <2> QED  BY <1>h, <1>t, <2>1, AmongTail, AmongType
<1>d. dropped' = dropped
  BY <1>t
<1>l. ASSUME Head(core).kind # "timer"
      PROVE  /\ Among(core', Links) = 0 /\ Among(core', TimerCalls) = 0
             /\ Among(core, Links) = 1 /\ Among(core, TimerCalls) = 0
             /\ Among(archive, Carriers) = 0 /\ Len(net) = 0
             /\ active = TRUE /\ timers = {} /\ dropped = FALSE
  <2>1. Weight(Head(core), Links) = 1
    BY <1>c, <1>l, CallbackWeights DEF Flag
  <2>2. Among(core, Links) # 0
    BY <1>c, <2>1
  <2>3. /\ Among(archive, Carriers) + Among(core, Links) + Len(net) = 1
        /\ active = TRUE /\ timers = {} /\ dropped = FALSE
        /\ Among(core, TimerCalls) = 0
    BY <2>2, ChainHere
  <2>4. Weight(Head(core), TimerCalls) \in Nat
    BY DEF Weight
  <2> QED  BY <1>c, <1>n, <2>1, <2>2, <2>3, <2>4
<1>1. CASE OnGotNothing
  <2>1. /\ Head(core).kind # "timer" /\ active' = FALSE /\ UNCHANGED <<timer, timers>>
        /\ archive' = archive /\ net' = net
    BY <1>1 DEF OnGotNothing, CoreTask, EndChain
  <2>0. /\ Among(core', Links) = 0 /\ Among(core', TimerCalls) = 0
        /\ Among(core, Links) = 1 /\ Among(core, TimerCalls) = 0
        /\ Among(archive, Carriers) = 0 /\ Len(net) = 0
        /\ active = TRUE /\ timers = {} /\ dropped = FALSE /\ dropped' = FALSE
    BY <1>d, <1>l, <2>1
  <2>2. Flag(timers' # {}) = 0 /\ Flag(dropped') = 0 /\ Flag(active') = 0
    BY <2>0, <2>1 DEF Flag
  <2>3. timers' \subseteq {timer'}
    BY <2>0, <2>1
  <2>4. Among(archive', Carriers) = 0 /\ Len(net') = 0
    BY <2>0, <2>1
  <2> QED  BY <2>0, <2>2, <2>3, <2>4, ChainCounted
<1>2. CASE OnGotRecent
  <2>1. /\ Head(core).kind # "timer" /\ active' = active
        /\ timer' = NewTimer /\ timers' = timers \union {NewTimer}
        /\ archive' = archive /\ net' = net
    BY <1>2 DEF OnGotRecent, CoreTask
  <2>0. /\ Among(core', Links) = 0 /\ Among(core', TimerCalls) = 0
        /\ Among(core, Links) = 1 /\ Among(core, TimerCalls) = 0
        /\ Among(archive, Carriers) = 0 /\ Len(net) = 0
        /\ active = TRUE /\ timers = {} /\ dropped = FALSE /\ dropped' = FALSE
    BY <1>d, <1>l, <2>1
  <2>2. Flag(timers' # {}) = 1 /\ Flag(dropped') = 0 /\ Flag(active') = 1
    BY <2>0, <2>1 DEF Flag
  <2>3. timers' \subseteq {timer'}
    BY <2>0, <2>1
  <2>4. Among(archive', Carriers) = 0 /\ Len(net') = 0
    BY <2>0, <2>1
  <2> QED  BY <2>0, <2>2, <2>3, <2>4, ChainCounted
<1>3. CASE OnGotReady
  <2>1. /\ Head(core).kind # "timer" /\ UNCHANGED <<active, timer, timers>>
        /\ archive' = Append(archive, TouchTask(GotRef)) /\ net' = net
    BY <1>3 DEF OnGotReady, CoreTask, chain
  <2>2. GotRef \in Refs
    BY <1>3, <1>h, CoreHead DEF OnGotReady, CoreTask, GotRef
  <2>3. Weight(TouchTask(GotRef), Carriers) = 1 /\ TouchTask(GotRef) \in ArchiveTasks
    BY <2>2, CarrierWeights, TaskTypes DEF Refs
  <2>0. /\ Among(core', Links) = 0 /\ Among(core', TimerCalls) = 0
        /\ Among(core, Links) = 1 /\ Among(core, TimerCalls) = 0
        /\ Among(archive, Carriers) = 0 /\ Len(net) = 0
        /\ active = TRUE /\ timers = {} /\ dropped = FALSE /\ dropped' = FALSE
    BY <1>d, <1>l, <2>1
  <2>4. Among(archive', Carriers) = Among(archive, Carriers) + 1
    <3>1. PICK t \in ArchiveTasks : t = TouchTask(GotRef)
      BY <2>3
    <3>2. archive' = Append(archive, t) /\ Weight(t, Carriers) = 1
      BY <2>1, <2>3, <3>1
    <3> QED  BY <1>h, <3>2, AmongAppend
  <2>5. Among(archive', Carriers) = 1 /\ Len(net') = 0
    BY <2>0, <2>1, <2>4
  <2>6. Among(archive', Carriers) + Among(core', Links) + Len(net')
          = Among(archive, Carriers) + Among(core, Links) + Len(net)
    BY <2>0, <2>5
  <2>7. UNCHANGED <<active, timer, timers, dropped>>
    BY <1>d, <2>1
  <2>8. Among(core', TimerCalls) = Among(core, TimerCalls)
    BY <2>0
  <2> QED  BY <2>6, <2>7, <2>8, ChainMoved
<1>4. CASE OnTouched
  <2>1. PICK q : net' = Append(net, q)
    BY <1>4 DEF OnTouched
  <2>2. /\ Head(core).kind # "timer" /\ UNCHANGED <<active, timer, timers>>
        /\ archive' = archive
    BY <1>4 DEF OnTouched, CoreTask, chain
  <2>0. /\ Among(core', Links) = 0 /\ Among(core', TimerCalls) = 0
        /\ Among(core, Links) = 1 /\ Among(core, TimerCalls) = 0
        /\ Among(archive, Carriers) = 0 /\ Len(net) = 0
        /\ active = TRUE /\ timers = {} /\ dropped = FALSE /\ dropped' = FALSE
    BY <1>d, <1>l, <2>2
  <2>3. Len(net') = Len(net) + 1
    <3>1. net \in Seq(Requests \union {q}) /\ q \in Requests \union {q}
      BY <1>h, SeqGrows
    <3> QED  BY <2>1, <3>1, AppendProperties
  <2>4. Among(archive', Carriers) = 0 /\ Len(net') = 1
    BY <2>0, <2>2, <2>3
  <2>5. Among(archive', Carriers) + Among(core', Links) + Len(net')
          = Among(archive, Carriers) + Among(core, Links) + Len(net)
    BY <2>0, <2>4
  <2>6. UNCHANGED <<active, timer, timers, dropped>>
    BY <1>d, <2>2
  <2>7. Among(core', TimerCalls) = Among(core, TimerCalls)
    BY <2>0
  <2> QED  BY <2>5, <2>6, <2>7, ChainMoved
<1>5. CASE GoOn
  <2>1. PostPending(<<>>) /\ net' = net /\ Head(core).kind \in {"removed", "timer"}
    BY <1>5 DEF GoOn, CoreTask
  <2>2. <<>> \in Seq(ArchiveTasks) /\ Among(<<>>, Carriers) = 0
    BY AmongEmpty
  <2>3. /\ Among(archive', Carriers) = Among(archive, Carriers) + 1
        /\ timers' = {} /\ Flag(timers' # {}) = 0 /\ Flag(active') = 1
    BY <1>h, <2>1, <2>2, ChainPosted
  <2>4. CASE Head(core).kind = "removed"
    <3>0. /\ Among(core', Links) = 0 /\ Among(core', TimerCalls) = 0
          /\ Among(core, Links) = 1 /\ Among(core, TimerCalls) = 0
          /\ Among(archive, Carriers) = 0 /\ Len(net) = 0
          /\ active = TRUE /\ timers = {} /\ dropped = FALSE /\ dropped' = FALSE
      BY <1>d, <1>l, <2>4
    <3>1. Flag(dropped') = 0
      BY <3>0 DEF Flag
    <3>2. Among(archive', Carriers) = 1 /\ Len(net') = 0
      BY <2>1, <2>3, <3>0
    <3> QED  BY <2>3, <3>0, <3>1, <3>2, ChainCounted
  <2>5. CASE Head(core).kind = "timer"
    <3>1. Weight(Head(core), Links) = 0 /\ Weight(Head(core), TimerCalls) = 1
      BY <1>c, <2>5, CallbackWeights DEF Flag
    <3>2. Among(core, TimerCalls) <= 1 /\ (Among(core, TimerCalls) # 0 => timers # {})
      BY <1>h DEF OneTimer
    <3>3. Among(core', TimerCalls) = 0 /\ Among(core, TimerCalls) # 0
      BY <1>c, <1>n, <3>1, <3>2
    <3>4. Flag(timers # {}) = 1
      BY <3>2, <3>3 DEF Flag
    <3>5. Among(archive, Carriers) + Among(core, Links) + Len(net) + 1 + Flag(dropped)
            = Flag(active)
      BY <1>h, <3>4 DEF ChainSum
    <3>6. /\ Among(archive, Carriers) = 0 /\ Among(core, Links) = 0 /\ Len(net) = 0
          /\ Flag(dropped) = 0
      BY <1>n, <3>5
    <3>7. Among(core', Links) = 0 /\ Flag(dropped') = 0 /\ Len(net') = 0
      BY <1>c, <1>d, <2>1, <3>1, <3>6
    <3> QED  BY <2>3, <3>3, <3>6, <3>7, ChainCounted
  <2> QED  BY <2>1, <2>4, <2>5
<1> QED  BY <1>1, <1>2, <1>3, <1>4, <1>5 DEF Core

\* The archive thread's tasks keep the chain one.
LEMMA ChainArchive ==
    ASSUME ChainInv, TypeInv', Archive
    PROVE  ChainInv'
<1>h. /\ TypeOK /\ archive \in Seq(ArchiveTasks) /\ core \in Seq(CoreTasks)
  BY DEF ChainInv, TypeInv, TypeOK
<1>n. /\ Among(archive, Carriers) \in Nat /\ Among(core, Links) \in Nat
      /\ Among(core, TimerCalls) \in Nat /\ Len(net) \in Nat
  BY <1>h, ChainNumbers
<1>t. /\ archive # <<>> /\ archive' = Tail(archive) /\ net' = net
      /\ UNCHANGED <<active, timer, timers, dropped>>
  BY DEF Archive, DoInsert, DoReplace, DoGet, DoTouch, DoRemove, DoImState, ArchiveTask, chain
<1>a. /\ Head(archive) \in ArchiveTasks
      /\ Among(archive, Carriers) = Among(archive', Carriers) + Weight(Head(archive), Carriers)
      /\ Among(archive', Carriers) \in Nat
  <2>1. Head(archive) \in ArchiveTasks /\ Tail(archive) \in Seq(ArchiveTasks)
    BY <1>h, <1>t, ToSetTail
  <2> QED  BY <1>h, <1>t, <2>1, AmongTail, AmongType
<1>c. ASSUME NEW t, t.kind # "timer", t \in CoreTasks, core' = Append(core, t)
      PROVE  /\ Among(core', Links) = Among(core, Links) + 1
             /\ Among(core', TimerCalls) = Among(core, TimerCalls)
  <2>1. Weight(t, Links) = 1 /\ Weight(t, TimerCalls) = 0
    BY <1>c, CallbackWeights DEF Flag
  <2> QED  BY <1>c, <1>h, <1>n, <2>1, AmongAppend
<1>1. CASE DoInsert \/ DoReplace \/ DoImState
  <2>1. core' = core /\ Head(archive).kind \notin {"get", "touch", "remove"}
    BY <1>1 DEF DoInsert, DoReplace, DoImState, ArchiveTask
  <2>2. Weight(Head(archive), Carriers) = 0
    BY <1>a, <2>1, TaskWeights DEF Flag
  <2>3. Among(archive', Carriers) + Among(core', Links) + Len(net')
          = Among(archive, Carriers) + Among(core, Links) + Len(net)
    BY <1>a, <1>n, <1>t, <2>1, <2>2
  <2> QED  BY <1>t, <2>1, <2>3, ChainMoved
<1>2. CASE DoGet \/ DoTouch
  <2>1. Head(archive).kind \in {"get", "touch"}
    BY <1>2 DEF DoGet, DoTouch, ArchiveTask
  <2>2. Weight(Head(archive), Carriers) = 1
    BY <1>a, <2>1, TaskWeights DEF Flag
  <2>3. PICK t : core' = Append(core, t) /\ t.kind # "timer"
    <3>1. CASE DoGet
      <4>1. core' = Append(core, Callback("got", FirstReady))
        BY <3>1 DEF DoGet
      <4>2. Callback("got", FirstReady).kind # "timer"
        BY DEF Callback
      <4> QED  BY <4>1, <4>2
    <3>2. CASE DoTouch
      <4>1. core' = Append(core, Callback("touched", Head(archive).ref))
        BY <3>2 DEF DoTouch
      <4>2. Callback("touched", Head(archive).ref).kind # "timer"
        BY DEF Callback
      <4> QED  BY <4>1, <4>2
    <3> QED  BY <1>2, <3>1, <3>2
  <2>4. /\ Among(core', Links) = Among(core, Links) + 1
        /\ Among(core', TimerCalls) = Among(core, TimerCalls)
    <3>1. t \in CoreTasks'
      <4>1. core' \in Seq(CoreTasks')
        BY DEF TypeInv, TypeOK
      <4>2. core \in Seq(CoreTasks \union {t}) /\ t \in CoreTasks \union {t}
        BY <1>h, SeqGrows
      <4>3. Len(core') = Len(core) + 1 /\ core'[Len(core) + 1] = t /\ Len(core) \in Nat
        BY <2>3, <4>2, AppendProperties, LenProperties
      <4>4. Len(core) + 1 \in 1..Len(core')
        BY <4>3
      <4> QED  BY <4>1, <4>3, <4>4, ElementOfSeq
    <3>2. t \in Links /\ t \notin TimerCalls
      <4>1. t.kind \in {"got", "touched", "removed"} /\ t \in CoreTasks'
        BY <2>3, <3>1 DEF CoreTasks
      <4> QED  BY <4>1 DEF CoreTasks, Refs, Links, TimerCalls, Callback
    <3>3. Weight(t, Links) = 1 /\ Weight(t, TimerCalls) = 0
      BY <3>2 DEF Weight
    <3>4. core \in Seq(CoreTasks \union {t}) /\ t \in CoreTasks \union {t}
      BY <1>h, SeqGrows
    <3> QED  BY <1>n, <2>3, <3>3, <3>4, AmongAppend
  <2>5. Among(archive', Carriers) + Among(core', Links) + Len(net')
          = Among(archive, Carriers) + Among(core, Links) + Len(net)
    BY <1>a, <1>n, <1>t, <2>2, <2>4
  <2> QED  BY <1>t, <2>4, <2>5, ChainMoved
<1>3. CASE DoRemove
  <2>1. /\ Head(archive).kind = "remove"
        /\ core' = IF Head(archive).goesOn THEN Append(core, Callback("removed", 0)) ELSE core
    BY <1>3 DEF DoRemove, ArchiveTask
  <2>2. Head(archive).goesOn \in BOOLEAN
    BY <1>h, <1>t, <2>1, ArchiveHead
  <2>3. CASE Head(archive).goesOn = TRUE
    <3>1. Weight(Head(archive), Carriers) = 1
      BY <1>a, <2>1, <2>3, TaskWeights DEF Flag
    <3>2. Callback("removed", 0) \in CoreTasks /\ Callback("removed", 0).kind # "timer"
      BY CallbackTypes DEF Callback
    <3>3. core' = Append(core, Callback("removed", 0))
      BY <2>1, <2>3
    <3>4. /\ Among(core', Links) = Among(core, Links) + 1
          /\ Among(core', TimerCalls) = Among(core, TimerCalls)
      BY <1>c, <3>2, <3>3
    <3>5. Among(archive', Carriers) + Among(core', Links) + Len(net')
            = Among(archive, Carriers) + Among(core, Links) + Len(net)
      BY <1>a, <1>n, <1>t, <3>1, <3>4
    <3> QED  BY <1>t, <3>4, <3>5, ChainMoved
  <2>4. CASE Head(archive).goesOn = FALSE
    <3>1. Weight(Head(archive), Carriers) = 0
      BY <1>a, <2>1, <2>4, TaskWeights DEF Flag
    <3>2. core' = core
      BY <2>1, <2>4
    <3>3. Among(archive', Carriers) + Among(core', Links) + Len(net')
            = Among(archive, Carriers) + Among(core, Links) + Len(net)
      BY <1>a, <1>n, <1>t, <3>1, <3>2
    <3> QED  BY <1>t, <3>2, <3>3, ChainMoved
  <2> QED  BY <2>2, <2>3, <2>4
<1> QED  BY <1>1, <1>2, <1>3 DEF Archive

\* The answers to the chain's request keep it one, or end it.
LEMMA ChainAnswer ==
    ASSUME ChainInv, TypeInv', NEW i \in DOMAIN net,
           \/ AnswerOk(i) \/ AnswerNoHistoryId(i) \/ AnswerError(i)
           \/ AnswerRejected(i) \/ RequestDropped(i)
    PROVE  ChainInv'
<1>h. /\ TypeOK /\ OneTimer
      /\ archive \in Seq(ArchiveTasks) /\ core \in Seq(CoreTasks) /\ net \in Seq(Requests)
  BY DEF ChainInv, TypeInv, TypeOK
<1>n. /\ Among(archive, Carriers) \in Nat /\ Among(core, Links) \in Nat
      /\ Among(core, TimerCalls) \in Nat /\ Len(net) \in Nat
  BY <1>h, ChainNumbers
<1>m. i \in 1..Len(net) /\ net[i].message \in Messages /\ net[i].ref \in Refs
  BY <1>h, ReferTypes
<1>t. net' = RemoveAt(net, i) /\ core' = core
  BY DEF AnswerOk, AnswerNoHistoryId, AnswerError, AnswerRejected, RequestDropped, Answered
<1>l. Len(net') = Len(net) - 1
  BY <1>h, <1>m, <1>t, RemoveAtElements
<1>c. /\ Among(archive, Carriers) + Among(core, Links) + Len(net) = 1
      /\ active = TRUE /\ timers = {} /\ dropped = FALSE
      /\ Among(core, TimerCalls) = 0
  <2>1. Len(net) # 0
    BY <1>m, <1>n
  <2> QED  BY <2>1, ChainHere
<1>o. /\ Among(archive, Carriers) = 0 /\ Among(core', Links) = 0 /\ Len(net') = 0
      /\ Among(core', TimerCalls) = 0
  BY <1>c, <1>l, <1>m, <1>n, <1>t
<1>1. CASE AnswerOk(i)
  <2>1. /\ archive' = Append(archive, RemoveTask(net[i].message, FALSE, TRUE))
        /\ UNCHANGED <<active, timer, timers, dropped>>
    BY <1>1 DEF AnswerOk, chain
  <2>2. PICK t \in ArchiveTasks : t = RemoveTask(net[i].message, FALSE, TRUE)
    BY <1>m, TaskTypes
  <2>3. Weight(t, Carriers) = 1
    BY <1>m, <2>2, CarrierWeights
  <2>4. Among(archive', Carriers) = Among(archive, Carriers) + 1
    BY <1>h, <2>1, <2>2, <2>3, AmongAppend
  <2>5. Among(archive', Carriers) + Among(core', Links) + Len(net')
          = Among(archive, Carriers) + Among(core, Links) + Len(net)
    BY <1>c, <1>o, <2>4
  <2>6. Among(core', TimerCalls) = Among(core, TimerCalls)
    BY <1>t
  <2> QED  BY <2>1, <2>5, <2>6, ChainMoved
<1>2. CASE AnswerNoHistoryId(i)
  <2>1. PostPending(<<ReplaceTask(heap[net[i].ref])>>) /\ dropped' = dropped
    BY <1>2 DEF AnswerNoHistoryId
  <2>2. heap[net[i].ref] \in Objects
    BY <1>h, ReferTypes
  <2>3. PICK t \in ArchiveTasks :
            t = ReplaceTask(heap[net[i].ref]) /\ Weight(t, Carriers) = 0
    BY <2>2, TaskTypes, CarrierWeights
  <2>4. <<t>> \in Seq(ArchiveTasks) /\ Among(<<t>>, Carriers) = 0
    BY <2>3, AmongSingle
  <2>5. /\ Among(archive', Carriers) = Among(archive, Carriers) + 1
        /\ timers' = {} /\ Flag(timers' # {}) = 0 /\ Flag(active') = 1
    BY <1>h, <2>1, <2>3, <2>4, ChainPosted
  <2>6. Flag(dropped') = 0 /\ Among(archive', Carriers) = 1
    BY <1>c, <1>o, <2>1, <2>5 DEF Flag
  <2> QED  BY <1>o, <2>5, <2>6, ChainCounted
<1>3. CASE AnswerError(i) \/ AnswerRejected(i)
  <2>1. /\ active' = FALSE /\ UNCHANGED <<timer, timers, dropped>>
        /\ \/ archive' = archive
           \/ archive' = Append(archive, RemoveTask(net[i].message, TRUE, FALSE))
    BY <1>3 DEF AnswerError, AnswerRejected, EndChain
  <2>2. PICK t \in ArchiveTasks : t = RemoveTask(net[i].message, TRUE, FALSE)
    BY <1>m, TaskTypes
  <2>3. Weight(t, Carriers) = 0
    BY <1>m, <2>2, CarrierWeights
  <2>4. Among(archive', Carriers) = 0
    <3>1. CASE archive' = archive
      BY <1>o, <3>1
    <3>2. CASE archive' = Append(archive, t)
      BY <1>h, <1>o, <2>3, <3>2, AmongAppend
    <3> QED  BY <2>1, <2>2, <3>1, <3>2
  <2>5. Flag(timers' # {}) = 0 /\ Flag(dropped') = 0 /\ Flag(active') = 0
    BY <1>c, <2>1 DEF Flag
  <2>6. timers' \subseteq {timer'}
    BY <1>c, <2>1
  <2> QED  BY <1>o, <2>4, <2>5, <2>6, ChainCounted
<1>4. CASE RequestDropped(i)
  <2>1. archive' = archive /\ UNCHANGED <<active, timer, timers>> /\ dropped' = TRUE
    BY <1>4 DEF RequestDropped, chain
  <2>2. Flag(timers' # {}) = 0 /\ Flag(dropped') = 1 /\ Flag(active') = 1
    BY <1>c, <2>1 DEF Flag
  <2>3. timers' \subseteq {timer'} /\ Among(archive', Carriers) = 0
    BY <1>c, <1>o, <2>1
  <2> QED  BY <1>o, <2>2, <2>3, ChainCounted
<1> QED  BY <1>1, <1>2, <1>3, <1>4

\* Every step keeps the chain one.
LEMMA ChainStep ==
    ASSUME KeepsUp, ChainInv, [Next]_vars
    PROVE  ChainInv'
<1>h. /\ TypeOK /\ OneTimer /\ ChainSum = Flag(active)
      /\ archive \in Seq(ArchiveTasks) /\ core \in Seq(CoreTasks) /\ net \in Seq(Requests)
  BY DEF ChainInv, TypeInv, TypeOK
<1>n. /\ Among(archive, Carriers) \in Nat /\ Among(core, Links) \in Nat
      /\ Among(core, TimerCalls) \in Nat /\ Len(net) \in Nat
  BY <1>h, ChainNumbers
<1>y. TypeInv'
  BY TypeInvStep DEF ChainInv
<1>o. \A o \in Objects : /\ <<InsertTask(o)>> \in Seq(ArchiveTasks)
                         /\ <<ReplaceTask(o)>> \in Seq(ArchiveTasks)
                         /\ Among(<<InsertTask(o)>>, Carriers) = 0
                         /\ Among(<<ReplaceTask(o)>>, Carriers) = 0
  <2> SUFFICES ASSUME NEW o \in Objects
               PROVE  /\ <<InsertTask(o)>> \in Seq(ArchiveTasks)
                      /\ <<ReplaceTask(o)>> \in Seq(ArchiveTasks)
                      /\ Among(<<InsertTask(o)>>, Carriers) = 0
                      /\ Among(<<ReplaceTask(o)>>, Carriers) = 0
    OBVIOUS
  <2>1. PICK t \in ArchiveTasks : t = InsertTask(o) /\ Weight(t, Carriers) = 0
    BY TaskTypes, CarrierWeights
  <2>2. PICK u \in ArchiveTasks : u = ReplaceTask(o) /\ Weight(u, Carriers) = 0
    BY TaskTypes, CarrierWeights
  <2> QED  BY <2>1, <2>2, AmongSingle
<1>1. ASSUME NEW m \in Messages, SendMessage(m) \/ EditMessage(m) PROVE ChainInv'
  <2>1. written[m] \in Versions \union {0} /\ 1 \in Versions
    BY <1>h, PendingMessagesAssumption DEF TypeOK, Versions
  <2>2. CASE SendMessage(m)
    <3>1. NewObject(m, 1, FALSE) \in Objects
      BY <2>1 DEF NewObject, Objects
    <3>2. PICK tasks \in Seq(ArchiveTasks) :
              tasks = <<InsertTask(NewObject(m, 1, FALSE))>> /\ Among(tasks, Carriers) = 0
      BY <1>o, <3>1
    <3>3. StartPending(tasks) /\ UNCHANGED <<core, net, dropped>>
      BY <2>2, <3>2 DEF SendMessage
    <3> QED  BY <1>y, <3>2, <3>3, ChainStarted
  <2>3. CASE EditMessage(m)
    <3>1. written[m] + 1 \in Versions
      BY <2>1, <2>3, PendingMessagesAssumption DEF EditMessage, Versions
    <3>2. NewObject(m, written[m] + 1, TRUE) \in Objects
      BY <3>1 DEF NewObject, Objects
    <3>3. PICK tasks \in Seq(ArchiveTasks) :
              /\ tasks = <<ReplaceTask(NewObject(m, written[m] + 1, TRUE))>>
              /\ Among(tasks, Carriers) = 0
      BY <1>o, <3>2
    <3>4. StartPending(tasks) /\ UNCHANGED <<core, net, dropped>>
      BY <2>3, <3>3 DEF EditMessage
    <3> QED  BY <1>y, <3>3, <3>4, ChainStarted
  <2> QED  BY <1>1, <2>2, <2>3
<1>2. CASE Resume
  <2>1. PICK tasks \in Seq(ArchiveTasks) : tasks = <<>> /\ Among(tasks, Carriers) = 0
    <3>1. <<>> \in Seq(ArchiveTasks)
      OBVIOUS
    <3>2. Among(<<>>, Carriers) = 0
      BY AmongEmpty
    <3> QED  BY <3>1, <3>2
  <2>2. StartPending(tasks) /\ UNCHANGED <<core, net, dropped>>
    BY <1>2, <2>1 DEF Resume
  <2> QED  BY <1>y, <2>1, <2>2, ChainStarted
<1>3. ASSUME NEW m \in Messages, NEW how \in Confirmations, Confirm(m, how) PROVE ChainInv'
  <2>1. UNCHANGED <<active, timer, timers, dropped, core, net>>
    BY <1>3 DEF Confirm, chain
  <2>2. PICK t \in ArchiveTasks :
            t = RemoveTask(m, FALSE, FALSE) /\ Weight(t, Carriers) = 0
    BY TaskTypes, CarrierWeights
  <2>3. PICK u \in ArchiveTasks : u = ImStateTask(m) /\ Weight(u, Carriers) = 0
    BY TaskTypes, CarrierWeights
  <2>4. archive' = Append(archive, t) \/ archive' = Append(archive, u)
    BY <1>3, <2>2, <2>3 DEF Confirm
  <2>5. Among(archive', Carriers) = Among(archive, Carriers)
    <3>1. CASE archive' = Append(archive, t)
      <4>1. Among(archive', Carriers) = Among(archive, Carriers) + Weight(t, Carriers)
        BY <1>h, <3>1, AmongAppend
      <4> QED  BY <1>n, <2>2, <4>1
    <3>2. CASE archive' = Append(archive, u)
      <4>1. Among(archive', Carriers) = Among(archive, Carriers) + Weight(u, Carriers)
        BY <1>h, <3>2, AmongAppend
      <4> QED  BY <1>n, <2>3, <4>1
    <3> QED  BY <2>4, <3>1, <3>2
  <2> QED  BY <1>y, <2>1, <2>5, ChainMoved
<1>4. CASE Archive
  BY <1>4, <1>y, ChainArchive
<1>5. CASE Core
  BY <1>5, <1>y, ChainCore
<1>6. CASE Serve
  <2>1. PICK i \in DOMAIN net : ServerTakes(i)
    BY <1>6 DEF Serve
  <2>2. UNCHANGED <<active, timer, timers, dropped, core, archive>>
    BY <2>1 DEF ServerTakes, chain
  <2>3. net' = [net EXCEPT ![i].served = TRUE]
    BY <2>1 DEF ServerTakes
  <2>4. Len(net') = Len(net)
    BY <1>h, <2>3
  <2> QED  BY <1>y, <2>2, <2>4, ChainMoved
<1>7. CASE Answer
  <2>1. PICK i \in DOMAIN net : \/ AnswerOk(i) \/ AnswerNoHistoryId(i) \/ AnswerError(i)
                                \/ AnswerRejected(i) \/ RequestDropped(i)
    BY <1>7 DEF Answer
  <2> QED  BY <1>y, <2>1, ChainAnswer
<1>8. CASE Tick
  <2>1. UNCHANGED <<active, timer, timers, dropped, core, archive, net>>
    BY <1>8 DEF Tick
  <2> QED  BY <1>y, <2>1, ChainMoved
<1>9. CASE Fire
  <2>1. PICK t \in due : FireTimer(t)
    BY <1>9 DEF Fire
  <2>2. /\ UNCHANGED <<active, timer, timers, dropped, archive, net>>
        /\ core' = Append(core, Callback("timer", 0))
        /\ Cardinality({i \in DOMAIN core : core[i].kind = "timer"}) < MaxFired
    BY <2>1 DEF FireTimer
  <2>3. timers # {}
    BY <1>h, <2>1 DEF TypeOK
  <2>4. {i \in DOMAIN core : core[i].kind = "timer"} = Positions(core, TimerCalls)
    <3>1. ASSUME NEW i \in DOMAIN core
          PROVE  core[i].kind = "timer" <=> core[i] \in TimerCalls
      <4>1. core[i] \in CoreTasks
        BY <1>h, ElementOfSeq, LenProperties
      <4> QED  BY <4>1, CallbackWeights DEF Weight, Flag
    <3> QED  BY <3>1 DEF Positions
  <2>5. Among(core, TimerCalls) < MaxFired
    BY <2>2, <2>4 DEF Among
  <2>6. Among(core, TimerCalls) = 0
    BY <1>n, <2>5, PendingMessagesAssumption DEF KeepsUp
  <2>7. PICK c \in CoreTasks : c = Callback("timer", 0)
    BY CallbackTypes
  <2>8. Weight(c, Links) = 0 /\ Weight(c, TimerCalls) = 1
    <3>1. c.kind = "timer"
      BY <2>7 DEF Callback
    <3> QED  BY <3>1, CallbackWeights DEF Flag
  <2>9. Among(core', Links) = Among(core, Links) /\ Among(core', TimerCalls) = 1
    <3>1. /\ Among(core', Links) = Among(core, Links) + Weight(c, Links)
          /\ Among(core', TimerCalls) = Among(core, TimerCalls) + Weight(c, TimerCalls)
      BY <1>h, <2>2, <2>7, AmongAppend
    <3> QED  BY <1>n, <2>6, <2>8, <3>1
  <2>10. ChainSum' = ChainSum /\ Flag(active)' = Flag(active)
    BY <2>2, <2>9 DEF ChainSum
  <2>11. OneTimer'
    BY <1>h, <2>2, <2>3, <2>9 DEF OneTimer
  <2> QED  BY <1>h, <1>y, <2>10, <2>11 DEF ChainInv
<1>10. CASE Crash
  <2>1. /\ archive' = <<>> /\ core' = <<>> /\ net' = <<>>
        /\ active' = FALSE /\ timer' = 0 /\ timers' = {} /\ dropped' = FALSE
    BY <1>10 DEF Crash
  <2>2. /\ Among(archive', Carriers) = 0 /\ Among(core', Links) = 0 /\ Len(net') = 0
        /\ Among(core', TimerCalls) = 0
    BY <2>1, AmongEmpty
  <2>3. Flag(timers' # {}) = 0 /\ Flag(dropped') = 0 /\ Flag(active') = 0
    BY <2>1 DEF Flag
  <2>4. timers' \subseteq {timer'}
    BY <2>1
  <2> QED  BY <1>y, <2>2, <2>3, <2>4, ChainCounted
<1>11. CASE UNCHANGED vars
  <2>1. UNCHANGED <<active, timer, timers, dropped, core, archive, net>>
    BY <1>11 DEF vars, chain
  <2> QED  BY <1>y, <2>1, ChainMoved
<1> QED  BY <1>1, <1>2, <1>3, <1>4, <1>5, <1>6, <1>7, <1>8, <1>9, <1>10, <1>11 DEF Next

\* At the start there is no chain, and the flag is not set.
LEMMA ChainInit == Init => ChainInv
<1> SUFFICES ASSUME Init PROVE ChainInv
  OBVIOUS
<1>1. TypeInv
  BY InitTypes
<1>2. /\ archive = <<>> /\ core = <<>> /\ net = <<>> /\ timers = {}
      /\ active = FALSE /\ dropped = FALSE
  BY DEF Init
<1>3. /\ Among(archive, Carriers) = 0 /\ Among(core, Links) = 0 /\ Len(net) = 0
      /\ Among(core, TimerCalls) = 0
  BY <1>2, AmongEmpty
<1>4. Flag(timers # {}) = 0 /\ Flag(dropped) = 0 /\ Flag(active) = 0
  BY <1>2 DEF Flag
<1>5. ChainSum = Flag(active)
  BY <1>3, <1>4 DEF ChainSum
<1> QED  BY <1>1, <1>2, <1>3, <1>5 DEF ChainInv, OneTimer

\* However messages, edits, errors, fetches and restarts come together, there is one
\* chain when sent_pending_messages_active_ is set and none when it is not, but for
\* a chain whose request lost its handler: no callback of wim_im.cpp starts a second
\* one, and none leaves the flag set with nothing behind it.  The core thread must
\* keep up with post_messages_timer_, whose second callback would start a chain of
\* its own.
THEOREM OneChainOnly == ASSUME KeepsUp PROVE Spec => []OneChain
<1>1. Init => ChainInv
  BY ChainInit
<1>2. ChainInv /\ [Next]_vars => ChainInv'
  BY ChainStep
<1>3. ChainInv => OneChain
  BY SumIsLength
<1> QED  BY <1>1, <1>2, <1>3, PTL DEF Spec

\* The assertion of post_pending_messages() before it starts the timer is true as long
\* as the core thread keeps up with the timer; the run pending_timer breaks it when
\* three callbacks of the timer may wait.
THEOREM TimerIsFree == ASSUME KeepsUp PROVE Spec => []NoTimerYet
<1>1. Init => ChainInv
  BY ChainInit
<1>2. ChainInv /\ [Next]_vars => ChainInv'
  BY ChainStep
<1>3. ChainInv => NoTimerYet
  <2> SUFFICES ASSUME ChainInv, AboutToStartTimer PROVE timer = 0
    BY DEF NoTimerYet
  <2>1. /\ TypeOK /\ core \in Seq(CoreTasks) /\ core # <<>>
        /\ Head(core).kind # "timer" /\ timer \in timers \union {0}
    BY DEF AboutToStartTimer, ChainInv, TypeInv, TypeOK
  <2>2. /\ Head(core) \in CoreTasks
        /\ Among(core, Links) = Among(Tail(core), Links) + Weight(Head(core), Links)
        /\ Among(Tail(core), Links) \in Nat
    <3>1. Head(core) \in CoreTasks /\ Tail(core) \in Seq(CoreTasks)
      BY <2>1, ToSetTail
    <3> QED  BY <2>1, <3>1, AmongTail, AmongType
  <2>3. Weight(Head(core), Links) = 1
    BY <2>1, <2>2, CallbackWeights DEF Flag
  <2>4. Among(core, Links) # 0
    BY <2>2, <2>3
  <2>5. timers = {}
    BY <2>4, ChainHere
  <2> QED  BY <2>1, <2>5
<1> QED  BY <1>1, <1>2, <1>3, PTL DEF Spec

=============================================================================
