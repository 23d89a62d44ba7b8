------------------------ MODULE WimSendThreadProofs ------------------------
(***************************************************************************)
(* Proofs about WimSendThread for every set of packets, methods and        *)
(* priorities, every packet limit and any number of posts and sessions.    *)
(***************************************************************************)
EXTENDS WimSendThread, SequenceLemmas

-----------------------------------------------------------------------------
(* The packet queue. *)

\* pop() on a queue that can be popped returns one of its packets whose key is
\* free, and leaves a queue with that packet taken out and its key marked.
LEMMA PopProperties ==
    ASSUME NEW q \in QueueValues, CanPop(q)
    PROVE  /\ Pop(q) \in QueueValues
           /\ Popped(q) \in Packets
           /\ Method[Popped(q)] \in Methods \ q.extracted
           /\ Pop(q).extracted = q.extracted \union {Method[Popped(q)]}
<1> DEFINE i == Min(Free(q))
<1>1. Len(q.queue) \in Nat /\ q.queue \in Seq(Packets)
  BY DEF QueueValues
<1>2. i \in Free(q) /\ i \in 1..Len(q.queue)
  BY <1>1, MinPosition, Free(q) \in SUBSET (1..Len(q.queue)) DEF CanPop, Free
<1>3. Popped(q) \in Packets /\ Method[Popped(q)] \in Methods \ q.extracted
  <2>1. Popped(q) = q.queue[i]
    BY DEF Popped
  <2>2. q.queue[i] \in Packets
    BY <1>1, <1>2, ElementOfSeq
  <2>3. Method[q.queue[i]] \notin q.extracted
    BY <1>2 DEF Free
  <2>4. Method[q.queue[i]] \in Methods
    BY <2>2, PacketsAssumption
  <2> QED  BY <2>1, <2>2, <2>3, <2>4
<1>4. RemoveAt(q.queue, i) \in Seq(Packets)
  BY <1>1, <1>2 DEF RemoveAt
<1> QED
  BY <1>3, <1>4 DEF Pop, QueueValues

\* emplace() keeps the queue a queue and its keys as they are.
LEMMA EmplaceProperties ==
    ASSUME NEW q \in QueueValues, NEW p \in Packets
    PROVE  /\ Emplace(q, p) \in QueueValues
           /\ Emplace(q, p).extracted = q.extracted
<1> DEFINE greater == {i \in 1..Len(q.queue) : Priority[p] < Priority[q.queue[i]]}
           at      == IF greater = {} THEN Len(q.queue) + 1 ELSE Min(greater)
<1>1. Len(q.queue) \in Nat /\ q.queue \in Seq(Packets)
  BY DEF QueueValues
<1>2. at \in 1..(Len(q.queue) + 1)
  <2>1. greater # {} => Min(greater) \in greater
    BY <1>1, MinPosition, greater \in SUBSET (1..Len(q.queue))
  <2> QED  BY <1>1, <2>1
<1>3. Emplace(q, p) = [q EXCEPT !.queue = InsertAt(@, at, p)]
  BY DEF Emplace
<1> HIDE DEF at
<1>4. InsertAt(q.queue, at, p) \in Seq(Packets)
  <2>1. /\ SubSeq(q.queue, 1, at - 1) \in Seq(Packets)
        /\ SubSeq(q.queue, at, Len(q.queue)) \in Seq(Packets)
        /\ <<p>> \in Seq(Packets)
    BY <1>1, <1>2
  <2> QED  BY <2>1, ConcatProperties DEF InsertAt
<1> QED
  BY <1>3, <1>4 DEF QueueValues

\* clear() leaves an empty queue with its limit.
LEMMA ClearedProperties ==
    ASSUME NEW q \in QueueValues
    PROVE  Cleared(q) \in QueueValues /\ Cleared(q).extracted = {}
<1>1. <<>> \in Seq(Packets)
  OBVIOUS
<1> QED  BY <1>1 DEF Cleared, QueueValues

-----------------------------------------------------------------------------
(* Type correctness. *)

\* The entry made for a packet is an entry, and no entry is NoEntry.
LEMMA EntryTypes ==
    /\ \A p \in Packets, l \in Lanes : [packet |-> p, lane |-> l] \in Entries
    /\ \A p \in Packets : Lane(p) \in Lanes
    /\ NoEntry \notin Entries
BY WimSendThreadAssumption DEF Entries, NoEntry, Lanes, Lane

\* Every value a task of the core thread is built with.
LEMMA TaskTypes ==
    /\ ExecuteTask \in CoreTasks
    /\ \A p \in Packets : ApiErrorTask(p) \in CoreTasks
    /\ \A e \in Entries, r \in Results : ResultOf(e, r) \in CoreTasks
BY EntryTypes DEF ExecuteTask, ApiErrorTask, ResultOf, CoreTasks, Results, Lanes, Entries

\* Inserting a packet keeps the two queues queues.
LEMMA InsertType ==
    ASSUME TypeOK, NEW p \in Packets, Insert(p)
    PROVE  /\ queues' \in [Lanes -> QueueValues]
           /\ \A l \in Lanes : queues'[l].extracted = queues[l].extracted
<1>1. Lane(p) \in Lanes
  BY EntryTypes
<1>2. Emplace(queues[Lane(p)], p) \in QueueValues
  BY <1>1, EmplaceProperties DEF TypeOK
<1>3. Emplace(queues[Lane(p)], p).extracted = queues[Lane(p)].extracted
  BY <1>1, EmplaceProperties DEF TypeOK
<1> QED
  BY <1>1, <1>2, <1>3 DEF Insert, TypeOK

\* The round that hands out a packet pops a queue that can be popped.
LEMMA PumpLanePops ==
    ASSUME TypeOK, Pumpable
    PROVE  /\ PumpLane \in Lanes
           /\ queues[PumpLane] \in QueueValues
           /\ CanPop(queues[PumpLane])
BY DEF TypeOK, Pumpable, PumpLane, Lanes

\* The first task of the core thread's queue and the entry of a result.
LEMMA HeadTypes ==
    ASSUME TypeOK, core # <<>>
    PROVE  /\ Head(core) \in CoreTasks
           /\ Tail(core) \in Seq(CoreTasks)
           /\ ToSet(core) = ToSet(Tail(core)) \union {Head(core)}
           /\ Head(core).entry \in Entries \union {NoEntry}
<1>1. core \in Seq(CoreTasks)
  BY DEF TypeOK
<1>2. /\ Head(core) \in CoreTasks
      /\ Tail(core) \in Seq(CoreTasks)
      /\ ToSet(core) = ToSet(Tail(core)) \union {Head(core)}
  BY <1>1, ToSetTail
<1> QED  BY <1>2 DEF CoreTasks

\* Every variable keeps its type, and the tasks that carry a packet carry a
\* real one.
TaskEntryOK == \A t \in ToSet(core) : t.kind # "execute" <=> t.entry \in Entries

TypeInv == TypeOK /\ TaskEntryOK

\* Every step keeps the type invariant.
LEMMA TypeInvStep == TypeInv /\ [Next]_vars => TypeInv'
<1> SUFFICES ASSUME TypeInv, [Next]_vars PROVE TypeInv'
  OBVIOUS
<1> USE DEF TypeInv
<1>1. ASSUME NEW p \in Packets, PostPacket(p) PROVE TypeInv'
  <2>1. posts' \in [Packets -> Nat] /\ Bump(lost, p) \in [Packets -> Nat]
    BY <1>1 DEF PostPacket, PostInvalid, PostUnsupported, PostTooEarly, PostAccepted,
                Bump, TypeOK
  <2>2. CASE PostInvalid(p)
    BY <2>1, <2>2 DEF PostInvalid, TypeOK, TaskEntryOK, thread, session
  <2>3. CASE PostUnsupported(p)
    <3>1. /\ ApiErrorTask(p) \in CoreTasks
          /\ ApiErrorTask(p).entry \in Entries /\ ApiErrorTask(p).kind # "execute"
      BY TaskTypes, EntryTypes DEF ApiErrorTask
    <3>2. ToSet(core') = ToSet(core) \union {ApiErrorTask(p)}
      BY <2>3, <3>1, ToSetAppend DEF PostUnsupported, TypeOK
    <3> QED
      BY <2>1, <2>3, <3>1, <3>2 DEF PostUnsupported, TypeOK, TaskEntryOK, thread, session
  <2>4. CASE PostTooEarly(p)
    <3>1. /\ ExecuteTask \in CoreTasks /\ ExecuteTask.kind = "execute"
          /\ ExecuteTask.entry \notin Entries
      BY TaskTypes, EntryTypes DEF ExecuteTask
    <3>2. ToSet(core') = ToSet(core) \union {ExecuteTask}
      BY <2>4, <3>1, ToSetAppend DEF PostTooEarly, TypeOK
    <3> QED
      BY <2>1, <2>4, <3>1, <3>2 DEF PostTooEarly, TypeOK, TaskEntryOK, thread, session
  <2>5. CASE PostAccepted(p)
    BY <2>1, <2>5, InsertType DEF PostAccepted, TypeOK, TaskEntryOK, thread, session
  <2> QED  BY <1>1, <2>2, <2>3, <2>4, <2>5 DEF PostPacket
<1>2. ASSUME NEW n \in ParallelCounts, SetMaxParallelPacketsCount(n) PROVE TypeInv'
  <2>1. n \in Nat /\ n \div 2 \in Nat /\ n - n \div 2 \in Nat
    BY WimSendThreadAssumption
  <2>2. queues' \in [Lanes -> QueueValues]
    BY <1>2, <2>1 DEF SetMaxParallelPacketsCount, LowLimit, TypeOK, WithLimit, QueueValues, Lanes
  <2> QED
    BY <1>2, <2>2 DEF SetMaxParallelPacketsCount, LowLimit, TypeOK, TaskEntryOK,
                      thread, session,
                      ledger
<1>3. CASE PingSession
  BY <1>3 DEF PingSession, BeginSession, TypeOK, TaskEntryOK, thread, ledger
<1>3a. CASE FullSession
  <2>1. \A l \in Lanes : Cleared(queues[l]) \in QueueValues
    BY ClearedProperties DEF TypeOK
  <2>2. queues' \in [Lanes -> QueueValues]
    BY <1>3a, <2>1 DEF FullSession
  <2>3. \A p \in Packets : lost[p] + 1 \in Nat /\ lost[p] \in Nat
    BY DEF TypeOK
  <2>4. lost' \in [Packets -> Nat]
    BY <1>3a, <2>3 DEF FullSession
  <2> QED
    BY <1>3a, <2>2, <2>4 DEF FullSession, BeginSession, TypeOK, TaskEntryOK, thread
<1>4. CASE SessionResult
  BY <1>4 DEF SessionResult, TypeOK, TaskEntryOK, thread, ledger
<1>5. CASE PumpOne
  <2>1. /\ Pop(queues[PumpLane]) \in QueueValues
        /\ Popped(queues[PumpLane]) \in Packets
        /\ PumpLane \in Lanes
    BY <1>5, PumpLanePops, PopProperties DEF PumpOne
  <2>2. [packet |-> Popped(queues[PumpLane]), lane |-> PumpLane] \in Entries
    BY <2>1, EntryTypes
  <2> QED
    BY <1>5, <2>1, <2>2 DEF PumpOne, TypeOK, TaskEntryOK, session, ledger
<1>6. CASE PumpEnd
  BY <1>6 DEF PumpEnd, TypeOK, TaskEntryOK, thread, session, ledger
<1>7. CASE WorkerTake
  <2>1. Head(executer) \in Entries /\ Tail(executer) \in Seq(Entries)
    BY <1>7, ToSetTail DEF WorkerTake, TypeOK
  <2>2. Head(executer).packet \in Packets
    BY <2>1 DEF Entries
  <2>3. repeats' \in [Packets -> Nat]
    BY <1>7, <2>2 DEF WorkerTake, TypeOK, Bump
  <2> QED
    BY <1>7, <2>1, <2>3 DEF WorkerTake, TypeOK, TaskEntryOK, session, ledger
<1>8. ASSUME NEW r \in Results, WorkerFinish(r) PROVE TypeInv'
  <2>1. /\ ResultOf(running, r) \in CoreTasks
        /\ ResultOf(running, r).entry \in Entries /\ ResultOf(running, r).kind # "execute"
    BY <1>8, TaskTypes DEF WorkerFinish, TypeOK, ResultOf
  <2>2. ToSet(core') = ToSet(core) \union {ResultOf(running, r)}
    BY <1>8, <2>1, ToSetAppend DEF WorkerFinish, TypeOK
  <2> QED
    BY <1>8, <2>1, <2>2 DEF WorkerFinish, TypeOK, TaskEntryOK, session, ledger
<1>9. CASE CoreTask
  <2>1. /\ core # <<>> /\ core' = Tail(core)
        /\ Head(core) \in CoreTasks /\ Tail(core) \in Seq(CoreTasks)
        /\ ToSet(core) = ToSet(Tail(core)) \union {Head(core)}
        /\ Head(core).kind # "execute" <=> Head(core).entry \in Entries
    BY <1>9, HeadTypes DEF CoreTask, DeliverRetry, DeliverResult, DeliverExecute,
                           DeliverApiError, CoreIdle, TaskEntryOK
  <2>2. core' \in Seq(CoreTasks) /\ TaskEntryOK'
    BY <2>1 DEF TaskEntryOK
  <2>3. CASE DeliverRetry
    <3>1. Head(core).entry.packet \in Packets /\ Head(core).entry \in Entries
      BY <2>1, <2>3 DEF DeliverRetry, Entries
    <3>2. queues' \in [Lanes -> QueueValues]
      BY <2>3, <3>1, InsertType DEF DeliverRetry
    <3> QED
      BY <2>2, <2>3, <3>1, <3>2 DEF DeliverRetry, TypeOK, thread, session, ledger
  <2>4. CASE DeliverResult
    <3>1. Head(core).entry.packet \in Packets /\ Head(core).entry \in Entries
      BY <2>1, <2>4 DEF DeliverResult, Entries
    <3>2. handled' \in [Packets -> Nat] /\ cooling' \in BOOLEAN
      BY <2>4, <3>1 DEF DeliverResult, TypeOK, Bump
    <3> QED
      BY <2>2, <2>4, <3>1, <3>2 DEF DeliverResult, TypeOK, thread, session
  <2>5. CASE DeliverExecute
    BY <2>2, <2>5 DEF DeliverExecute, TypeOK, thread, session, ledger
  <2>6. CASE DeliverApiError
    <3>1. Head(core).entry.packet \in Packets
      BY <2>1, <2>6 DEF DeliverApiError, Entries
    <3>2. handled' \in [Packets -> Nat]
      BY <2>6, <3>1 DEF DeliverApiError, TypeOK, Bump
    <3> QED
      BY <2>2, <2>6, <3>2 DEF DeliverApiError, TypeOK, thread, session
  <2> QED  BY <1>9, <2>3, <2>4, <2>5, <2>6 DEF CoreTask
<1>10. CASE CloseScope
  <2>1. closing \in Entries
    BY <1>10 DEF CloseScope, TypeOK
  <2>2. queues' \in [Lanes -> QueueValues]
    BY <1>10, <2>1 DEF CloseScope, TypeOK, AllowUsing, QueueValues, Entries
  <2> QED
    BY <1>10, <2>2 DEF CloseScope, TypeOK, TaskEntryOK, thread, session, ledger
<1>11. CASE CoolDown
  BY <1>11 DEF CoolDown, TypeOK, TaskEntryOK, thread, session, ledger
<1>12. CASE UNCHANGED vars
  BY <1>12 DEF vars, TypeOK, TaskEntryOK, thread, session, ledger
<1> QED
  BY <1>1, <1>2, <1>3, <1>3a, <1>4, <1>5, <1>6, <1>7, <1>8, <1>9, <1>10, <1>11, <1>12
     DEF Next, Pump, Worker

-----------------------------------------------------------------------------
\* Every reachable state has the types TypeOK states, and the callbacks that
\* carry a packet carry a real one.
THEOREM TypeCorrect == Spec => [](TypeOK /\ TaskEntryOK)
<1>1. Init => TypeInv
  <2> SUFFICES ASSUME Init PROVE TypeInv
    OBVIOUS
  <2>1. /\ <<>> \in Seq(Packets) /\ <<>> \in Seq(Entries) /\ <<>> \in Seq(CoreTasks)
        /\ ToSet(<<>>) = {}
    BY DEF ToSet
  <2>2. NewQueue \in QueueValues
    BY <2>1 DEF NewQueue, QueueValues
  <2>3. TypeOK
    BY <2>1, <2>2 DEF Init, TypeOK
  <2>4. TaskEntryOK
    BY <2>1 DEF Init, TaskEntryOK
  <2> QED  BY <2>3, <2>4 DEF TypeInv
<1>2. QED
  BY <1>1, TypeInvStep, PTL DEF Spec, TypeInv

-----------------------------------------------------------------------------
(* No method is blocked by a packet that is gone. *)

Blocker(l, m, e) == e.lane = l /\ Method[e.packet] = m

\* A step after which every entry in flight is still in flight and every key
\* that is out was out before keeps the invariant.
LEMMA KeepsInFlight ==
    ASSUME ExtractedInFlight,
           InFlight \subseteq InFlight',
           \A l \in Lanes : queues'[l].extracted \subseteq queues[l].extracted
    PROVE  ExtractedInFlight'
BY DEF ExtractedInFlight

\* Every step keeps ExtractedInFlight.
LEMMA ExtractedInFlightStep ==
    TypeInv /\ ExtractedInFlight /\ [Next]_vars => ExtractedInFlight'
<1> SUFFICES ASSUME TypeInv, ExtractedInFlight, [Next]_vars
             PROVE  ExtractedInFlight'
  OBVIOUS
<1>t. TypeOK /\ TaskEntryOK
  BY DEF TypeInv
<1>1. ASSUME NEW p \in Packets, PostPacket(p) PROVE ExtractedInFlight'
  <2>1. \A l \in Lanes : queues'[l].extracted = queues[l].extracted
    BY <1>t, <1>1, InsertType DEF PostPacket, PostInvalid, PostUnsupported, PostTooEarly,
                                  PostAccepted
  <2>2. ToSet(core) \subseteq ToSet(core')
    <3>1. ApiErrorTask(p) \in CoreTasks /\ ExecuteTask \in CoreTasks
      BY TaskTypes
    <3>2. core \in Seq(CoreTasks)
      BY <1>t DEF TypeOK
    <3>3. \/ core' = core
          \/ core' = Append(core, ApiErrorTask(p))
          \/ core' = Append(core, ExecuteTask)
      BY <1>1 DEF PostPacket, PostInvalid, PostUnsupported, PostTooEarly, PostAccepted
    <3>4. \A t \in CoreTasks : ToSet(core) \subseteq ToSet(Append(core, t))
      BY <3>2, ToSetAppend
    <3> QED  BY <3>1, <3>3, <3>4
  <2>3. UNCHANGED <<executer, running, closing>>
    BY <1>1 DEF PostPacket, PostInvalid, PostUnsupported, PostTooEarly, PostAccepted,
                thread
  <2>4. InFlight \subseteq InFlight'
    BY <2>2, <2>3 DEF InFlight
  <2> QED  BY <2>1, <2>4, KeepsInFlight
<1>2. ASSUME NEW n \in ParallelCounts, SetMaxParallelPacketsCount(n)
      PROVE  ExtractedInFlight'
  <2>1. \A l \in Lanes : queues'[l].extracted = queues[l].extracted
    BY <1>t, <1>2 DEF SetMaxParallelPacketsCount, LowLimit, TypeOK, WithLimit, QueueValues, Lanes
  <2>2. InFlight' = InFlight
    BY <1>2 DEF SetMaxParallelPacketsCount, LowLimit, InFlight, thread
  <2> QED  BY <2>1, <2>2, KeepsInFlight
<1>3. CASE PingSession \/ SessionResult \/ PumpEnd \/ CoolDown \/ UNCHANGED vars
  <2>1. queues' = queues /\ InFlight' = InFlight
    BY <1>3 DEF PingSession, SessionResult, PumpEnd, CoolDown, vars, InFlight, thread
  <2> QED  BY <2>1, KeepsInFlight
<1>4. CASE FullSession
  <2>1. \A l \in Lanes : queues'[l].extracted = {}
    BY <1>t, <1>4, ClearedProperties DEF FullSession, TypeOK
  <2> QED  BY <2>1 DEF ExtractedInFlight
<1>5. CASE PumpOne
  <2> DEFINE q == queues[PumpLane]
             e == [packet |-> Popped(q), lane |-> PumpLane]
  <2>1. /\ Pop(q).extracted = q.extracted \union {Method[Popped(q)]}
        /\ Popped(q) \in Packets /\ PumpLane \in Lanes
    BY <1>t, <1>5, PumpLanePops, PopProperties DEF PumpOne
  <2>2. ToSet(executer') = ToSet(executer) \union {e}
    <3>1. e \in Entries
      BY <2>1, EntryTypes
    <3> QED  BY <1>t, <1>5, <3>1, ToSetAppend DEF PumpOne, TypeOK
  <2>3. InFlight \subseteq InFlight' /\ e \in InFlight'
    BY <1>5, <2>2 DEF PumpOne, InFlight
  <2>4. ASSUME NEW l \in Lanes, NEW m \in queues'[l].extracted
        PROVE  m \in queues[l].extracted \/ Blocker(l, m, e)
    BY <1>t, <1>5, <2>1, <2>4 DEF PumpOne, TypeOK, Blocker
  <2> QED  BY <2>3, <2>4 DEF ExtractedInFlight, Blocker
<1>6. CASE WorkerTake
  <2>1. /\ ToSet(executer) = ToSet(executer') \union {running'}
        /\ running = NoEntry
        /\ running' \in Entries
    BY <1>t, <1>6, ToSetTail DEF WorkerTake, TypeOK
  <2>2. InFlight \subseteq InFlight'
    BY <1>6, <2>1, EntryTypes DEF WorkerTake, InFlight
  <2> QED  BY <1>6, <2>2, KeepsInFlight DEF WorkerTake
<1>7. ASSUME NEW r \in Results, WorkerFinish(r) PROVE ExtractedInFlight'
  <2>1. ResultOf(running, r) \in CoreTasks
    BY <1>t, <1>7, TaskTypes DEF WorkerFinish, TypeOK
  <2>2. ToSet(core') = ToSet(core) \union {ResultOf(running, r)}
    BY <1>t, <1>7, <2>1, ToSetAppend DEF WorkerFinish, TypeOK
  <2>3. InFlight \subseteq InFlight'
    BY <1>7, <2>2 DEF WorkerFinish, InFlight, ResultOf
  <2> QED  BY <1>7, <2>3, KeepsInFlight DEF WorkerFinish
<1>8. CASE DeliverRetry \/ DeliverResult
  <2>1. /\ core # <<>> /\ core' = Tail(core)
        /\ Head(core).kind = "result"
        /\ closing = NoEntry /\ closing' = Head(core).entry
        /\ UNCHANGED <<executer, running>>
    BY <1>8 DEF DeliverRetry, DeliverResult, CoreIdle, thread
  <2>2. /\ ToSet(core) = ToSet(core') \union {Head(core)}
        /\ Head(core).entry \in Entries
        /\ Head(core).entry.packet \in Packets
    BY <1>t, <2>1, HeadTypes DEF TaskEntryOK, Entries
  <2>3. InFlight \subseteq InFlight'
    BY <2>1, <2>2, EntryTypes DEF InFlight
  <2>4. \A l \in Lanes : queues'[l].extracted = queues[l].extracted
    BY <1>t, <1>8, <2>2, InsertType DEF DeliverRetry, DeliverResult
  <2> QED  BY <2>3, <2>4, KeepsInFlight
<1>9. CASE DeliverExecute \/ DeliverApiError
  <2>1. /\ core # <<>> /\ core' = Tail(core)
        /\ Head(core).kind # "result"
        /\ UNCHANGED <<queues, executer, running, closing>>
    BY <1>9 DEF DeliverExecute, DeliverApiError, CoreIdle, thread
  <2>2. ToSet(core) = ToSet(core') \union {Head(core)}
    BY <1>t, <2>1, HeadTypes
  <2>3. InFlight \subseteq InFlight'
    BY <2>1, <2>2 DEF InFlight
  <2> QED  BY <2>1, <2>3, KeepsInFlight
<1>10. CASE CloseScope
  <2>1. closing \in Entries
    BY <1>t, <1>10 DEF CloseScope, TypeOK
  <2>2. InFlight \subseteq InFlight' \union {closing}
    BY <1>10 DEF CloseScope, InFlight, thread
  <2>3. ASSUME NEW l \in Lanes, NEW m \in queues'[l].extracted
        PROVE  m \in queues[l].extracted /\ ~Blocker(l, m, closing)
    BY <1>t, <1>10, <2>1, <2>3 DEF CloseScope, TypeOK, AllowUsing, QueueValues, Entries,
                                   Blocker
  <2> QED  BY <2>2, <2>3 DEF ExtractedInFlight, Blocker
<1> QED
  BY <1>1, <1>2, <1>3, <1>4, <1>5, <1>6, <1>7, <1>8, <1>9, <1>10
     DEF Next, Pump, Worker, CoreTask

\* A key that is out always belongs to a packet in flight whose scope guard
\* will release it, so no method stays blocked (packet_queue::pop() and
\* allow_using(), around on_result_ of execute_packet_from_queue()).
THEOREM NoBlockedMethod == Spec => []ExtractedInFlight
<1>1. Init => ExtractedInFlight
  BY DEF Init, ExtractedInFlight, NewQueue
<1>2. TypeInv <=> TypeOK /\ TaskEntryOK
  BY DEF TypeInv
<1>3. QED
  BY <1>1, <1>2, TypeCorrect, ExtractedInFlightStep, PTL DEF Spec

-----------------------------------------------------------------------------
(* The order of the queues. *)

\* The list is sorted by priority number.
Sorted(q) ==
    \A i, j \in 1..Len(q.queue) :
        i <= j => Priority[q.queue[i]] <= Priority[q.queue[j]]

LanesSorted == \A l \in Lanes : Sorted(queues[l])

\* pop() keeps the list sorted, and what it returns has the least number among
\* the packets whose key is free.
LEMMA PopSorted ==
    ASSUME NEW q \in QueueValues, CanPop(q), Sorted(q)
    PROVE  /\ Sorted(Pop(q))
           /\ \A i \in Free(q) : Priority[Popped(q)] <= Priority[q.queue[i]]
<1> DEFINE s == q.queue
           at == Min(Free(q))
<1>1. s \in Seq(Packets) /\ Len(s) \in Nat
  BY DEF QueueValues
<1>2. /\ at \in Free(q) /\ at \in 1..Len(s)
      /\ \A i \in Free(q) : at <= i
  BY <1>1, MinPosition, Free(q) \subseteq 1..Len(s) DEF CanPop, Free
<1>3. \A i \in Free(q) : Priority[s[at]] <= Priority[s[i]]
  BY <1>1, <1>2 DEF Sorted, Free
<1>4. Pop(q).queue = RemoveAt(s, at)
  BY DEF Pop, QueueValues
<1>5. ASSUME NEW i \in 1..(Len(s) - 1), NEW j \in 1..(Len(s) - 1), i <= j
      PROVE  Priority[RemoveAt(s, at)[i]] <= Priority[RemoveAt(s, at)[j]]
  <2>1. PICK x \in 1..Len(s), y \in 1..Len(s) :
          /\ RemoveAt(s, at)[i] = s[x] /\ RemoveAt(s, at)[j] = s[y]
          /\ x <= y
    <3> HIDE DEF at
    <3>1. \A k \in 1..(Len(s) - 1) :
            RemoveAt(s, at)[k] = IF k < at THEN s[k] ELSE s[k + 1]
      BY <1>1, <1>2, RemoveAtElements
    <3> DEFINE x == IF i < at THEN i ELSE i + 1
               y == IF j < at THEN j ELSE j + 1
    <3>2. x \in 1..Len(s) /\ y \in 1..Len(s) /\ x <= y
      BY <1>1, <1>2, <1>5
    <3>3. RemoveAt(s, at)[i] = s[x] /\ RemoveAt(s, at)[j] = s[y]
      BY <3>1
    <3> QED  BY <3>2, <3>3
  <2> QED  BY <2>1 DEF Sorted
<1>6. Len(RemoveAt(s, at)) = Len(s) - 1
  BY <1>1, <1>2, RemoveAtElements
<1> QED
  BY <1>3, <1>4, <1>5, <1>6 DEF Sorted, Popped

\* emplace() keeps the list sorted.
LEMMA EmplaceSorted ==
    ASSUME NEW q \in QueueValues, NEW p \in Packets, Sorted(q)
    PROVE  Sorted(Emplace(q, p))
<1> DEFINE s == q.queue
           greater == {i \in 1..Len(s) : Priority[p] < Priority[s[i]]}
           at == IF greater = {} THEN Len(s) + 1 ELSE Min(greater)
           t == InsertAt(s, at, p)
<1>1. s \in Seq(Packets) /\ Len(s) \in Nat
  BY DEF QueueValues
<1>2. \A i \in 1..Len(s) : s[i] \in Packets /\ Priority[s[i]] \in Int
  BY <1>1, ElementOfSeq, PacketsAssumption
<1>3. Priority[p] \in Int
  BY PacketsAssumption
<1>4. /\ at \in 1..(Len(s) + 1)
      /\ \A i \in 1..Len(s) : i < at => Priority[s[i]] <= Priority[p]
      /\ \A i \in 1..Len(s) : at <= i => Priority[p] <= Priority[s[i]]
  <2>1. CASE greater = {}
    BY <1>1, <1>2, <1>3, <2>1
  <2>2. CASE greater # {}
    <3>1. Min(greater) \in greater /\ \A i \in greater : Min(greater) <= i
      BY <1>1, <2>2, MinPosition, greater \in SUBSET (1..Len(s))
    <3>2. at = Min(greater)
      BY <2>2
    <3>3. \A i \in 1..Len(s) : i < at => Priority[s[i]] <= Priority[p]
      <4> SUFFICES ASSUME NEW i \in 1..Len(s), i < at PROVE Priority[s[i]] <= Priority[p]
        OBVIOUS
      <4>1. i \notin greater
        <5>1. at \in Int /\ i \in Int
          BY <1>1, <3>1, <3>2
        <5>2. i \in greater => at <= i
          BY <3>1, <3>2
        <5> QED  BY ONLY <5>1, <5>2, i < at
      <4> QED  BY <1>2, <1>3, <4>1
    <3>4. \A i \in 1..Len(s) : at <= i => Priority[s[at]] <= Priority[s[i]]
      BY <3>1, <3>2 DEF Sorted
    <3>5. at \in 1..Len(s) /\ Priority[p] < Priority[s[at]]
      BY <3>1, <3>2
    <3> HIDE DEF at
    <3> QED  BY <1>1, <1>2, <1>3, <3>3, <3>4, <3>5
  <2> QED  BY <2>1, <2>2
<1>5. Emplace(q, p).queue = t
  BY DEF Emplace, QueueValues
<1> HIDE DEF at
<1>6. /\ Len(t) = Len(s) + 1
      /\ \A k \in 1..(Len(s) + 1) :
           t[k] = IF k < at THEN s[k] ELSE IF k = at THEN p ELSE s[k - 1]
  <2>1. at \in 1..(Len(s) + 1)
    BY <1>4
  <2> HIDE DEF s
  <2> QED  BY <1>1, <2>1, InsertAtElements
<1> HIDE DEF t
<1>7. ASSUME NEW i \in 1..Len(t), NEW j \in 1..Len(t), i <= j
      PROVE  Priority[t[i]] <= Priority[t[j]]
  <2>1. i \in Int /\ j \in Int /\ at \in Int
    BY <1>1, <1>4, <1>6
  <2>2. CASE i < at /\ j < at
    <3>1. t[i] = s[i] /\ t[j] = s[j] /\ i \in 1..Len(s) /\ j \in 1..Len(s)
      BY <1>1, <1>4, <1>6, <2>1, <2>2
    <3> QED  BY <1>7, <3>1 DEF Sorted
  <2>3. CASE i < at /\ j = at
    BY <1>1, <1>4, <1>6, <2>1, <2>3
  <2>4. CASE i < at /\ j > at
    <3>1. t[i] = s[i] /\ t[j] = s[j - 1] /\ i \in 1..Len(s) /\ j - 1 \in 1..Len(s)
      BY <1>1, <1>4, <1>6, <2>1, <2>4
    <3> QED  BY <2>1, <2>4, <3>1 DEF Sorted
  <2>5. CASE i = at /\ j = at
    BY <1>3, <1>6, <2>5
  <2>6. CASE i = at /\ j > at
    <3>1. t[i] = p /\ t[j] = s[j - 1] /\ j - 1 \in 1..Len(s) /\ at <= j - 1
      BY <1>1, <1>4, <1>6, <2>1, <2>6
    <3> QED  BY <1>4, <3>1
  <2>7. CASE i > at /\ j > at
    <3>1. /\ t[i] = s[i - 1] /\ t[j] = s[j - 1]
          /\ i - 1 \in 1..Len(s) /\ j - 1 \in 1..Len(s) /\ i - 1 <= j - 1
      BY <1>1, <1>4, <1>6, <1>7, <2>1, <2>7
    <3> QED  BY <3>1 DEF Sorted
  <2> QED  BY <1>7, <2>1, <2>2, <2>3, <2>4, <2>5, <2>6, <2>7
<1> QED  BY <1>5, <1>7 DEF Sorted

\* Only post_packet, a retry, a pop and clear() change a queue's list.
LEMMA LanesSortedStep == TypeInv /\ LanesSorted /\ [Next]_vars => LanesSorted'
<1> SUFFICES ASSUME TypeInv, LanesSorted, [Next]_vars
             PROVE  LanesSorted'
  OBVIOUS
<1>t. TypeOK /\ TaskEntryOK
  BY DEF TypeInv
<1>1. ASSUME NEW p \in Packets, Insert(p) PROVE LanesSorted'
  <2>1. Lane(p) \in Lanes /\ Sorted(Emplace(queues[Lane(p)], p))
    BY <1>t, EntryTypes, EmplaceSorted DEF TypeOK, LanesSorted
  <2> QED
    BY <1>t, <1>1, <2>1 DEF Insert, TypeOK, LanesSorted
<1>2. CASE UNCHANGED queues
  BY <1>2 DEF LanesSorted, Sorted
<1>3. ASSUME NEW p \in Packets, PostPacket(p) PROVE LanesSorted'
  BY <1>1, <1>2, <1>3 DEF PostPacket, PostInvalid, PostUnsupported, PostTooEarly,
                          PostAccepted
<1>4. ASSUME NEW n \in ParallelCounts, SetMaxParallelPacketsCount(n)
      PROVE  LanesSorted'
  <2>1. \A l \in Lanes : queues'[l].queue = queues[l].queue
    BY <1>t, <1>4 DEF SetMaxParallelPacketsCount, LowLimit, TypeOK, WithLimit, QueueValues, Lanes
  <2> QED  BY <2>1 DEF LanesSorted, Sorted
<1>5. CASE FullSession
  <2>1. \A l \in Lanes : queues'[l].queue = <<>>
    BY <1>5 DEF FullSession, Cleared
  <2> QED  BY <2>1 DEF LanesSorted, Sorted
<1>6. CASE PumpOne
  <2>1. Sorted(Pop(queues[PumpLane])) /\ PumpLane \in Lanes
    BY <1>t, <1>6, PumpLanePops, PopSorted DEF PumpOne, LanesSorted
  <2> QED  BY <1>t, <1>6, <2>1 DEF PumpOne, TypeOK, LanesSorted
<1>7. CASE DeliverRetry
  <2>1. Head(core).entry.packet \in Packets
    BY <1>t, <1>7, HeadTypes DEF DeliverRetry, CoreIdle, TaskEntryOK, Entries
  <2> QED  BY <1>1, <1>7, <2>1 DEF DeliverRetry
<1>8. CASE CloseScope
  <2>1. closing.lane \in Lanes
    BY <1>t, <1>8 DEF CloseScope, TypeOK, Entries
  <2>2. \A l \in Lanes : queues'[l].queue = queues[l].queue
    BY <1>t, <1>8, <2>1 DEF CloseScope, TypeOK, AllowUsing, QueueValues
  <2> QED  BY <2>2 DEF LanesSorted, Sorted
<1>9. CASE \/ PingSession \/ SessionResult \/ PumpEnd \/ WorkerTake
           \/ (\E r \in Results : WorkerFinish(r))
           \/ DeliverResult \/ DeliverExecute \/ DeliverApiError
           \/ CoolDown \/ UNCHANGED vars
  BY <1>2, <1>9 DEF PingSession, SessionResult, PumpEnd, WorkerTake, WorkerFinish,
       DeliverResult, DeliverExecute, DeliverApiError, CoolDown, vars
<1> QED
  BY <1>3, <1>4, <1>5, <1>6, <1>7, <1>8, <1>9 DEF Next, Pump, Worker, CoreTask

\* The two queues stay sorted by priority number.
THEOREM QueuesSorted == Spec => []LanesSorted
<1>1. Init => LanesSorted
  BY DEF Init, LanesSorted, Sorted, NewQueue
<1>2. TypeInv <=> TypeOK /\ TaskEntryOK
  BY DEF TypeInv
<1>3. QED
  BY <1>1, <1>2, TypeCorrect, LanesSortedStep, PTL DEF Spec

\* A round of execute_packet_from_queue() hands out the packet with the least
\* priority number among those of its queue whose key is free.
THEOREM PopsInLaneOrder == Spec => LaneOrder
<1> DEFINE Least == \A i \in Free(queues[PumpLane]) :
             Priority[Popped(queues[PumpLane])] <= Priority[queues[PumpLane].queue[i]]
<1>1. TypeOK /\ LanesSorted /\ PumpOne => Least
  BY PumpLanePops, PopSorted DEF PumpOne, LanesSorted
<1>2. TypeOK /\ LanesSorted => [PumpOne => Least]_vars
  BY <1>1
<1>3. QED
  BY <1>2, TypeCorrect, QueuesSorted, PTL DEF LaneOrder

-----------------------------------------------------------------------------
(* Where the packets are: one place per post that is not over.             *)

EntriesOf(p) == {e \in Entries : e.packet = p}
TasksOf(p) == {t \in CoreTasks : t.entry.packet = p}

\* The counts of Places are numbers of elements of sequences.
LEMMA CountsAreAmong ==
    ASSUME NEW p \in Packets
    PROVE  /\ \A s \in Seq(Packets) : Times(s, p) = Among(s, {p})
           /\ \A s \in Seq(Entries) :
                Cardinality({i \in DOMAIN s : s[i].packet = p}) = Among(s, EntriesOf(p))
           /\ \A s \in Seq(CoreTasks) :
                Cardinality({i \in DOMAIN s : s[i].entry.packet = p}) = Among(s, TasksOf(p))
<1>1. ASSUME NEW s \in Seq(Packets) PROVE Times(s, p) = Among(s, {p})
  <2>1. {i \in DOMAIN s : s[i] = p} = Positions(s, {p})
    BY DEF Positions
  <2> QED  BY <2>1 DEF Times, Among
<1>2. ASSUME NEW s \in Seq(Entries)
      PROVE  Cardinality({i \in DOMAIN s : s[i].packet = p}) = Among(s, EntriesOf(p))
  <2>1. \A i \in DOMAIN s : s[i] \in Entries
    BY ElementOfSeq, LenProperties
  <2>2. {i \in DOMAIN s : s[i].packet = p} = Positions(s, EntriesOf(p))
    BY <2>1 DEF Positions, EntriesOf
  <2> QED  BY <2>2 DEF Among
<1>3. ASSUME NEW s \in Seq(CoreTasks)
      PROVE  Cardinality({i \in DOMAIN s : s[i].entry.packet = p}) = Among(s, TasksOf(p))
  <2>1. \A i \in DOMAIN s : s[i] \in CoreTasks
    BY ElementOfSeq, LenProperties
  <2>2. {i \in DOMAIN s : s[i].entry.packet = p} = Positions(s, TasksOf(p))
    BY <2>1 DEF Positions, TasksOf
  <2> QED  BY <2>2 DEF Among
<1> QED  BY <1>1, <1>2, <1>3

\* The places of a packet, one component after the other.
InQueue(l, p) == Among(queues[l].queue, {p})
InExecuter(p) == Among(executer, EntriesOf(p))
InRunning(p) == IF running.packet = p THEN 1 ELSE 0
InCore(p) == Among(core, TasksOf(p))

Sum(p) == InQueue("high", p) + InQueue("low", p) + InExecuter(p) + InRunning(p) + InCore(p)
AreCounts(p) ==
    /\ InQueue("high", p) \in Nat /\ InQueue("low", p) \in Nat
    /\ InExecuter(p) \in Nat /\ InRunning(p) \in Nat /\ InCore(p) \in Nat

\* Places is the sum of these counts, in a state and in the next one.
LEMMA PlacesAreSum ==
    ASSUME NEW p \in Packets
    PROVE  /\ TypeOK => AreCounts(p) /\ Places(p) = Sum(p)
           /\ TypeOK' => AreCounts(p)' /\ Places(p)' = Sum(p)'
<1>1. ASSUME TypeOK PROVE AreCounts(p) /\ Places(p) = Sum(p)
  <2>1. /\ queues["high"].queue \in Seq(Packets) /\ queues["low"].queue \in Seq(Packets)
        /\ executer \in Seq(Entries) /\ core \in Seq(CoreTasks)
    BY <1>1 DEF TypeOK, Lanes, QueueValues
  <2>2. AreCounts(p)
    BY <2>1, AmongType DEF AreCounts, InQueue, InExecuter, InRunning, InCore
  <2> QED
    BY <2>1, <2>2, CountsAreAmong
       DEF Places, Sum, InQueue, InExecuter, InRunning, InCore
<1>2. ASSUME TypeOK' PROVE AreCounts(p)' /\ Places(p)' = Sum(p)'
  <2>1. /\ queues'["high"].queue \in Seq(Packets) /\ queues'["low"].queue \in Seq(Packets)
        /\ executer' \in Seq(Entries) /\ core' \in Seq(CoreTasks)
    BY <1>2 DEF TypeOK, Lanes, QueueValues
  <2>2. AreCounts(p)'
    BY <2>1, AmongType DEF AreCounts, InQueue, InExecuter, InRunning, InCore
  <2> QED
    BY <2>1, <2>2, CountsAreAmong
       DEF Places, Sum, InQueue, InExecuter, InRunning, InCore
<1> QED  BY <1>1, <1>2

\* emplace() adds the packet to the list.
LEMMA EmplaceCount ==
    ASSUME NEW q \in QueueValues, NEW p \in Packets, NEW A
    PROVE  Among(Emplace(q, p).queue, A) = Among(q.queue, A) + Weight(p, A)
<1> DEFINE greater == {i \in 1..Len(q.queue) : Priority[p] < Priority[q.queue[i]]}
           at      == IF greater = {} THEN Len(q.queue) + 1 ELSE Min(greater)
<1>1. Len(q.queue) \in Nat /\ q.queue \in Seq(Packets)
  BY DEF QueueValues
<1>2. at \in 1..(Len(q.queue) + 1)
  <2>1. greater # {} => Min(greater) \in greater
    BY <1>1, MinPosition, greater \in SUBSET (1..Len(q.queue))
  <2> QED  BY <1>1, <2>1
<1>3. Emplace(q, p).queue = InsertAt(q.queue, at, p)
  BY DEF Emplace, QueueValues
<1> HIDE DEF at
<1> QED  BY <1>1, <1>2, <1>3, AmongInsertAt

\* pop() takes the packet it returns out of the list.
LEMMA PopCount ==
    ASSUME NEW q \in QueueValues, CanPop(q), NEW A
    PROVE  Among(q.queue, A) = Among(Pop(q).queue, A) + Weight(Popped(q), A)
<1> DEFINE at == Min(Free(q))
<1>1. Len(q.queue) \in Nat /\ q.queue \in Seq(Packets)
  BY DEF QueueValues
<1>2. at \in 1..Len(q.queue)
  BY <1>1, MinPosition, Free(q) \in SUBSET (1..Len(q.queue)) DEF CanPop, Free
<1>3. Pop(q).queue = RemoveAt(q.queue, at) /\ Popped(q) = q.queue[at]
  BY DEF Pop, Popped, QueueValues
<1> HIDE DEF at
<1> QED  BY <1>1, <1>2, <1>3, AmongRemoveAt

\* Inserting a packet adds one to the queue of its lane.
LEMMA InsertCount ==
    ASSUME TypeOK, NEW p \in Packets, Insert(p), NEW r \in Packets, NEW l \in Lanes
    PROVE  InQueue(l, r)' = InQueue(l, r) + (IF p = r /\ l = Lane(p) THEN 1 ELSE 0)
<1>1. /\ Lane(p) \in Lanes
      /\ queues \in [Lanes -> QueueValues]
      /\ queues' = [queues EXCEPT ![Lane(p)] = Emplace(@, p)]
  BY EntryTypes DEF TypeOK, Insert
<1>2. Among(Emplace(queues[Lane(p)], p).queue, {r})
        = Among(queues[Lane(p)].queue, {r}) + (IF p = r THEN 1 ELSE 0)
  BY <1>1, EmplaceCount DEF Weight
<1>3. Among(queues[l].queue, {r}) \in Nat
  BY <1>1, AmongType DEF QueueValues
<1>4. CASE l = Lane(p)
  <2>1. queues'[l] = Emplace(queues[Lane(p)], p)
    BY <1>1, <1>4
  <2> QED  BY <1>2, <1>4, <2>1 DEF InQueue
<1>5. CASE l # Lane(p)
  <2>1. queues'[l] = queues[l]
    BY <1>1, <1>5
  <2> QED  BY <1>3, <1>5, <2>1 DEF InQueue
<1> QED  BY <1>4, <1>5

\* Taking the first task from the core thread's queue.
LEMMA CoreTailCount ==
    ASSUME TypeOK, core # <<>>, core' = Tail(core), NEW p \in Packets
    PROVE  InCore(p) = InCore(p)' + (IF Head(core).entry.packet = p THEN 1 ELSE 0)
<1>1. core \in Seq(CoreTasks) /\ Head(core) \in CoreTasks
  BY HeadTypes DEF TypeOK
<1>2. Among(core, TasksOf(p)) = Among(Tail(core), TasksOf(p)) + Weight(Head(core), TasksOf(p))
  BY <1>1, AmongTail
<1> QED  BY <1>1, <1>2 DEF InCore, Weight, TasksOf

\* Appending a task to it.
LEMMA CoreAppendCount ==
    ASSUME TypeOK, NEW t \in CoreTasks, core' = Append(core, t), NEW p \in Packets
    PROVE  InCore(p)' = InCore(p) + (IF t.entry.packet = p THEN 1 ELSE 0)
<1>1. core \in Seq(CoreTasks)
  BY DEF TypeOK
<1>2. Among(Append(core, t), TasksOf(p)) = Among(core, TasksOf(p)) + Weight(t, TasksOf(p))
  BY <1>1, AmongAppend
<1> QED  BY <1>2 DEF InCore, Weight, TasksOf

\* A packet waits in the queue of its lane and in no other.
InItsLane == \A l \in Lanes, p \in Packets : Lane(p) # l => InQueue(l, p) = 0

Accounts == PostsAccounted /\ InItsLane

\* Steps that leave every packet where it is, or in the same queue.
LEMMA AccountsStay ==
    ASSUME TypeOK, TypeOK', Accounts,
           \A l \in Lanes : queues'[l].queue = queues[l].queue,
           UNCHANGED <<executer, running, core, posts, handled, lost>>
    PROVE  Accounts'
<1>1. ASSUME NEW p \in Packets
      PROVE  /\ \A l \in Lanes : InQueue(l, p)' = InQueue(l, p)
             /\ Places(p)' = Places(p)
  <2>1. \A l \in Lanes : InQueue(l, p)' = InQueue(l, p)
    BY DEF InQueue
  <2>2. Sum(p)' = Sum(p)
    BY <2>1 DEF Sum, InExecuter, InRunning, InCore, Lanes
  <2> QED  BY <2>1, <2>2, PlacesAreSum
<1> QED  BY <1>1 DEF Accounts, PostsAccounted, InItsLane

\* A step that changes the ledger and the places of a packet keeps the account of
\* every packet it keeps the balance of.
Balanced(p) ==
    /\ posts[p] = handled[p] + lost[p] + Sum(p)
    /\ Sum(p) <= 1

\* Posts are accounted for when every packet is in balance.
LEMMA BalanceIsAccount ==
    /\ TypeOK => (PostsAccounted <=> \A p \in Packets : Balanced(p))
    /\ TypeOK' => (PostsAccounted' <=> \A p \in Packets : Balanced(p)')
BY PlacesAreSum DEF PostsAccounted, Balanced

\* Every step keeps the accounts.
LEMMA AccountsStep == TypeInv /\ Accounts /\ [Next]_vars => Accounts'
<1> SUFFICES ASSUME TypeInv, Accounts, [Next]_vars PROVE Accounts'
  OBVIOUS
<1>t. TypeOK /\ TaskEntryOK /\ TypeOK' /\ TaskEntryOK'
  BY TypeInvStep DEF TypeInv
<1>n. \A p \in Packets : /\ AreCounts(p) /\ AreCounts(p)'
                         /\ Balanced(p)
                         /\ posts[p] \in Nat /\ handled[p] \in Nat /\ lost[p] \in Nat
                         /\ Sum(p) \in Nat
  <2>1. \A p \in Packets : AreCounts(p) /\ AreCounts(p)'
    BY <1>t, PlacesAreSum
  <2>2. \A p \in Packets : Sum(p) \in Nat
    BY <2>1 DEF AreCounts, Sum
  <2> QED  BY <1>t, <2>1, <2>2, BalanceIsAccount DEF Accounts, TypeOK
<1>l. InItsLane /\ Lanes = {"high", "low"} /\ \A p \in Packets : Lane(p) \in Lanes
  BY EntryTypes DEF Accounts, Lanes
\* What is left to show of a step.
<1>g. ASSUME \A r \in Packets : Balanced(r)', InItsLane' PROVE Accounts'
  BY <1>t, <1>g, BalanceIsAccount DEF Accounts
<1>q. ASSUME UNCHANGED queues PROVE InItsLane'
                                   /\ \A l \in Lanes, r \in Packets : InQueue(l, r)' = InQueue(l, r)
  BY <1>l, <1>q DEF InItsLane, InQueue
<1>i. ASSUME NEW p \in Packets, Insert(p)
      PROVE  /\ InItsLane'
             /\ \A r \in Packets : InQueue("high", r)' + InQueue("low", r)'
                    = InQueue("high", r) + InQueue("low", r) + (IF p = r THEN 1 ELSE 0)
  <2>1. \A l \in Lanes, r \in Packets :
          InQueue(l, r)' = InQueue(l, r) + (IF p = r /\ l = Lane(p) THEN 1 ELSE 0)
    BY <1>t, <1>i, InsertCount
  <2>2. InItsLane'
    BY <1>l, <2>1 DEF InItsLane
  <2>3. \A r \in Packets : InQueue("high", r) \in Nat /\ InQueue("low", r) \in Nat
    BY <1>n DEF AreCounts
  <2> QED  BY <1>l, <2>1, <2>2, <2>3
<1>1. ASSUME NEW p \in Packets, PostPacket(p) PROVE Accounts'
  <2>1. Sum(p) = 0 /\ posts' = [posts EXCEPT ![p] = @ + 1] /\ handled' = handled
    <3>1. handled[p] = posts[p] /\ posts' = [posts EXCEPT ![p] = @ + 1] /\ handled' = handled
      BY <1>1 DEF PostPacket, PostInvalid, PostUnsupported, PostTooEarly, PostAccepted,
                  CanPost, Bump
    <3> QED  BY <1>n, <3>1 DEF Balanced
  <2>2. UNCHANGED <<executer, running>>
    BY <1>1 DEF PostPacket, PostInvalid, PostUnsupported, PostTooEarly, PostAccepted, thread
  <2>3. \A r \in Packets : posts'[r] = IF r = p THEN posts[r] + 1 ELSE posts[r]
    BY <1>t, <2>1 DEF TypeOK
  <2>4. CASE PostInvalid(p)
    <3>1. UNCHANGED <<queues, core>> /\ lost' = [lost EXCEPT ![p] = @ + 1]
      BY <2>4 DEF PostInvalid, Bump
    <3>2. \A r \in Packets : lost'[r] = IF r = p THEN lost[r] + 1 ELSE lost[r]
      BY <1>t, <3>1 DEF TypeOK
    <3>3. \A r \in Packets : Sum(r)' = Sum(r)
      BY <1>q, <2>2, <3>1 DEF Sum, Lanes, InExecuter, InRunning, InCore
    <3>4. ASSUME NEW r \in Packets PROVE Balanced(r)'
      BY <1>n, <2>1, <2>3, <3>2, <3>3 DEF Balanced
    <3> QED  BY <1>g, <1>q, <3>1, <3>4
  <2>5. CASE PostUnsupported(p)
    <3>1. /\ UNCHANGED <<queues, lost>> /\ core' = Append(core, ApiErrorTask(p))
          /\ ApiErrorTask(p) \in CoreTasks /\ ApiErrorTask(p).entry.packet = p
      BY <2>5, TaskTypes DEF PostUnsupported, ApiErrorTask
    <3>2. \A r \in Packets : InCore(r)' = InCore(r) + (IF p = r THEN 1 ELSE 0)
      BY <1>t, <3>1, CoreAppendCount
    <3>3. ASSUME NEW r \in Packets PROVE Sum(r)' = Sum(r) + (IF p = r THEN 1 ELSE 0)
      <4>1. /\ InQueue("high", r)' = InQueue("high", r) /\ InQueue("low", r)' = InQueue("low", r)
            /\ InExecuter(r)' = InExecuter(r) /\ InRunning(r)' = InRunning(r)
        BY <2>2, <3>1 DEF InQueue, InExecuter, InRunning
      <4> QED  BY <1>n, <3>2, <4>1 DEF Sum, AreCounts
    <3>4. ASSUME NEW r \in Packets PROVE Balanced(r)'
      <4>1. CASE r = p
        <5>1. Sum(p)' = 1
          BY <2>1, <3>3
        <5> QED  BY <1>n, <2>1, <2>3, <3>1, <4>1, <5>1 DEF Balanced
      <4>2. CASE r # p
        <5>1. Sum(r)' = Sum(r)
          BY <1>n, <3>3, <4>2
        <5> QED  BY <1>n, <2>1, <2>3, <3>1, <4>2, <5>1 DEF Balanced
      <4> QED  BY <4>1, <4>2
    <3> QED  BY <1>g, <1>q, <3>1, <3>4
  <2>6. CASE PostTooEarly(p)
    <3>1. /\ UNCHANGED queues /\ core' = Append(core, ExecuteTask)
          /\ lost' = [lost EXCEPT ![p] = @ + 1]
          /\ ExecuteTask \in CoreTasks /\ ExecuteTask.entry.packet \notin Packets
      BY <2>6, TaskTypes, WimSendThreadAssumption DEF PostTooEarly, ExecuteTask, NoEntry, Bump
    <3>2. ASSUME NEW r \in Packets PROVE InCore(r)' = InCore(r)
      <4>1. InCore(r)' = InCore(r) + (IF ExecuteTask.entry.packet = r THEN 1 ELSE 0)
        BY <1>t, <3>1, CoreAppendCount
      <4>2. InCore(r) \in Nat /\ ExecuteTask.entry.packet # r
        BY <1>n, <3>1 DEF AreCounts
      <4> QED  BY <4>1, <4>2
    <3>3. \A r \in Packets : lost'[r] = IF r = p THEN lost[r] + 1 ELSE lost[r]
      BY <1>t, <3>1 DEF TypeOK
    <3>4. \A r \in Packets : Sum(r)' = Sum(r)
      BY <1>q, <2>2, <3>1, <3>2 DEF Sum, Lanes, InExecuter, InRunning
    <3>5. ASSUME NEW r \in Packets PROVE Balanced(r)'
      BY <1>n, <2>1, <2>3, <3>3, <3>4 DEF Balanced
    <3> QED  BY <1>g, <1>q, <3>1, <3>5
  <2>7. CASE PostAccepted(p)
    <3>1. Insert(p) /\ UNCHANGED <<core, lost>>
      BY <2>7 DEF PostAccepted
    <3>2. ASSUME NEW r \in Packets PROVE Sum(r)' = Sum(r) + (IF p = r THEN 1 ELSE 0)
      <4>1. InExecuter(r)' = InExecuter(r) /\ InRunning(r)' = InRunning(r) /\ InCore(r)' = InCore(r)
        BY <2>2, <3>1 DEF InExecuter, InRunning, InCore
      <4>2. InQueue("high", r)' + InQueue("low", r)'
                    = InQueue("high", r) + InQueue("low", r) + (IF p = r THEN 1 ELSE 0)
        BY <1>i, <3>1
      <4> QED  BY <1>n, <4>1, <4>2 DEF Sum, AreCounts
    <3>3. ASSUME NEW r \in Packets PROVE Balanced(r)'
      <4>1. CASE r = p
        <5>1. Sum(p)' = 1
          BY <2>1, <3>2
        <5> QED  BY <1>n, <2>1, <2>3, <3>1, <4>1, <5>1 DEF Balanced
      <4>2. CASE r # p
        <5>1. Sum(r)' = Sum(r)
          BY <1>n, <3>2, <4>2
        <5> QED  BY <1>n, <2>1, <2>3, <3>1, <4>2, <5>1 DEF Balanced
      <4> QED  BY <4>1, <4>2
    <3> QED  BY <1>g, <1>i, <3>1, <3>3
  <2> QED  BY <1>1, <2>4, <2>5, <2>6, <2>7 DEF PostPacket
<1>2. ASSUME NEW n \in ParallelCounts, SetMaxParallelPacketsCount(n) PROVE Accounts'
  <2>1. \A l \in Lanes : queues'[l].queue = queues[l].queue
    BY <1>t, <1>2 DEF SetMaxParallelPacketsCount, LowLimit, TypeOK, WithLimit, QueueValues,
                      Lanes
  <2> QED
    BY <1>t, <1>2, <2>1, AccountsStay DEF SetMaxParallelPacketsCount, thread, ledger
<1>3. CASE PingSession \/ SessionResult \/ PumpEnd \/ CoolDown \/ UNCHANGED vars
  BY <1>t, <1>3, AccountsStay
     DEF PingSession, SessionResult, PumpEnd, CoolDown, vars, thread, ledger
<1>4. CASE FullSession
  <2>1. /\ \A l \in Lanes : queues'[l].queue = <<>>
        /\ UNCHANGED <<executer, running, core, posts, handled>>
        /\ \A r \in Packets : lost'[r] = IF Waiting(r) THEN lost[r] + 1 ELSE lost[r]
    BY <1>4 DEF FullSession, Cleared, thread
  <2>2. \A l \in Lanes, r \in Packets : InQueue(l, r)' = 0
    BY <2>1, AmongEmpty DEF InQueue
  <2>3. ASSUME NEW r \in Packets PROVE Balanced(r)'
    <3>1. InExecuter(r)' = InExecuter(r) /\ InRunning(r)' = InRunning(r) /\ InCore(r)' = InCore(r)
      BY <2>1 DEF InExecuter, InRunning, InCore
    <3>2. InQueue(Lane(r), r) = InQueue("high", r) + InQueue("low", r)
      BY <1>l, <1>n DEF InItsLane, AreCounts
    <3>3. Waiting(r) <=> InQueue(Lane(r), r) # 0
      <4>1. queues[Lane(r)].queue \in Seq(Packets)
        BY <1>l, <1>t DEF TypeOK, QueueValues
      <4> QED  BY <4>1, AmongZero DEF Waiting, InQueue, ToSet
    <3>4. InQueue("high", r)' = 0 /\ InQueue("low", r)' = 0
      BY <1>l, <2>2
    <3> QED  BY <1>n, <2>1, <3>1, <3>2, <3>3, <3>4 DEF Balanced, Sum, AreCounts
  <2> QED  BY <1>g, <2>2, <2>3 DEF InItsLane
<1>5. CASE PumpOne
  <2> DEFINE q == queues[PumpLane]
             e == [packet |-> Popped(q), lane |-> PumpLane]
  <2>1. /\ PumpLane \in Lanes /\ q \in QueueValues /\ CanPop(q)
        /\ Popped(q) \in Packets /\ e \in Entries
    BY <1>t, <1>5, PumpLanePops, PopProperties, EntryTypes DEF PumpOne
  <2>2. /\ executer' = Append(executer, e)
        /\ queues' = [queues EXCEPT ![PumpLane] = Pop(@)]
        /\ UNCHANGED <<running, core, posts, handled, lost>>
    BY <1>5 DEF PumpOne, ledger
  <2>3. ASSUME NEW r \in Packets
        PROVE  /\ InExecuter(r)' = InExecuter(r) + (IF Popped(q) = r THEN 1 ELSE 0)
               /\ \A l \in Lanes : InQueue(l, r) = InQueue(l, r)'
                                      + (IF Popped(q) = r /\ l = PumpLane THEN 1 ELSE 0)
               /\ \A l \in Lanes : InQueue(l, r) \in Nat /\ InQueue(l, r)' \in Nat
    <3>1. InExecuter(r)' = InExecuter(r) + Weight(e, EntriesOf(r))
      BY <1>t, <2>1, <2>2, AmongAppend DEF InExecuter, TypeOK
    <3>2. Weight(e, EntriesOf(r)) = IF Popped(q) = r THEN 1 ELSE 0
      BY <2>1 DEF Weight, EntriesOf
    <3>3. Among(q.queue, {r}) = Among(Pop(q).queue, {r}) + (IF Popped(q) = r THEN 1 ELSE 0)
      BY <2>1, PopCount DEF Weight
    <3>4. \A l \in Lanes : InQueue(l, r) \in Nat /\ InQueue(l, r)' \in Nat
      BY <1>l, <1>n DEF AreCounts
    <3>5. queues'[PumpLane] = Pop(q) /\ \A l \in Lanes : l # PumpLane => queues'[l] = queues[l]
      BY <1>t, <2>1, <2>2 DEF TypeOK
    <3>6. InExecuter(r)' = InExecuter(r) + (IF Popped(q) = r THEN 1 ELSE 0)
      BY <3>1, <3>2
    <3>7. ASSUME NEW l \in Lanes
          PROVE  InQueue(l, r) = InQueue(l, r)' + (IF Popped(q) = r /\ l = PumpLane THEN 1 ELSE 0)
      <4>1. CASE l = PumpLane
        <5>1. InQueue(l, r) = Among(q.queue, {r}) /\ InQueue(l, r)' = Among(Pop(q).queue, {r})
          BY <3>5, <4>1 DEF InQueue
        <5> HIDE DEF q
        <5> QED  BY <3>3, <4>1, <5>1
      <4>2. CASE l # PumpLane
        <5>1. InQueue(l, r) = InQueue(l, r)'
          BY <3>5, <4>2 DEF InQueue
        <5> HIDE DEF q
        <5> QED  BY <3>4, <4>2, <5>1
      <4> QED  BY <4>1, <4>2
    <3> QED  BY <3>4, <3>6, <3>7
  <2> HIDE DEF q, e
  <2>4. InItsLane'
    BY <1>l, <2>3 DEF InItsLane
  <2>5. ASSUME NEW r \in Packets PROVE Balanced(r)'
    <3>1. InRunning(r)' = InRunning(r) /\ InCore(r)' = InCore(r)
      BY <2>2 DEF InRunning, InCore
    <3>2. Sum(r)' = Sum(r)
      BY <1>l, <1>n, <2>1, <2>3, <3>1 DEF Sum, AreCounts
    <3> QED  BY <1>n, <2>2, <3>2 DEF Balanced
  <2> QED  BY <1>g, <2>4, <2>5
<1>6. CASE WorkerTake
  <2>1. /\ executer \in Seq(Entries) /\ executer # <<>> /\ executer' = Tail(executer)
        /\ running = NoEntry /\ running' = Head(executer)
        /\ Head(executer) \in Entries
        /\ UNCHANGED <<queues, core, posts, handled, lost>>
    BY <1>t, <1>6, ToSetTail DEF WorkerTake, TypeOK, ledger
  <2>2. ASSUME NEW r \in Packets PROVE Balanced(r)'
    <3>1. InExecuter(r) = InExecuter(r)' + Weight(Head(executer), EntriesOf(r))
      BY <2>1, AmongTail DEF InExecuter
    <3>2. InRunning(r)' = Weight(Head(executer), EntriesOf(r)) /\ InRunning(r) = 0
      BY <2>1, WimSendThreadAssumption DEF InRunning, Weight, EntriesOf, NoEntry
    <3>3. /\ InQueue("high", r)' = InQueue("high", r) /\ InQueue("low", r)' = InQueue("low", r)
          /\ InCore(r)' = InCore(r)
      BY <2>1 DEF InQueue, InCore
    <3>4. Sum(r)' = Sum(r)
      BY <1>n, <3>1, <3>2, <3>3 DEF Sum, AreCounts
    <3> QED  BY <1>n, <2>1, <3>4 DEF Balanced
  <2> QED  BY <1>g, <1>q, <2>1, <2>2
<1>7. ASSUME NEW x \in Results, WorkerFinish(x) PROVE Accounts'
  <2>1. /\ running \in Entries /\ running' = NoEntry
        /\ core' = Append(core, ResultOf(running, x))
        /\ ResultOf(running, x) \in CoreTasks /\ ResultOf(running, x).entry = running
        /\ UNCHANGED <<queues, executer, posts, handled, lost>>
    BY <1>t, <1>7, TaskTypes DEF WorkerFinish, TypeOK, ResultOf, ledger
  <2>2. ASSUME NEW r \in Packets PROVE Balanced(r)'
    <3>1. InCore(r)' = InCore(r) + InRunning(r)
      BY <1>t, <2>1, CoreAppendCount DEF InRunning
    <3>2. InRunning(r)' = 0
      BY <2>1, WimSendThreadAssumption DEF InRunning, NoEntry
    <3>3. /\ InQueue("high", r)' = InQueue("high", r) /\ InQueue("low", r)' = InQueue("low", r)
          /\ InExecuter(r)' = InExecuter(r)
      BY <2>1 DEF InQueue, InExecuter
    <3>4. Sum(r)' = Sum(r)
      BY <1>n, <3>1, <3>2, <3>3 DEF Sum, AreCounts
    <3> QED  BY <1>n, <2>1, <3>4 DEF Balanced
  <2> QED  BY <1>g, <1>q, <2>1, <2>2
<1>8. CASE CoreTask
  <2> DEFINE p == Head(core).entry.packet
  <2>1. /\ core # <<>> /\ core' = Tail(core)
        /\ Head(core).kind # "execute" => Head(core).entry \in Entries /\ p \in Packets
        /\ UNCHANGED <<executer, running, posts, lost>>
    <3>1. core # <<>> /\ core' = Tail(core) /\ UNCHANGED <<executer, running, posts, lost>>
      BY <1>8 DEF CoreTask, DeliverRetry, DeliverResult, DeliverExecute, DeliverApiError,
                  CoreIdle, thread, ledger
    <3>2. Head(core).kind # "execute" => Head(core).entry \in Entries
      BY <1>t, <3>1, HeadTypes DEF TaskEntryOK
    <3> QED  BY <3>1, <3>2 DEF Entries
  <2>2. ASSUME NEW r \in Packets
        PROVE  /\ InCore(r) = InCore(r)' + (IF p = r THEN 1 ELSE 0)
               /\ InExecuter(r)' = InExecuter(r) /\ InRunning(r)' = InRunning(r)
    BY <1>t, <2>1, CoreTailCount DEF InExecuter, InRunning
  <2> HIDE DEF p
  <2>3. CASE DeliverRetry
    <3>1. p \in Packets /\ Insert(p) /\ UNCHANGED handled
      BY <2>1, <2>3 DEF DeliverRetry, ledger, p
    <3>2. ASSUME NEW r \in Packets PROVE Balanced(r)'
      <4>1. InQueue("high", r)' + InQueue("low", r)'
                    = InQueue("high", r) + InQueue("low", r) + (IF p = r THEN 1 ELSE 0)
        BY <1>i, <3>1
      <4>2. Sum(r)' = Sum(r)
        BY <1>n, <2>2, <4>1 DEF Sum, AreCounts
      <4> QED  BY <1>n, <2>1, <3>1, <4>2 DEF Balanced
    <3> QED  BY <1>g, <1>i, <3>1, <3>2
  <2>4. CASE DeliverResult \/ DeliverApiError
    <3>1. p \in Packets /\ UNCHANGED queues /\ handled' = [handled EXCEPT ![p] = @ + 1]
      BY <2>1, <2>4 DEF DeliverResult, DeliverApiError, Bump, p
    <3>2. ASSUME NEW r \in Packets PROVE Balanced(r)'
      <4>1. /\ InQueue("high", r)' = InQueue("high", r)
            /\ InQueue("low", r)' = InQueue("low", r)
        BY <3>1 DEF InQueue
      <4>2. handled'[r] = IF p = r THEN handled[r] + 1 ELSE handled[r]
        BY <1>t, <3>1 DEF TypeOK
      <4>3. Sum(r) = Sum(r)' + (IF p = r THEN 1 ELSE 0) /\ Sum(r)' \in Nat
        BY <1>n, <2>2, <4>1 DEF Sum, AreCounts
      <4> QED  BY <1>n, <2>1, <4>2, <4>3 DEF Balanced
    <3> QED  BY <1>g, <1>q, <3>1, <3>2
  <2>5. CASE DeliverExecute
    <3>1. p \notin Packets /\ UNCHANGED <<queues, handled>>
      <4>1. Head(core).entry \in Entries \union {NoEntry} /\ Head(core).entry \notin Entries
        BY <1>t, <2>1, <2>5, HeadTypes DEF DeliverExecute, TaskEntryOK
      <4> QED  BY <2>5, <4>1, WimSendThreadAssumption DEF DeliverExecute, ledger, p, NoEntry
    <3>2. ASSUME NEW r \in Packets PROVE Balanced(r)'
      <4>1. /\ InQueue("high", r)' = InQueue("high", r)
            /\ InQueue("low", r)' = InQueue("low", r)
        BY <3>1 DEF InQueue
      <4>2. Sum(r)' = Sum(r)
        BY <1>n, <2>2, <3>1, <4>1 DEF Sum, AreCounts
      <4> QED  BY <1>n, <2>1, <3>1, <4>2 DEF Balanced
    <3> QED  BY <1>g, <1>q, <3>1, <3>2
  <2> QED  BY <1>8, <2>3, <2>4, <2>5 DEF CoreTask
<1>9. CASE CloseScope
  <2>1. closing.lane \in Lanes
    BY <1>t, <1>9 DEF CloseScope, TypeOK, Entries
  <2>2. \A l \in Lanes : queues'[l].queue = queues[l].queue
    BY <1>t, <1>9, <2>1 DEF CloseScope, TypeOK, AllowUsing, QueueValues
  <2> QED  BY <1>t, <1>9, <2>2, AccountsStay DEF CloseScope, thread, ledger
<1> QED
  BY <1>1, <1>2, <1>3, <1>4, <1>5, <1>6, <1>7, <1>8, <1>9 DEF Next, Pump, Worker


\* At first no packet is anywhere.
LEMMA AccountsInit == Init => Accounts
<1> SUFFICES ASSUME Init PROVE Accounts
  OBVIOUS
<1>1. /\ <<>> \in Seq(Packets) /\ <<>> \in Seq(Entries) /\ <<>> \in Seq(CoreTasks)
      /\ \A A : Among(<<>>, A) = 0
  BY AmongEmpty
<1>2. /\ \A l \in Lanes : queues[l].queue = <<>>
      /\ executer = <<>> /\ core = <<>> /\ running = NoEntry
      /\ \A p \in Packets : posts[p] = 0 /\ handled[p] = 0 /\ lost[p] = 0
  BY DEF Init, NewQueue
<1>3. \A l \in Lanes, p \in Packets : InQueue(l, p) = 0
  BY <1>1, <1>2 DEF InQueue
<1>4. ASSUME NEW p \in Packets PROVE Places(p) = 0
  <2>1. /\ Times(queues["high"].queue, p) = 0 /\ Times(queues["low"].queue, p) = 0
        /\ Cardinality({i \in DOMAIN executer : executer[i].packet = p}) = 0
        /\ Cardinality({i \in DOMAIN core : core[i].entry.packet = p}) = 0
    BY <1>1, <1>2, CountsAreAmong DEF Lanes
  <2>2. running.packet # p
    BY <1>2, WimSendThreadAssumption DEF NoEntry
  <2> QED  BY <2>1, <2>2 DEF Places
<1> QED  BY <1>2, <1>3, <1>4 DEF Accounts, PostsAccounted, InItsLane

\* Every post is accounted for and no packet is in two places: a handler is
\* called once per post or never, and then the post is a lost one
\* (post_packet(), the retry and the handler call of on_result_, clear()).
THEOREM EveryPostAccounted == Spec => []PostsAccounted
<1>1. TypeInv <=> TypeOK /\ TaskEntryOK
  BY DEF TypeInv
<1>2. Accounts => PostsAccounted
  BY DEF Accounts
<1>3. QED
  BY <1>1, <1>2, AccountsInit, AccountsStep, TypeCorrect, PTL DEF Spec

-----------------------------------------------------------------------------
(* How often a packet is executed. *)

\* The times a packet is still to be executed.
ToExecute(p) == InQueue("high", p) + InQueue("low", p) + InExecuter(p)

\* RetriesBounded, with the executions to come.
RetryBudget == \A p \in Packets : repeats[p] + ToExecute(p) <= posts[p] + 1

\* Steps that execute nothing and queue nothing keep the budget.
LEMMA BudgetStays ==
    ASSUME TypeOK, TypeOK', RetryBudget, UNCHANGED repeats,
           \A p \in Packets : ToExecute(p)' <= ToExecute(p) /\ posts[p] <= posts'[p]
    PROVE  RetryBudget'
<1> SUFFICES ASSUME NEW p \in Packets PROVE repeats'[p] + ToExecute(p)' <= posts'[p] + 1
  BY DEF RetryBudget
<1>1. /\ repeats[p] \in Nat /\ posts[p] \in Nat /\ posts'[p] \in Nat
      /\ repeats'[p] = repeats[p]
  BY DEF TypeOK
<1>2. ToExecute(p) \in Nat /\ ToExecute(p)' \in Nat
  BY PlacesAreSum DEF AreCounts, ToExecute
<1>3. repeats[p] + ToExecute(p) <= posts[p] + 1 /\ ToExecute(p)' <= ToExecute(p)
      /\ posts[p] <= posts'[p]
  BY DEF RetryBudget
<1> QED  BY <1>1, <1>2, <1>3

\* A packet that is inserted is to be executed once more.
LEMMA InsertToExecute ==
    ASSUME TypeOK, TypeOK', NEW p \in Packets, Insert(p), UNCHANGED executer, NEW r \in Packets
    PROVE  ToExecute(r)' = ToExecute(r) + (IF p = r THEN 1 ELSE 0)
<1>1. \A l \in Lanes : InQueue(l, r)' = InQueue(l, r) + (IF p = r /\ l = Lane(p) THEN 1 ELSE 0)
  BY InsertCount
<1>2. /\ InQueue("high", r)' = InQueue("high", r)
                                 + (IF p = r /\ "high" = Lane(p) THEN 1 ELSE 0)
      /\ InQueue("low", r)' = InQueue("low", r)
                                 + (IF p = r /\ "low" = Lane(p) THEN 1 ELSE 0)
  BY <1>1 DEF Lanes
<1>3. Lane(p) = "high" \/ Lane(p) = "low"
  BY EntryTypes DEF Lanes
<1>4. InExecuter(r)' = InExecuter(r)
  BY DEF InExecuter
<1>5. AreCounts(r)
  BY PlacesAreSum
<1> QED  BY <1>2, <1>3, <1>4, <1>5 DEF ToExecute, AreCounts

\* Every step keeps the budget: the retry looks at repeat_count_, and the
\* packet it puts back is nowhere else.
LEMMA BudgetStep == TypeInv /\ Accounts /\ RetryBudget /\ [Next]_vars => RetryBudget'
<1> SUFFICES ASSUME TypeInv, Accounts, RetryBudget, [Next]_vars PROVE RetryBudget'
  OBVIOUS
<1>t. TypeOK /\ TaskEntryOK /\ TypeOK'
  BY TypeInvStep DEF TypeInv
<1>n. ASSUME NEW p \in Packets
      PROVE  /\ AreCounts(p) /\ AreCounts(p)' /\ Balanced(p)
             /\ repeats[p] \in Nat /\ posts[p] \in Nat /\ posts'[p] \in Nat
             /\ ToExecute(p) \in Nat /\ ToExecute(p)' \in Nat
             /\ repeats[p] + ToExecute(p) <= posts[p] + 1
  <2>1. AreCounts(p) /\ AreCounts(p)' /\ Balanced(p)
    BY <1>t, PlacesAreSum, BalanceIsAccount DEF Accounts
  <2>2. ToExecute(p) \in Nat /\ ToExecute(p)' \in Nat
    BY <2>1 DEF AreCounts, ToExecute
  <2>3. repeats[p] \in Nat /\ posts[p] \in Nat /\ posts'[p] \in Nat
    BY <1>t DEF TypeOK
  <2> QED  BY <2>1, <2>2, <2>3 DEF RetryBudget
<1>q. ASSUME UNCHANGED <<executer, repeats, posts>>,
             \A l \in Lanes : queues'[l].queue = queues[l].queue
      PROVE  RetryBudget'
  <2>1. \A p \in Packets : ToExecute(p)' = ToExecute(p)
    BY <1>q DEF ToExecute, InQueue, InExecuter, Lanes
  <2> QED  BY <1>q, <1>t, <1>n, <2>1, BudgetStays
<1>1. ASSUME NEW p \in Packets, PostPacket(p) PROVE RetryBudget'
  <2>1. posts' = [posts EXCEPT ![p] = @ + 1] /\ UNCHANGED <<repeats, executer>>
    BY <1>1 DEF PostPacket, PostInvalid, PostUnsupported, PostTooEarly, PostAccepted, Bump,
                thread
  <2>2. \A r \in Packets : posts'[r] = IF r = p THEN posts[r] + 1 ELSE posts[r]
    BY <1>t, <2>1 DEF TypeOK
  <2>3. CASE Insert(p)
    <3> SUFFICES ASSUME NEW r \in Packets
                 PROVE  repeats'[r] + ToExecute(r)' <= posts'[r] + 1
      BY DEF RetryBudget
    <3>1. ToExecute(r)' = ToExecute(r) + (IF p = r THEN 1 ELSE 0)
      BY <1>t, <2>1, <2>3, InsertToExecute
    <3>2. repeats'[r] = repeats[r]
      BY <2>1
    <3> QED  BY <1>n, <2>2, <3>1, <3>2
  <2>4. CASE UNCHANGED queues
    <3>1. \A r \in Packets : ToExecute(r)' = ToExecute(r)
      BY <2>1, <2>4 DEF ToExecute, InQueue, InExecuter
    <3>2. \A r \in Packets : posts[r] <= posts'[r] /\ ToExecute(r)' <= ToExecute(r)
      BY <1>n, <2>2, <3>1
    <3> QED  BY <1>t, <2>1, <3>2, BudgetStays
  <2> QED
    BY <1>1, <2>3, <2>4 DEF PostPacket, PostInvalid, PostUnsupported, PostTooEarly,
                            PostAccepted
<1>2. ASSUME NEW n \in ParallelCounts, SetMaxParallelPacketsCount(n) PROVE RetryBudget'
  <2>1. \A l \in Lanes : queues'[l].queue = queues[l].queue
    BY <1>t, <1>2 DEF SetMaxParallelPacketsCount, LowLimit, TypeOK, WithLimit, QueueValues,
                      Lanes
  <2> QED  BY <1>2, <1>q, <2>1 DEF SetMaxParallelPacketsCount, thread, ledger
<1>3. CASE \/ PingSession \/ SessionResult \/ PumpEnd \/ CoolDown \/ UNCHANGED vars
           \/ (\E r \in Results : WorkerFinish(r))
           \/ DeliverResult \/ DeliverExecute \/ DeliverApiError
  <2>1. UNCHANGED <<queues, executer, repeats, posts>>
    BY <1>3 DEF PingSession, SessionResult, PumpEnd, CoolDown, vars, thread, ledger,
                WorkerFinish, DeliverResult, DeliverExecute, DeliverApiError
  <2> QED  BY <1>q, <2>1
<1>4. CASE FullSession
  <2>1. /\ \A l \in Lanes : queues'[l].queue = <<>>
        /\ UNCHANGED <<executer, repeats, posts>>
    BY <1>4 DEF FullSession, Cleared, thread
  <2>2. \A l \in Lanes, r \in Packets : InQueue(l, r)' = 0
    BY <2>1, AmongEmpty DEF InQueue
  <2>3. ASSUME NEW r \in Packets PROVE ToExecute(r)' <= ToExecute(r) /\ posts[r] <= posts'[r]
    <3>1. InExecuter(r)' = InExecuter(r) /\ posts'[r] = posts[r]
      BY <2>1 DEF InExecuter
    <3>2. InQueue("high", r)' = 0 /\ InQueue("low", r)' = 0
      BY <2>2 DEF Lanes
    <3> QED  BY <1>n, <3>1, <3>2 DEF ToExecute, AreCounts
  <2> QED  BY <1>t, <2>1, <2>3, BudgetStays
<1>5. CASE PumpOne
  <2>0. PICK L \in Lanes : L = PumpLane
    BY <1>t, <1>5, PumpLanePops DEF PumpOne
  <2> DEFINE q == queues[L]
             e == [packet |-> Popped(q), lane |-> L]
  <2>1. /\ q \in QueueValues /\ CanPop(q)
        /\ Popped(q) \in Packets /\ e \in Entries
    BY <1>t, <1>5, <2>0, PumpLanePops, PopProperties, EntryTypes DEF PumpOne
  <2>2. /\ executer' = Append(executer, e)
        /\ queues' = [queues EXCEPT ![L] = Pop(@)]
        /\ UNCHANGED <<repeats, posts>>
    BY <1>5, <2>0 DEF PumpOne, ledger
  <2>3. queues'[L] = Pop(q) /\ \A l \in Lanes : l # L => queues'[l] = queues[l]
    BY <1>t, <2>1, <2>2 DEF TypeOK
  <2>4. ASSUME NEW r \in Packets PROVE ToExecute(r)' <= ToExecute(r) /\ posts[r] <= posts'[r]
    <3>1. InExecuter(r)' = InExecuter(r) + Weight(e, EntriesOf(r))
      BY <1>t, <2>1, <2>2, AmongAppend DEF InExecuter, TypeOK
    <3>2. Weight(e, EntriesOf(r)) = Weight(Popped(q), {r})
      BY <2>1 DEF Weight, EntriesOf
    <3>3. InQueue(L, r) = InQueue(L, r)' + Weight(Popped(q), {r})
      <4>1. Among(q.queue, {r}) = Among(Pop(q).queue, {r}) + Weight(Popped(q), {r})
        BY <2>1, PopCount
      <4>2. InQueue(L, r) = Among(q.queue, {r}) /\ InQueue(L, r)' = Among(Pop(q).queue, {r})
        BY <2>3 DEF InQueue
      <4> HIDE DEF q
      <4> QED  BY <4>1, <4>2
    <3>4. \A l \in Lanes : l # L => InQueue(l, r)' = InQueue(l, r)
      BY <2>3 DEF InQueue
    <3>5. Weight(Popped(q), {r}) \in Nat
      BY DEF Weight
    <3>6. L = "high" \/ L = "low"
      BY DEF Lanes
    <3>7. AreCounts(r) /\ AreCounts(r)'
      BY <1>n
    <3> HIDE DEF q, e
    <3>8. ToExecute(r)' = ToExecute(r)
      <4>1. CASE L = "high"
        <5>1. InQueue("low", r)' = InQueue("low", r)
          BY <3>4, <4>1 DEF Lanes
        <5>2. InQueue("high", r) = InQueue("high", r)' + Weight(Popped(q), {r})
          BY <3>3, <4>1
        <5> QED  BY <3>1, <3>2, <3>5, <3>7, <5>1, <5>2 DEF ToExecute, AreCounts
      <4>2. CASE L = "low"
        <5>1. InQueue("high", r)' = InQueue("high", r)
          BY <3>4, <4>2 DEF Lanes
        <5>2. InQueue("low", r) = InQueue("low", r)' + Weight(Popped(q), {r})
          BY <3>3, <4>2
        <5> QED  BY <3>1, <3>2, <3>5, <3>7, <5>1, <5>2 DEF ToExecute, AreCounts
      <4> QED  BY <3>6, <4>1, <4>2
    <3> QED  BY <1>n, <2>2, <3>8
  <2> QED  BY <1>t, <2>2, <2>4, BudgetStays
<1>6. CASE WorkerTake
  <2> DEFINE p == Head(executer).packet
  <2>1. /\ executer \in Seq(Entries) /\ executer # <<>> /\ executer' = Tail(executer)
        /\ Head(executer) \in Entries /\ p \in Packets
        /\ repeats' = [repeats EXCEPT ![p] = @ + 1]
        /\ UNCHANGED <<queues, posts>>
    <3>1. /\ executer \in Seq(Entries) /\ executer # <<>> /\ executer' = Tail(executer)
          /\ repeats' = [repeats EXCEPT ![p] = @ + 1]
          /\ UNCHANGED <<queues, posts>>
      BY <1>t, <1>6 DEF WorkerTake, TypeOK, ledger, Bump
    <3>2. Head(executer) \in Entries
      BY <3>1, ToSetTail
    <3> QED  BY <3>1, <3>2 DEF Entries
  <2> SUFFICES ASSUME NEW r \in Packets
               PROVE  repeats'[r] + ToExecute(r)' <= posts'[r] + 1
    BY DEF RetryBudget
  <2>2. InExecuter(r) = InExecuter(r)' + Weight(Head(executer), EntriesOf(r))
    BY <2>1, AmongTail DEF InExecuter
  <2>3. Weight(Head(executer), EntriesOf(r)) = IF p = r THEN 1 ELSE 0
    BY <2>1 DEF Weight, EntriesOf
  <2>4. repeats'[r] = IF p = r THEN repeats[r] + 1 ELSE repeats[r]
    BY <1>t, <2>1 DEF TypeOK
  <2>5. /\ InQueue("high", r)' = InQueue("high", r) /\ InQueue("low", r)' = InQueue("low", r)
        /\ posts'[r] = posts[r]
    BY <2>1 DEF InQueue
  <2> HIDE DEF p
  <2>6. ToExecute(r) = ToExecute(r)' + (IF p = r THEN 1 ELSE 0)
    BY <1>n, <2>2, <2>3, <2>5 DEF ToExecute, AreCounts
  <2> QED  BY <1>n, <2>4, <2>5, <2>6
<1>7. CASE DeliverRetry
  <2> DEFINE p == Head(core).entry.packet
  <2>1. /\ core # <<>> /\ core' = Tail(core) /\ Insert(p)
        /\ UNCHANGED <<executer, running, repeats, posts>>
        /\ repeats[p] < 2
    BY <1>7 DEF DeliverRetry, CoreIdle, Retries, SentRepeatCount, thread, ledger
  <2>2. p \in Packets
    BY <1>t, <1>7, <2>1, HeadTypes DEF DeliverRetry, TaskEntryOK, Entries
  <2>3. \A r \in Packets : InCore(r) = InCore(r)' + (IF p = r THEN 1 ELSE 0)
    BY <1>t, <2>1, CoreTailCount
  <2> HIDE DEF p
  <2>4. ToExecute(p) = 0 /\ 1 <= posts[p]
    <3>2. PICK r \in Packets : r = p
      BY <2>2
    <3>1. Sum(r) <= 1 /\ posts[r] = handled[r] + lost[r] + Sum(r)
          /\ handled[r] \in Nat /\ lost[r] \in Nat
      BY <1>n, <1>t DEF Balanced, TypeOK
    <3>3. InCore(r) = InCore(r)' + 1 /\ AreCounts(r) /\ AreCounts(r)'
      BY <1>n, <2>3, <3>2
    <3>4. Sum(r) = ToExecute(r) + InRunning(r) + InCore(r)
      BY DEF Sum, ToExecute
    <3>5. ToExecute(r) \in Nat
      BY <1>n
    <3>5a. InCore(r) \in Nat /\ InCore(r)' \in Nat /\ InRunning(r) \in Nat
      BY <3>3 DEF AreCounts
    <3>6. ToExecute(r) = 0 /\ Sum(r) = 1
      BY <3>1, <3>3, <3>4, <3>5, <3>5a
    <3>7. 1 <= posts[r]
      BY <3>1, <3>6
    <3> QED  BY <3>2, <3>6, <3>7
  <2> SUFFICES ASSUME NEW r \in Packets
               PROVE  repeats'[r] + ToExecute(r)' <= posts'[r] + 1
    BY DEF RetryBudget
  <2>5. ToExecute(r)' = ToExecute(r) + (IF p = r THEN 1 ELSE 0)
    BY <1>t, <2>1, <2>2, InsertToExecute
  <2>6. repeats'[r] = repeats[r] /\ posts'[r] = posts[r]
    BY <2>1
  <2> QED  BY <1>n, <2>1, <2>4, <2>5, <2>6
<1>8. CASE CloseScope
  <2>1. closing.lane \in Lanes
    BY <1>t, <1>8 DEF CloseScope, TypeOK, Entries
  <2>2. \A l \in Lanes : queues'[l].queue = queues[l].queue
    BY <1>t, <1>8, <2>1 DEF CloseScope, TypeOK, AllowUsing, QueueValues
  <2> QED  BY <1>8, <1>q, <2>2 DEF CloseScope, thread, ledger
<1> QED
  BY <1>1, <1>2, <1>3, <1>4, <1>5, <1>6, <1>7, <1>8 DEF Next, Pump, Worker, CoreTask

\* A packet is executed at most once more than it was posted, whatever the
\* network answers: on_result_ compares repeat_count_ with sent_repeat_count
\* and nothing resets it.
THEOREM BoundedRetries == Spec => []RetriesBounded
<1>1. Init => RetryBudget
  <2> SUFFICES ASSUME Init, NEW p \in Packets PROVE repeats[p] + ToExecute(p) <= posts[p] + 1
    BY DEF RetryBudget
  <2>1. InQueue("high", p) = 0 /\ InQueue("low", p) = 0 /\ InExecuter(p) = 0
    BY AmongEmpty DEF Init, NewQueue, Lanes, InQueue, InExecuter
  <2>2. repeats[p] = 0 /\ posts[p] = 0
    BY DEF Init
  <2> QED  BY <2>1, <2>2 DEF ToExecute
<1>2. TypeOK /\ RetryBudget => RetriesBounded
  <2> SUFFICES ASSUME TypeOK, RetryBudget, NEW p \in Packets PROVE repeats[p] <= posts[p] + 1
    BY DEF RetriesBounded
  <2>1. ToExecute(p) \in Nat
    BY PlacesAreSum DEF AreCounts, ToExecute
  <2>2. repeats[p] \in Nat /\ posts[p] \in Nat /\ repeats[p] + ToExecute(p) <= posts[p] + 1
    BY DEF TypeOK, RetryBudget
  <2> QED  BY <2>1, <2>2
<1>3. TypeInv <=> TypeOK /\ TaskEntryOK
  BY DEF TypeInv
<1>4. QED
  BY <1>1, <1>2, <1>3, AccountsInit, AccountsStep, BudgetStep, TypeCorrect, PTL DEF Spec


-----------------------------------------------------------------------------
(* The core thread looks again. *)

\* Both queues may always have a key out.  LowLimit takes half the count, so it
\* needs counts of two and more; features.cpp lets wim_parallel_packets_count
\* be 1, and with it the limit of low_priority_queue_ is 0.
TwoAtLeast == \A n \in ParallelCounts : n >= 2

LimitsPositive == \A l \in Lanes : queues[l].limit >= 1

\* A queue none of whose keys is out and that may have one out can be popped
\* as soon as it holds a packet.
LEMMA FreeQueuePops ==
    ASSUME NEW q \in QueueValues, q.extracted = {}
    PROVE  CanPop(q) <=> q.limit >= 1 /\ Free(q) # {}
<1>1. Cardinality(q.extracted) = 0
  BY FS_EmptySet
<1>2. q.limit \in Nat
  BY DEF QueueValues
<1> QED  BY <1>1, <1>2 DEF CanPop, IsLimitReached

\* What a queue operation does to the limit.
LEMMA LimitsKept ==
    ASSUME NEW q \in QueueValues, NEW p \in Packets
    PROVE  /\ Emplace(q, p).limit = q.limit
           /\ Pop(q).limit = q.limit
           /\ Cleared(q).limit = q.limit
           /\ \A m : AllowUsing(q, m).limit = q.limit
BY DEF QueueValues, Emplace, Pop, Cleared, AllowUsing

\* set_max_parallel_packets_count() is the only call that changes a limit.
LEMMA LimitsPositiveStep ==
    ASSUME TwoAtLeast, TypeInv, LimitsPositive, [Next]_vars
    PROVE  LimitsPositive'
<1>t. TypeOK /\ TaskEntryOK
  BY DEF TypeInv
<1>0. ASSUME \A l \in Lanes : queues'[l].limit = queues[l].limit PROVE LimitsPositive'
  BY <1>0 DEF LimitsPositive
<1>i. ASSUME NEW p \in Packets, Insert(p) PROVE LimitsPositive'
  <2>1. Lane(p) \in Lanes /\ queues[Lane(p)] \in QueueValues
    BY <1>t, EntryTypes DEF TypeOK
  <2>2. Emplace(queues[Lane(p)], p).limit = queues[Lane(p)].limit
    BY <2>1, LimitsKept
  <2>3. \A l \in Lanes : queues'[l].limit = queues[l].limit
    BY <1>t, <1>i, <2>1, <2>2 DEF Insert, TypeOK
  <2> QED  BY <1>0, <2>3
<1>1. ASSUME NEW p \in Packets, PostPacket(p) PROVE LimitsPositive'
  BY <1>0, <1>1, <1>i DEF PostPacket, PostInvalid, PostUnsupported, PostTooEarly,
                          PostAccepted
<1>2. ASSUME NEW n \in ParallelCounts, SetMaxParallelPacketsCount(n) PROVE LimitsPositive'
  <2>1. n \in Nat /\ n >= 2 /\ n \div 2 >= 1 /\ n - n \div 2 >= 1
    BY WimSendThreadAssumption DEF TwoAtLeast
  <2> QED
    BY <1>t, <1>2, <2>1 DEF SetMaxParallelPacketsCount, LowLimit, TypeOK, WithLimit,
                            QueueValues, Lanes, LimitsPositive
<1>3. CASE FullSession
  <2>1. \A l \in Lanes : queues'[l].limit = queues[l].limit
    BY <1>3 DEF FullSession, Cleared
  <2> QED  BY <1>0, <2>1
<1>4. CASE PumpOne
  <2>1. PumpLane \in Lanes /\ Pop(queues[PumpLane]).limit = queues[PumpLane].limit
    BY <1>t, <1>4, PumpLanePops, PopProperties, LimitsKept DEF PumpOne
  <2>2. \A l \in Lanes : queues'[l].limit = queues[l].limit
    BY <1>t, <1>4, <2>1 DEF PumpOne, TypeOK
  <2> QED  BY <1>0, <2>2
<1>5. CASE DeliverRetry
  <2>1. Head(core).entry.packet \in Packets
    BY <1>t, <1>5, HeadTypes DEF DeliverRetry, CoreIdle, TaskEntryOK, Entries
  <2> QED  BY <1>5, <1>i, <2>1 DEF DeliverRetry
<1>6. CASE CloseScope
  <2>1. closing.lane \in Lanes
    BY <1>t, <1>6 DEF CloseScope, TypeOK, Entries
  <2>2. \A l \in Lanes : queues'[l].limit = queues[l].limit
    BY <1>t, <1>6, <2>1 DEF CloseScope, TypeOK, AllowUsing, QueueValues
  <2> QED  BY <1>0, <2>2
<1>7. CASE \/ PingSession \/ SessionResult \/ PumpEnd \/ WorkerTake
           \/ (\E r \in Results : WorkerFinish(r))
           \/ DeliverResult \/ DeliverExecute \/ DeliverApiError
           \/ CoolDown \/ UNCHANGED vars
  BY <1>0, <1>7 DEF PingSession, SessionResult, PumpEnd, WorkerTake, WorkerFinish,
       DeliverResult, DeliverExecute, DeliverApiError, CoolDown, vars
<1> QED
  BY <1>1, <1>2, <1>3, <1>4, <1>5, <1>6, <1>7 DEF Next, Pump, Worker, CoreTask

\* Something will make the core thread look again.
WillLook ==
    \/ InFlight # {}
    \/ \E t \in ToSet(core) : t.kind = "execute"
    \/ starting # "no"

\* Every step keeps NoLostWakeup: a packet is put into a queue in front of a
\* call of execute_packet_from_queue() only, and what takes the last reason to
\* look again away looks.
LEMMA NoLostWakeupStep ==
    ASSUME TypeInv, ExtractedInFlight, LimitsPositive, NoLostWakeup, [Next]_vars
    PROVE  NoLostWakeup'
<1>t. TypeOK /\ TaskEntryOK
  BY DEF TypeInv
<1>p. ASSUME pumping' PROVE NoLostWakeup'
  BY <1>p DEF NoLostWakeup
<1>w. ASSUME WillLook' PROVE NoLostWakeup'
  BY <1>w DEF NoLostWakeup, WillLook
<1>k. ASSUME pumping' = pumping, Pumpable' => Pumpable, WillLook => WillLook'
      PROVE  NoLostWakeup'
  BY <1>k DEF NoLostWakeup, WillLook
<1>e. NoEntry \notin Entries
  BY EntryTypes
<1>1. ASSUME NEW p \in Packets, PostPacket(p) PROVE NoLostWakeup'
  <2>1. CASE PostAccepted(p)
    BY <1>p, <2>1 DEF PostAccepted
  <2>2. CASE PostInvalid(p)
    <3>1. UNCHANGED <<queues, locked, executer, running, core, pumping, closing, starting>>
      BY <2>2 DEF PostInvalid, thread, session
    <3> QED  BY <1>k, <3>1 DEF Pumpable, WillLook, InFlight
  <2>3. CASE PostUnsupported(p)
    <3>1. /\ UNCHANGED <<queues, locked, executer, running, pumping, closing, starting>>
          /\ core' = Append(core, ApiErrorTask(p)) /\ ApiErrorTask(p) \in CoreTasks
          /\ core \in Seq(CoreTasks)
      BY <1>t, <2>3, TaskTypes DEF PostUnsupported, thread, session, TypeOK
    <3>2. ToSet(core) \subseteq ToSet(core')
      BY <3>1, ToSetAppend
    <3>3. InFlight \subseteq InFlight'
      BY <3>1, <3>2 DEF InFlight
    <3> QED  BY <1>k, <3>1, <3>2, <3>3 DEF Pumpable, WillLook
  <2>4. CASE PostTooEarly(p)
    <3>1. /\ core' = Append(core, ExecuteTask) /\ ExecuteTask \in CoreTasks
          /\ core \in Seq(CoreTasks) /\ ExecuteTask.kind = "execute"
      BY <1>t, <2>4, TaskTypes DEF PostTooEarly, TypeOK, ExecuteTask
    <3>2. ExecuteTask \in ToSet(core')
      BY <3>1, ToSetAppend
    <3> QED  BY <1>w, <3>1, <3>2 DEF WillLook
  <2> QED  BY <1>1, <2>1, <2>2, <2>3, <2>4 DEF PostPacket
<1>2. ASSUME NEW n \in ParallelCounts, SetMaxParallelPacketsCount(n) PROVE NoLostWakeup'
  <2>1. UNCHANGED <<locked, executer, running, core, pumping, closing, starting>>
    BY <1>2 DEF SetMaxParallelPacketsCount, thread, session
  <2>2. WillLook' <=> WillLook
    BY <2>1 DEF WillLook, InFlight
  <2>3. CASE WillLook
    BY <1>w, <2>2, <2>3
  <2>4. CASE ~WillLook /\ Pumpable'
    <3>1. InFlight = {}
      BY <2>4 DEF WillLook
    <3>2. \A l \in Lanes : queues[l].extracted = {}
      BY <3>1 DEF ExtractedInFlight
    <3>3. PICK l \in Lanes : CanPop(queues'[l])
      BY <2>4 DEF Pumpable
    <3>4. /\ queues'[l].queue = queues[l].queue
          /\ queues'[l].extracted = queues[l].extracted
          /\ queues[l] \in QueueValues
      BY <1>t, <1>2 DEF SetMaxParallelPacketsCount, LowLimit, TypeOK, WithLimit, QueueValues,
                        Lanes
    <3>5. Free(queues[l]) # {}
      BY <3>3, <3>4 DEF CanPop, Free
    <3>6. CanPop(queues[l])
      BY <3>2, <3>4, <3>5, FreeQueuePops DEF LimitsPositive
    <3>7. Pumpable
      BY <2>1, <2>4, <3>6 DEF Pumpable
    <3> QED  BY <1>k, <2>1, <2>2, <3>7
  <2>5. CASE ~Pumpable'
    BY <2>5 DEF NoLostWakeup
  <2> QED  BY <2>3, <2>4, <2>5
<1>3. CASE PingSession \/ FullSession
  <2>1. starting' # "no"
    BY <1>3 DEF PingSession, FullSession, BeginSession
  <2> QED  BY <1>w, <2>1 DEF WillLook
<1>4. CASE SessionResult \/ PumpOne \/ DeliverExecute \/ CloseScope
  BY <1>4, <1>p DEF SessionResult, PumpOne, DeliverExecute, CloseScope
<1>5. CASE PumpEnd
  <2>1. ~Pumpable'
    BY <1>5 DEF PumpEnd, Pumpable
  <2> QED  BY <2>1 DEF NoLostWakeup
<1>6. CASE WorkerTake
  <2>1. running' \in Entries
    BY <1>t, <1>6, ToSetTail DEF WorkerTake, TypeOK
  <2>2. running' \in InFlight'
    BY <1>e, <2>1 DEF InFlight
  <2> QED  BY <1>w, <2>2 DEF WillLook
<1>7. ASSUME NEW r \in Results, WorkerFinish(r) PROVE NoLostWakeup'
  <2>1. /\ ResultOf(running, r) \in CoreTasks /\ core \in Seq(CoreTasks)
        /\ ResultOf(running, r).kind = "result"
        /\ core' = Append(core, ResultOf(running, r))
    BY <1>t, <1>7, TaskTypes DEF WorkerFinish, TypeOK, ResultOf
  <2>2. ResultOf(running, r) \in ToSet(core')
    BY <2>1, ToSetAppend
  <2>3. ResultOf(running, r).entry \in InFlight'
    BY <2>1, <2>2 DEF InFlight
  <2> QED  BY <1>w, <2>3 DEF WillLook
<1>8. CASE DeliverRetry \/ DeliverResult
  <2>1. closing' \in Entries
    BY <1>t, <1>8, HeadTypes DEF DeliverRetry, DeliverResult, CoreIdle, TaskEntryOK
  <2>2. closing' \in InFlight'
    BY <1>e, <2>1 DEF InFlight
  <2> QED  BY <1>w, <2>2 DEF WillLook
<1>9. CASE DeliverApiError
  <2>1. /\ UNCHANGED <<queues, locked, executer, running, pumping, closing, starting>>
        /\ core # <<>> /\ core' = Tail(core) /\ Head(core).kind = "api_error"
    BY <1>9 DEF DeliverApiError, CoreIdle, thread, session
  <2>2. ToSet(core) = ToSet(core') \union {Head(core)}
    BY <1>t, <2>1, HeadTypes
  <2>3. InFlight \subseteq InFlight'
    BY <2>1, <2>2 DEF InFlight
  <2> QED  BY <1>k, <2>1, <2>2, <2>3 DEF Pumpable, WillLook
<1>10. CASE CoolDown \/ UNCHANGED vars
  <2>1. UNCHANGED <<queues, locked, executer, running, core, pumping, closing, starting>>
    BY <1>10 DEF CoolDown, vars, thread, session
  <2> QED  BY <1>k, <2>1 DEF Pumpable, WillLook, InFlight
<1> QED
  BY <1>1, <1>2, <1>3, <1>4, <1>5, <1>6, <1>7, <1>8, <1>9, <1>10
     DEF Next, Pump, Worker, CoreTask

\* The core thread never leaves a packet behind that could be popped, whatever
\* the packet limit is changed to, as long as it is two or more
\* (set_max_parallel_packets_count() does not execute anything itself).
THEOREM NoWakeupLost ==
    ASSUME TwoAtLeast
    PROVE  Spec => []NoLostWakeup
<1>1. Init => LimitsPositive /\ NoLostWakeup
  BY DEF Init, NewQueue, LimitsPositive, NoLostWakeup, Pumpable, CanPop, Free
<1>2. TypeInv <=> TypeOK /\ TaskEntryOK
  BY DEF TypeInv
<1>3. TypeInv /\ LimitsPositive /\ [Next]_vars => LimitsPositive'
  BY LimitsPositiveStep
<1>4. TypeInv /\ ExtractedInFlight /\ LimitsPositive /\ NoLostWakeup /\ [Next]_vars
        => NoLostWakeup'
  BY NoLostWakeupStep
<1>5. QED
  BY <1>1, <1>2, <1>3, <1>4, TypeCorrect, NoBlockedMethod, PTL DEF Spec


-----------------------------------------------------------------------------
(* One packet per key. *)

\* The entries and the results that hold the key of a method in a queue.
KeyEntries(l, m) == {e \in Entries : e.lane = l /\ Method[e.packet] = m}
KeyTasks(l, m) == {t \in CoreTasks : t.kind = "result" /\ t.entry \in KeyEntries(l, m)}

\* How many packets in flight hold it, one component after the other.
KeyExecuter(l, m) == Among(executer, KeyEntries(l, m))
KeyRunning(l, m) == Weight(running, KeyEntries(l, m))
KeyClosing(l, m) == Weight(closing, KeyEntries(l, m))
KeyCore(l, m) == Among(core, KeyTasks(l, m))
KeyCount(l, m) == KeyExecuter(l, m) + KeyRunning(l, m) + KeyClosing(l, m) + KeyCore(l, m)

KeyOut(l, m) == IF m \in queues[l].extracted THEN 1 ELSE 0

\* As long as no full start found packets, a key is out exactly once for each
\* packet that holds it.
KeysMatch == stopped = {} => \A l \in Lanes, m \in Methods : KeyCount(l, m) = KeyOut(l, m)

\* A packet in flight came from the queue it would be put back into.
EntryLane == \A e \in InFlight : e.lane = Lane(e.packet)

\* The packet whose scope guard has yet to run was posted.
ClosingPosted == closing # NoEntry => posts[closing.packet] > 0

\* The counts are numbers, in a state and in the next one.
LEMMA KeyCountTypes ==
    ASSUME NEW l \in Lanes, NEW m \in Methods
    PROVE  /\ TypeOK => /\ KeyExecuter(l, m) \in Nat /\ KeyRunning(l, m) \in {0, 1}
                        /\ KeyClosing(l, m) \in {0, 1} /\ KeyCore(l, m) \in Nat
           /\ TypeOK' => /\ KeyExecuter(l, m)' \in Nat /\ KeyRunning(l, m)' \in {0, 1}
                         /\ KeyClosing(l, m)' \in {0, 1} /\ KeyCore(l, m)' \in Nat
<1>1. ASSUME TypeOK
      PROVE  /\ KeyExecuter(l, m) \in Nat /\ KeyRunning(l, m) \in {0, 1}
             /\ KeyClosing(l, m) \in {0, 1} /\ KeyCore(l, m) \in Nat
  <2>1. executer \in Seq(Entries) /\ core \in Seq(CoreTasks)
    BY <1>1 DEF TypeOK
  <2> QED
    BY <2>1, AmongType DEF KeyExecuter, KeyRunning, KeyClosing, KeyCore, Weight
<1>2. ASSUME TypeOK'
      PROVE  /\ KeyExecuter(l, m)' \in Nat /\ KeyRunning(l, m)' \in {0, 1}
             /\ KeyClosing(l, m)' \in {0, 1} /\ KeyCore(l, m)' \in Nat
  <2>1. executer' \in Seq(Entries) /\ core' \in Seq(CoreTasks)
    BY <1>2 DEF TypeOK
  <2> QED
    BY <2>1, AmongType DEF KeyExecuter, KeyRunning, KeyClosing, KeyCore, Weight
<1> QED  BY <1>1, <1>2

\* An entry in flight is one of the counted ones.
LEMMA InFlightIsCounted ==
    ASSUME TypeOK, NEW l \in Lanes, NEW m \in Methods,
           NEW e \in InFlight, e \in KeyEntries(l, m)
    PROVE  \/ (\E i \in DOMAIN executer : executer[i] = e) /\ KeyExecuter(l, m) >= 1
           \/ running = e /\ KeyRunning(l, m) = 1
           \/ closing = e /\ KeyClosing(l, m) = 1
           \/ /\ \E i \in DOMAIN core : core[i] \in KeyTasks(l, m) /\ core[i].entry = e
              /\ KeyCore(l, m) >= 1
<1>0. executer \in Seq(Entries) /\ core \in Seq(CoreTasks)
  BY DEF TypeOK
<1>1. CASE e \in ToSet(executer)
  <2>1. \E i \in DOMAIN executer : executer[i] = e
    BY <1>1 DEF ToSet
  <2>2. KeyExecuter(l, m) # 0 /\ KeyExecuter(l, m) \in Nat
    BY <1>0, <2>1, AmongZero, AmongType DEF KeyExecuter
  <2> QED  BY <2>1, <2>2
<1>2. CASE e \in {running, closing}
  BY <1>2 DEF KeyRunning, KeyClosing, Weight
<1>3. CASE \E t \in ToSet(core) : t.kind = "result" /\ t.entry = e
  <2>1. PICK i \in DOMAIN core : core[i].kind = "result" /\ core[i].entry = e
    BY <1>3 DEF ToSet
  <2>2. core[i] \in CoreTasks
    BY <1>0, <2>1, ElementOfSeq, LenProperties
  <2>3. core[i] \in KeyTasks(l, m)
    BY <2>1, <2>2 DEF KeyTasks
  <2>4. KeyCore(l, m) # 0 /\ KeyCore(l, m) \in Nat
    BY <1>0, <2>1, <2>3, AmongZero, AmongType DEF KeyCore
  <2> QED  BY <2>1, <2>3, <2>4
<1> QED  BY <1>1, <1>2, <1>3 DEF InFlight

\* A key held once is held by one entry.
LEMMA OneEntryPerKey ==
    ASSUME TypeOK, NEW l \in Lanes, NEW m \in Methods, KeyCount(l, m) <= 1,
           NEW e \in InFlight, e \in KeyEntries(l, m),
           NEW f \in InFlight, f \in KeyEntries(l, m)
    PROVE  e = f
<1>0. executer \in Seq(Entries) /\ core \in Seq(CoreTasks)
  BY DEF TypeOK
<1>t. /\ KeyExecuter(l, m) \in Nat /\ KeyRunning(l, m) \in {0, 1}
      /\ KeyClosing(l, m) \in {0, 1} /\ KeyCore(l, m) \in Nat
      /\ KeyExecuter(l, m) + KeyRunning(l, m) + KeyClosing(l, m) + KeyCore(l, m) <= 1
  BY KeyCountTypes DEF KeyCount
<1> DEFINE InEx(x) == \E i \in DOMAIN executer : executer[i] = x
           InCo(x) == \E i \in DOMAIN core : core[i] \in KeyTasks(l, m) /\ core[i].entry = x
<1>e. \/ InEx(e) /\ KeyExecuter(l, m) >= 1
      \/ running = e /\ KeyRunning(l, m) = 1
      \/ closing = e /\ KeyClosing(l, m) = 1
      \/ InCo(e) /\ KeyCore(l, m) >= 1
  BY InFlightIsCounted
<1>f. \/ InEx(f) /\ KeyExecuter(l, m) >= 1
      \/ running = f /\ KeyRunning(l, m) = 1
      \/ closing = f /\ KeyClosing(l, m) = 1
      \/ InCo(f) /\ KeyCore(l, m) >= 1
  BY InFlightIsCounted
<1>1. CASE InEx(e) /\ InEx(f) /\ KeyExecuter(l, m) >= 1
  <2>1. PICK i \in DOMAIN executer : executer[i] = e
    BY <1>1
  <2>2. PICK j \in DOMAIN executer : executer[j] = f
    BY <1>1
  <2>3. Among(executer, KeyEntries(l, m)) <= 1
    BY <1>t DEF KeyExecuter
  <2> QED  BY <1>0, <2>1, <2>2, <2>3, AmongOne
<1>2. CASE InCo(e) /\ InCo(f) /\ KeyCore(l, m) >= 1
  <2>1. PICK i \in DOMAIN core : core[i] \in KeyTasks(l, m) /\ core[i].entry = e
    BY <1>2
  <2>2. PICK j \in DOMAIN core : core[j] \in KeyTasks(l, m) /\ core[j].entry = f
    BY <1>2
  <2>3. Among(core, KeyTasks(l, m)) <= 1
    BY <1>t DEF KeyCore
  <2>4. i = j
    BY <1>0, <2>1, <2>2, <2>3, AmongOne
  <2> QED  BY <2>1, <2>2, <2>4
<1>3. CASE (running = e /\ running = f) \/ (closing = e /\ closing = f)
  BY <1>3
<1> HIDE DEF InEx, InCo
<1> QED  BY <1>t, <1>e, <1>f, <1>1, <1>2, <1>3

\* So keys that match keep packets of one method apart.
LEMMA MatchIsExclusive == TypeInv /\ EntryLane /\ KeysMatch => Exclusive
<1> SUFFICES ASSUME TypeInv, EntryLane, KeysMatch, stopped = {},
                    NEW p \in Packets, NEW r \in Packets,
                    p # r, Method[p] = Method[r], Lane(p) = Lane(r),
                    NEW e \in InFlight, NEW f \in InFlight, e.packet = p, f.packet = r
             PROVE  FALSE
  BY DEF Exclusive
<1>1. TypeOK /\ InFlight \subseteq Entries
  <2>1. TypeOK /\ TaskEntryOK
    BY DEF TypeInv
  <2>2. ToSet(executer) \subseteq Entries
    <3>1. executer \in Seq(Entries)
      BY <2>1 DEF TypeOK
    <3> QED  BY <3>1, ElementOfSeq, LenProperties DEF ToSet
  <2>3. {running, closing} \ {NoEntry} \subseteq Entries
    BY <2>1 DEF TypeOK
  <2> QED  BY <2>1, <2>2, <2>3 DEF InFlight, TaskEntryOK
<1>2. Lane(p) \in Lanes /\ Method[p] \in Methods
  BY EntryTypes, PacketsAssumption
<1>3. e \in KeyEntries(Lane(p), Method[p]) /\ f \in KeyEntries(Lane(p), Method[p])
  BY <1>1 DEF EntryLane, KeyEntries
<1>4. KeyCount(Lane(p), Method[p]) <= 1
  BY <1>2 DEF KeysMatch, KeyOut
<1>5. e = f
  BY <1>1, <1>2, <1>3, <1>4, OneEntryPerKey
<1> QED  BY <1>5


\* A packet somewhere was posted.
LEMMA PlacedWasPosted ==
    ASSUME TypeOK, PostsAccounted, NEW p \in Packets
    PROVE  posts[p] = 0 => Sum(p) = 0
<1>1. Balanced(p) /\ AreCounts(p)
  BY PlacesAreSum, BalanceIsAccount
<1>2. posts[p] \in Nat /\ handled[p] \in Nat /\ lost[p] \in Nat
  BY DEF TypeOK
<1>3. Sum(p) \in Nat
  BY <1>1 DEF Sum, AreCounts
<1> QED  BY <1>1, <1>2, <1>3 DEF Balanced

\* The handler runs for a packet that was posted.
LEMMA ClosingPostedStep == TypeInv /\ Accounts /\ ClosingPosted /\ [Next]_vars => ClosingPosted'
<1> SUFFICES ASSUME TypeInv, Accounts, ClosingPosted, [Next]_vars PROVE ClosingPosted'
  OBVIOUS
<1>t. TypeOK /\ TaskEntryOK
  BY DEF TypeInv
<1>1. CASE DeliverRetry \/ DeliverResult
  <2>1. /\ core # <<>> /\ Head(core).kind = "result" /\ closing' = Head(core).entry
        /\ posts' = posts
    BY <1>1 DEF DeliverRetry, DeliverResult, CoreIdle, ledger
  <2>2. Head(core) \in CoreTasks /\ Head(core).entry.packet \in Packets
    BY <1>t, <2>1, HeadTypes DEF TaskEntryOK, Entries
  <2>3. PICK p \in Packets : p = Head(core).entry.packet
    BY <2>2
  <2>4. core \in Seq(CoreTasks) /\ InCore(p) \in Nat
    BY <1>t, PlacesAreSum DEF TypeOK, AreCounts
  <2>5. InCore(p) # 0
    <3>1. 1 \in DOMAIN core /\ core[1] \in TasksOf(p)
      BY <2>1, <2>2, <2>3, <2>4 DEF TasksOf
    <3> QED  BY <2>4, <3>1, AmongZero DEF InCore
  <2>6. Sum(p) # 0
    BY <1>t, <2>4, <2>5, PlacesAreSum DEF Sum, AreCounts
  <2>7. posts[p] # 0 /\ posts[p] \in Nat
    BY <1>t, <2>6, PlacedWasPosted DEF Accounts, TypeOK
  <2> QED  BY <2>1, <2>3, <2>7 DEF ClosingPosted
<1>2. ASSUME NEW p \in Packets, PostPacket(p) PROVE ClosingPosted'
  <2>1. posts' = [posts EXCEPT ![p] = @ + 1] /\ closing' = closing
    BY <1>2 DEF PostPacket, PostInvalid, PostUnsupported, PostTooEarly, PostAccepted, Bump
  <2>2. closing # NoEntry => closing.packet \in Packets
    BY <1>t DEF TypeOK, Entries
  <2> QED  BY <1>t, <2>1, <2>2 DEF ClosingPosted, TypeOK
<1>3. CASE CloseScope
  BY <1>3 DEF CloseScope, ClosingPosted
<1>4. CASE \/ (\E n \in ParallelCounts : SetMaxParallelPacketsCount(n))
           \/ PingSession \/ FullSession \/ SessionResult \/ Pump \/ Worker
           \/ DeliverExecute \/ DeliverApiError \/ CoolDown \/ UNCHANGED vars
  <2>1. UNCHANGED <<closing, posts>>
    BY <1>4 DEF SetMaxParallelPacketsCount, PingSession, FullSession, SessionResult, Pump,
                PumpOne, PumpEnd, Worker, WorkerTake, WorkerFinish, DeliverExecute,
                DeliverApiError, CoolDown, vars, ledger
  <2> QED  BY <2>1 DEF ClosingPosted
<1> QED  BY <1>1, <1>2, <1>3, <1>4 DEF Next, CoreTask

\* Only a pop puts an entry in flight, and it pops from the queue the packet
\* was inserted in.
LEMMA EntryLaneStep == TypeInv /\ Accounts /\ EntryLane /\ [Next]_vars => EntryLane'
<1> SUFFICES ASSUME TypeInv, Accounts, EntryLane, [Next]_vars PROVE EntryLane'
  OBVIOUS
<1>t. TypeOK /\ TaskEntryOK
  BY DEF TypeInv
<1>0. ASSUME InFlight' \subseteq InFlight PROVE EntryLane'
  BY <1>0 DEF EntryLane
<1>1. CASE PumpOne
  <2>0. PICK L \in Lanes : L = PumpLane
    BY <1>t, <1>1, PumpLanePops DEF PumpOne
  <2> DEFINE q == queues[L]
             e == [packet |-> Popped(q), lane |-> L]
  <2>1. /\ q \in QueueValues /\ CanPop(q) /\ Popped(q) \in Packets /\ e \in Entries
    BY <1>t, <1>1, <2>0, PumpLanePops, PopProperties, EntryTypes DEF PumpOne
  <2>2. PICK p \in Packets : p = Popped(q)
    BY <2>1
  <2>3. InQueue(L, p) # 0
    <3>1. Among(q.queue, {p}) = Among(Pop(q).queue, {p}) + 1
      BY <2>1, <2>2, PopCount DEF Weight
    <3>2. Pop(q).queue \in Seq(Packets)
      BY <2>1, PopProperties DEF QueueValues
    <3>3. Among(Pop(q).queue, {p}) \in Nat
      BY <3>2, AmongType
    <3> QED  BY <3>1, <3>3 DEF InQueue
  <2>4. Lane(p) = L
    BY <2>3 DEF Accounts, InItsLane
  <2>5. ToSet(executer') = ToSet(executer) \union {e}
    BY <1>t, <1>1, <2>0, <2>1, ToSetAppend DEF PumpOne, TypeOK
  <2>6. InFlight' \subseteq InFlight \union {e}
    BY <1>1, <2>5 DEF PumpOne, InFlight
  <2>7. e.lane = Lane(e.packet)
    BY <2>2, <2>4
  <2> HIDE DEF e
  <2> QED  BY <2>6, <2>7 DEF EntryLane
<1>2. CASE WorkerTake
  <2>1. executer \in Seq(Entries) /\ executer # <<>> /\ executer' = Tail(executer)
    BY <1>t, <1>2 DEF WorkerTake, TypeOK
  <2>2. ToSet(executer) = ToSet(executer') \union {Head(executer)}
    BY <2>1, ToSetTail
  <2>3. InFlight' \subseteq InFlight
    BY <1>2, <2>2 DEF WorkerTake, InFlight
  <2> QED  BY <1>0, <2>3
<1>3. ASSUME NEW r \in Results, WorkerFinish(r) PROVE EntryLane'
  <2>1. ResultOf(running, r) \in CoreTasks
    BY <1>t, <1>3, TaskTypes DEF WorkerFinish, TypeOK
  <2>2. ToSet(core') = ToSet(core) \union {ResultOf(running, r)}
    BY <1>t, <1>3, <2>1, ToSetAppend DEF WorkerFinish, TypeOK
  <2>3. running \in InFlight
    BY <1>3 DEF WorkerFinish, InFlight
  <2>4. InFlight' \subseteq InFlight
    BY <1>3, <2>2, <2>3 DEF WorkerFinish, InFlight, ResultOf
  <2> QED  BY <1>0, <2>4
<1>4. CASE CoreTask
  <2>1. /\ core # <<>> /\ core' = Tail(core)
        /\ UNCHANGED <<executer, running>>
    BY <1>4 DEF CoreTask, DeliverRetry, DeliverResult, DeliverExecute, DeliverApiError,
                CoreIdle, thread
  <2>2. ToSet(core) = ToSet(core') \union {Head(core)}
    BY <1>t, <2>1, HeadTypes
  <2>3. closing' = closing \/ (Head(core).kind = "result" /\ closing' = Head(core).entry)
    BY <1>4 DEF CoreTask, DeliverRetry, DeliverResult, DeliverExecute, DeliverApiError
  <2>4. InFlight' \subseteq InFlight
    BY <2>1, <2>2, <2>3 DEF InFlight
  <2> QED  BY <1>0, <2>4
<1>5. ASSUME NEW p \in Packets, PostPacket(p) PROVE EntryLane'
  <2>1. UNCHANGED <<executer, running, closing>>
    BY <1>5 DEF PostPacket, PostInvalid, PostUnsupported, PostTooEarly, PostAccepted, thread
  <2>2. /\ ApiErrorTask(p) \in CoreTasks /\ ApiErrorTask(p).kind # "result"
        /\ ExecuteTask \in CoreTasks /\ ExecuteTask.kind # "result"
        /\ core \in Seq(CoreTasks)
    BY <1>t, TaskTypes DEF ApiErrorTask, ExecuteTask, TypeOK
  <2>3. \/ core' = core \/ core' = Append(core, ApiErrorTask(p))
        \/ core' = Append(core, ExecuteTask)
    BY <1>5 DEF PostPacket, PostInvalid, PostUnsupported, PostTooEarly, PostAccepted
  <2>4. \A t \in ToSet(core') : t.kind = "result" => t \in ToSet(core)
    <3>1. \A u \in CoreTasks : ToSet(Append(core, u)) = ToSet(core) \union {u}
      BY <2>2, ToSetAppend
    <3>2. \/ ToSet(core') = ToSet(core)
          \/ ToSet(core') = ToSet(core) \union {ApiErrorTask(p)}
          \/ ToSet(core') = ToSet(core) \union {ExecuteTask}
      BY <2>2, <2>3, <3>1
    <3> QED  BY <2>2, <3>2
  <2>5. InFlight' \subseteq InFlight
    BY <2>1, <2>4 DEF InFlight
  <2> QED  BY <1>0, <2>5
<1>6. CASE CloseScope
  <2>1. InFlight' \subseteq InFlight
    BY <1>6 DEF CloseScope, InFlight, thread
  <2> QED  BY <1>0, <2>1
<1>7. CASE \/ (\E n \in ParallelCounts : SetMaxParallelPacketsCount(n))
           \/ PingSession \/ FullSession \/ SessionResult \/ PumpEnd \/ CoolDown
           \/ UNCHANGED vars
  <2>1. UNCHANGED <<executer, running, core, closing>>
    BY <1>7 DEF SetMaxParallelPacketsCount, PingSession, FullSession, SessionResult, PumpEnd,
                CoolDown, vars, thread
  <2> QED  BY <1>0, <2>1 DEF InFlight
<1> QED
  BY <1>1, <1>2, <1>3, <1>4, <1>5, <1>6, <1>7 DEF Next, Pump, Worker


\* Steps that leave what is in flight and the keys as they are.
LEMMA KeysStay ==
    ASSUME KeysMatch, UNCHANGED <<executer, running, closing, core, stopped>>,
           \A l \in Lanes : queues'[l].extracted = queues[l].extracted
    PROVE  KeysMatch'
BY DEF KeysMatch, KeyCount, KeyExecuter, KeyRunning, KeyClosing, KeyCore, KeyOut

\* A step that moves what holds a key from one component to the next.
LEMMA KeysMove ==
    ASSUME KeysMatch, stopped' = stopped,
           \A l \in Lanes : queues'[l].extracted = queues[l].extracted,
           \A l \in Lanes, m \in Methods : KeyCount(l, m)' = KeyCount(l, m)
    PROVE  KeysMatch'
BY DEF KeysMatch, KeyOut

\* The tasks of the core thread's queue that hold a key.
LEMMA KeyCoreAppend ==
    ASSUME TypeOK, NEW t \in CoreTasks, core' = Append(core, t),
           NEW l \in Lanes, NEW m \in Methods
    PROVE  KeyCore(l, m)' = KeyCore(l, m) + Weight(t, KeyTasks(l, m))
<1>1. core \in Seq(CoreTasks)
  BY DEF TypeOK
<1> QED  BY <1>1, AmongAppend DEF KeyCore

\* Taking the first one of them.
LEMMA KeyCoreTail ==
    ASSUME TypeOK, core # <<>>, core' = Tail(core), NEW l \in Lanes, NEW m \in Methods
    PROVE  KeyCore(l, m) = KeyCore(l, m)' + Weight(Head(core), KeyTasks(l, m))
<1>1. core \in Seq(CoreTasks)
  BY DEF TypeOK
<1> QED  BY <1>1, AmongTail DEF KeyCore

\* A full start that found no packet posted found none in flight either.
LEMMA NothingPostedNothingOut ==
    ASSUME TypeInv, PostsAccounted, ClosingPosted, \A p \in Packets : posts[p] = 0,
           NEW l \in Lanes, NEW m \in Methods
    PROVE  KeyCount(l, m) = 0
<1>t. TypeOK /\ TaskEntryOK /\ executer \in Seq(Entries) /\ core \in Seq(CoreTasks)
  BY DEF TypeInv, TypeOK
<1>1. ASSUME NEW p \in Packets PROVE InExecuter(p) = 0 /\ InRunning(p) = 0 /\ InCore(p) = 0
  <2>1. Sum(p) = 0 /\ AreCounts(p)
    BY <1>t, PlacedWasPosted, PlacesAreSum
  <2> QED  BY <2>1 DEF Sum, AreCounts
<1>2. KeyExecuter(l, m) = 0
  <2>1. ASSUME NEW i \in DOMAIN executer PROVE executer[i] \notin KeyEntries(l, m)
    <3>0. executer[i] \in Entries
      BY <1>t, ElementOfSeq, LenProperties
    <3>1. executer[i] \in Entries /\ executer[i].packet \in Packets
      BY <3>0 DEF Entries
    <3>2. PICK p \in Packets : p = executer[i].packet
      BY <3>1
    <3>3. executer[i] \in EntriesOf(p)
      BY <3>1, <3>2 DEF EntriesOf
    <3>4. Among(executer, EntriesOf(p)) = 0
      BY <1>1 DEF InExecuter
    <3> QED  BY <1>t, <3>3, <3>4, AmongZero
  <2> QED  BY <1>t, <2>1, AmongZero DEF KeyExecuter
<1>3. KeyRunning(l, m) = 0
  <2>1. running \notin Entries
    BY <1>1 DEF InRunning, Entries
  <2> QED  BY <2>1 DEF KeyRunning, Weight, KeyEntries
<1>4. KeyClosing(l, m) = 0
  <2>1. closing \notin Entries
    BY EntryTypes DEF ClosingPosted, Entries
  <2> QED  BY <2>1 DEF KeyClosing, Weight, KeyEntries
<1>5. KeyCore(l, m) = 0
  <2>1. ASSUME NEW i \in DOMAIN core PROVE core[i] \notin KeyTasks(l, m)
    <3> SUFFICES ASSUME core[i] \in KeyTasks(l, m) PROVE FALSE
      OBVIOUS
    <3>1. core[i] \in CoreTasks /\ core[i].entry.packet \in Packets
      BY DEF KeyTasks, KeyEntries, Entries
    <3>2. PICK p \in Packets : p = core[i].entry.packet
      BY <3>1
    <3>3. core[i] \in TasksOf(p)
      BY <3>1, <3>2 DEF TasksOf
    <3>4. Among(core, TasksOf(p)) = 0
      BY <1>1 DEF InCore
    <3> QED  BY <1>t, <3>3, <3>4, AmongZero
  <2> QED  BY <1>t, <2>1, AmongZero DEF KeyCore
<1> QED  BY <1>2, <1>3, <1>4, <1>5 DEF KeyCount

\* Every step keeps the keys matched: pop() takes a packet whose key is free,
\* allow_using() releases the key of the one packet that holds it, and a full
\* start that finds packets sets stopped.
LEMMA KeysMatchStep ==
    TypeInv /\ Accounts /\ ClosingPosted /\ KeysMatch /\ [Next]_vars => KeysMatch'
<1> SUFFICES ASSUME TypeInv, Accounts, ClosingPosted, KeysMatch, [Next]_vars
             PROVE  KeysMatch'
  OBVIOUS
<1>t. TypeOK /\ TaskEntryOK /\ TypeOK'
  BY TypeInvStep DEF TypeInv
<1>n. \A l \in Lanes, m \in Methods :
         /\ KeyExecuter(l, m) \in Nat /\ KeyRunning(l, m) \in {0, 1}
         /\ KeyClosing(l, m) \in {0, 1} /\ KeyCore(l, m) \in Nat
         /\ KeyExecuter(l, m)' \in Nat /\ KeyRunning(l, m)' \in {0, 1}
         /\ KeyClosing(l, m)' \in {0, 1} /\ KeyCore(l, m)' \in Nat
  BY <1>t, KeyCountTypes
<1>e. \A l \in Lanes, m \in Methods : Weight(NoEntry, KeyEntries(l, m)) = 0
  BY EntryTypes DEF Weight, KeyEntries
<1>1. ASSUME NEW p \in Packets, PostPacket(p) PROVE KeysMatch'
  <2>1. \A l \in Lanes : queues'[l].extracted = queues[l].extracted
    BY <1>t, <1>1, InsertType DEF PostPacket, PostInvalid, PostUnsupported, PostTooEarly,
                                  PostAccepted
  <2>2. UNCHANGED <<executer, running, closing, stopped>>
    BY <1>1 DEF PostPacket, PostInvalid, PostUnsupported, PostTooEarly, PostAccepted, thread,
                session
  <2>3. /\ ApiErrorTask(p) \in CoreTasks /\ ApiErrorTask(p).kind # "result"
        /\ ExecuteTask \in CoreTasks /\ ExecuteTask.kind # "result"
    BY TaskTypes DEF ApiErrorTask, ExecuteTask
  <2>4. \/ core' = core \/ core' = Append(core, ApiErrorTask(p))
        \/ core' = Append(core, ExecuteTask)
    BY <1>1 DEF PostPacket, PostInvalid, PostUnsupported, PostTooEarly, PostAccepted
  <2>5. ASSUME NEW l \in Lanes, NEW m \in Methods PROVE KeyCount(l, m)' = KeyCount(l, m)
    <3>1. /\ Weight(ApiErrorTask(p), KeyTasks(l, m)) = 0
          /\ Weight(ExecuteTask, KeyTasks(l, m)) = 0
      BY <2>3 DEF Weight, KeyTasks
    <3>2. CASE core' = core
      BY <2>2, <3>2 DEF KeyCount, KeyExecuter, KeyRunning, KeyClosing, KeyCore
    <3>3. ASSUME NEW t \in CoreTasks, core' = Append(core, t), Weight(t, KeyTasks(l, m)) = 0
          PROVE  KeyCount(l, m)' = KeyCount(l, m)
      <4>1. KeyCore(l, m)' = KeyCore(l, m)
        BY <1>t, <1>n, <3>3, KeyCoreAppend
      <4> QED  BY <2>2, <4>1 DEF KeyCount, KeyExecuter, KeyRunning, KeyClosing
    <3> QED  BY <2>3, <2>4, <3>1, <3>2, <3>3
  <2> QED  BY <2>1, <2>2, <2>5, KeysMove
<1>2. ASSUME NEW n \in ParallelCounts, SetMaxParallelPacketsCount(n) PROVE KeysMatch'
  <2>1. \A l \in Lanes : queues'[l].extracted = queues[l].extracted
    BY <1>t, <1>2 DEF SetMaxParallelPacketsCount, LowLimit, TypeOK, WithLimit, QueueValues,
                      Lanes
  <2> QED  BY <1>2, <2>1, KeysStay DEF SetMaxParallelPacketsCount, thread, session
<1>3. CASE PingSession \/ SessionResult \/ PumpEnd \/ CoolDown \/ UNCHANGED vars
  BY <1>3, KeysStay
     DEF PingSession, SessionResult, PumpEnd, CoolDown, vars, thread, session
<1>4. CASE FullSession
  <2> SUFFICES ASSUME stopped' = {}, NEW l \in Lanes, NEW m \in Methods
               PROVE  KeyCount(l, m)' = KeyOut(l, m)'
    BY DEF KeysMatch
  <2>1. /\ stopped' = {p \in Packets : posts[p] > 0}
        /\ UNCHANGED <<executer, running, core, closing>>
        /\ queues'[l].extracted = {}
    BY <1>4 DEF FullSession, thread, Cleared
  <2>2. \A p \in Packets : posts[p] = 0
    BY <1>t, <2>1 DEF TypeOK
  <2>3. KeyCount(l, m) = 0
    BY <2>2, NothingPostedNothingOut DEF Accounts
  <2>4. KeyCount(l, m)' = KeyCount(l, m)
    BY <2>1 DEF KeyCount, KeyExecuter, KeyRunning, KeyClosing, KeyCore
  <2> QED  BY <2>1, <2>3, <2>4 DEF KeyOut
<1>5. CASE PumpOne
  <2>0. PICK L \in Lanes : L = PumpLane
    BY <1>t, <1>5, PumpLanePops DEF PumpOne
  <2> DEFINE q == queues[L]
             e == [packet |-> Popped(q), lane |-> L]
             k == Method[Popped(q)]
  <2>1. /\ q \in QueueValues /\ CanPop(q) /\ Popped(q) \in Packets /\ e \in Entries
        /\ k \in Methods /\ k \notin q.extracted
        /\ Pop(q).extracted = q.extracted \union {k}
    BY <1>t, <1>5, <2>0, PumpLanePops, PopProperties, EntryTypes DEF PumpOne
  <2>2. /\ executer' = Append(executer, e)
        /\ queues' = [queues EXCEPT ![L] = Pop(@)]
        /\ UNCHANGED <<running, core, closing, stopped>>
    BY <1>5, <2>0 DEF PumpOne, session
  <2>3. /\ queues'[L].extracted = q.extracted \union {k}
        /\ \A l \in Lanes : l # L => queues'[l].extracted = queues[l].extracted
    BY <1>t, <2>1, <2>2 DEF TypeOK
  <2> SUFFICES ASSUME stopped = {}, NEW l \in Lanes, NEW m \in Methods
               PROVE  KeyCount(l, m)' = KeyOut(l, m)'
    BY <2>2 DEF KeysMatch
  <2>4. KeyCount(l, m) = KeyOut(l, m)
    BY DEF KeysMatch
  <2>5. KeyExecuter(l, m)' = KeyExecuter(l, m) + Weight(e, KeyEntries(l, m))
    BY <1>t, <2>1, <2>2, AmongAppend DEF KeyExecuter, TypeOK
  <2>6. Weight(e, KeyEntries(l, m)) = IF l = L /\ m = k THEN 1 ELSE 0
    BY <2>1 DEF Weight, KeyEntries
  <2>7. KeyCount(l, m)' = KeyCount(l, m) + Weight(e, KeyEntries(l, m))
    <3>1. /\ KeyRunning(l, m)' = KeyRunning(l, m) /\ KeyClosing(l, m)' = KeyClosing(l, m)
          /\ KeyCore(l, m)' = KeyCore(l, m)
      BY <2>2 DEF KeyRunning, KeyClosing, KeyCore
    <3>2. Weight(e, KeyEntries(l, m)) \in Nat
      BY DEF Weight
    <3> HIDE DEF e
    <3> QED  BY <1>n, <2>5, <3>1, <3>2 DEF KeyCount
  <2>8. KeyOut(l, m)' = KeyOut(l, m) + (IF l = L /\ m = k THEN 1 ELSE 0)
    <3> HIDE DEF k
    <3> QED  BY <2>1, <2>3 DEF KeyOut
  <2> QED  BY <2>4, <2>6, <2>7, <2>8
<1>6. CASE WorkerTake
  <2>1. /\ executer \in Seq(Entries) /\ executer # <<>> /\ executer' = Tail(executer)
        /\ running = NoEntry /\ running' = Head(executer)
        /\ UNCHANGED <<queues, core, closing, stopped>>
    BY <1>t, <1>6 DEF WorkerTake, TypeOK, session
  <2>2. ASSUME NEW l \in Lanes, NEW m \in Methods PROVE KeyCount(l, m)' = KeyCount(l, m)
    <3>1. KeyExecuter(l, m) = KeyExecuter(l, m)' + Weight(Head(executer), KeyEntries(l, m))
      BY <2>1, AmongTail DEF KeyExecuter
    <3>2. KeyRunning(l, m)' = Weight(Head(executer), KeyEntries(l, m)) /\ KeyRunning(l, m) = 0
      BY <1>e, <2>1 DEF KeyRunning
    <3>3. KeyClosing(l, m)' = KeyClosing(l, m) /\ KeyCore(l, m)' = KeyCore(l, m)
      BY <2>1 DEF KeyClosing, KeyCore
    <3> QED  BY <1>n, <3>1, <3>2, <3>3 DEF KeyCount
  <2> QED  BY <2>1, <2>2, KeysMove
<1>7. ASSUME NEW x \in Results, WorkerFinish(x) PROVE KeysMatch'
  <2>1. /\ running \in Entries /\ running' = NoEntry
        /\ core' = Append(core, ResultOf(running, x))
        /\ ResultOf(running, x) \in CoreTasks
        /\ ResultOf(running, x).entry = running /\ ResultOf(running, x).kind = "result"
        /\ UNCHANGED <<queues, executer, closing, stopped>>
    BY <1>t, <1>7, TaskTypes DEF WorkerFinish, TypeOK, ResultOf, session
  <2>2. ASSUME NEW l \in Lanes, NEW m \in Methods PROVE KeyCount(l, m)' = KeyCount(l, m)
    <3>1. KeyCore(l, m)' = KeyCore(l, m) + Weight(ResultOf(running, x), KeyTasks(l, m))
      BY <1>t, <2>1, KeyCoreAppend
    <3>2. Weight(ResultOf(running, x), KeyTasks(l, m)) = KeyRunning(l, m)
      BY <2>1 DEF Weight, KeyTasks, KeyRunning
    <3>3. KeyRunning(l, m)' = 0
      BY <1>e, <2>1 DEF KeyRunning
    <3>4. KeyExecuter(l, m)' = KeyExecuter(l, m) /\ KeyClosing(l, m)' = KeyClosing(l, m)
      BY <2>1 DEF KeyExecuter, KeyClosing
    <3> QED  BY <1>n, <3>1, <3>2, <3>3, <3>4 DEF KeyCount
  <2> QED  BY <2>1, <2>2, KeysMove
<1>8. CASE CoreTask
  <2>1. /\ core # <<>> /\ core' = Tail(core) /\ closing = NoEntry
        /\ Head(core) \in CoreTasks
        /\ Head(core).kind # "execute" => Head(core).entry \in Entries
        /\ UNCHANGED <<executer, running, stopped>>
    <3>1. /\ core # <<>> /\ core' = Tail(core) /\ closing = NoEntry
          /\ UNCHANGED <<executer, running, stopped>>
      BY <1>8 DEF CoreTask, DeliverRetry, DeliverResult, DeliverExecute, DeliverApiError,
                  CoreIdle, thread, session
    <3> QED  BY <1>t, <3>1, HeadTypes DEF TaskEntryOK
  <2>2. \/ Head(core).kind = "result" /\ closing' = Head(core).entry
        \/ Head(core).kind # "result" /\ closing' = NoEntry
    BY <1>8, <2>1 DEF CoreTask, DeliverRetry, DeliverResult, DeliverExecute, DeliverApiError
  <2>3. \A l \in Lanes : queues'[l].extracted = queues[l].extracted
    <3>1. CASE DeliverRetry
      <4>1. Insert(Head(core).entry.packet) /\ Head(core).entry.packet \in Packets
        BY <2>1, <3>1 DEF DeliverRetry, Entries
      <4> QED  BY <1>t, <4>1, InsertType
    <3>2. CASE DeliverResult \/ DeliverExecute \/ DeliverApiError
      BY <3>2 DEF DeliverResult, DeliverExecute, DeliverApiError
    <3> QED  BY <1>8, <3>1, <3>2 DEF CoreTask
  <2>4. ASSUME NEW l \in Lanes, NEW m \in Methods PROVE KeyCount(l, m)' = KeyCount(l, m)
    <3>1. KeyCore(l, m) = KeyCore(l, m)' + Weight(Head(core), KeyTasks(l, m))
      BY <1>t, <2>1, KeyCoreTail
    <3>2. Weight(Head(core), KeyTasks(l, m)) = KeyClosing(l, m)'
      <4>1. CASE Head(core).kind = "result" /\ closing' = Head(core).entry
        BY <2>1, <4>1 DEF Weight, KeyTasks, KeyClosing
      <4>2. CASE Head(core).kind # "result" /\ closing' = NoEntry
        <5>1. Weight(Head(core), KeyTasks(l, m)) = 0
          BY <4>2 DEF Weight, KeyTasks
        <5>2. KeyClosing(l, m)' = 0
          BY <1>e, <4>2 DEF KeyClosing
        <5> QED  BY <5>1, <5>2
      <4> QED  BY <2>2, <4>1, <4>2
    <3>3. KeyClosing(l, m) = 0
      BY <1>e, <2>1 DEF KeyClosing
    <3>4. KeyExecuter(l, m)' = KeyExecuter(l, m) /\ KeyRunning(l, m)' = KeyRunning(l, m)
      BY <2>1 DEF KeyExecuter, KeyRunning
    <3> QED  BY <1>n, <3>1, <3>2, <3>3, <3>4 DEF KeyCount
  <2> QED  BY <2>1, <2>3, <2>4, KeysMove
<1>9. CASE CloseScope
  <2>1. PICK L \in Lanes, k \in Methods : L = closing.lane /\ k = Method[closing.packet]
    BY <1>t, <1>9, PacketsAssumption DEF CloseScope, TypeOK, Entries
  <2>2. /\ closing \in Entries /\ closing' = NoEntry
        /\ UNCHANGED <<executer, running, core, stopped>>
        /\ queues'[L].extracted = queues[L].extracted \ {k}
        /\ \A l \in Lanes : l # L => queues'[l].extracted = queues[l].extracted
    BY <1>t, <1>9, <2>1 DEF CloseScope, TypeOK, AllowUsing, QueueValues, thread, session
  <2> SUFFICES ASSUME stopped = {}, NEW l \in Lanes, NEW m \in Methods
               PROVE  KeyCount(l, m)' = KeyOut(l, m)'
    BY <2>2 DEF KeysMatch
  <2>3. KeyCount(l, m) = KeyOut(l, m)
    BY DEF KeysMatch
  <2>4. KeyClosing(l, m)' = 0
    BY <1>e, <2>2 DEF KeyClosing
  <2>5. KeyClosing(l, m) = IF l = L /\ m = k THEN 1 ELSE 0
    BY <2>1, <2>2 DEF KeyClosing, Weight, KeyEntries
  <2>6. /\ KeyExecuter(l, m)' = KeyExecuter(l, m) /\ KeyRunning(l, m)' = KeyRunning(l, m)
        /\ KeyCore(l, m)' = KeyCore(l, m)
    BY <2>2 DEF KeyExecuter, KeyRunning, KeyCore
  <2>7. KeyCount(l, m) = KeyCount(l, m)' + (IF l = L /\ m = k THEN 1 ELSE 0)
    BY <1>n, <2>4, <2>5, <2>6 DEF KeyCount
  <2>8. KeyCount(l, m)' \in Nat
    BY <1>n DEF KeyCount
  <2>9. CASE l = L /\ m = k
    <3>1. KeyOut(l, m)' = 0
      BY <2>2, <2>9 DEF KeyOut
    <3>2. KeyOut(l, m) \in {0, 1}
      BY DEF KeyOut
    <3> QED  BY <2>3, <2>7, <2>8, <2>9, <3>1, <3>2
  <2>10. CASE ~(l = L /\ m = k)
    <3>1. KeyOut(l, m)' = KeyOut(l, m)
      BY <2>2, <2>10 DEF KeyOut
    <3>2. KeyCount(l, m) = KeyCount(l, m)'
      BY <2>7, <2>8, <2>10
    <3> QED  BY <2>3, <3>1, <3>2
  <2> QED  BY <2>9, <2>10
<1> QED
  BY <1>1, <1>2, <1>3, <1>4, <1>5, <1>6, <1>7, <1>8, <1>9 DEF Next, Pump, Worker

\* As long as no full start found packets, two packets of one method and one
\* queue are never with the server at the same time (packet_queue's keys around
\* the executer): this is what keeps the messages of a client in order.
THEOREM OneAtATime == Spec => []Exclusive
<1>1. Init => EntryLane /\ ClosingPosted /\ KeysMatch
  <2> SUFFICES ASSUME Init PROVE EntryLane /\ ClosingPosted /\ KeysMatch
    OBVIOUS
  <2>1. /\ executer = <<>> /\ running = NoEntry /\ core = <<>> /\ closing = NoEntry
        /\ \A l \in Lanes : queues[l].extracted = {}
    BY DEF Init, NewQueue
  <2>2. InFlight = {}
    <3>1. ToSet(<<>>) = {}
      BY DEF ToSet
    <3> QED  BY <2>1, <3>1 DEF InFlight
  <2>3. ASSUME NEW l \in Lanes, NEW m \in Methods PROVE KeyCount(l, m) = 0
    <3>1. KeyExecuter(l, m) = 0 /\ KeyCore(l, m) = 0
      BY <2>1, AmongEmpty DEF KeyExecuter, KeyCore
    <3>2. KeyRunning(l, m) = 0 /\ KeyClosing(l, m) = 0
      BY <2>1, EntryTypes DEF KeyRunning, KeyClosing, Weight, KeyEntries
    <3> QED  BY <3>1, <3>2 DEF KeyCount
  <2> QED  BY <2>1, <2>2, <2>3 DEF EntryLane, ClosingPosted, KeysMatch, KeyOut
<1>2. TypeInv <=> TypeOK /\ TaskEntryOK
  BY DEF TypeInv
<1>3. QED
  BY <1>1, <1>2, AccountsInit, AccountsStep, EntryLaneStep, ClosingPostedStep, KeysMatchStep,
     MatchIsExclusive, TypeCorrect, PTL DEF Spec

=============================================================================
