---------------------------- MODULE PacketQueue ----------------------------
(***************************************************************************)
(* packet_queue<T, key_getter> (core/connections/wim/queue/packet_queue.h):*)
(* the list of packets waiting to be sent, sorted by priority number, the  *)
(* set of keys whose packet was popped and is not yet released, and the    *)
(* number of keys that may be out at once.  A queue is a value here, so    *)
(* every member function is an operator on queues.                         *)
(***************************************************************************)
EXTENDS Integers, SequencesExt

CONSTANTS Packets,   \* the packets, wim_packet objects
          Methods,   \* the API methods packets call: the keys of the queue
          Method,    \* wim_packet::get_method()
          Priority   \* wim_packet::get_priority()

ASSUME PacketsAssumption ==
    /\ IsFiniteSet(Methods)
    /\ Method \in [Packets -> Methods]
    /\ Priority \in [Packets -> Int]

\* The values a packet_queue can take.
QueueValues == [queue : Seq(Packets), extracted : SUBSET Methods, limit : Nat]

NewQueue == [queue |-> <<>>, extracted |-> {}, limit |-> 1]

IsLimitReached(q) == Cardinality(q.extracted) >= q.limit

\* Mutant of Free: the key is not looked at.
FreeOfAnyKey(q) == 1..Len(q.queue)

\* The positions of the packets whose key is not out.
Free(q) == {i \in 1..Len(q.queue) : Method[q.queue[i]] \notin q.extracted}

CanPop(q) == ~IsLimitReached(q) /\ Free(q) # {}

\* The packet pop() returns, and the queue it leaves.
Popped(q) == q.queue[Min(Free(q))]

\* Mutant of Pop: the packet stays in the queue.
PeekOnly(q) == [q EXCEPT !.extracted = @ \union {Method[Popped(q)]}]

Pop(q) == [q EXCEPT !.queue = RemoveAt(@, Min(Free(q))),
                    !.extracted = @ \union {Method[Popped(q)]}]

\* Mutant of Emplace: always at the end.
EmplaceLast(q, p) == [q EXCEPT !.queue = Append(@, p)]

\* emplace(): in front of the first packet with a greater priority number.
Emplace(q, p) ==
    LET greater == {i \in 1..Len(q.queue) : Priority[p] < Priority[q.queue[i]]}
        at      == IF greater = {} THEN Len(q.queue) + 1 ELSE Min(greater)
    IN  [q EXCEPT !.queue = InsertAt(@, at, p)]

Cleared(q) == [queue |-> <<>>, extracted |-> {}, limit |-> q.limit]

WithLimit(q, n) == [q EXCEPT !.limit = n]

\* Mutant of AllowUsing: the key stays out.
KeepKey(q, m) == q

AllowUsing(q, m) == [q EXCEPT !.extracted = @ \ {m}]

=============================================================================
