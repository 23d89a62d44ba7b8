--------------------------- MODULE WimSendThread ---------------------------
(***************************************************************************)
(* wim_send_thread: the component every API packet of the client goes      *)
(* through (core/connections/wim/wim_send_thread.cpp).  Packets wait in    *)
(* two packet_queues; the core thread hands them to an executer with one   *)
(* worker thread, the worker executes them (blocking HTTP) and posts the   *)
(* result back to the core thread, whose callback retries the packet or    *)
(* calls its handler, releases the packet's key and hands out more.        *)
(*                                                                         *)
(* Two threads take steps: the core thread, which runs one task of its     *)
(* FIFO at a time, and the worker.  A core task is split at the places     *)
(* where the worker's steps can be told apart: each round of               *)
(* execute_packet_from_queue() is a step, and so is the release of the     *)
(* key by the scope guard after a handler, because the handler itself may  *)
(* post packets or restart the session.                                    *)
(***************************************************************************)
EXTENDS PacketQueue

CONSTANTS NoPacket,        \* not a packet
          ParallelCounts,  \* values of wim_parallel_packets_count
          MaxPosts,        \* bound: times one packet object is posted
          MaxSessions      \* bound: session starts

ASSUME WimSendThreadAssumption ==
    /\ NoPacket \notin Packets
    /\ ParallelCounts \subseteq Nat
    /\ MaxPosts \in Nat
    /\ MaxSessions \in Nat

VARIABLES queues,      \* high_priority_queue_ and low_priority_queue_
          locked,      \* is_sending_locked_
          cooling,     \* now < cancel_packets_time_
          executer,    \* tasks_ of the executer's pool: entries waiting for the worker
          running,     \* the entry the worker executes
          core,        \* callbacks of this component waiting in the core thread's queue
          pumping,     \* the core thread is inside execute_packet_from_queue()
          closing,     \* the entry whose scope guard has yet to run
          repeats,     \* repeat_count_ of each packet
          stopped,     \* packets created for a session that is over (stop_handler_)
          starting,    \* start_session in progress: "no", "ping" or "full"
          sessions,    \* session starts so far
          posts,       \* post_packet calls per packet
          handled,     \* handler calls per packet
          lost         \* posts whose handler nobody will call

thread == <<executer, running>>
session == <<starting, sessions, stopped>>
ledger == <<posts, handled, lost>>
vars == <<queues, locked, cooling, thread, core, pumping, closing, repeats,
          session, ledger>>

Lanes == {"high", "low"}
TopPriority == 3        \* top_priority()
SentRepeatCount == 2    \* sent_repeat_count

\* The queue insert_packet_in_queue() chooses by is_high_priority().
IsHighPriority(p) == Priority[p] >= TopPriority
Lane(p) == IF IsHighPriority(p) THEN "high" ELSE "low"

Results == {"done", "network_error", "too_fast"}
Entries == [packet : Packets, lane : Lanes]
NoEntry == [packet |-> NoPacket, lane |-> "high"]

ResultOf(e, r) == [kind |-> "result", entry |-> e, result |-> r]
ExecuteTask == [kind |-> "execute", entry |-> NoEntry, result |-> "done"]
ApiErrorTask(p) ==
    [kind |-> "api_error", entry |-> [packet |-> p, lane |-> Lane(p)], result |-> "done"]

CoreTasks == [kind : {"result", "execute", "api_error"},
              entry : Entries \union {NoEntry},
              result : Results]

-----------------------------------------------------------------------------
(* Where a packet is. *)

Waiting(p) == p \in ToSet(queues[Lane(p)].queue)

\* The popped entries whose key is still to be released.
InFlight ==
    ToSet(executer) \union ({running, closing} \ {NoEntry})
      \union {t.entry : t \in {u \in ToSet(core) : u.kind = "result"}}

\* How often p stands in the queues, the executer or the core thread's queue.
Times(s, p) == Cardinality({i \in DOMAIN s : s[i] = p})
Places(p) ==
    Times(queues["high"].queue, p) + Times(queues["low"].queue, p)
      + Cardinality({i \in DOMAIN executer : executer[i].packet = p})
      + (IF running.packet = p THEN 1 ELSE 0)
      + Cardinality({i \in DOMAIN core : core[i].entry.packet = p})

-----------------------------------------------------------------------------
TypeOK ==
    /\ queues \in [Lanes -> QueueValues]
    /\ locked \in BOOLEAN
    /\ cooling \in BOOLEAN
    /\ executer \in Seq(Entries)
    /\ running \in Entries \union {NoEntry}
    /\ core \in Seq(CoreTasks)
    /\ pumping \in BOOLEAN
    /\ closing \in Entries \union {NoEntry}
    /\ repeats \in [Packets -> Nat]
    /\ stopped \in SUBSET Packets
    /\ starting \in {"no", "ping", "full"}
    /\ sessions \in Nat
    /\ posts \in [Packets -> Nat]
    /\ handled \in [Packets -> Nat]
    /\ lost \in [Packets -> Nat]

Init ==
    /\ queues = [l \in Lanes |-> NewQueue]
    /\ locked = FALSE
    /\ cooling = FALSE
    /\ executer = <<>>
    /\ running = NoEntry
    /\ core = <<>>
    /\ pumping = FALSE
    /\ closing = NoEntry
    /\ repeats = [p \in Packets |-> 0]
    /\ stopped = {}
    /\ starting = "no"
    /\ sessions = 0
    /\ posts = [p \in Packets |-> 0]
    /\ handled = [p \in Packets |-> 0]
    /\ lost = [p \in Packets |-> 0]

Bump(f, p) == [f EXCEPT ![p] = @ + 1]
Insert(p) == queues' = [queues EXCEPT ![Lane(p)] = Emplace(@, p)]

-----------------------------------------------------------------------------
(* Calls other code makes on the core thread: as a core task of its own    *)
(* (closing = NoEntry) or from inside a packet's handler.                  *)

CoreCall == ~pumping

\* A packet is posted once, and once more (resume_failed_packets) only after
\* its handler was called for the earlier posts.
CanPost(p) ==
    /\ CoreCall
    /\ posts[p] < MaxPosts
    /\ handled[p] = posts[p]

\* post_packet(), first return: !is_valid().
PostInvalid(p) ==
    /\ CanPost(p)
    /\ posts' = Bump(posts, p)
    /\ lost' = Bump(lost, p)
    /\ UNCHANGED <<queues, locked, cooling, thread, core, pumping, closing, repeats,
                   session, handled>>

\* post_packet(), second return: !supports_current_api_version().
PostUnsupported(p) ==
    /\ CanPost(p)
    /\ posts' = Bump(posts, p)
    /\ core' = Append(core, ApiErrorTask(p))
    /\ UNCHANGED <<queues, locked, cooling, thread, pumping, closing, repeats,
                   session, handled, lost>>

\* post_packet(), third return: the rate limit.  Only a call of
\* execute_packet_from_queue() is queued, the packet and its handler are not.
PostTooEarly(p) ==
    /\ CanPost(p)
    /\ cooling
    /\ posts' = Bump(posts, p)
    /\ lost' = Bump(lost, p)
    /\ core' = Append(core, ExecuteTask)
    /\ UNCHANGED <<queues, locked, cooling, thread, pumping, closing, repeats,
                   session, handled>>

\* post_packet(), otherwise.
PostAccepted(p) ==
    /\ CanPost(p)
    /\ ~cooling
    /\ posts' = Bump(posts, p)
    /\ Insert(p)
    /\ pumping' = TRUE
    /\ UNCHANGED <<locked, cooling, thread, core, closing, repeats, session,
                   handled, lost>>

PostPacket(p) ==
    PostInvalid(p) \/ PostUnsupported(p) \/ PostTooEarly(p) \/ PostAccepted(p)

\* Mutant of LowLimit: two places are taken from the smaller half.
LowLimitLessTwo(n) == n \div 2 - 2

\* set_max_parallel_packets_count(): nothing is executed here.
LowLimit(n) == n \div 2
SetMaxParallelPacketsCount(n) ==
    /\ CoreCall
    /\ queues' = [queues EXCEPT !["low"] = WithLimit(@, LowLimit(n)),
                                !["high"] = WithLimit(@, n - LowLimit(n))]
    /\ UNCHANGED <<locked, cooling, thread, core, pumping, closing, repeats, session,
                   ledger>>

\* im::start_session(): one at a time.
BeginSession(kind) ==
    /\ CoreCall
    /\ starting = "no"
    /\ sessions < MaxSessions
    /\ starting' = kind
    /\ sessions' = sessions + 1

\* A ping leaves the queues alone.
PingSession ==
    /\ BeginSession("ping")
    /\ UNCHANGED <<queues, locked, cooling, thread, core, pumping, closing, repeats,
                   stopped, ledger>>

\* A full start clears and locks them, and cancel_requests() ends the session
\* every packet there is was made for.
FullSession ==
    /\ BeginSession("full")
    /\ queues' = [l \in Lanes |-> Cleared(queues[l])]
    /\ lost' = [p \in Packets |-> IF Waiting(p) THEN lost[p] + 1 ELSE lost[p]]
    /\ locked' = TRUE
    /\ stopped' = {p \in Packets : posts[p] > 0}
    /\ UNCHANGED <<cooling, thread, core, pumping, closing, repeats, posts, handled>>

\* The result of start_session: unlock_and_execute_queued().
SessionResult ==
    /\ CoreCall
    /\ closing = NoEntry
    /\ starting # "no"
    /\ starting' = "no"
    /\ locked' = FALSE
    /\ pumping' = TRUE
    /\ UNCHANGED <<queues, cooling, thread, core, closing, repeats, sessions, stopped,
                   ledger>>

-----------------------------------------------------------------------------
(* execute_packet_from_queue(): one round per step. *)

Pumpable == ~locked /\ \E l \in Lanes : CanPop(queues[l])

\* The queue a round pops from.
PumpLane == IF CanPop(queues["high"]) THEN "high" ELSE "low"

\* A round that finds a packet gives it to the executer and goes on.
PumpOne ==
    /\ pumping
    /\ Pumpable
    /\ executer' = Append(executer, [packet |-> Popped(queues[PumpLane]),
                                     lane |-> PumpLane])
    /\ queues' = [queues EXCEPT ![PumpLane] = Pop(@)]
    /\ UNCHANGED <<locked, cooling, running, core, pumping, closing, repeats, session,
                   ledger>>

\* A round that finds none returns.
PumpEnd ==
    /\ pumping
    /\ ~Pumpable
    /\ pumping' = FALSE
    /\ UNCHANGED <<queues, locked, cooling, thread, core, closing, repeats, session,
                   ledger>>

-----------------------------------------------------------------------------
(* The worker thread: wim_packet::execute(), then execute_core_context().  *)

WorkerTake ==
    /\ running = NoEntry
    /\ executer # <<>>
    /\ running' = Head(executer)
    /\ executer' = Tail(executer)
    /\ repeats' = Bump(repeats, Head(executer).packet)
    /\ UNCHANGED <<queues, locked, cooling, core, pumping, closing, session, ledger>>

WorkerFinish(r) ==
    /\ running # NoEntry
    /\ core' = Append(core, ResultOf(running, r))
    /\ running' = NoEntry
    /\ UNCHANGED <<queues, locked, cooling, executer, pumping, closing, repeats,
                   session, ledger>>

-----------------------------------------------------------------------------
(* The core thread takes the next task of this component. *)

CoreIdle == ~pumping /\ closing = NoEntry /\ core # <<>>

\* Mutant of Retries: repeat_count_ is not looked at.
RetriesForEver(t) ==
    t.result = "network_error" /\ t.entry.packet \notin stopped

\* on_result_: a network error of a packet of the live session is retried ...
Retries(t) ==
    /\ t.result = "network_error"
    /\ repeats[t.entry.packet] < SentRepeatCount
    /\ t.entry.packet \notin stopped

DeliverRetry ==
    /\ CoreIdle
    /\ Head(core).kind = "result"
    /\ Retries(Head(core))
    /\ Insert(Head(core).entry.packet)
    /\ closing' = Head(core).entry
    /\ core' = Tail(core)
    /\ UNCHANGED <<locked, cooling, thread, pumping, repeats, session, ledger>>

\* ... and any other result goes to the handler, after the rate limit is noted.
DeliverResult ==
    /\ CoreIdle
    /\ Head(core).kind = "result"
    /\ ~Retries(Head(core))
    /\ cooling' = (cooling \/ Head(core).result = "too_fast")
    /\ handled' = Bump(handled, Head(core).entry.packet)
    /\ closing' = Head(core).entry
    /\ core' = Tail(core)
    /\ UNCHANGED <<queues, locked, thread, pumping, repeats, session, posts, lost>>

\* Mutant of CloseScope: the key is released and nothing is executed.
CloseOnly ==
    /\ ~pumping
    /\ closing # NoEntry
    /\ queues' = [queues EXCEPT
                    ![closing.lane] = AllowUsing(@, Method[closing.packet])]
    /\ closing' = NoEntry
    /\ UNCHANGED <<locked, cooling, pumping, thread, core, repeats, session, ledger>>

\* The scope guard of on_result_: allow_using(method), then execute.
CloseScope ==
    /\ ~pumping
    /\ closing # NoEntry
    /\ queues' = [queues EXCEPT
                    ![closing.lane] = AllowUsing(@, Method[closing.packet])]
    /\ closing' = NoEntry
    /\ pumping' = TRUE
    /\ UNCHANGED <<locked, cooling, thread, core, repeats, session, ledger>>

\* The task post_packet() left while the rate limit was on.
DeliverExecute ==
    /\ CoreIdle
    /\ Head(core).kind = "execute"
    /\ pumping' = TRUE
    /\ core' = Tail(core)
    /\ UNCHANGED <<queues, locked, cooling, thread, closing, repeats, session, ledger>>

\* The handler of a packet the API version does not support.
DeliverApiError ==
    /\ CoreIdle
    /\ Head(core).kind = "api_error"
    /\ handled' = Bump(handled, Head(core).entry.packet)
    /\ core' = Tail(core)
    /\ UNCHANGED <<queues, locked, cooling, thread, pumping, closing, repeats, session,
                   posts, lost>>

\* cancel_packets_time_ passes (30 s, or 10 s after a robusto rate limit).
CoolDown ==
    /\ cooling
    /\ cooling' = FALSE
    /\ UNCHANGED <<queues, locked, thread, core, pumping, closing, repeats, session,
                   ledger>>

-----------------------------------------------------------------------------
Pump == PumpOne \/ PumpEnd
Worker == WorkerTake \/ \E r \in Results : WorkerFinish(r)
CoreTask == DeliverRetry \/ DeliverResult \/ DeliverExecute \/ DeliverApiError

Next ==
    \/ \E p \in Packets : PostPacket(p)
    \/ \E n \in ParallelCounts : SetMaxParallelPacketsCount(n)
    \/ PingSession
    \/ FullSession
    \/ SessionResult
    \/ Pump
    \/ Worker
    \/ CoreTask
    \/ CloseScope
    \/ CoolDown

Spec == Init /\ [][Next]_vars

\* Both threads run, and start_session always has a result (its request has a
\* timeout and is retried by another start).
Fairness ==
    /\ WF_vars(Pump)
    /\ WF_vars(Worker)
    /\ WF_vars(CoreTask)
    /\ WF_vars(CloseScope)
    /\ WF_vars(SessionResult)

FairSpec == Spec /\ Fairness

-----------------------------------------------------------------------------
(* Safety. *)

\* A key that is out belongs to a packet that was popped from that queue and
\* whose scope guard has still to run.  A key nobody will release would keep
\* every later packet of the method in the queue for the rest of the run
\* (pop() inserts the key, allow_using() is the only call that removes it).
ExtractedInFlight ==
    \A l \in Lanes : \A m \in queues[l].extracted :
        \E e \in InFlight : e.lane = l /\ Method[e.packet] = m

\* Every post is accounted for: the handler was called once for it, or the
\* packet is in exactly one place, or the post was one of those whose handler
\* is dropped (rate limit, clear(), invalid packet).  A retry that also called
\* the handler, or a result delivered twice, breaks it.
PostsAccounted ==
    \A p \in Packets : /\ posts[p] = handled[p] + lost[p] + Places(p)
                       /\ Places(p) <= 1

\* As long as no full start found packets, the packets of a queue that are
\* with the executer have different methods: the server never sees two messages
\* of one client out of order because they were sent side by side.
Exclusive ==
    stopped = {} =>
        \A p, r \in Packets :
            (p # r /\ Method[p] = Method[r] /\ Lane(p) = Lane(r)) =>
                ~ \E e, f \in InFlight : e.packet = p /\ f.packet = r

\* The core thread never leaves a packet behind that could be popped, unless a
\* packet in flight or a queued callback will make it look again: nothing else
\* calls execute_packet_from_queue() by itself.
NoLostWakeup ==
    (Pumpable /\ ~pumping) =>
        \/ InFlight # {}
        \/ \E t \in ToSet(core) : t.kind = "execute"
        \/ starting # "no"

\* A packet is executed at most once more per post than it was posted: the
\* retry is for the first post only, since repeat_count_ is never reset.
RetriesBounded == \A p \in Packets : repeats[p] <= posts[p] + 1

-----------------------------------------------------------------------------
(* Steps. *)

\* The packet a round hands out: none of the same queue whose key is free has
\* a lower priority number.
LaneOrder ==
    [][PumpOne =>
         LET q == queues[PumpLane]
         IN  \A i \in Free(q) : Priority[Popped(q)] <= Priority[q.queue[i]]]_vars

\* priority.h: "the lower number is the higher priority".  No packet that could
\* be handed out, in either queue, has a lower number than the one that is.
LowerNumberFirst ==
    [][PumpOne =>
         \A l \in Lanes : CanPop(queues[l]) =>
             Priority[Popped(queues[PumpLane])] <= Priority[Popped(queues[l])]]_vars

\* post_packet(): "need wait for timeout (ratelimts)".  A valid packet posted
\* while the rate limit is on is not lost.
RateLimitWaits ==
    [][\A p \in Packets :
         (cooling /\ posts'[p] > posts[p] /\ ~PostInvalid(p)) => lost'[p] = lost[p]]_vars

-----------------------------------------------------------------------------
(* Liveness. *)

\* A packet that waits is handed out (or the queue is cleared), however the
\* packets in front of it end.
WaitingPacketIsTaken == \A p \in Packets : Waiting(p) ~> ~Waiting(p)

\* A key that is out is released, so a method is never blocked for ever.
KeyIsReleased ==
    \A l \in Lanes, m \in Methods :
        m \in queues[l].extracted ~> m \notin queues[l].extracted

=============================================================================
