----------------------------- MODULE ThreadPool -----------------------------
(***************************************************************************)
(* core::tools::threadpool (core/tools/threadpool.cpp): the queue and the  *)
(* worker threads under main_thread (one worker: the core thread), every   *)
(* async_executer and the curl pools.                                      *)
(*                                                                         *)
(* What happens under queue_mutex_ is one step, with two exceptions.  The  *)
(* destructor sets stop_ without the mutex, so a section that reads stop_  *)
(* and acts on what it read is two steps, the mutex held between them.     *)
(* notify_one() is called after the mutex was released.  The holder of the *)
(* mutex follows from the threads' places.                                 *)
(***************************************************************************)
EXTENDS Integers, SequencesExt

CONSTANTS Workers,   \* threads_
          Callers,   \* other threads that use the pool
          Tasks,     \* tasks, each pushed at most once
          WithId,    \* the tasks that have an id, so that they can be raised
          NoTask     \* not a task

ASSUME ThreadPoolAssumption ==
    /\ Workers # {}
    /\ WithId \subseteq Tasks
    /\ NoTask \notin Tasks

VARIABLES tasks,      \* tasks_
          stop,       \* stop_
          worker,     \* where each worker is in run_task_impl()
          running,    \* the task each worker executes
          caller,     \* where each caller is in push_back() or push_front()
          pushing,    \* the task it pushes
          destroyer,  \* where the creator is in the destructor
          offered,    \* tasks push was called for
          accepted,   \* tasks the pool took, in that order
          started,    \* tasks workers took, in that order
          done,       \* tasks executed
          jumped,     \* tasks put in front of others: push_front() or raise_task()
          missed      \* workers that decided to sleep before stop_ and slept after it

queueVars == <<tasks, accepted, started, done, jumped>>
workerVars == <<worker, running>>
callerVars == <<caller, pushing, offered>>
stopVars == <<stop, destroyer, missed>>
vars == <<queueVars, workerVars, callerVars, stopVars>>

WorkerPlaces == {"idle", "locked", "sleepy", "waiting", "busy", "exited"}
CallerPlaces == {"free", "back", "front", "notify"}

TypeOK ==
    /\ tasks \in Seq(Tasks) /\ accepted \in Seq(Tasks) /\ started \in Seq(Tasks)
    /\ done \subseteq Tasks /\ jumped \subseteq Tasks /\ offered \subseteq Tasks
    /\ stop \in BOOLEAN
    /\ worker \in [Workers -> WorkerPlaces]
    /\ running \in [Workers -> Tasks \union {NoTask}]
    /\ \A w \in Workers : worker[w] = "busy" <=> running[w] # NoTask
    /\ caller \in [Callers -> CallerPlaces]
    /\ pushing \in [Callers -> Tasks \union {NoTask}]
    /\ \A c \in Callers : caller[c] \in {"back", "front"} <=> pushing[c] # NoTask
    /\ destroyer \in {"alive", "stopping", "joining", "gone"}
    /\ missed \subseteq Workers

Init ==
    /\ tasks = <<>> /\ accepted = <<>> /\ started = <<>>
    /\ done = {} /\ jumped = {} /\ offered = {}
    /\ stop = FALSE
    /\ worker = [w \in Workers |-> "idle"]
    /\ running = [w \in Workers |-> NoTask]
    /\ caller = [c \in Callers |-> "free"]
    /\ pushing = [c \in Callers |-> NoTask]
    /\ destroyer = "alive"
    /\ missed = {}

\* Nobody holds queue_mutex_.
MutexFree ==
    /\ \A w \in Workers : worker[w] \notin {"locked", "sleepy"}
    /\ \A c \in Callers : caller[c] \notin {"back", "front"}

-----------------------------------------------------------------------------
(* run_task_impl(). *)

Move(w, place) == worker' = [worker EXCEPT ![w] = place]

Lock(w) ==
    /\ worker[w] = "idle"
    /\ MutexFree
    /\ Move(w, "locked")
    /\ UNCHANGED <<queueVars, running, callerVars, stopVars>>

\* The condition of the loop holds: on to wait(), with the mutex.
DecideToSleep(w) ==
    /\ worker[w] = "locked"
    /\ ~stop
    /\ tasks = <<>>
    /\ Move(w, "sleepy")
    /\ UNCHANGED <<queueVars, running, callerVars, stopVars>>

\* wait() releases the mutex and sleeps.
Sleep(w) ==
    /\ worker[w] = "sleepy"
    /\ Move(w, "waiting")
    /\ UNCHANGED <<queueVars, running, callerVars, stopVars>>

\* condition_variable may wake a thread for no reason.
WakeSpuriously(w) ==
    /\ worker[w] = "waiting"
    /\ Move(w, "idle")
    /\ UNCHANGED <<queueVars, running, callerVars, stopVars>>

\* Mutant of Exit: the tasks that still wait are not looked at.
ExitAtOnce(w) ==
    /\ worker[w] = "locked"
    /\ stop
    /\ Move(w, "exited")
    /\ UNCHANGED <<queueVars, running, callerVars, stopVars>>

Exit(w) ==
    /\ worker[w] = "locked"
    /\ stop
    /\ tasks = <<>>
    /\ Move(w, "exited")
    /\ UNCHANGED <<queueVars, running, callerVars, stopVars>>

\* Mutant of Rest: the task stays in front.
RestIsAll(s) == s

\* The first task is taken out ...
Rest(s) == Tail(s)
Take(w) ==
    /\ worker[w] = "locked"
    /\ tasks # <<>>
    /\ Move(w, "busy")
    /\ running' = [running EXCEPT ![w] = Head(tasks)]
    /\ started' = Append(started, Head(tasks))
    /\ tasks' = Rest(tasks)
    /\ UNCHANGED <<accepted, done, jumped, callerVars, stopVars>>

\* Mutant of Finish: the worker keeps the task.
FinishKeepsTask(w) ==
    /\ worker[w] = "busy"
    /\ Move(w, "idle")
    /\ done' = done \union {running[w]}
    /\ UNCHANGED <<tasks, accepted, started, jumped, running, callerVars, stopVars>>

\* ... and executed, without the mutex.
Finish(w) ==
    /\ worker[w] = "busy"
    /\ Move(w, "idle")
    /\ running' = [running EXCEPT ![w] = NoTask]
    /\ done' = done \union {running[w]}
    /\ UNCHANGED <<tasks, accepted, started, jumped, callerVars, stopVars>>

-----------------------------------------------------------------------------
(* push_back() and push_front(). *)

\* The mutex is taken and stop_ is read: push returns false ...
PushRefused(c, t) ==
    /\ caller[c] = "free" /\ destroyer # "gone"
    /\ t \notin offered
    /\ MutexFree
    /\ stop
    /\ offered' = offered \union {t}
    /\ UNCHANGED <<queueVars, workerVars, caller, pushing, stopVars>>

\* ... or goes on, with the mutex.
PushBegin(c, t, end) ==
    /\ caller[c] = "free" /\ destroyer # "gone"
    /\ t \notin offered
    /\ MutexFree
    /\ ~stop
    /\ offered' = offered \union {t}
    /\ caller' = [caller EXCEPT ![c] = end]
    /\ pushing' = [pushing EXCEPT ![c] = t]
    /\ UNCHANGED <<queueVars, workerVars, stopVars>>

\* Mutant of Placed: push_back() puts the task in front.
PlacedFirst(s, t, end) == <<t>> \o s

\* Where a task goes: the end of tasks_ it is pushed to.
Placed(s, t, end) == IF end = "back" THEN Append(s, t) ELSE <<t>> \o s
PushTask(c) ==
    /\ caller[c] \in {"back", "front"}
    /\ tasks' = Placed(tasks, pushing[c], caller[c])
    /\ accepted' = Append(accepted, pushing[c])
    /\ jumped' = IF caller[c] = "front" THEN jumped \union {pushing[c]} ELSE jumped
    /\ caller' = [caller EXCEPT ![c] = "notify"]
    /\ pushing' = [pushing EXCEPT ![c] = NoTask]
    /\ UNCHANGED <<started, done, workerVars, offered, stopVars>>

Waiters == {w \in Workers : worker[w] = "waiting"}

\* Mutant of NotifyOne: nobody is woken.
NotifyNobody(c) ==
    /\ caller[c] = "notify"
    /\ caller' = [caller EXCEPT ![c] = "free"]
    /\ UNCHANGED <<queueVars, workerVars, pushing, offered, stopVars>>

NotifyOne(c) ==
    /\ caller[c] = "notify"
    /\ caller' = [caller EXCEPT ![c] = "free"]
    /\ IF Waiters = {} THEN UNCHANGED worker ELSE \E w \in Waiters : Move(w, "idle")
    /\ UNCHANGED <<queueVars, running, pushing, offered, stopVars>>

-----------------------------------------------------------------------------
(* raise_task(): nobody is notified, the length does not change. *)

RaiseTask(t) ==
    /\ destroyer # "gone"
    /\ t \in WithId
    /\ MutexFree
    /\ \E i \in 2..Len(tasks) :
          tasks[i] = t /\ tasks' = <<t>> \o RemoveAt(tasks, i)
    /\ jumped' = jumped \union {t}
    /\ UNCHANGED <<accepted, started, done, workerVars, callerVars, stopVars>>

-----------------------------------------------------------------------------
(* ~threadpool(). *)

SetStop ==
    /\ destroyer = "alive"
    /\ destroyer' = "stopping"
    /\ stop' = TRUE
    /\ UNCHANGED <<queueVars, workerVars, callerVars, missed>>

\* Mutant of NotifyAll: one worker is woken.
NotifyOneAtStop ==
    /\ destroyer = "stopping"
    /\ destroyer' = "joining"
    /\ IF Waiters = {} THEN UNCHANGED worker ELSE \E w \in Waiters : Move(w, "idle")
    /\ missed' = {w \in Workers : worker[w] = "sleepy"}
    /\ UNCHANGED <<queueVars, running, callerVars, stop>>

\* A worker on its way to sleep is not waiting yet, and is not woken.
NotifyAll ==
    /\ destroyer = "stopping"
    /\ destroyer' = "joining"
    /\ worker' = [w \in Workers |-> IF worker[w] = "waiting" THEN "idle" ELSE worker[w]]
    /\ missed' = {w \in Workers : worker[w] = "sleepy"}
    /\ UNCHANGED <<queueVars, running, callerVars, stop>>

Join ==
    /\ destroyer = "joining"
    /\ \A w \in Workers : worker[w] = "exited"
    /\ destroyer' = "gone"
    /\ UNCHANGED <<queueVars, workerVars, callerVars, stop, missed>>

-----------------------------------------------------------------------------
Worker(w) ==
    Lock(w) \/ DecideToSleep(w) \/ Sleep(w) \/ Exit(w) \/ Take(w) \/ Finish(w)

Caller(c) == PushTask(c) \/ NotifyOne(c)

Push(c) == \E t \in Tasks : \/ PushRefused(c, t)
                            \/ \E end \in {"back", "front"} : PushBegin(c, t, end)

Destructor == SetStop \/ NotifyAll \/ Join

Next ==
    \/ \E w \in Workers : Worker(w) \/ WakeSpuriously(w)
    \/ \E c \in Callers : Caller(c) \/ Push(c)
    \/ \E t \in Tasks : RaiseTask(t)
    \/ Destructor

Spec == Init /\ [][Next]_vars

\* Every thread runs: the destructor once it has begun, and a task ends.  A
\* mutex that is free again and again is got in the end.
Fairness ==
    /\ \A w \in Workers : WF_vars(Worker(w)) /\ SF_vars(Lock(w))
    /\ \A c \in Callers : WF_vars(Caller(c))
    /\ WF_vars(NotifyAll)
    /\ WF_vars(Join)

FairSpec == Spec /\ Fairness

-----------------------------------------------------------------------------
(* Safety. *)

\* A task the pool took is waiting, running or done, and only one of these: no
\* interleaving of push, raise_task and the workers loses it or runs it twice.
InHand(t) == \E w \in Workers : running[w] = t
TasksAccounted ==
    \A t \in Tasks :
        /\ t \in ToSet(accepted) <=> (t \in ToSet(tasks) \/ InHand(t) \/ t \in done)
        /\ ~ (t \in ToSet(tasks) /\ InHand(t))
        /\ ~ (t \in ToSet(tasks) /\ t \in done)
        /\ ~ (InHand(t) /\ t \in done)

\* The workers do not all sleep over a task: if one waits in the queue and they
\* all wait for the condition, a caller is about to notify one.
NoSleepOverTask ==
    (tasks # <<>> /\ Waiters = Workers) =>
        \E c \in Callers : caller[c] = "notify"

\* When the destructor returns, every task push returned true for was executed.
DrainedAtEnd == destroyer = "gone" => \A t \in ToSet(accepted) : t \in done

\* Tasks that were neither pushed to the front nor raised are started in the
\* order the pool took them, each once: what the callbacks of the core thread
\* rely on.
Before(s, t, u) == \E i, j \in DOMAIN s : i < j /\ s[i] = t /\ s[j] = u
FirstComeFirstServed ==
    /\ ToSet(started \o tasks) = ToSet(accepted)
    /\ \A t, u \in Tasks \ jumped : Before(started \o tasks, t, u) <=> Before(accepted, t, u)

-----------------------------------------------------------------------------
(* Liveness. *)

\* A task the pool took is executed.
TaskIsExecuted == \A t \in Tasks : t \in ToSet(accepted) ~> t \in done

\* The destructor returns, unless a worker fell asleep between reading stop_
\* and the notification, which the mutex is not held for.
DestructorReturns == stop ~> (destroyer = "gone" \/ missed # {})

=============================================================================
