-------------------------- MODULE ThreadPoolProofs --------------------------
(***************************************************************************)
(* Proofs about ThreadPool for any number of workers, callers and tasks.   *)
(***************************************************************************)
EXTENDS ThreadPool, SequenceLemmas

\* A caller's place says whether it holds the mutex; so does a worker's.
WorkerHolds(w) == worker[w] \in {"locked", "sleepy"}
CallerHolds(c) == caller[c] \in {"back", "front"}

\* At most one thread holds queue_mutex_.
Mutex ==
    /\ \A v, w \in Workers : WorkerHolds(v) /\ WorkerHolds(w) => v = w
    /\ \A c, d \in Callers : CallerHolds(c) /\ CallerHolds(d) => c = d
    /\ \A w \in Workers, c \in Callers : ~ (WorkerHolds(w) /\ CallerHolds(c))

-----------------------------------------------------------------------------
(* Types. *)

\* Every step keeps the types.
LEMMA TypeStep == TypeOK /\ [Next]_vars => TypeOK'
<1> SUFFICES ASSUME TypeOK, [Next]_vars PROVE TypeOK'
  OBVIOUS
<1> USE DEF TypeOK, WorkerPlaces, CallerPlaces
<1>1. ASSUME NEW w \in Workers, Worker(w) PROVE TypeOK'
  <2>1. CASE Lock(w)
    BY <2>1 DEF Lock, Move, queueVars, callerVars, stopVars
  <2>2. CASE DecideToSleep(w)
    BY <2>2 DEF DecideToSleep, Move, queueVars, callerVars, stopVars
  <2>3. CASE Sleep(w)
    BY <2>3 DEF Sleep, Move, queueVars, callerVars, stopVars
  <2>4. CASE Exit(w)
    BY <2>4 DEF Exit, Move, queueVars, callerVars, stopVars
  <2>5. CASE Take(w)
    <3>1. Head(tasks) \in Tasks /\ Tail(tasks) \in Seq(Tasks)
      BY <2>5, ToSetTail DEF Take
    <3>2. Append(started, Head(tasks)) \in Seq(Tasks)
      BY <3>1
    <3>3. Head(tasks) # NoTask
      BY <3>1, ThreadPoolAssumption
    <3> QED
      BY <2>5, <3>1, <3>2, <3>3 DEF Take, Rest, Move, callerVars, stopVars
  <2>6. CASE Finish(w)
    <3>1. running[w] \in Tasks
      BY <2>6 DEF Finish
    <3> QED
      BY <2>6, <3>1, ThreadPoolAssumption DEF Finish, Move, callerVars, stopVars
  <2> QED  BY <1>1, <2>1, <2>2, <2>3, <2>4, <2>5, <2>6 DEF Worker
<1>2. ASSUME NEW w \in Workers, WakeSpuriously(w) PROVE TypeOK'
  BY <1>2 DEF WakeSpuriously, Move, queueVars, callerVars, stopVars
<1>3. ASSUME NEW c \in Callers, PushTask(c) PROVE TypeOK'
  <2>1. pushing[c] \in Tasks
    BY <1>3 DEF PushTask
  <2>2. /\ Append(tasks, pushing[c]) \in Seq(Tasks)
        /\ <<pushing[c]>> \o tasks \in Seq(Tasks)
        /\ Append(accepted, pushing[c]) \in Seq(Tasks)
    BY <2>1
  <2> QED
    BY <1>3, <2>1, <2>2 DEF PushTask, Placed, workerVars, stopVars
<1>4. ASSUME NEW c \in Callers, NotifyOne(c) PROVE TypeOK'
  BY <1>4 DEF NotifyOne, Waiters, Move, queueVars, stopVars
<1>5. ASSUME NEW c \in Callers, NEW t \in Tasks, PushRefused(c, t) PROVE TypeOK'
  BY <1>5 DEF PushRefused, queueVars, workerVars, stopVars
<1>6. ASSUME NEW c \in Callers, NEW t \in Tasks, NEW end \in {"back", "front"},
             PushBegin(c, t, end)
      PROVE  TypeOK'
  BY <1>6, ThreadPoolAssumption DEF PushBegin, queueVars, workerVars, stopVars
<1>7. ASSUME NEW t \in Tasks, RaiseTask(t) PROVE TypeOK'
  <2>1. PICK i \in 2..Len(tasks) : tasks[i] = t /\ tasks' = <<t>> \o RemoveAt(tasks, i)
    BY <1>7 DEF RaiseTask
  <2>2. tasks' \in Seq(Tasks)
    <3>1. i \in 1..Len(tasks) /\ tasks \in Seq(Tasks)
      OBVIOUS
    <3> QED  BY <2>1, <3>1, ToSetToFront
  <2> QED
    BY <1>7, <2>2 DEF RaiseTask, workerVars, callerVars, stopVars
<1>8. CASE SetStop
  BY <1>8 DEF SetStop, queueVars, workerVars, callerVars
<1>9. CASE NotifyAll
  BY <1>9 DEF NotifyAll, queueVars, callerVars
<1>10. CASE Join
  BY <1>10 DEF Join, queueVars, workerVars, callerVars
<1>11. CASE UNCHANGED vars
  BY <1>11 DEF vars, queueVars, workerVars, callerVars, stopVars
<1> HIDE DEF TypeOK, WorkerPlaces, CallerPlaces
<1>12. ASSUME NEW c \in Callers, Caller(c) \/ Push(c) PROVE TypeOK'
  BY <1>3, <1>4, <1>5, <1>6, <1>12 DEF Caller, Push
<1> QED
  BY <1>1, <1>2, <1>7, <1>8, <1>9, <1>10, <1>11, <1>12 DEF Next, Destructor

\* The initial state has the types.
LEMMA TypeInit == Init => TypeOK
<1>1. ASSUME Init PROVE TypeOK
  <2>1. <<>> \in Seq(Tasks)
    OBVIOUS
  <2>2. /\ worker \in [Workers -> WorkerPlaces]
        /\ running \in [Workers -> Tasks \union {NoTask}]
        /\ caller \in [Callers -> CallerPlaces]
        /\ pushing \in [Callers -> Tasks \union {NoTask}]
    BY <1>1 DEF Init, WorkerPlaces, CallerPlaces
  <2>3. \A w \in Workers : worker[w] = "busy" <=> running[w] # NoTask
    BY <1>1 DEF Init
  <2>4. \A c \in Callers : caller[c] \in {"back", "front"} <=> pushing[c] # NoTask
    BY <1>1 DEF Init
  <2> QED  BY <1>1, <2>1, <2>2, <2>3, <2>4 DEF Init, TypeOK
<1> QED  BY <1>1

\* Every variable of the pool keeps its type, and a worker has a task exactly
\* while it is busy, a caller exactly while it holds the mutex.
THEOREM TypeCorrect == Spec => []TypeOK
BY TypeInit, TypeStep, PTL DEF Spec

-----------------------------------------------------------------------------
(* Who holds the mutex, and what a worker that left the loop has seen. *)

\* A worker goes to sleep with the mutex, having seen that nothing waits.
SleepySeesNothing == \A w \in Workers : worker[w] = "sleepy" => tasks = <<>>

\* A worker that has exited saw stop_ and an empty queue with the mutex, and no
\* caller had read stop_ before and was still to add its task.
ExitIsFinal ==
    \A w \in Workers : worker[w] = "exited" =>
        stop /\ tasks = <<>> /\ \A c \in Callers : ~CallerHolds(c)

\* The destructor has returned only after every worker exited.
GoneMeansExited == destroyer = "gone" => \A w \in Workers : worker[w] = "exited"

Control == TypeOK /\ Mutex /\ SleepySeesNothing /\ ExitIsFinal /\ GoneMeansExited

\* Every step keeps them.
LEMMA ControlStep == Control /\ [Next]_vars => Control'
<1> SUFFICES ASSUME Control, [Next]_vars PROVE Control'
  OBVIOUS
<1>t. TypeOK /\ TypeOK'
  BY TypeStep DEF Control
<1> DEFINE Rest4 == Mutex /\ SleepySeesNothing /\ ExitIsFinal /\ GoneMeansExited
<1>0. Rest4 /\ worker \in [Workers -> WorkerPlaces] /\ caller \in [Callers -> CallerPlaces]
  BY <1>t DEF Control, TypeOK
<1> SUFFICES Rest4'
  BY <1>t DEF Control
<1> USE DEF Mutex, SleepySeesNothing, ExitIsFinal, GoneMeansExited, WorkerHolds, CallerHolds
<1>1. ASSUME NEW w \in Workers, Worker(w) PROVE Rest4'
  <2>1. CASE Lock(w)
    BY <1>0, <2>1 DEF Lock, MutexFree, Move, queueVars, callerVars, stopVars
  <2>2. CASE DecideToSleep(w)
    BY <1>0, <2>2 DEF DecideToSleep, Move, queueVars, callerVars, stopVars
  <2>3. CASE Sleep(w)
    BY <1>0, <2>3 DEF Sleep, Move, queueVars, callerVars, stopVars
  <2>4. CASE Exit(w)
    BY <1>0, <2>4 DEF Exit, Move, queueVars, callerVars, stopVars
  <2>5. CASE Take(w)
    <3>1. /\ worker[w] = "locked" /\ tasks # <<>>
          /\ worker' = [worker EXCEPT ![w] = "busy"]
          /\ UNCHANGED <<caller, stop, destroyer>>
      BY <2>5 DEF Take, Move, callerVars, stopVars
    <3>2. \A v \in Workers : worker[v] # "exited" /\ worker[v] # "sleepy"
      BY <1>0, <3>1
    <3>3. \A v \in Workers : worker'[v] # "exited" /\ worker'[v] # "sleepy"
      BY <1>0, <3>1, <3>2
    <3> QED  BY <1>0, <3>1, <3>2, <3>3
  <2>6. CASE Finish(w)
    BY <1>0, <2>6 DEF Finish, Move, callerVars, stopVars
  <2> QED  BY <1>1, <2>1, <2>2, <2>3, <2>4, <2>5, <2>6 DEF Worker
<1>2. ASSUME NEW w \in Workers, WakeSpuriously(w) PROVE Rest4'
  BY <1>0, <1>2 DEF WakeSpuriously, Move, queueVars, callerVars, stopVars
<1>3. ASSUME NEW c \in Callers, PushTask(c) PROVE Rest4'
  <2>1. /\ CallerHolds(c)
        /\ caller' = [caller EXCEPT ![c] = "notify"]
        /\ UNCHANGED <<worker, stop, destroyer>>
    BY <1>3 DEF PushTask, workerVars, stopVars
  <2>2. \A w \in Workers : worker[w] # "exited" /\ ~WorkerHolds(w)
    BY <1>0, <2>1
  <2> QED  BY <1>0, <2>1, <2>2
<1>4. ASSUME NEW c \in Callers, NotifyOne(c) PROVE Rest4'
  <2>1. /\ caller' = [caller EXCEPT ![c] = "free"]
        /\ UNCHANGED <<tasks, stop, destroyer>>
    BY <1>4 DEF NotifyOne, queueVars, stopVars
  <2>2. CASE UNCHANGED worker
    BY <1>0, <2>1, <2>2
  <2>3. ASSUME NEW w \in Waiters, Move(w, "idle") PROVE Rest4'
    BY <1>0, <2>1, <2>3 DEF Waiters, Move
  <2> QED  BY <1>4, <2>2, <2>3 DEF NotifyOne
<1>5. ASSUME NEW c \in Callers, NEW t \in Tasks, PushRefused(c, t) PROVE Rest4'
  BY <1>0, <1>5 DEF PushRefused, queueVars, workerVars, stopVars
<1>6. ASSUME NEW c \in Callers, NEW t \in Tasks, NEW end \in {"back", "front"},
             PushBegin(c, t, end)
      PROVE  Rest4'
  BY <1>0, <1>6 DEF PushBegin, MutexFree, queueVars, workerVars, stopVars
<1>7. ASSUME NEW t \in Tasks, RaiseTask(t) PROVE Rest4'
  <2>1. /\ MutexFree /\ UNCHANGED <<worker, caller, stop, destroyer>>
        /\ \E i \in 2..Len(tasks) : TRUE
    BY <1>7 DEF RaiseTask, workerVars, callerVars, stopVars
  <2>2. tasks # <<>>
    BY <2>1
  <2> QED  BY <1>0, <2>1, <2>2 DEF MutexFree
<1>8. CASE SetStop
  BY <1>0, <1>8 DEF SetStop, queueVars, workerVars, callerVars
<1>9. CASE NotifyAll
  BY <1>0, <1>9 DEF NotifyAll, queueVars, callerVars
<1>10. CASE Join
  BY <1>0, <1>10 DEF Join, queueVars, workerVars, callerVars
<1>11. CASE UNCHANGED vars
  BY <1>0, <1>11 DEF vars, queueVars, workerVars, callerVars, stopVars
<1> HIDE DEF Rest4
<1>12. ASSUME NEW c \in Callers, Caller(c) \/ Push(c) PROVE Rest4'
  BY <1>3, <1>4, <1>5, <1>6, <1>12 DEF Caller, Push
<1> QED
  BY <1>1, <1>2, <1>7, <1>8, <1>9, <1>10, <1>11, <1>12 DEF Next, Destructor

\* The initial state has them.
LEMMA ControlInit == Init => Control
<1> SUFFICES ASSUME Init PROVE Control
  OBVIOUS
<1>1. Mutex /\ SleepySeesNothing /\ ExitIsFinal /\ GoneMeansExited
  BY DEF Init, Mutex, SleepySeesNothing, ExitIsFinal, GoneMeansExited, WorkerHolds,
         CallerHolds
<1> QED  BY <1>1, TypeInit DEF Control

-----------------------------------------------------------------------------
(* Nobody sleeps over a task. *)

\* Every step keeps NoSleepOverTask.
LEMMA NoSleepStep == Control /\ NoSleepOverTask /\ [Next]_vars => NoSleepOverTask'
<1> SUFFICES ASSUME Control, NoSleepOverTask, [Next]_vars PROVE NoSleepOverTask'
  OBVIOUS
<1>0. /\ worker \in [Workers -> WorkerPlaces] /\ caller \in [Callers -> CallerPlaces]
      /\ SleepySeesNothing
  BY DEF Control, TypeOK
\* A worker that is not waiting afterwards is enough.
<1>a. ASSUME NEW w \in Workers, worker'[w] # "waiting" PROVE NoSleepOverTask'
  BY <1>a DEF NoSleepOverTask, Waiters
<1>1. ASSUME NEW w \in Workers, Worker(w) PROVE NoSleepOverTask'
  <2>1. CASE Sleep(w)
    <3>1. tasks = <<>> /\ tasks' = tasks
      BY <1>0, <2>1 DEF Sleep, SleepySeesNothing, queueVars
    <3> QED  BY <3>1 DEF NoSleepOverTask
  <2>2. CASE ~Sleep(w)
    <3>1. worker'[w] # "waiting"
      BY <1>0, <1>1, <2>2 DEF Worker, Lock, DecideToSleep, Exit, Take, Finish, Move
    <3> QED  BY <1>a, <3>1
  <2> QED  BY <2>1, <2>2
<1>2. ASSUME NEW w \in Workers, WakeSpuriously(w) PROVE NoSleepOverTask'
  BY <1>0, <1>2, <1>a DEF WakeSpuriously, Move
<1>3. ASSUME NEW c \in Callers, PushTask(c) PROVE NoSleepOverTask'
  <2>1. caller'[c] = "notify"
    BY <1>0, <1>3 DEF PushTask
  <2> QED  BY <2>1 DEF NoSleepOverTask
<1>4. ASSUME NEW c \in Callers, NotifyOne(c) PROVE NoSleepOverTask'
  <2>1. CASE Waiters = {}
    <3>1. PICK w \in Workers : TRUE
      BY ThreadPoolAssumption
    <3>2. worker'[w] # "waiting"
      BY <1>4, <2>1, <3>1 DEF NotifyOne, Waiters
    <3> QED  BY <1>a, <3>2
  <2>2. CASE Waiters # {}
    <3>1. PICK w \in Waiters : Move(w, "idle")
      BY <1>4, <2>2 DEF NotifyOne
    <3>2. w \in Workers /\ worker'[w] # "waiting"
      BY <1>0, <3>1 DEF Move, Waiters
    <3> QED  BY <1>a, <3>2
  <2> QED  BY <2>1, <2>2
<1>5. ASSUME NEW c \in Callers, NEW t \in Tasks, PushRefused(c, t)
      PROVE  NoSleepOverTask'
  BY <1>5 DEF PushRefused, NoSleepOverTask, Waiters, queueVars, workerVars
<1>6. ASSUME NEW c \in Callers, NEW t \in Tasks, NEW end \in {"back", "front"},
             PushBegin(c, t, end)
      PROVE  NoSleepOverTask'
  <2>1. /\ UNCHANGED <<tasks, worker>> /\ caller[c] = "free"
        /\ caller' = [caller EXCEPT ![c] = end]
    BY <1>6 DEF PushBegin, queueVars, workerVars
  <2>2. \A d \in Callers : caller[d] = "notify" => caller'[d] = "notify"
    BY <1>0, <2>1
  <2> QED  BY <2>1, <2>2 DEF NoSleepOverTask, Waiters
<1>7. ASSUME NEW t \in Tasks, RaiseTask(t) PROVE NoSleepOverTask'
  <2>1. /\ UNCHANGED <<worker, caller>> /\ tasks # <<>>
    BY <1>7 DEF RaiseTask, workerVars, callerVars
  <2> QED  BY <2>1 DEF NoSleepOverTask, Waiters
<1>8. CASE SetStop \/ Join
  BY <1>8 DEF SetStop, Join, NoSleepOverTask, Waiters, queueVars, workerVars, callerVars
<1>9. CASE NotifyAll
  <2>1. PICK w \in Workers : TRUE
    BY ThreadPoolAssumption
  <2>2. worker'[w] # "waiting"
    BY <1>0, <1>9 DEF NotifyAll
  <2> QED  BY <1>a, <2>2
<1>10. CASE UNCHANGED vars
  BY <1>10 DEF NoSleepOverTask, Waiters, vars, queueVars, workerVars, callerVars
<1>11. ASSUME NEW c \in Callers, Caller(c) \/ Push(c) PROVE NoSleepOverTask'
  BY <1>3, <1>4, <1>5, <1>6, <1>11 DEF Caller, Push
<1> QED
  BY <1>1, <1>2, <1>7, <1>8, <1>9, <1>10, <1>11 DEF Next, Destructor

\* No lost wakeup on push: whatever the number of threads, a task that waits
\* finds a worker awake or a caller about to wake one (condition_.wait() in
\* run_task_impl() against notify_one() after the mutex in push_back()).
THEOREM NobodySleepsOverATask == Spec => []NoSleepOverTask
<1>1. Init => Control /\ NoSleepOverTask
  BY ControlInit DEF Init, NoSleepOverTask
<1>2. (Control /\ NoSleepOverTask) /\ [Next]_vars => (Control /\ NoSleepOverTask)'
  BY ControlStep, NoSleepStep
<1> QED  BY <1>1, <1>2, PTL DEF Spec

-----------------------------------------------------------------------------
(* Every task is in one place. *)

\* A task waits once, runs in one worker or was executed, if the pool took it; one
\* that a caller is about to add was offered and has not been taken.
Tracked(t) ==
    /\ Among(tasks, {t}) <= 1
    /\ InHand(t) => Among(tasks, {t}) = 0
    /\ t \in done => Among(tasks, {t}) = 0 /\ ~InHand(t)
    /\ \A v, w \in Workers : running[v] = t /\ running[w] = t => v = w
    /\ t \in ToSet(accepted) <=> (Among(tasks, {t}) = 1 \/ InHand(t) \/ t \in done)
    /\ t \in ToSet(accepted) => t \in offered
    /\ \A c \in Callers : pushing[c] = t => t \in offered /\ t \notin ToSet(accepted)
OnePlace == \A t \in Tasks : Tracked(t)

\* Every step keeps it.
LEMMA OnePlaceStep == Control /\ OnePlace /\ [Next]_vars => OnePlace'
<1> SUFFICES ASSUME Control, OnePlace, [Next]_vars PROVE OnePlace'
  OBVIOUS
<1>0. /\ tasks \in Seq(Tasks) /\ accepted \in Seq(Tasks)
      /\ running \in [Workers -> Tasks \union {NoTask}]
      /\ pushing \in [Callers -> Tasks \union {NoTask}]
      /\ \A w \in Workers : worker[w] = "busy" <=> running[w] # NoTask
      /\ \A c \in Callers : caller[c] \in {"back", "front"} <=> pushing[c] # NoTask
  BY DEF Control, TypeOK
<1>n. ASSUME NEW t PROVE Among(tasks, {t}) \in Nat
  BY <1>0, AmongType
\* Steps that leave the tasks where they are, in the same or another order.
<1>a. ASSUME \A t \in Tasks : Among(tasks', {t}) = Among(tasks, {t}),
             UNCHANGED <<accepted, running, done, offered, pushing>>
      PROVE  OnePlace'
  BY <1>a DEF OnePlace, Tracked, InHand
<1>b. ASSUME UNCHANGED <<queueVars, running, offered, pushing>> PROVE OnePlace'
  BY <1>a, <1>b DEF queueVars
<1>1. ASSUME NEW w \in Workers, Worker(w) PROVE OnePlace'
  <2>1. CASE Lock(w) \/ DecideToSleep(w) \/ Sleep(w) \/ Exit(w)
    BY <1>b, <2>1 DEF Lock, DecideToSleep, Sleep, Exit, callerVars
  <2>2. CASE Take(w)
    <3>1. PICK first, left : first = Head(tasks) /\ left = Tail(tasks)
      OBVIOUS
    <3>2. /\ tasks # <<>> /\ tasks' = left
          /\ running' = [running EXCEPT ![w] = first] /\ running[w] = NoTask
          /\ UNCHANGED <<accepted, done, offered, pushing>>
      BY <1>0, <2>2, <3>1 DEF Take, Rest, callerVars
    <3>3. first \in Tasks /\ first # NoTask /\ left \in Seq(Tasks)
      BY <1>0, <3>1, <3>2, ToSetTail, ThreadPoolAssumption
    <3> SUFFICES ASSUME NEW t \in Tasks PROVE Tracked(t)'
      BY DEF OnePlace
    <3>4. Among(tasks, {t}) = Among(left, {t}) + Weight(first, {t})
      BY <1>0, <3>1, <3>2, AmongTail
    <3>5. Among(left, {t}) \in Nat /\ t # NoTask
      BY <3>3, AmongType, ThreadPoolAssumption
    <3>6. \A v \in Workers : running'[v] = IF v = w THEN first ELSE running[v]
      BY <1>0, <3>2
    <3>7. CASE t = first
      <4>1. Among(tasks, {t}) = Among(left, {t}) + 1
        BY <3>4, <3>7 DEF Weight
      <4>2. Among(tasks, {t}) = 1 /\ Among(left, {t}) = 0
        <5>1. Among(tasks, {t}) <= 1
          BY DEF OnePlace, Tracked
        <5>2. PICK before, after : before = Among(tasks, {t}) /\ after = Among(left, {t})
          OBVIOUS
        <5>3. before = after + 1 /\ before <= 1 /\ before \in Nat /\ after \in Nat
          BY <3>5, <4>1, <5>1, <5>2
        <5>4. before = 1 /\ after = 0
          BY ONLY <5>3
        <5> QED  BY <5>2, <5>4
      <4>3. ~InHand(t) /\ t \notin done /\ t \in ToSet(accepted)
        <5>1. /\ InHand(t) => Among(tasks, {t}) = 0
              /\ t \in done => Among(tasks, {t}) = 0
              /\ Among(tasks, {t}) = 1 => t \in ToSet(accepted)
          BY DEF OnePlace, Tracked
        <5>2. Among(tasks, {t}) # 0 /\ Among(tasks, {t}) = 1
          BY <4>2
        <5> QED  BY ONLY <5>1, <5>2
      <4>4. \A v \in Workers : running'[v] = t <=> v = w
        BY <3>6, <3>7, <4>3 DEF InHand
      <4>5. InHand(t)'
        BY <4>4 DEF InHand
      <4> QED  BY <3>2, <4>2, <4>3, <4>4, <4>5 DEF OnePlace, Tracked
    <3>8. CASE t # first
      <4>1. Among(left, {t}) = Among(tasks, {t})
        BY <3>4, <3>5, <3>8 DEF Weight
      <4>2. \A v \in Workers : running'[v] = t <=> running[v] = t
        BY <3>2, <3>5, <3>6, <3>8
      <4>3. InHand(t)' <=> InHand(t)
        BY <4>2 DEF InHand
      <4> QED  BY <3>2, <4>1, <4>2, <4>3 DEF OnePlace, Tracked
    <3> QED  BY <3>7, <3>8
  <2>3. CASE Finish(w)
    <3>1. PICK last : last = running[w]
      OBVIOUS
    <3>2. /\ running' = [running EXCEPT ![w] = NoTask] /\ done' = done \union {last}
          /\ last \in Tasks
          /\ UNCHANGED <<tasks, accepted, offered, pushing>>
      BY <1>0, <2>3, <3>1 DEF Finish, callerVars
    <3> SUFFICES ASSUME NEW t \in Tasks PROVE Tracked(t)'
      BY DEF OnePlace
    <3>3. \A v \in Workers : running'[v] = t <=> running[v] = t /\ v # w
      BY <1>0, <3>2, ThreadPoolAssumption
    <3>4. CASE t = last
      <4>1. InHand(t)
        BY <3>1, <3>4 DEF InHand
      <4>2. ~InHand(t)'
        BY <3>1, <3>3, <3>4 DEF InHand, OnePlace, Tracked
      <4> QED  BY <3>2, <3>3, <3>4, <4>1, <4>2 DEF OnePlace, Tracked
    <3>5. CASE t # last
      <4>1. InHand(t)' <=> InHand(t)
        BY <3>1, <3>3, <3>5 DEF InHand
      <4> QED  BY <3>2, <3>3, <3>5, <4>1 DEF OnePlace, Tracked
    <3> QED  BY <3>4, <3>5
  <2> QED  BY <1>1, <2>1, <2>2, <2>3 DEF Worker
<1>2. ASSUME NEW w \in Workers, WakeSpuriously(w) PROVE OnePlace'
  BY <1>b, <1>2 DEF WakeSpuriously, callerVars
<1>3. ASSUME NEW c \in Callers, PushTask(c) PROVE OnePlace'
  <2>1. PICK new : new = pushing[c]
    OBVIOUS
  <2>2. /\ new \in Tasks /\ new # NoTask
        /\ accepted' = Append(accepted, new) /\ pushing' = [pushing EXCEPT ![c] = NoTask]
        /\ UNCHANGED <<running, done, offered>>
    BY <1>0, <1>3, <2>1 DEF PushTask, workerVars
  <2>3. ToSet(accepted') = ToSet(accepted) \union {new}
    BY <1>0, <2>2, ToSetAppend
  <2>4. \A t : Among(tasks', {t}) = Among(tasks, {t}) + Weight(new, {t})
    <3>1. CASE tasks' = Append(tasks, new)
      BY <1>0, <2>2, <3>1, AmongAppend
    <3>2. CASE tasks' = <<new>> \o tasks
      <4>1. <<new>> \in Seq(Tasks)
        BY <2>2
      <4> SUFFICES ASSUME NEW t PROVE Among(tasks', {t}) = Among(tasks, {t}) + Weight(new, {t})
        OBVIOUS
      <4>2. Among(<<new>> \o tasks, {t}) = Among(<<new>>, {t}) + Among(tasks, {t})
        <5>1. PICK f \in Seq(Tasks) : f = <<new>>
          BY <4>1
        <5>2. tasks \in Seq(Tasks)
          BY <1>0
        <5>3. Among(f \o tasks, {t}) = Among(f, {t}) + Among(tasks, {t})
          BY ONLY <5>2, AmongConcat, f \in Seq(Tasks)
        <5> QED  BY <5>1, <5>3
      <4>3. Among(<<new>>, {t}) = Weight(new, {t})
        BY <2>2, AmongSingle
      <4>4. Weight(new, {t}) \in Nat /\ Among(tasks, {t}) \in Nat
        BY <1>n DEF Weight
      <4> QED  BY <3>2, <4>2, <4>3, <4>4
    <3> QED  BY <1>3, <2>1, <3>1, <3>2 DEF PushTask, Placed
  <2>5. \A d \in Callers : pushing[d] = new => d = c
    <3> SUFFICES ASSUME NEW d \in Callers, pushing[d] = new PROVE d = c
      OBVIOUS
    <3>1. CallerHolds(c) /\ CallerHolds(d)
      BY <1>0, <2>1, <2>2 DEF CallerHolds
    <3> QED  BY <3>1 DEF Control, Mutex
  <2> SUFFICES ASSUME NEW t \in Tasks PROVE Tracked(t)'
    BY DEF OnePlace
  <2>6. InHand(t)' <=> InHand(t)
    BY <2>2 DEF InHand
  <2>7. \A d \in Callers : pushing'[d] = t <=> pushing[d] = t /\ d # c
    BY <1>0, <2>2, ThreadPoolAssumption
  <2>8. CASE t = new
    <3>1. t \notin ToSet(accepted) /\ t \in offered
      BY <2>1, <2>8 DEF OnePlace, Tracked
    <3>2. Among(tasks, {t}) = 0 /\ ~InHand(t) /\ t \notin done
      <4>1. Among(tasks, {t}) \in Nat /\ Among(tasks, {t}) <= 1
        BY <1>n DEF OnePlace, Tracked
      <4>2. Among(tasks, {t}) # 1 /\ ~InHand(t) /\ t \notin done
        BY <3>1 DEF OnePlace, Tracked
      <4> QED  BY <4>1, <4>2
    <3>3. Among(tasks', {t}) = 1
      BY <2>4, <2>8, <3>2 DEF Weight
    <3>4. \A d \in Callers : pushing'[d] # t
      BY <2>5, <2>7, <2>8
    <3> QED  BY <2>2, <2>3, <2>6, <2>8, <3>1, <3>2, <3>3, <3>4 DEF OnePlace, Tracked
  <2>9. CASE t # new
    <3>1. Among(tasks', {t}) = Among(tasks, {t})
      <4>1. Weight(new, {t}) = 0 /\ Among(tasks, {t}) \in Nat
        BY <1>n, <2>9 DEF Weight
      <4>2. Among(tasks', {t}) = Among(tasks, {t}) + Weight(new, {t})
        BY <2>4
      <4> QED  BY <4>1, <4>2
    <3>2. t \in ToSet(accepted') <=> t \in ToSet(accepted)
      BY <2>3, <2>9
    <3> QED  BY <2>2, <2>6, <2>7, <3>1, <3>2 DEF OnePlace, Tracked
  <2> QED  BY <2>8, <2>9
<1>4. ASSUME NEW c \in Callers, NotifyOne(c) PROVE OnePlace'
  BY <1>b, <1>4 DEF NotifyOne
<1>5. ASSUME NEW c \in Callers, NEW new \in Tasks,
             PushRefused(c, new) \/ \E end \in {"back", "front"} : PushBegin(c, new, end)
      PROVE  OnePlace'
  <2>1. /\ new \notin offered /\ offered' = offered \union {new}
        /\ pushing' = pushing \/ pushing' = [pushing EXCEPT ![c] = new]
        /\ UNCHANGED <<tasks, accepted, done, running>>
    BY <1>5 DEF PushRefused, PushBegin, queueVars, workerVars
  <2> SUFFICES ASSUME NEW t \in Tasks PROVE Tracked(t)'
    BY DEF OnePlace
  <2>2. InHand(t)' <=> InHand(t)
    BY <2>1 DEF InHand
  <2>3. new \notin ToSet(accepted)
    BY <2>1 DEF OnePlace, Tracked
  <2>4. \A d \in Callers : pushing'[d] = t => pushing[d] = t \/ t = new
    BY <1>0, <2>1
  <2> QED  BY <2>1, <2>2, <2>3, <2>4 DEF OnePlace, Tracked
<1>6. ASSUME NEW t \in Tasks, RaiseTask(t) PROVE OnePlace'
  <2>1. PICK i \in 2..Len(tasks) : tasks[i] = t /\ tasks' = <<t>> \o RemoveAt(tasks, i)
    BY <1>6 DEF RaiseTask
  <2>2. i \in 1..Len(tasks)
    BY <1>0
  <2>3. RemoveAt(tasks, i) \in Seq(Tasks) /\ <<t>> \in Seq(Tasks)
    BY <1>0, <2>2, RemoveAtElements
  <2>4. ASSUME NEW u \in Tasks PROVE Among(tasks', {u}) = Among(tasks, {u})
    <3>1. Among(tasks, {u}) = Among(RemoveAt(tasks, i), {u}) + Weight(t, {u})
      BY <1>0, <2>1, <2>2, AmongRemoveAt
    <3>2. Among(tasks', {u}) = Among(<<t>>, {u}) + Among(RemoveAt(tasks, i), {u})
      <4>1. PICK f, r : f = <<t>> /\ r = RemoveAt(tasks, i)
        OBVIOUS
      <4>2. f \in Seq(Tasks) /\ r \in Seq(Tasks)
        BY <2>3, <4>1
      <4>3. Among(f \o r, {u}) = Among(f, {u}) + Among(r, {u})
        BY <4>2, AmongConcat
      <4> QED  BY <2>1, <4>1, <4>3
    <3>3. Among(<<t>>, {u}) = Weight(t, {u})
      BY AmongSingle
    <3>4. Among(RemoveAt(tasks, i), {u}) \in Nat /\ Weight(t, {u}) \in Nat
      BY <2>3, AmongType DEF Weight
    <3> QED  BY <3>1, <3>2, <3>3, <3>4
  <2> QED  BY <1>a, <1>6, <2>4 DEF RaiseTask, workerVars, callerVars
<1>7. CASE SetStop \/ NotifyAll \/ Join
  BY <1>b, <1>7 DEF SetStop, NotifyAll, Join, workerVars, callerVars
<1>8. CASE UNCHANGED vars
  BY <1>b, <1>8 DEF vars, workerVars, callerVars
<1>9. ASSUME NEW c \in Callers, Caller(c) \/ Push(c) PROVE OnePlace'
  BY <1>3, <1>4, <1>5, <1>9 DEF Caller, Push
<1> QED
  BY <1>1, <1>2, <1>6, <1>7, <1>8, <1>9 DEF Next, Destructor

\* Nothing has a place initially.
LEMMA OnePlaceInit == Init => OnePlace
<1> SUFFICES ASSUME Init, NEW t \in Tasks PROVE Tracked(t)
  BY DEF OnePlace
<1>1. Among(tasks, {t}) = 0
  BY AmongEmpty DEF Init
<1>2. t # NoTask
  BY ThreadPoolAssumption
<1>3. ~InHand(t) /\ \A c \in Callers : pushing[c] # t
  BY <1>2 DEF Init, InHand
<1>4. t \notin ToSet(accepted)
  BY DEF Init, ToSet
<1> QED  BY <1>1, <1>3, <1>4 DEF Init, Tracked, InHand

\* What is in one place is where the pool's account says.
LEMMA OnePlaceAccounts == TypeOK /\ OnePlace => TasksAccounted
<1> SUFFICES ASSUME TypeOK, OnePlace, NEW t \in Tasks
             PROVE  /\ t \in ToSet(accepted) <=> (t \in ToSet(tasks) \/ InHand(t) \/ t \in done)
                    /\ ~ (t \in ToSet(tasks) /\ InHand(t))
                    /\ ~ (t \in ToSet(tasks) /\ t \in done)
                    /\ ~ (InHand(t) /\ t \in done)
  BY DEF TasksAccounted
<1>1. Among(tasks, {t}) \in Nat
  BY AmongType DEF TypeOK
<1>2. t \in ToSet(tasks) <=> Among(tasks, {t}) # 0
  BY AmongZero DEF TypeOK, ToSet
<1>3. Tracked(t)
  BY DEF OnePlace
<1> QED  BY <1>1, <1>2, <1>3 DEF Tracked

\* Whatever push_back(), push_front(), raise_task() and the workers do at once, a task
\* the pool took waits, runs or was executed, and only one of these.
THEOREM EachTaskOnce == Spec => []TasksAccounted
<1>1. Init => Control /\ OnePlace
  BY ControlInit, OnePlaceInit
<1>2. (Control /\ OnePlace) /\ [Next]_vars => (Control /\ OnePlace)'
  BY ControlStep, OnePlaceStep
<1>3. Control /\ OnePlace => TasksAccounted
  BY OnePlaceAccounts DEF Control
<1> QED  BY <1>1, <1>2, <1>3, PTL DEF Spec

\* When the destructor has returned, every task a push returned true for was
\* executed: callers may push while it runs, and read stop_ before it is set.
THEOREM NothingLeftAtEnd == Spec => []DrainedAtEnd
<1>1. Init => Control /\ OnePlace
  BY ControlInit, OnePlaceInit
<1>2. (Control /\ OnePlace) /\ [Next]_vars => (Control /\ OnePlace)'
  BY ControlStep, OnePlaceStep
<1>3. Control /\ OnePlace => DrainedAtEnd
  <2> SUFFICES ASSUME Control, OnePlace, destroyer = "gone", NEW t \in ToSet(accepted)
               PROVE  t \in done
    BY DEF DrainedAtEnd
  <2>1. \A w \in Workers : worker[w] = "exited"
    BY DEF Control, GoneMeansExited
  <2>2. tasks = <<>>
    BY <2>1, ThreadPoolAssumption DEF Control, ExitIsFinal
  <2>3. t \notin ToSet(tasks)
    BY <2>2 DEF ToSet
  <2>4. t \in Tasks
    BY DEF Control, TypeOK, ToSet
  <2>5. ~InHand(t)
    BY <2>1, <2>4, ThreadPoolAssumption DEF InHand, Control, TypeOK
  <2>6. TasksAccounted
    BY OnePlaceAccounts DEF Control
  <2> QED  BY <2>3, <2>4, <2>5, <2>6 DEF TasksAccounted
<1> QED  BY <1>1, <1>2, <1>3, PTL DEF Spec

-----------------------------------------------------------------------------
(* First come, first served. *)

\* What comes before what in a concatenation.
LEMMA BeforeConcat ==
    ASSUME NEW S, NEW s \in Seq(S), NEW r \in Seq(S), NEW x, NEW y
    PROVE  Before(s \o r, x, y)
             <=> Before(s, x, y) \/ Before(r, x, y) \/ (x \in ToSet(s) /\ y \in ToSet(r))
<1>1. PICK m \in Nat, n \in Nat : m = Len(s) /\ n = Len(r)
  BY LenProperties
<1>2. PICK q \in Seq(S) : q = s \o r
  BY ConcatProperties
<1>3. /\ DOMAIN s = 1..m /\ DOMAIN r = 1..n /\ DOMAIN q = 1..(m + n)
      /\ \A i \in 1..(m + n) : q[i] = IF i <= m THEN s[i] ELSE r[i - m]
  BY <1>1, <1>2, ConcatProperties, LenProperties
<1>4. ASSUME Before(q, x, y)
      PROVE  Before(s, x, y) \/ Before(r, x, y) \/ (x \in ToSet(s) /\ y \in ToSet(r))
  <2>1. PICK i \in 1..(m + n), j \in 1..(m + n) : i < j /\ q[i] = x /\ q[j] = y
    BY <1>3, <1>4 DEF Before
  <2>2. CASE j <= m
    <3>1. i \in DOMAIN s /\ j \in DOMAIN s /\ s[i] = x /\ s[j] = y
      BY <1>3, <2>1, <2>2
    <3> QED  BY <2>1, <3>1 DEF Before
  <2>3. CASE i > m
    <3>1. /\ i - m \in DOMAIN r /\ j - m \in DOMAIN r /\ i - m < j - m
          /\ r[i - m] = x /\ r[j - m] = y
      BY <1>3, <2>1, <2>3
    <3> QED  BY <3>1 DEF Before
  <2>4. CASE i <= m /\ j > m
    <3>1. i \in DOMAIN s /\ s[i] = x /\ j - m \in DOMAIN r /\ r[j - m] = y
      BY <1>3, <2>1, <2>4
    <3> QED  BY <3>1 DEF ToSet
  <2> QED  BY <2>1, <2>2, <2>3, <2>4
<1>5. ASSUME Before(s, x, y) PROVE Before(q, x, y)
  <2>1. PICK i \in 1..m, j \in 1..m : i < j /\ s[i] = x /\ s[j] = y
    BY <1>3, <1>5 DEF Before
  <2>2. i \in DOMAIN q /\ j \in DOMAIN q /\ q[i] = x /\ q[j] = y
    BY <1>3, <2>1
  <2> QED  BY <2>1, <2>2 DEF Before
<1>s. ASSUME NEW i \in 1..n
      PROVE  m + i \in 1..(m + n) /\ ~(m + i <= m) /\ (m + i) - m = i /\ q[m + i] = r[i]
  <2>1. m + i \in 1..(m + n) /\ ~(m + i <= m) /\ (m + i) - m = i
    OBVIOUS
  <2> QED  BY <1>3, <2>1
<1>6. ASSUME Before(r, x, y) PROVE Before(q, x, y)
  <2>1. PICK i \in 1..n, j \in 1..n : i < j /\ r[i] = x /\ r[j] = y
    BY <1>3, <1>6 DEF Before
  <2>2. m + i \in DOMAIN q /\ m + j \in DOMAIN q /\ q[m + i] = x /\ q[m + j] = y
    BY <1>3, <1>s, <2>1
  <2>3. m + i < m + j
    BY <2>1
  <2> QED  BY <2>2, <2>3 DEF Before
<1>7. ASSUME x \in ToSet(s), y \in ToSet(r) PROVE Before(q, x, y)
  <2>1. PICK i \in 1..m, j \in 1..n : s[i] = x /\ r[j] = y
    BY <1>3, <1>7 DEF ToSet
  <2>2. i \in DOMAIN q /\ m + j \in DOMAIN q /\ q[i] = x /\ q[m + j] = y /\ i < m + j
    BY <1>3, <1>s, <2>1
  <2> QED  BY <2>2 DEF Before
<1> QED  BY <1>2, <1>4, <1>5, <1>6, <1>7

\* Nothing comes before anything in a sequence of one.
LEMMA BeforeSingle == \A e, x, y : ~Before(<<e>>, x, y)
<1> SUFFICES ASSUME NEW e, NEW x, NEW y PROVE ~Before(<<e>>, x, y)
  OBVIOUS
<1>1. DOMAIN <<e>> = {1}
  OBVIOUS
<1> QED  BY <1>1 DEF Before

\* An element that is neither of the two does not change which comes first.
LEMMA BeforeAround ==
    ASSUME NEW S, NEW a \in Seq(S), NEW b \in Seq(S), NEW e \in S, NEW x, NEW y,
           x # e, y # e
    PROVE  Before(Around(a, e, b), x, y) <=> Before(a \o b, x, y)
<1>f. PICK f : f = <<e>>
  OBVIOUS
<1>1. f \in Seq(S) /\ f = <<e>>
  BY <1>f
<1>2. f \o b \in Seq(S)
  BY <1>1, ConcatProperties
<1>3. ~Before(f, x, y) /\ ToSet(f) = {e}
  <2>1. DOMAIN f = {1} /\ f[1] = e
    BY <1>1
  <2> QED  BY <1>1, <2>1, BeforeSingle DEF ToSet
<1>4. Before(f \o b, x, y) <=> Before(b, x, y)
  BY <1>1, <1>3, BeforeConcat
<1>5. y \in ToSet(f \o b) <=> y \in ToSet(b)
  BY <1>1, <1>3, ToSetOfConcat
<1>6. Before(a \o (f \o b), x, y) <=> Before(a, x, y) \/ Before(f \o b, x, y)
                                       \/ (x \in ToSet(a) /\ y \in ToSet(f \o b))
  BY <1>2, BeforeConcat
<1>7. Before(a \o b, x, y) <=> Before(a, x, y) \/ Before(b, x, y)
                                \/ (x \in ToSet(a) /\ y \in ToSet(b))
  BY BeforeConcat
<1>8. Around(a, e, b) = a \o (f \o b)
  BY <1>1 DEF Around
<1> QED  BY <1>4, <1>5, <1>6, <1>7, <1>8

\* Every step keeps the order.
LEMMA OrderStep == TypeOK /\ FirstComeFirstServed /\ [Next]_vars => FirstComeFirstServed'
<1> SUFFICES ASSUME TypeOK, FirstComeFirstServed, [Next]_vars PROVE FirstComeFirstServed'
  OBVIOUS
<1>0. /\ tasks \in Seq(Tasks) /\ accepted \in Seq(Tasks) /\ started \in Seq(Tasks)
      /\ started \o tasks \in Seq(Tasks)
  BY ConcatProperties DEF TypeOK
<1>i. /\ ToSet(started \o tasks) = ToSet(accepted)
      /\ \A t, u \in Tasks \ jumped :
            Before(started \o tasks, t, u) <=> Before(accepted, t, u)
  BY DEF FirstComeFirstServed
\* Steps that leave the sequence of all tasks as it is.
<1>a. ASSUME started' \o tasks' = started \o tasks, UNCHANGED <<accepted, jumped>>
      PROVE  FirstComeFirstServed'
  BY <1>a, <1>i DEF FirstComeFirstServed
<1>b. ASSUME UNCHANGED queueVars PROVE FirstComeFirstServed'
  <2>1. UNCHANGED <<started, tasks, accepted, jumped>>
    BY <1>b DEF queueVars
  <2> QED  BY <1>a, <2>1
<1>1. ASSUME NEW w \in Workers, Worker(w) PROVE FirstComeFirstServed'
  <2>1. CASE Lock(w) \/ DecideToSleep(w) \/ Sleep(w) \/ Exit(w)
    BY <1>b, <2>1 DEF Lock, DecideToSleep, Sleep, Exit
  <2>2. CASE Take(w)
    <3>1. PICK first, rest : first = Head(tasks) /\ rest = Tail(tasks)
      OBVIOUS
    <3>2. /\ tasks # <<>> /\ tasks' = rest /\ started' = Append(started, first)
          /\ UNCHANGED <<accepted, jumped>>
      BY <2>2, <3>1 DEF Take, Rest
    <3>3. first \in Tasks /\ rest \in Seq(Tasks) /\ tasks = <<first>> \o rest
      BY <1>0, <3>1, <3>2, HeadThenTail
    <3>f. PICK f : f = <<first>>
      OBVIOUS
    <3>4. f \in Seq(Tasks) /\ f = <<first>>
      BY <3>3, <3>f
    <3>5. started' = started \o f
      BY <1>0, <3>2, <3>3, <3>4, AppendIsConcat
    <3>6. (started \o f) \o rest = started \o (f \o rest)
      BY <1>0, <3>3, <3>4, ConcatAssociative
    <3> QED  BY <1>a, <3>2, <3>3, <3>4, <3>5, <3>6
  <2>3. CASE Finish(w)
    BY <1>a, <2>3 DEF Finish
  <2> QED  BY <1>1, <2>1, <2>2, <2>3 DEF Worker
<1>2. ASSUME NEW w \in Workers, WakeSpuriously(w) PROVE FirstComeFirstServed'
  BY <1>b, <1>2 DEF WakeSpuriously
<1>3. ASSUME NEW c \in Callers, PushTask(c) PROVE FirstComeFirstServed'
  <2>1. PICK new \in Tasks : new = pushing[c]
    BY <1>3 DEF PushTask, TypeOK
  <2>2. /\ accepted' = Append(accepted, new) /\ started' = started
        /\ tasks' = Placed(tasks, new, caller[c])
        /\ jumped' = IF caller[c] = "front" THEN jumped \union {new} ELSE jumped
        /\ caller[c] \in {"back", "front"}
    BY <1>3, <2>1 DEF PushTask
  <2>f. PICK f : f = <<new>>
    OBVIOUS
  <2>3. f \in Seq(Tasks) /\ f = <<new>>
    BY <2>1, <2>f
  <2>4. ToSet(f) = {new} /\ \A x, y : ~Before(f, x, y)
    <3>1. DOMAIN f = {1} /\ f[1] = new
      BY <2>3
    <3> QED  BY <2>3, <3>1, BeforeSingle DEF ToSet
  <2>5. accepted' = accepted \o f
    BY <1>0, <2>2, <2>3, AppendIsConcat
  <2>6. ToSet(accepted') = ToSet(accepted) \union {new}
    BY <1>0, <2>3, <2>4, <2>5, ToSetOfConcat
  <2>7. ASSUME NEW x, NEW y
        PROVE  Before(accepted', x, y)
                 <=> Before(accepted, x, y) \/ (x \in ToSet(accepted) /\ y = new)
    <3>1. Before(accepted \o f, x, y)
            <=> Before(accepted, x, y) \/ Before(f, x, y)
                  \/ (x \in ToSet(accepted) /\ y \in ToSet(f))
      BY <1>0, <2>3, BeforeConcat
    <3> QED  BY <2>4, <2>5, <3>1
  <2>8. CASE caller[c] = "back"
    <3>1. tasks' = tasks \o f /\ jumped' = jumped
      BY <1>0, <2>1, <2>2, <2>3, <2>8, AppendIsConcat DEF Placed
    <3>2. started' \o tasks' = (started \o tasks) \o f
      <4>1. (started \o tasks) \o f = started \o (tasks \o f)
        BY <1>0, <2>3, ConcatAssociative
      <4> QED  BY <2>2, <3>1, <4>1
    <3>3. PICK q \in Seq(Tasks) : q = started \o tasks
      BY <1>0
    <3>4. ToSet(q \o f) = ToSet(q) \union {new}
      BY <2>3, <2>4, ToSetOfConcat
    <3>5. ASSUME NEW x, NEW y
          PROVE  Before(q \o f, x, y) <=> Before(q, x, y) \/ (x \in ToSet(q) /\ y = new)
      <4>1. Before(q \o f, x, y)
              <=> Before(q, x, y) \/ Before(f, x, y) \/ (x \in ToSet(q) /\ y \in ToSet(f))
        BY <2>3, BeforeConcat
      <4> QED  BY <2>4, <4>1
    <3>6. started' \o tasks' = q \o f
      BY <3>2, <3>3
    <3>7. ToSet(started' \o tasks') = ToSet(accepted')
      BY <1>i, <2>6, <3>3, <3>4, <3>6
    <3>8. ASSUME NEW t \in Tasks \ jumped', NEW u \in Tasks \ jumped'
          PROVE  Before(started' \o tasks', t, u) <=> Before(accepted', t, u)
      BY <1>i, <2>7, <3>1, <3>3, <3>5, <3>6
    <3> QED  BY <3>7, <3>8 DEF FirstComeFirstServed
  <2>9. CASE caller[c] = "front"
    <3>1. tasks' = f \o tasks /\ jumped' = jumped \union {new}
      BY <2>2, <2>3, <2>9 DEF Placed
    <3>2. ToSet(started \o (f \o tasks)) = ToSet(started \o tasks) \union {new}
      <4>1. ToSet(f \o tasks) = {new} \union ToSet(tasks) /\ f \o tasks \in Seq(Tasks)
        BY <1>0, <2>3, <2>4, ToSetOfConcat, ConcatProperties
      <4>2. ToSet(started \o (f \o tasks)) = ToSet(started) \union ToSet(f \o tasks)
        <5>1. PICK g \in Seq(Tasks) : g = f \o tasks
          BY <4>1
        <5>2. ToSet(started \o g) = ToSet(started) \union ToSet(g)
          BY <1>0, ToSetOfConcat
        <5> QED  BY <5>1, <5>2
      <4>3. ToSet(started \o tasks) = ToSet(started) \union ToSet(tasks)
        BY <1>0, ToSetOfConcat
      <4> QED  BY <4>1, <4>2, <4>3
    <3>3. ToSet(started' \o tasks') = ToSet(accepted')
      BY <1>i, <2>2, <2>6, <3>1, <3>2
    <3>4. ASSUME NEW t \in Tasks \ jumped', NEW u \in Tasks \ jumped'
          PROVE  Before(started' \o tasks', t, u) <=> Before(accepted', t, u)
      <4>1. t # new /\ u # new /\ t \in Tasks \ jumped /\ u \in Tasks \ jumped
        BY <3>1
      <4>2. Before(started \o (<<new>> \o tasks), t, u) <=> Before(started \o tasks, t, u)
        BY <1>0, <4>1, BeforeAround DEF Around
      <4> QED  BY <1>i, <2>2, <2>3, <2>7, <3>1, <4>1, <4>2
    <3> QED  BY <3>3, <3>4 DEF FirstComeFirstServed
  <2> QED  BY <2>2, <2>8, <2>9
<1>4. ASSUME NEW c \in Callers, NotifyOne(c) PROVE FirstComeFirstServed'
  BY <1>b, <1>4 DEF NotifyOne
<1>5. ASSUME NEW c \in Callers, Push(c) PROVE FirstComeFirstServed'
  BY <1>b, <1>5 DEF Push, PushRefused, PushBegin
<1>6. ASSUME NEW e \in Tasks, RaiseTask(e) PROVE FirstComeFirstServed'
  <2>1. PICK i \in 2..Len(tasks) : tasks[i] = e /\ tasks' = <<e>> \o RemoveAt(tasks, i)
    BY <1>6 DEF RaiseTask
  <2>2. i \in 1..Len(tasks)
    BY <1>0
  <2>3. jumped' = jumped \union {e} /\ UNCHANGED <<started, accepted>>
    BY <1>6 DEF RaiseTask
  <2>a. PICK a, b : a = Preceding(tasks, i) /\ b = Following(tasks, i)
    OBVIOUS
  <2>4. /\ a \in Seq(Tasks) /\ b \in Seq(Tasks)
        /\ tasks = Around(a, e, b) /\ RemoveAt(tasks, i) = a \o b
    <3>1. tasks = Around(Preceding(tasks, i), e, Following(tasks, i))
      BY <1>0, <2>1, <2>2, RemoveAtSplits
    <3>2. /\ Preceding(tasks, i) \in Seq(Tasks) /\ Following(tasks, i) \in Seq(Tasks)
          /\ RemoveAt(tasks, i) = Preceding(tasks, i) \o Following(tasks, i)
      BY <1>0, <2>2, RemoveAtSplits
    <3> QED  BY <2>a, <3>1, <3>2
  <2>5. PICK r \in Seq(Tasks) : r = a \o b
    BY <2>4, ConcatProperties
  <2>6. tasks' = <<e>> \o r
    BY <2>1, <2>4, <2>5
  <2>7. ToSet(tasks') = ToSet(tasks) /\ tasks' \in Seq(Tasks)
    BY <1>0, <2>1, <2>2, ToSetToFront
  <2>8. ToSet(started' \o tasks') = ToSet(accepted')
    <3>1. ToSet(started \o tasks') = ToSet(started) \union ToSet(tasks')
      BY <1>0, <2>7, ToSetOfConcat
    <3>2. ToSet(started \o tasks) = ToSet(started) \union ToSet(tasks)
      BY <1>0, ToSetOfConcat
    <3> QED  BY <1>i, <2>3, <2>7, <3>1, <3>2
  <2>9. ASSUME NEW t \in Tasks \ jumped', NEW u \in Tasks \ jumped'
        PROVE  Before(started' \o tasks', t, u) <=> Before(accepted', t, u)
    <3>1. t # e /\ u # e /\ t \in Tasks \ jumped /\ u \in Tasks \ jumped
      BY <2>3
    <3>2. Before(started \o (<<e>> \o r), t, u) <=> Before(started \o r, t, u)
      BY <1>0, <3>1, BeforeAround DEF Around
    <3>3. Before(tasks, t, u) <=> Before(r, t, u)
      BY <2>4, <2>5, <3>1, BeforeAround
    <3>4. u \in ToSet(tasks) <=> u \in ToSet(r)
      <4>1. PICK f : f = <<e>>
        OBVIOUS
      <4>s. f \in Seq(Tasks)
        BY <4>1
      <4>2. ToSet(f) = {e}
        <5>1. DOMAIN f = {1} /\ f[1] = e
          BY <4>1
        <5> QED  BY <5>1 DEF ToSet
      <4>3. ToSet(f \o r) = ToSet(f) \union ToSet(r)
        BY <2>5, <4>s, ToSetOfConcat
      <4> QED  BY <2>6, <2>7, <3>1, <4>1, <4>2, <4>3
    <3>5. Before(started \o r, t, u) <=> Before(started, t, u) \/ Before(r, t, u)
                                         \/ (t \in ToSet(started) /\ u \in ToSet(r))
      BY <1>0, BeforeConcat
    <3>6. Before(started \o tasks, t, u)
            <=> Before(started, t, u) \/ Before(tasks, t, u)
                  \/ (t \in ToSet(started) /\ u \in ToSet(tasks))
      BY <1>0, BeforeConcat
    <3>7. Before(started \o tasks, t, u) <=> Before(accepted, t, u)
      BY <1>i, <3>1
    <3> QED  BY <2>3, <2>6, <3>2, <3>3, <3>4, <3>5, <3>6, <3>7
  <2> QED  BY <2>8, <2>9 DEF FirstComeFirstServed
<1>7. CASE SetStop \/ NotifyAll \/ Join
  BY <1>b, <1>7 DEF SetStop, NotifyAll, Join
<1>8. CASE UNCHANGED vars
  BY <1>b, <1>8 DEF vars
<1> QED
  BY <1>1, <1>2, <1>3, <1>4, <1>5, <1>6, <1>7, <1>8 DEF Next, Caller, Destructor

\* Tasks that were neither pushed to the front nor raised by raise_task() are started by
\* the workers in the order the pool took them, however many there are.
THEOREM StartedInOrder == Spec => []FirstComeFirstServed
<1>1. Init => TypeOK /\ FirstComeFirstServed
  <2> SUFFICES ASSUME Init PROVE FirstComeFirstServed
    BY TypeInit
  <2>1. started \o tasks = <<>> /\ accepted = <<>>
    BY DEF Init
  <2> QED  BY <2>1 DEF FirstComeFirstServed
<1>2. (TypeOK /\ FirstComeFirstServed) /\ [Next]_vars => (TypeOK /\ FirstComeFirstServed)'
  BY TypeStep, OrderStep
<1> QED  BY <1>1, <1>2, PTL DEF Spec

=============================================================================
