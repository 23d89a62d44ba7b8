# ICQNew: a verification of the messenger's core

The repository is the desktop client of ICQ and Myteam: a C++ *core*, which talks to
the servers and keeps the archive on disk, and a Qt user interface on top of it. This
directory models the core's own control: the threads and queues everything runs on,
the queues API packets go through, the session with its fetch loop, the delivery of the
user's messages, and how the history of a dialog comes into the archive.
`TLC` checks the models on small instances, `TLAPS` proves the theorems for all
values of the constants. `PROJECT.json` maps every definition to the source lines it
models and lists runs, hazards, findings and theorems.

## 1. Inventory

### Threads and how parts interact

All logic runs on the **core thread**, a thread pool with one worker (`main_thread`).
Work that blocks goes to an `async_executer`: a pool with one or more workers whose
task ends by posting a callback (`on_result_`) to the core thread. There is one for
the archive (`face::thread_`), one for API packets (`wim_send_thread`), one for the
long fetch, and others for files, avatars and so on. So every two components
interact in the same way: a call on the core thread appends a task to a FIFO of
another thread; that thread executes it and appends a callback to the FIFO of the
core thread. Between the two, anything else may happen on the core thread: that is
where this code is hard. Timers (`scheduler`) also append to the core thread's FIFO.

| component | state | operations | what makes it correct |
|---|---|---|---|
| `threadpool` (core/tools/threadpool.cpp) | `tasks_`, `stop_`, a mutex, a condition | `push_back`, `push_front`, `raise_task`, the workers, the destructor | no task is lost or run twice, FIFO but for raised tasks, no worker sleeps over a task, everything accepted is executed before the pool ends, the destructor returns |
| `async_executer`, `main_thread` (core/async_task.cpp, core/main_thread.cpp) | a pool each | `run_async_function`, `execute_core_context` | a result reaches the core thread once and in order |
| `scheduler` (core/scheduler.cpp) | `timed_tasks_` | `push_timer`, `stop_timer`, the loop | a stopped timer has no more effect: not true of callbacks already queued |
| `packet_queue`, `wim_send_thread` (core/connections/wim) | two sorted queues, the keys (methods) that are out, limits, the rate limit, the session lock | `post_packet`, `clear`, `lock`, `unlock_and_execute_queued`, `set_max_parallel_packets_count`, the result callback | one packet per method and queue at a time, no method blocked for ever, no post unaccounted for, bounded retries, order by priority |
| pending messages (core/archive/not_sent_messages.cpp, `im::post_pending_messages`) | the lists per contact and their file, `sent_pending_messages_active_`, `post_messages_timer_` | send, edit, the chain's callbacks, confirmations, resume | no message lost, order at the server, one chain at a time, the last edit arrives, every message arrives |
| session and fetch loop (`im::start_session`, `im::poll`) | `start_session_is_running_`, `active_session_id_`, `fetch_params_` | start, ping, fetch, token, login, logout | the loop never stops while the im lives, there is one of it, answers of an old session do not continue it, events arrive again after errors |
| history archive (core/archive/archive_index.cpp, contact_archive.cpp, messages_data.cpp) | index in memory and on disk, data file | update, get, holes, delete up to | links go back, holes are exactly what was not loaded, a torn file is recovered |
| holes download (dialog_holes.h, `im::download_holes`) | failed requests per contact | request, page, validation, failure, resume | the download ends, whatever it meets, and leaves no hole in the part of the history it has been through |
| dialog state (core/archive/dlg_state.cpp) | a record per contact | merge, aggregate | a patch version is one whose patches have been applied |
| `async_loader`, `loader` (wim/async_loader, wim/loader) | tasks per file, chunks, suspended tasks | download, cancel, resume, upload | a file is downloaded once, every waiter gets an answer |
| subscriptions (core/subscriptions) | a list with times | subscribe, unsubscribe, request | never asks more often than allowed |
| `core_dispatcher` (core/core.cpp) | owns all of the above | start, logout, destruction | the order of destruction |
| http and curl (core/curl_*.cpp) | a thread and queues | add, cancel, finish | every request is answered once |
| the rest: stickers, themes, statistics, updater, logs, VoIP, corelib, user interface | | | data, input and output |

`PROJECT.json` lists all of them with their files and what is (not) modelled, and
under `hazards` what is hard to test, at the line where it bites.

### What is hard

* A core callback uses what an earlier callback saw: an answer to a message that was
  edited meanwhile; a key released by the result of a packet of an older session.
* Paths that forget somebody: a packet dropped with its handler, a flag that is
  cleared only in callbacks, a key released only by a result.
* Two chains where one is meant: a timer's callback that was queued before
  `stop_timer()`.
* Two threads that each read what the other is about to change: an answer of the server
  is compared with an archive that an event has changed since it was asked for.
* A search that is steered by links the server gave at different times, through
  deletions, patches that arrive before their message, and messages that return.
* Restarts in the middle of a send, and confirmations that come twice.
* `threadpool` accesses `stop_` outside the mutex.

## 2. Plan

| module | what | state |
|---|---|---|
| `PacketQueue`, `WimSendThread` | packet queues, worker, core thread | done |
| `ThreadPool` | pool with its destructor | done |
| `PendingMessages` | outgoing messages | done but for deletes and edits by id |
| `MessageDelivery` | abstract: taken, delivered in order and once, refused; `PendingMessages` implements it | done |
| `Session` | starts, pings, fetches, tokens, logins and the end of the im | done |
| `ArchiveIndex` | the index of a contact and its holes, as operators | done, without files |
| `DialogHistory` | events, holes, patches and deletions of one dialog between core thread, archive thread and server | done for one contact |
| `SequenceLemmas`, `WimSendThreadProofs`, `ThreadPoolProofs`, `MessageDeliveryProofs`, `PendingMessagesProofs`, `PendingTextsProofs`, `SessionProofs`, `DialogHistoryProofs` | theorems | done: all but liveness |
| pending deletes, with `PendingMessages` | delete of a message that is being sent; a history that is dropped with unsent messages | next |
| `AsyncLoader` | chunks, merged requests, suspended tasks | planned |
| storage with torn writes; subscriptions; curl | one module each | planned |

Bounds stay as here: two or three packets, tasks or messages, one or two of every
fault. Safety and liveness of a module are one run where TLC does both in a few
minutes, and two where liveness needs the smaller instance.

## 3. Modules

### `PacketQueue`

`packet_queue.h` as operators on a record `[queue, extracted, limit]`: the list, the
set of keys whose packet is out, the limit. `Free` is the predicate of `can_pop_element()` and
`pop()`, `Popped` and `Pop` are what `pop()` returns and leaves, `Emplace` is the sorted
insertion. `Min` and `InsertAt` come from the community modules.

### `WimSendThread`

| variables | in the code |
|---|---|
| `queues` | `high_priority_queue_`, `low_priority_queue_` |
| `locked`, `cooling` | `is_sending_locked_`, `now < cancel_packets_time_` |
| `executer`, `running`, `core` | the worker's FIFO, its current task, the core thread's FIFO (the callbacks of this component) |
| `pumping`, `closing` | the core thread is in `execute_packet_from_queue()`; the entry whose scope guard has yet to run |
| `repeats`, `stopped` | `repeat_count_`, and `stop_handler_` of the packets |
| `starting`, `sessions` | `start_session_is_running_`, a bounded counter |
| `posts`, `handled`, `lost` | history: posts, handler calls, posts whose handler is dropped |

`post_packet()` is one action per return (`PostInvalid`, `PostUnsupported`,
`PostTooEarly`, `PostAccepted`). The recursion of `execute_packet_from_queue()` is a loop
of `PumpOne` steps ended by `PumpEnd`; the worker's `WorkerTake` and `WorkerFinish` may come between
any two. The result callback is `DeliverRetry` or `DeliverResult` followed by `CloseScope`, because
a handler runs before the scope guard and may post packets or restart the session:
calls of other components are enabled whenever the core thread is not inside the loop.
The priority numbers 0 to 2 and 3 to 45 are kept as they are (`TopPriority == 3`).

Abstracted: what a packet asks for, its result beyond *done*, *network error* and *too
fast*, and times; the end of the rate limit is the action `CoolDown`.

### `ThreadPool`

What happens under `queue_mutex_` is one step, except that a section that reads
`stop_` holds the mutex over two steps, since the destructor writes `stop_` without it:
`Lock`, `DecideToSleep`, `Sleep` for a worker, `PushBegin`, `PushTask`, `NotifyOne` for a caller.
`WakeSpuriously` is the condition variable's freedom. `missed` remembers
workers that were between reading `stop_` and sleeping when everybody was notified.
A caller may be anywhere in `push_back()` while the destructor runs, but does not
begin a call once it has returned. Tasks are pushed once each; `id_` matters only
for `raise_task()` (`WithId`).

### `PendingMessages`

| variables | in the code |
|---|---|
| `heap`, `pending` | the `not_sent_message` objects, and `pending_messages_` with references to them: callbacks keep an object the list no longer holds |
| `known` | texts whose `history_message` carries a `msgid`: they are sent as edits |
| `archive`, `core`, `net` | the archive thread's FIFO, the core thread's FIFO, requests with `wim_send_thread` or the server |
| `active`, `timer`, `timers`, `due` | `sent_pending_messages_active_`, `post_messages_timer_`, the scheduler's timers |
| `server`, `text` | what the server has |
| `written`, `taken`, `copied`, `kept`, `refused`, `dropped`, `faults`, `crashes`, `confirmed` | history and counters |

One action per task of the archive thread (`DoInsert`, `DoReplace`, `DoGet`, `DoTouch`, `DoRemove`,
`DoImState`), per callback of the core thread (`OnGotNothing`, `OnGotRecent`, `OnGotReady`, `OnTouched`, `GoOn`) and per
kind of answer (`AnswerOk`, `AnswerNoHistoryId`, `AnswerError`, `AnswerRejected`), with `RequestDropped` for the
packets `wim_send_thread` forgets. `Resume` stands for `resume_failed_network_requests()`
after a fetch, `Confirm` for a fetched event that confirms a message a second time.
`Crash` empties the queues and keeps the file. The server (`ServerTakes`) is external: it
takes a request at most once, knows a `reqId` it has seen, and keeps the order in
which requests come.

Abstracted: the text is a version number; time is the action `Tick` (a second has
passed); the history update between the answer and the removal adds no choice and is
part of `AnswerOk`. The list and its file change in one step. A request that ends in an
error may or may not have been served, but is not served after the client has given it up.
`is_ready_to_send()` is true: `duplicated_` is set nowhere, and messages that wait for
an upload are not modelled. Not modelled either: deletes, edits of messages that have an id.

### `MessageDelivery`

What the user may rely on, without any of the above: messages are taken into the
outbox of their contact, and each is delivered, after those before it were delivered
or refused, at most once, or refused. `PendingMessages` implements it with
`outbox <- taken` (a history variable that `DoInsert` appends to), `inbox <- server`; the property
`DeliversInOrder` is `Delivery!Spec`, so TLC checks that each of its steps is a step of the
abstract specification or a stutter. An error that is answered after the server took the
message, a restart, a second request of the same `reqId` and an edit are all stutters.

### `Session`

| variables | in the code |
|---|---|
| `alive` | `im_container` holds the im: its callbacks lock their `weak_ptr` |
| `oauth`, `leaving`, `hasUrl` | `o2token_`, `logout_`, `fetch_params_->is_valid()` |
| `session`, `running` | `active_session_id_`, `start_session_is_running_` |
| `fetcher` | the tasks of `fetch_thread_`: fetches and starts |
| `away` | what another thread, a packet or a timer will answer, in any order: a bag, since the code may wait for two of a kind |
| `core` | the core thread's FIFO |
| `relogins`, `dropped`, `overtaken` | a bound; whether `wim_send_thread` dropped a packet the session waits for; whether a start left another continuation behind |

`StartSession`, `StartInternal` and `Poll` are the three functions as effects, used by every callback that
calls them. A fetch is answered *ok*, *ended* (the server ended the session), with a network
error, *resend* or another error (*canceled* only comes when the im is destroyed, and nobody looks at it any more); a start *ok*, *too fast*, *relogin*, *wrong time* without a
time, or another error. `OnFetchOk` hands the events out; the continuation after the last of them
(`OnSessionEnded`, `OnEventsDone`) is a callback of its own, because a handler of an event may
need the archive. Session ids are compared for equality only, so a new id is the least one that no
fetch holds. `Gone` is `ims_.clear()`: all that waits finds no im. What events contain is
not in this module.

### `ArchiveIndex` and `DialogHistory`

`ArchiveIndex` holds the index as a function from ids to headers (`prev`, `patch`, `deleted`) and the functions of
`archive_index`, `message_header::merge_with()` and `insert_history_block()` as operators on it.
`DialogHistory` is one dialog:

| variables | in the code |
|---|---|
| `posted`, `erased`, `upTo` | external: the server's messages are `1..posted`, those it erased one by one, and up to where it deleted all |
| `told`, `events`, `event`, `handled` | the last histDlgState event, the one on its way, and whether the fetch thread waits for its handler |
| `index`, `state` | `headers_index_`, and of the dialog state `last_msgid`, `del_up_to`, `history_patch_version` |
| `opened`, `failed` | `has_opened_dialogs()`, `failed_holes_requests_` |
| `archive`, `core`, `net` | the FIFOs of the archive thread and of the core thread, getHistory requests |
| `errors`, `gaveUp`, `late` | a bound; a download ended with an error nobody repeats or lost its place; an event brought a message that was erased meanwhile |

One action per task of the archive thread and per callback of the core thread: the
callbacks of `download_holes()` are `OnDownload`, `OnNextHole`, `OnLimits`, `OnValidated`, `OnFailed`; those of
`get_history_from_server()` are `OnAnswer`, `OnAnswered`, `OnSet`, `OnUpdated`; those of an event are `OnEvent`,
`OnEventSet`, `OnEventUpdated`, `OnDeleted`, `OnClear`. What a request is asked for travels in its `then`.

The order of the two threads is free only where it matters. Every callback but `OnAnswered` uses
what its message carries, posts tasks at the end of the archive's FIFO or requests at
the end of the network's, and changes what no archive task reads; so it commutes with
archive tasks, and `CoreIsBusy` lets it run at once. `OnAnswered` reads the
index itself (`face::get_last_msgid()`), and the archive thread may run before it.

Abstracted: message data, the patches that modify, update, clear or pin, and the last message
as an object; a page is `PageSize` messages, and a recursion count is 0 or more; tasks
that pass through the archive and change nothing here (`remove_messages_from_not_sent`,
`has_not_sent_messages`) are part of the callback before them.
An event names the state of the dialog when it is made and brings the
newest message if no event before has. In the code an answer may have raised `last_msgid` without its
message; an event without a tail then sees no change, which is why `Tails` does not leave a
new message out.

## 4. Properties and runs

`MC...` modules only give values to constants. Sizes are distinct states.

**`wim_send`** (269 730): two requests of one method with different priorities and a
message, limits 2 and 4, one session start (full or ping) at any time.
`ExtractedInFlight`: a key that is out belongs to a packet in flight. `PostsAccounted`: each post is handled
once, in one place, or one of the drops the code makes. `Exclusive`: two packets of a
method and queue are not out together, before a full start found packets; after it
they can be, because `clear()` forgets the keys of packets that are still out.
`NoLostWakeup`: a packet that could be handed out is not left behind. `LaneOrder`: a
round hands out the least number of its queue. The collision needs two packets
of one key, and the choice of the queue one packet of the other: that is what the three are;
the low queue's own collision, two messages, is in `wim_send_live`.

**`wim_send_live`** (122 882), under `FairSpec`: two messages, each posted twice, as
`resume_failed_packets()` does. `RetriesBounded`, `WaitingPacketIsTaken`, `KeyIsReleased`.

**`wim_send_lower_number`**, **`wim_send_rate_limit`**, **`pending_timer`**, **`history_place`** find the violations of section 6.

**`pending`** (2 720 228): two messages of one contact, one edit each, one fault of any
kind, both kinds of confirmation, one crash. `NotLost`: a message the archive took is
pending, at the server, or refused; which of its texts, `EditsKept` says. `DeliversInOrder`: the refinement of `MessageDelivery`. `OneChain`:
counting tasks, callbacks, requests and the timer, there is exactly one continuation
of the chain when the flag is set, and none when it is not; a dropped request counts
as a continuation, since it leaves the flag set. `EditsKept`: a message that left the
list is at the server with the last text the archive took, unless it was confirmed a
second time or its entry was overwritten after an answer without a history id: there
the code does lose the edit. Nothing in the repository promises it, so that is a hazard
and no finding.

**`pending_live`** (282 755), under `FairSpec`: messages to two contacts, one edit, two faults.
`MessageArrives`, `EditArrives`: whatever error two requests are answered with; a dropped request stops the chain (hazard of
`wim_send_thread.cpp:65`).

**`pool`** (204 892), under `FairSpec`: `TasksAccounted`, `NoSleepOverTask`, `DrainedAtEnd`, `FirstComeFirstServed`,
`TaskIsExecuted`; `DestructorReturns`, unless a worker missed the notification. Two workers so that one
can sleep while the other works, two callers so that pushes race each other, three tasks so
that one can be raised over another.

**`session`** (2 563 681): with and without a token, from a login or a stored session, two packets
answered "need relogin" or logouts. `LoopAlive`: while the im lives something waits that
continues its loop, unless a packet it waits for was dropped. `OneLoop`: there is one such
continuation, unless a start left behind one that does not look at the session. `TypeOK` includes
that `start_session_is_running_` stands for a start that is queued or answered.

**`session_live`** (41 379), under `FairSpec`, with one of the former: `EventsArrive`.

**`history`** (1 381 086), under `FairSpec`: a dialog of two messages to begin with and one more,
an erasure, a deletion of all up to the first, one event, opening, one request that
fails. `NoHiddenHole`: when the search reaches the last header, whatever the server has below
the newest message shown is shown, unless an event was overtaken by the patch of its message. `PatchesApplied`: when all is quiet, a message erased by a patch of
the version the client has is not shown, unless its event was overtaken. `DownloadsEnd`: there
are no endless rounds over a hole that cannot be filled. `HistoryArrives`: an opened dialog
shows all the server has in the end, once an event has told of it, unless a download failed
with an error nobody repeats or lost its place. With three messages a page is full and a second one
is needed, a message can be missing between two others, and the erased one can be the first,
the last or the one between.

`CHECK_DEADLOCK FALSE` is set where the system may stop: the pool ends, an im is logged
out, and a dialog is quiet when all that is bounded has happened.

Every property has a mutant of the code (`PROJECT.json`) that violates it: a key that
is not released, an error that keeps the flag, a notification that is forgotten.

### Bounds

`MaxPosts`, `MaxSessions`, `MaxVersions`, `MaxFaults`, `MaxCrashes`, `MaxFired`, `MaxRelogins`, `MaxId`, `MaxEvents`,
`MaxErased`, `MaxErrors` bound counters in guards; `MaxNetErrors` is the code's own 2. A
conflict in these components takes two parties and one disturbance: two packets and
a session start, two messages and an edit, one message and three texts. `MaxFired` is 1
where `OneChain` is checked: the core thread keeps up with its timers. With 3 it does
not, which `pending_timer` shows. `session` needs no other bound: tasks and callbacks are kept few by
the code itself, as `OneLoop` says. The safety properties of `history` are theorems of any bounds;
`HistoryArrives` needs that one request fails: with two errors it does not
hold, because two failed requests of a contact become one (`dialog_holes.h:59`).

### Fairness

* `WimSendThread`: both threads run (`WF` of the loop, the worker, core tasks and the scope
  guard). `WF` of `SessionResult`: the request of a session start has a timeout, and its
  callback always unlocks the queues. Posts, session starts and `CoolDown` are not fair.
* `ThreadPool`: `WF` of every thread's steps, since tasks end; `SF` of `Lock`, since a mutex
  that becomes free again and again is got in the end. The destructor need not start.
* `PendingMessages`: both threads, the scheduler and the clock run; requests are served and
  answered (they have timeouts), all but `MaxFaults` of them well; and `Resume`: fetches
  succeed now and then. Without that a message rightly waits for ever. The live run
  has no crash, since a crash before the archive's first task loses the message,
  and no dropped request, since one stops the chain until the next start.
* `Session`: both threads run, and what the archive, timers and packets are asked is answered.
  `SF` of a fetch, a start and a token that succeed: the network works now and then, so that what
  is asked again and again is granted. Logouts and relogins are not fair.
* `DialogHistory`: both threads run, requests are served and answered, an event is sent and
  delivered when there is news, and `Resume`: fetches succeed now and then. The user need not
  open the dialog, and nothing need fail.

## 5. Proofs

Every invariant the passing runs
check is a theorem, and so are the refinement and one action property. The theorems hold for any
packets, methods, workers, callers, tasks, messages, contacts and pages, and for any value of the bounds, so that
none of them depends on a bound; where a theorem needs more than the assumptions the modules state about
their constants, the hypothesis is in its statement (`TwoAtLeast`, `KeepsUp`).

### `SequenceLemmas`

The elements after `Append`, `Tail`, `InsertAt`, `RemoveAt`, `\o` and moving an element to the front; the least
position; and counting: `Among(s, A)` is how many entries of the sequence are in `A`, and each of these
operations changes it by the `Weight` of what comes or goes. The components' invariants that count
(how many places a packet is in, how many continuations a chain has) rest on it, since the lists are FIFOs
in which the same task may stand twice.

### `WimSendThreadProofs`

From `PacketsAssumption` and `WimSendThreadAssumption`:

* `TypeCorrect`: `TypeOK`, by one step per action, over lemmas on `Emplace` and `Pop`.
* `NoBlockedMethod`: `ExtractedInFlight`, inductive together with `TypeOK`. Each action that moves an
  entry (executer, worker, core FIFO, scope guard) keeps it in flight, and
  `CloseScope`, which ends the flight, releases its key in the same step.
* `QueuesSorted`: both queues are sorted by priority number. `Emplace` inserts in front of the
  first greater number, which keeps order only if the queue has it already.
* `PopsInLaneOrder`: `LaneOrder`, an action property, from the sorted queues: the first free
  packet has the least number of all free ones.
* `EveryPostAccounted`: `PostsAccounted`. `Accounts` says it of `Sum`, which counts the places one by one, and
  that a packet waits only in the queue of its priority; a step moves a packet from one
  place to another, or changes a place and the ledger together.
* `BoundedRetries`: `RetriesBounded`, from `RetryBudget`: `repeat_count_` and the executions a packet still has
  before it are together no more than its posts and one.
* `NoWakeupLost`: `NoLostWakeup` under `TwoAtLeast` (every parallel count is 2 or more), with
  `NoBlockedMethod` and the fact that both limits are then at least 1: a queue that can not be
  popped has a key out, so a packet in flight, whose scope guard will look again. With a count of 1
  `low_priority_queue_` has the limit 0, which is the hazard of `wim_send_thread.cpp:39`.
* `OneAtATime`: `Exclusive`, from `KeysMatch`: before a full start has found packets, the keys that are out and
  the packets in flight match one to one.

### `ThreadPoolProofs`

From `ThreadPoolAssumption`. The invariant is `Control`: `TypeOK`; `Mutex` (at most one
thread is in a section the mutex guards); `SleepySeesNothing` (a worker that has decided to sleep sees an
empty queue until it sleeps: it holds the mutex); `ExitIsFinal` (once a worker has left, the
pool is stopped, its queue is empty and no caller is about to push); `GoneMeansExited`.

* `TypeCorrect`; `NobodySleepsOverATask`: `NoSleepOverTask`, inductive only with `SleepySeesNothing`, since the
  last worker that goes to sleep must know that no task has come meanwhile.
* `EachTaskOnce`: `TasksAccounted`, from `OnePlace`: each task is in the queue once, or with one worker, or done, if it
  was accepted, and in none of them if it was not.
* `NothingLeftAtEnd`: `DrainedAtEnd`, from `OnePlace` and
  `ExitIsFinal`: the worker that exits holds the mutex, so no caller that read `stop_` before it
  was set can still be on its way.
* `StartedInOrder`: `FirstComeFirstServed`. What was started, followed by what waits, is what was accepted, in the
  same order but for the tasks somebody raised: taking a task moves the border between
  the two, and raising one changes the order of no other two.

### `MessageDeliveryProofs`, `PendingMessagesProofs` and `PendingTextsProofs`

`MessageDeliveryProofs`, from `EachHasContact`: `Delivery`, that `MessageDelivery` keeps its promise for any messages and
contacts. `TypeOK`, `Once` and `InOrder` are inductive together with the fact that what is in an inbox, or in
front of it in the outbox, was taken: a message is delivered when those in front of it are settled, and the outbox only
grows at its end.

`PendingMessagesProofs`, from `PendingMessagesAssumption`:

* `TypeCorrect`: `TypeOK`. A task, a callback or a request that names an object names one that there is, since `heap`
  only grows.
* `ImplementsDelivery`: `DeliversInOrder`, that each step is a step of `MessageDelivery` or a stutter, so that what
  `Delivery` says of `MessageDelivery` holds of `PendingMessages`. The invariant is `DeliveryInv`: `Lists` (the list of a
  contact has messages of that contact; what was taken is settled or still pending; what was taken before
  a pending message is settled or pending in front of it), `InTransit` (a reference or request on its way is of a message whose turn it
  is, and a message that is to be removed is settled: that survives edits, restarts and second confirmations, since a turn only ends
  when the message is settled), `TakenOnce` and `KeptTaken`. It does not need that there is one chain: two chains
  send the same message twice, and the server knows its `reqId`.
* `NeverLost`: `NotLost`, from the same invariant.
* `OneChainOnly`: `OneChain`, and `TimerIsFree`: `NoTimerYet` (the assertion before the timer is started), under
  `KeepsUp` (`MaxFired` is at most 1: the core thread runs a timer's callback before the next one comes). `ChainInv` counts what
  carries the chain in every queue; each step moves one carrier, or ends it with the flag.
  Without `KeepsUp` both are false, which `pending_timer` shows of the assertion.

`PendingTextsProofs`, from the same assumption and the invariants `DeliveryInv` and `ChainInv` of the former:

* `EditsSurvive`: `EditsKept`, under `KeepsUp`. `EditInv` says of each message that may lose no edit (`Exempt` names the
  others) that its entry holds an edit (`HasEdit`) or that what is on its way agrees with the last text the archive took
  (`Agrees`: each `touch`, callback and request of the message has that version, and a removal finds it
  shown by the server). A step about another message leaves both as they are (`EntriesStay`, `AgreesStep`). `DoReplace`
  puts an edit in the list. `DoInsert` meets nothing on its way, since the message was not taken before
  (`NotCarried`). An answer that finds an edit notes its id and keeps it: then the chain was in that answer and,
  with one chain, nowhere else, so nothing older is on its way (`KeepsEditAgrees`). Four invariants carry this: a message
  stands in its list once (`ListedOnce`), its texts come to the archive in the order they were
  given (`TextsToCome`), its entry shows the last one taken (`LastTexts`), and a removal is of a message that
  was taken and answered, or is exempt (`Removals`).

### `SessionProofs`

From `SessionAssumption`. The invariant is `SessionInv`, which counts three kinds of things over the three
places they may be in (the tasks of the fetch thread, the callbacks of the core thread, and the bag of what others will
answer): starts, as many as `start_session_is_running_` says; things that continue the life of the im, at least
one; things that continue the loop of the current session, at most one unless a start left another
behind. `Total` is the sum, with lemmas for a bag that gains or loses an element; a callback that
is executed takes its own weight away and adds that of what it leaves, and changes what counts when it changes the
session. `TypeCorrect`: `TypeOK`, where the flag stands for a start that is queued or answered; `LoopGoesOn`: `LoopAlive`;
`LoopsOnce`: `OneLoop`.

### `DialogHistoryProofs`

About the operators of `ArchiveIndex`, for every index (`IsIndex`), without the threads:

* `HoleIsAGap`: between the ends of a hole that has both nothing is shown, and its upper end names
  another message than the lower one.
* `NothingHidden`: if shown headers name what the server has before them and the search ends with
  `last_reached`, nothing below a shown message is missing. Take a missing message and the least shown id
  above it: what the server has before that id is not below the missing message, what the
  search found before it is.
* `InsertKeepsLinks`, `DeleteKeepsLinks`: insertion with its merging and relinking, and deletion, keep links going back.

`LeastId` and `GreatestId` give `Min` and `Max` of a set of ids from the well-foundedness of `<`. `Update` is a recursive
function over the block; `UpTo`, the same well-foundedness as a statement about a *set* of numbers, gives what it keeps for
every block (`Inserts` names the indexes in between, one per header).

About the dialog, from `DialogHistoryAssumption`, in three layers, each inductive with those before it:

* `DialogInv` (`DialogAlwaysFits`), from which `TypesHold`: `TypeOK`. The server's list of erasures is one (`ServerFits`), and whatever
  is under way (tasks, callbacks, requests, answers, an event) is something the server has or had (`TaskFits`,
  `CallbackFits`, `SentFits`, `EventFits`): links of a block go back, a patch is of an erased message, an answer has every patch
  since the version that was asked for, and all there is below a message if it says there is nothing older. The server's
  own steps only add to that (`ServerGrows`): what was live is live, or erased for ever.
* `OrderInv` (`AnswersStayInOrder`), from which `NothingIsHidden`: `NoHiddenHole`. A block passes seven stages, in the network (0), and then from callback to
  task and back (`CallStage`, `TaskStage`) until `insert_history_block()` (6). `AnswersInOrder`: no block has a message that one in front of it
  erases, since the stages are FIFOs and a block only goes on to the next one (`Moves`). Hence `NothingReturns`: no block on its way has a message
  the index has as deleted. With that, `IndexIsSound`: every patch header stands apart (it is deleted and names nothing), and
  between a header and the one it names no live message is left out but those that are shown. It is stated of the headers, not
  of what is shown, because a header that loses its neighbour hands its link on (`delete_up_to()`, `insert_header()`).
  The search then ends with nothing left out (`NothingHides`), as in `NothingHidden`.
* `HistoryInv` (`VersionsStayKnown`), from which `PatchesAreApplied`: `PatchesApplied`. `VersionsKnown`: for each patch version the client has, keeps in a copy, or
  asked from, the erasures up to it are settled: their message is neither shown nor in a block on its way, or their patch is in stages 5 or 6.
  Copies matter, since `clear_last_message_in_dlg_state()` writes back a version it read before. `DeletedUpTo`: all headers are above `del_up_to`
  of the state, or something that will delete them is on its way; without it a stale page could show again what was deleted
  before its patch came.

The last two layers except runs in which an event was overtaken by the patch of its message (`late`), as both properties do: that
message returns, and then neither holds. For `NoHiddenHole` the proof found it: TLC's instance is too small. When the
event puts a message back, `insert_header()` relinks the next header to it even if that is a patch
(`archive_index.cpp:174`), and the repeated patch of the message hands that link on, past messages that are
missing.

The strengthenings were checked by TLC on the bounds of `history` before they were proved.

### What is only model-checked

* The liveness properties: `WaitingPacketIsTaken`, `KeyIsReleased`, `TaskIsExecuted`, `DestructorReturns`, `MessageArrives`,
  `EditArrives`, `EventsArrive`, `DownloadsEnd`, `HistoryArrives`. Fairness and ENABLED are out of the prover's reach.
* The violations of section 6: they are traces.

## 6. Findings

1. `wim_send_thread.cpp:12` chooses the queue by `priority >= top_priority()`, while `priority.h:9`
   says that the lower number is the higher priority: ordinary requests are handed out
   before messages and protocol packets, and have the larger limit. (Fetches, of priority 0, go through a thread
   of their own.)
2. `wim_send_thread.cpp:65`, under the comment "need wait for timeout (ratelimts)", does not
   wait: the packet and its handler are dropped.
3. The assertion `wim_im.cpp:3116` can fail: callbacks of a repeating timer stay in the
   core thread's queue after `stop_timer()`, so that after a stall of three seconds
   two chains run and one timer's id is lost.

4. The assertion `archive_index.cpp:607` ("index not found") can fail: after the newest message was erased an
   event lowers the last message of the dialog state to one the index does not have, and the search for
   holes starts there. The download ends, and the history stays incomplete until the next event or
   opening.

Hazards without a finding, since no document speaks of them, are in `PROJECT.json`: the
destructor of `threadpool` that may hang, edits lost to a second confirmation or to an answer
without a history id, the non-atomic save of the pending file, two fetch loops
after a start during the loads of the one before, a logout by the answer of an old session, a
dialog's unsent messages dropped with its history.

## 7. Not modelled

* Files: the model's saves are atomic; recovery of the index and the data file from a torn write is not modelled.
* `async_loader`, `loader`, curl, subscriptions: each a system of its own, with queues and retries
  like those modelled here; a request is answered or fails, which is all the models take from them.
* Pending deletes, drafts, uploads, stickers, avatars: they repeat the pattern of a list with a flag and
  callbacks.
* VoIP, statistics, logs, updater, corelib, the user interface, generated data (`tld.h`, `call_incoming.h`): input, output and data, most of the repository's lines.
