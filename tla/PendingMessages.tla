-------------------------- MODULE PendingMessages --------------------------
(***************************************************************************)
(* Outgoing messages: im::post_pending_messages() and what it drives       *)
(* (core/connections/wim/wim_im.cpp), over pending_operations              *)
(* (core/archive/not_sent_messages.cpp).                                   *)
(*                                                                         *)
(* A message the user sends is inserted in the list of its contact, which  *)
(* is saved to a file, and stays there until the server has confirmed it.  *)
(* One chain of callbacks sends the lists message after message: get the   *)
(* first one, note its post time, send it, remove it, start again.  A      *)
(* message posted less than a second ago makes the chain wait on a timer,  *)
(* and an error ends it until somebody starts it again.                    *)
(*                                                                         *)
(* The core thread runs one callback at a time, the archive thread one     *)
(* task at a time; each has a FIFO the other appends to.  Requests go to   *)
(* the server through wim_send_thread (module WimSendThread), seen here as *)
(* a set of requests answered in any order, at most once.                  *)
(***************************************************************************)
EXTENDS Integers, SequencesExt

CONSTANTS Messages,       \* the messages the user sends, by internal id
          Contacts,       \* numbers: the order of the pending_messages_ map
          ContactOf,      \* the contact of a message
          Outcomes,       \* how a request may end, besides "ok"
          Confirmations,  \* other ways the server confirms a message
          MaxVersions,    \* bound: texts of a message, the edits included
          MaxFaults,      \* bound: requests that do not end "ok"
          MaxCrashes,     \* bound: crashes
          MaxFired        \* bound: timer callbacks waiting for the core thread

ASSUME PendingMessagesAssumption ==
    /\ Contacts \subseteq Nat /\ IsFiniteSet(Contacts)
    /\ ContactOf \in [Messages -> Contacts]
    /\ Outcomes \subseteq {"no_history_id", "error", "rejected", "dropped"}
    /\ Confirmations \subseteq {"dialog", "imstate"}
    /\ MaxVersions \in Nat \ {0}
    /\ {MaxFaults, MaxCrashes, MaxFired} \subseteq Nat

VARIABLES heap,      \* the not_sent_message objects there ever were
          pending,   \* pending_messages_: objects per contact; the file holds the same
          known,     \* texts whose history_message has its msgid
          archive,   \* tasks waiting for the archive thread
          core,      \* callbacks waiting for the core thread
          net,       \* requests between wim_send_thread and the server
          active,    \* sent_pending_messages_active_
          timer,     \* post_messages_timer_, 0 for empty_timer_id
          timers,    \* the scheduler's timers
          due,       \* those that have a second behind them
          server,    \* messages the server has, per contact, in its order
          text,      \* the text the server shows, 0 for none
          written,   \* the last text the user gave, 0 for none
          kept,      \* the last text the archive took, 0 for none
          taken,     \* messages the archive took, per contact, in that order
          refused,   \* messages the server refused
          dropped,   \* the chain's request has no handler any more
          copied,    \* messages answered without a history id
          faults, crashes, confirmed   \* how much of the bounds is used

chain == <<active, timer, timers, due>>
remote == <<server, text, refused, copied, confirmed>>
user == <<written, kept, taken>>
budget == <<faults, crashes>>
vars == <<heap, pending, known, archive, core, net, chain, remote, user, dropped, budget>>

Versions == 1..MaxVersions
Objects == [message : Messages, version : Versions, modified : BOOLEAN, recent : BOOLEAN]
Refs == 1..Len(heap)

\* The tasks of the archive thread.
InsertTask(o) == [kind |-> "insert", object |-> o]
ReplaceTask(o) == [kind |-> "replace", object |-> o]
GetTask == [kind |-> "get"]
TouchTask(r) == [kind |-> "touch", ref |-> r]
RemoveTask(m, force, goesOn) ==
    [kind |-> "remove", message |-> m, force |-> force, goesOn |-> goesOn]
ImStateTask(m) == [kind |-> "imstate", message |-> m]
ArchiveTasks ==
    [kind : {"insert", "replace"}, object : Objects] \union {GetTask}
      \union [kind : {"touch"}, ref : Refs]
      \union [kind : {"remove"}, message : Messages, force : BOOLEAN, goesOn : BOOLEAN]
      \union [kind : {"imstate"}, message : Messages]

\* The callbacks of the core thread; ref 0 is the empty not_sent_message_sptr.
CoreTasks ==
    [kind : {"got"}, ref : Refs \union {0}] \union [kind : {"touched"}, ref : Refs]
      \union [kind : {"removed", "timer"}, ref : {0}]
Callback(kind, r) == [kind |-> kind, ref |-> r]

Requests == [ref : Refs, message : Messages, version : Versions, edit : BOOLEAN,
             served : BOOLEAN]

TypeOK ==
    /\ heap \in Seq(Objects)
    /\ pending \in [Contacts -> Seq(Refs)]
    /\ known \subseteq Messages \X Versions
    /\ archive \in Seq(ArchiveTasks)
    /\ core \in Seq(CoreTasks)
    /\ net \in Seq(Requests)
    /\ active \in BOOLEAN
    /\ timers \subseteq Nat \ {0}
    /\ timer \in timers \union {0}
    /\ due \subseteq timers
    /\ {server, taken} \subseteq [Contacts -> Seq(Messages)]
    /\ {text, written, kept} \subseteq [Messages -> Versions \union {0}]
    /\ {refused, copied} \subseteq SUBSET Messages
    /\ dropped \in BOOLEAN
    /\ {faults, crashes} \subseteq Nat
    /\ confirmed \subseteq Messages

Init ==
    /\ heap = <<>>
    /\ pending = [c \in Contacts |-> <<>>]
    /\ known = {}
    /\ archive = <<>> /\ core = <<>> /\ net = <<>>
    /\ active = FALSE /\ timer = 0 /\ timers = {} /\ due = {}
    /\ server = [c \in Contacts |-> <<>>]
    /\ text = [m \in Messages |-> 0]
    /\ written = [m \in Messages |-> 0] /\ kept = [m \in Messages |-> 0]
    /\ taken = [c \in Contacts |-> <<>>]
    /\ refused = {} /\ copied = {} /\ confirmed = {} /\ dropped = FALSE
    /\ faults = 0 /\ crashes = 0

-----------------------------------------------------------------------------
(* post_pending_messages(): the head of the chain. *)

\* Mutant of PostPending: the timer's id is not reset.
KeepTimerId(tasks) ==
    /\ active' = TRUE
    /\ timers' = timers \ {timer}
    /\ due' = due \ {timer}
    /\ timer' = timer
    /\ archive' = archive \o tasks \o <<GetTask>>

\* post_pending_messages(true), after the archive was given other tasks.
PostPending(tasks) ==
    /\ active' = TRUE
    /\ timers' = timers \ {timer}
    /\ due' = due \ {timer}
    /\ timer' = 0
    /\ archive' = archive \o tasks \o <<GetTask>>

\* Mutant of StartPending: the flag is not looked at.
StartAnother(tasks) == PostPending(tasks)

\* post_pending_messages(): only one chain at a time.
StartPending(tasks) ==
    IF active THEN archive' = archive \o tasks /\ UNCHANGED chain
              ELSE PostPending(tasks)

EndChain == active' = FALSE /\ UNCHANGED <<timer, timers, due>>

-----------------------------------------------------------------------------
(* The user, and the fetch loop. *)

NewObject(m, v, modified) ==
    [message |-> m, version |-> v, modified |-> modified, recent |-> FALSE]

\* send_message_to_contact().
SendMessage(m) ==
    /\ written[m] = 0
    /\ written' = [written EXCEPT ![m] = 1]
    /\ StartPending(<<InsertTask(NewObject(m, 1, FALSE))>>)
    /\ UNCHANGED <<heap, pending, known, core, net, remote, kept, taken, dropped, budget>>

\* update_message_to_contact() of a message the user interface has no msgid of.
EditMessage(m) ==
    /\ written[m] \in 1..(MaxVersions - 1)
    /\ written' = [written EXCEPT ![m] = @ + 1]
    /\ StartPending(<<ReplaceTask(NewObject(m, written[m] + 1, TRUE))>>)
    /\ UNCHANGED <<heap, pending, known, core, net, remote, kept, taken, dropped, budget>>

\* resume_failed_network_requests(), after every fetch that succeeds.
Resume ==
    /\ StartPending(<<>>)
    /\ UNCHANGED <<heap, pending, known, core, net, remote, user, dropped, budget>>

\* A fetched event about a message the server has: the message in a dialog's
\* tail, or its state.
Confirm(m, how) ==
    /\ m \in ToSet(server[ContactOf[m]]) \ confirmed
    /\ confirmed' = confirmed \union {m}
    /\ archive' = Append(archive, IF how = "dialog" THEN RemoveTask(m, FALSE, FALSE)
                                                    ELSE ImStateTask(m))
    /\ UNCHANGED <<heap, pending, known, core, net, chain, server, text, refused, copied,
                   user, dropped, budget>>

-----------------------------------------------------------------------------
(* The archive thread: pending_operations. *)

\* Where message m stands in its contact's list: a set of at most one place.
PlacesOf(m) ==
    {i \in DOMAIN pending[ContactOf[m]] :
        heap[pending[ContactOf[m]][i]].message = m}

ArchiveTask(kind) ==
    /\ archive # <<>>
    /\ Head(archive).kind = kind
    /\ archive' = Tail(archive)
    /\ UNCHANGED <<net, chain, remote, written, dropped, budget>>

\* insert_message().
DoInsert ==
    LET o == Head(archive).object
        c == ContactOf[o.message]
    IN  /\ ArchiveTask("insert")
        /\ heap' = Append(heap, o)
        /\ pending' = [pending EXCEPT ![c] = Append(@, Len(heap) + 1)]
        /\ kept' = [kept EXCEPT ![o.message] = o.version]
        /\ taken' = [taken EXCEPT ![c] = Append(@, o.message)]
        /\ UNCHANGED <<known, core>>

\* Mutant of ReplaceAt: the new object goes to the end of the list.
PutLast(s, i, r) == Append(RemoveAt(s, i), r)

\* update_message_if_exist(): a message that is not there any more stays away.
PutAt(s, i, r) == [s EXCEPT ![i] = r]
DoReplace ==
    LET o == Head(archive).object
        c == ContactOf[o.message]
    IN  /\ ArchiveTask("replace")
        /\ IF PlacesOf(o.message) = {} THEN UNCHANGED <<heap, pending, kept>>
           ELSE /\ heap' = Append(heap, o)
                /\ pending' = [pending EXCEPT ![c] =
                                  PutAt(@, Min(PlacesOf(o.message)), Len(heap) + 1)]
                /\ kept' = [kept EXCEPT ![o.message] =
                               IF o.version > @ THEN o.version ELSE @]
        /\ UNCHANGED <<known, core, taken>>

\* get_first_ready_to_send(): the first message of the first contact.
Busy == {c \in Contacts : pending[c] # <<>>}
FirstReady == IF Busy = {} THEN 0 ELSE Head(pending[Min(Busy)])
DoGet ==
    /\ ArchiveTask("get")
    /\ core' = Append(core, Callback("got", FirstReady))
    /\ UNCHANGED <<heap, pending, known, kept, taken>>

\* update_message_post_time(), of the object that has the id now.
DoTouch ==
    LET r == Head(archive).ref
        m == heap[r].message
    IN  /\ ArchiveTask("touch")
        /\ IF PlacesOf(m) = {} THEN UNCHANGED heap
           ELSE heap' = [heap EXCEPT ![pending[ContactOf[m]][Min(PlacesOf(m))]].recent
                            = TRUE]
        /\ core' = Append(core, Callback("touched", r))
        /\ UNCHANGED <<pending, known, kept, taken>>

\* Mutant of KeepsEdit: an edit made meanwhile is not looked at.
NeverKeeps(r, force) == FALSE

\* remove(): a message edited since it was posted stays, to be sent as an edit.
KeepsEdit(r, force) == heap[r].modified /\ ~force
RemovePending(m, force) ==
    LET c == ContactOf[m]
        i == Min(PlacesOf(m))
        r == pending[c][i]
    IN  IF PlacesOf(m) = {} THEN UNCHANGED <<heap, pending, known>>
        ELSE IF KeepsEdit(r, force)
             THEN /\ heap' = [heap EXCEPT ![r].modified = FALSE]
                  /\ known' = known \union {<<m, heap[r].version>>}
                  /\ UNCHANGED pending
             ELSE /\ pending' = [pending EXCEPT ![c] = RemoveAt(@, i)]
                  /\ UNCHANGED <<heap, known>>

DoRemove ==
    /\ ArchiveTask("remove")
    /\ RemovePending(Head(archive).message, Head(archive).force)
    /\ core' = IF Head(archive).goesOn THEN Append(core, Callback("removed", 0)) ELSE core
    /\ UNCHANGED <<kept, taken>>

\* update_with_imstate(): a message that was edited is left alone.
DoImState ==
    LET m == Head(archive).message
        i == Min(PlacesOf(m))
    IN  /\ ArchiveTask("imstate")
        /\ IF PlacesOf(m) = {} \/ heap[pending[ContactOf[m]][i]].modified
           THEN UNCHANGED pending
           ELSE pending' = [pending EXCEPT ![ContactOf[m]] = RemoveAt(@, i)]
        /\ UNCHANGED <<heap, known, core, kept, taken>>

-----------------------------------------------------------------------------
(* The core thread: the callbacks of the chain. *)

CoreTask(kind) ==
    /\ core # <<>>
    /\ Head(core).kind = kind
    /\ core' = Tail(core)
    /\ UNCHANGED <<heap, pending, known, remote, user, dropped, budget>>

GotRef == Head(core).ref

\* Nothing is pending.
OnGotNothing ==
    /\ CoreTask("got")
    /\ GotRef = 0
    /\ EndChain
    /\ UNCHANGED <<archive, net>>

\* Posted less than post_messages_rate ago: wait.
NewTimer == Min((1..(Cardinality(timers) + 1)) \ timers)
OnGotRecent ==
    /\ CoreTask("got")
    /\ GotRef # 0
    /\ heap[GotRef].recent
    /\ timer' = NewTimer
    /\ timers' = timers \union {NewTimer}
    /\ UNCHANGED <<active, due, archive, net>>

OnGotReady ==
    /\ CoreTask("got")
    /\ GotRef # 0
    /\ ~heap[GotRef].recent
    /\ archive' = Append(archive, TouchTask(GotRef))
    /\ UNCHANGED <<chain, net>>

\* send_pending_message_async(): what the object holds now is sent.
OnTouched ==
    LET o == heap[Head(core).ref]
    IN  /\ CoreTask("touched")
        /\ net' = Append(net, [ref |-> Head(core).ref, message |-> o.message,
                               version |-> o.version,
                               edit |-> <<o.message, o.version>> \in known,
                               served |-> FALSE])
        /\ UNCHANGED <<chain, archive>>

\* The last owner of auto_handler is gone, or the timer's callback runs.
GoOn ==
    /\ CoreTask("removed") \/ CoreTask("timer")
    /\ PostPending(<<>>)
    /\ UNCHANGED net

-----------------------------------------------------------------------------
(* The server, and the result handler of send_pending_message_async().     *)

\* A request that is an edit changes the text; any other is a new message
\* unless its reqId was seen before.
ServerTakes(i) ==
    LET q == net[i]
        c == ContactOf[q.message]
        isNew == q.message \notin ToSet(server[c])
    IN  /\ ~q.served
        /\ net' = [net EXCEPT ![i].served = TRUE]
        /\ server' = IF isNew THEN [server EXCEPT ![c] = Append(@, q.message)] ELSE server
        /\ text' = IF isNew \/ q.edit THEN [text EXCEPT ![q.message] = q.version] ELSE text
        /\ UNCHANGED <<heap, pending, known, archive, core, chain, refused, copied, confirmed,
                       user, dropped, budget>>

\* The request leaves the net; how it ended is up to the network and the server.
Answered(i) ==
    /\ net' = RemoveAt(net, i)
    /\ UNCHANGED <<heap, pending, known, core, server, text, user, crashes, confirmed>>

AnswerOk(i) ==
    /\ net[i].served
    /\ Answered(i)
    /\ archive' = Append(archive, RemoveTask(net[i].message, FALSE, TRUE))
    /\ UNCHANGED <<chain, refused, copied, dropped, faults>>

Fault(kind) == kind \in Outcomes /\ faults < MaxFaults /\ faults' = faults + 1

\* No history id: the object is replaced by a copy of the one that was sent.
AnswerNoHistoryId(i) ==
    /\ Fault("no_history_id")
    /\ net[i].served
    /\ Answered(i)
    /\ PostPending(<<ReplaceTask(heap[net[i].ref])>>)
    /\ copied' = copied \union {net[i].message}
    /\ UNCHANGED <<refused, dropped>>

\* Mutant of AnswerError: the flag stays set.
ErrorKeepsActive(i) ==
    /\ Fault("error")
    /\ Answered(i)
    /\ UNCHANGED <<chain, archive, refused, copied, dropped>>

\* Mutant of AnswerError: the message is given up, as if the server refused it.
ErrorGivesUp(i) ==
    /\ Fault("error")
    /\ Answered(i)
    /\ EndChain
    /\ archive' = Append(archive, RemoveTask(net[i].message, TRUE, FALSE))
    /\ UNCHANGED <<refused, copied, dropped>>

\* A network error, a timeout, or an answer that asks to try again.
AnswerError(i) ==
    /\ Fault("error")
    /\ Answered(i)
    /\ EndChain
    /\ UNCHANGED <<archive, refused, copied, dropped>>

\* An answer that says the message will never do.
AnswerRejected(i) ==
    /\ Fault("rejected")
    /\ ~net[i].served
    /\ Answered(i)
    /\ refused' = refused \union {net[i].message}
    /\ archive' = Append(archive, RemoveTask(net[i].message, TRUE, FALSE))
    /\ EndChain
    /\ UNCHANGED <<copied, dropped>>

\* wim_send_thread forgets the packet and its handler (PostTooEarly, FullSession).
RequestDropped(i) ==
    /\ Fault("dropped")
    /\ ~net[i].served
    /\ Answered(i)
    /\ dropped' = TRUE
    /\ UNCHANGED <<chain, archive, refused, copied>>

-----------------------------------------------------------------------------
(* Time, and crashes. *)

\* A second passes: post times are old, and every timer may fire (again).
Tick ==
    /\ heap' = [r \in Refs |-> [heap[r] EXCEPT !.recent = FALSE]]
    /\ due' = timers
    /\ UNCHANGED <<pending, known, archive, core, net, active, timer, timers, remote, user,
                   dropped, budget>>

\* The scheduler posts a timer's callback, and will do so again.
FireTimer(t) ==
    /\ Cardinality({i \in DOMAIN core : core[i].kind = "timer"}) < MaxFired
    /\ due' = due \ {t}
    /\ core' = Append(core, Callback("timer", 0))
    /\ UNCHANGED <<heap, pending, known, archive, net, active, timer, timers, remote, user,
                   dropped, budget>>

\* The process ends and starts again: the lists are read from the file, post
\* times are not in it.
Crash ==
    /\ crashes < MaxCrashes
    /\ crashes' = crashes + 1
    /\ heap' = [r \in Refs |-> [heap[r] EXCEPT !.recent = FALSE]]
    /\ archive' = <<>> /\ core' = <<>> /\ net' = <<>>
    /\ active' = FALSE /\ timer' = 0 /\ timers' = {} /\ due' = {}
    /\ dropped' = FALSE
    /\ UNCHANGED <<pending, known, remote, user, faults>>

-----------------------------------------------------------------------------
Archive == DoInsert \/ DoReplace \/ DoGet \/ DoTouch \/ DoRemove \/ DoImState
Core == OnGotNothing \/ OnGotRecent \/ OnGotReady \/ OnTouched \/ GoOn
Answer == \E i \in DOMAIN net :
              \/ AnswerOk(i)
              \/ AnswerNoHistoryId(i)
              \/ AnswerError(i)
              \/ AnswerRejected(i)
              \/ RequestDropped(i)
Serve == \E i \in DOMAIN net : ServerTakes(i)
Fire == \E t \in due : FireTimer(t)

Next ==
    \/ \E m \in Messages : SendMessage(m) \/ EditMessage(m)
    \/ Resume
    \/ \E m \in Messages, how \in Confirmations : Confirm(m, how)
    \/ Archive
    \/ Core
    \/ Serve
    \/ Answer
    \/ Tick
    \/ Fire
    \/ Crash

Spec == Init /\ [][Next]_vars

\* Threads run, time passes, fetches go on succeeding now and then, and a
\* request is answered: all but MaxFaults of them well.
Fairness ==
    /\ WF_vars(Archive)
    /\ WF_vars(Core)
    /\ WF_vars(Resume)
    /\ WF_vars(Serve)
    /\ WF_vars(Answer)
    /\ WF_vars(Tick)
    /\ WF_vars(Fire)

FairSpec == Spec /\ Fairness

-----------------------------------------------------------------------------
(* Safety. *)

\* A message the archive took is pending, or the server has it, or the server
\* refused it: no order of edits, errors, confirmations and restarts loses it.
NotLost ==
    \A m \in Messages :
        kept[m] # 0 => \/ PlacesOf(m) # {}
                       \/ m \in ToSet(server[ContactOf[m]])
                       \/ m \in refused

\* As long as the core thread keeps up with its timers there is one chain when
\* the flag is set and none when it is not, but for a chain whose request was
\* dropped: the flag never stays set with nothing behind it for another reason.
Waiting == timers # {} \/ \E t \in ToSet(core) : t.kind = "timer"
ChainLength ==
    Cardinality({i \in DOMAIN archive :
                    \/ archive[i].kind \in {"get", "touch"}
                    \/ archive[i].kind = "remove" /\ archive[i].goesOn})
      + Cardinality({i \in DOMAIN core : core[i].kind # "timer"})
      + Len(net)
      + (IF Waiting THEN 1 ELSE 0)
      + (IF dropped THEN 1 ELSE 0)
OneChain == ChainLength = IF active THEN 1 ELSE 0

\* A message that has left the list is on the server with the last text the
\* archive took for it, unless it was refused, or one of two things happened to it
\* that do lose an edit: a confirmation besides the answer's, which removes the
\* entry of an edit still to be sent, or an answer without a history id, which
\* puts the text that was sent back in its place.
EditsKept ==
    \A m \in Messages :
        (kept[m] # 0 /\ PlacesOf(m) = {} /\ m \notin refused \union copied \union confirmed)
            => text[m] = kept[m]

\* post_pending_messages(): im_assert(post_messages_timer_ == empty_timer_id)
\* before the timer is started.
AboutToStartTimer ==
    /\ core # <<>>
    /\ Head(core).kind = "got"
    /\ GotRef # 0
    /\ heap[GotRef].recent
NoTimerYet == AboutToStartTimer => timer = 0

-----------------------------------------------------------------------------
(* The abstract specification. *)

\* Whatever the chain goes through, the server gets the messages of a contact in
\* the order the archive took them, each once, and refuses them in that order:
\* every step of this module is a step of MessageDelivery, or none.
Delivery == INSTANCE MessageDelivery WITH outbox <- taken, inbox <- server
DeliversInOrder == Delivery!Spec

-----------------------------------------------------------------------------
(* Liveness. *)

\* A message the user wrote reaches the server, or is refused.
MessageArrives ==
    \A m \in Messages :
        written[m] # 0 ~> (m \in ToSet(server[ContactOf[m]]) \/ m \in refused)

\* The server comes to show the last text the archive took for a message, but for
\* the messages that may lose an edit (see EditsKept).
EditArrives ==
    \A m \in Messages :
        kept[m] # 0 ~> (text[m] = kept[m] \/ m \in refused \union copied \union confirmed)

=============================================================================
