---------------------------- MODULE DialogHistory ----------------------------
(***************************************************************************)
(* The history of one dialog: what core::wim::im                           *)
(* (core/connections/wim/wim_im.cpp) does to have in the archive what the  *)
(* server has.  Fetch events bring the newest message, download_holes()    *)
(* asks for a page of each hole of the index until there is none, opening  *)
(* the dialog or a new patch version asks for the tail of the history.     *)
(*                                                                         *)
(* The core thread runs one callback at a time, the archive thread one     *)
(* task at a time; each has a FIFO the other appends to, so that whatever  *)
(* a callback has read of the archive may have changed when it is used.    *)
(* getHistory requests of a dialog are sent one at a time (WimSendThread); *)
(* the server answers from what it has then, and the answer takes time.    *)
(***************************************************************************)
EXTENDS ArchiveIndex

CONSTANTS FirstIds,    \* messages the server may have before the program starts
          MaxId,       \* bound: messages posted
          MaxEvents,   \* bound: fetch events
          MaxErased,   \* bound: messages erased one by one
          UpTos,       \* up to where the history may be deleted at once
          PageSize,    \* history_request_page_size
          Errors,      \* how a request may fail
          MaxErrors    \* bound: requests that fail

ASSUME DialogHistoryAssumption ==
    /\ {MaxId, MaxErased, MaxErrors, MaxEvents} \subseteq Nat
    /\ FirstIds \subseteq 0..MaxId /\ FirstIds # {}
    /\ UpTos \subseteq 1..MaxId
    /\ PageSize \in Nat \ {0, 1}
    /\ Errors \subseteq {"repeat", "other"}

VARIABLES posted,   \* the server has had the messages 1..posted
          erased,   \* those it erased, in that order; their number is the patch version
          upTo,     \* where its history is deleted up to
          told,     \* what it said in its last fetch event
          events,   \* how much of the bound is used
          event,    \* a fetch event on its way, or <<>>
          handled,  \* the client's fetch thread waits for no event to be handled
          index,    \* archive_index::headers_index_
          state,    \* archive_state: last_msgid, del_up_to, history_patch_version
          opened,   \* has_opened_dialogs()
          failed,   \* failed_holes_requests_, or <<>>
          archive,  \* tasks waiting for the archive thread
          core,     \* callbacks waiting for the core thread
          net,      \* getHistory requests; the first may have its answer
          errors,   \* how much of the bound is used
          gaveUp,   \* a download ended with an error nobody repeats, or lost its place
          late      \* an event brought a message the server had erased meanwhile

server == <<posted, erased, upTo>>
wire == <<told, events, event, handled>>
client == <<index, state, opened, failed>>
queues == <<archive, core, net>>
history == <<gaveUp, late>>
vars == <<server, wire, client, queues, errors, history>>

-----------------------------------------------------------------------------
(* The server. *)

Erased == {erased[i] : i \in DOMAIN erased}
Live == ((upTo + 1)..posted) \ Erased
Newest(ids) == IF ids = {} THEN None ELSE Max(ids)
LiveBelow(id) == Newest({k \in Live : k < id})

Post ==
    /\ posted < MaxId
    /\ posted' = posted + 1
    /\ UNCHANGED <<erased, upTo, wire, client, queues, errors, history>>

Erase ==
    /\ Len(erased) < MaxErased
    /\ \E id \in Live : erased' = Append(erased, id)
    /\ UNCHANGED <<posted, upTo, wire, client, queues, errors, history>>

DeleteAll ==
    /\ \E to \in UpTos : to > upTo /\ to <= posted /\ upTo' = to
    /\ UNCHANGED <<posted, erased, wire, client, queues, errors, history>>

\* histDlgState: the state of the dialog.  It brings the newest message if that has
\* not been in an event before, and may bring it again.
News == [last |-> Newest(Live), version |-> Len(erased), upTo |-> upTo]
Tails ==
    LET newest == {<<Message(id, LiveBelow(id))>> : id \in Live \intersect {News.last}}
    IN IF News.last > told.last THEN newest ELSE newest \union {<<>>}
SendEvent ==
    /\ event = <<>> /\ handled
    /\ News # told
    /\ events < MaxEvents
    /\ told' = News /\ events' = events + 1
    /\ \E tail \in Tails : event' = <<[news |-> News, tail |-> tail]>>
    /\ UNCHANGED <<server, handled, client, queues, errors, history>>

\* What a getHistory request asks for: at most count messages between from and
\* till, the newest first, and the patches since version.
Page(req) ==
    LET asked == {k \in Live : (req.from = None \/ k < req.from) /\ k > req.till}
    IN {k \in asked : Cardinality({l \in asked : l > k}) < req.count}
InOrder(ids) ==
    CHOOSE s \in [1..Cardinality(ids) -> ids] : \A i, j \in DOMAIN s : i < j => s[i] < s[j]
Answer(req) ==
    LET ids == InOrder(Page(req))
        older == IF ids # <<>> THEN LiveBelow(ids[1])
                 ELSE IF req.from # None THEN LiveBelow(req.from) ELSE Newest(Live)
    IN [block |-> [i \in DOMAIN ids |-> Message(ids[i], LiveBelow(ids[i]))]
                  \o [i \in 1..(Len(erased) - req.version) |-> DeletedPatch(erased[req.version + i])],
        older |-> older # None,
        last |-> Newest(Live),
        version |-> Len(erased)]

-----------------------------------------------------------------------------
(* Requests. then is what get_history_from_server()'s result starts. *)

Nothing == [kind |-> "nothing"]
DownloadAll == [kind |-> "download"]
Validate(hole, depth, call) ==
    [kind |-> "validate", hole |-> hole, depth |-> depth, call |-> call]
Request(from, till, count, version, then) ==
    [from |-> from, till |-> till, count |-> count, version |-> version,
     then |-> then, editing |-> FALSE]

\* A call of download_holes(): recursion is compared with 0 only, so 1 stands for
\* whatever is more.
Call(from, depth, recursion) ==
    [from |-> from, depth |-> depth, recursion |-> Min({recursion, 1})]
NextHoleTask(call) == [kind |-> "next", call |-> call]

\* A callback of the core thread: what was asked, and what came of it.
Result(what, got) == [what |-> what, got |-> got]

Serve ==
    /\ net # <<>> /\ Head(net).answer = <<>>
    /\ net' = [net EXCEPT ![1].answer = <<Answer(Head(net).req)>>]
    /\ UNCHANGED <<server, wire, client, archive, core, errors, history>>

Sent(req) == [req |-> req, answer |-> <<>>]

Arrive ==
    /\ net # <<>> /\ Head(net).answer # <<>>
    /\ net' = Tail(net)
    /\ core' = Append(core, Result([kind |-> "answer", req |-> Head(net).req],
                                   Head(net).answer[1]))
    /\ UNCHANGED <<server, wire, client, archive, errors, history>>

\* A request fails, whether the server has seen it or not.
Fail ==
    /\ net # <<>> /\ errors < MaxErrors
    /\ net' = Tail(net)
    /\ \E error \in Errors :
          core' = Append(core, Result([kind |-> "fail", req |-> Head(net).req], error))
    /\ errors' = errors + 1
    /\ UNCHANGED <<server, wire, client, archive, history>>

-----------------------------------------------------------------------------
(* The archive thread: one task after the other, each with its callback.   *)

Task(kinds) ==
    /\ archive # <<>> /\ Head(archive).kind \in kinds
    /\ archive' = Tail(archive)
    /\ UNCHANGED <<server, wire, opened, failed, net, errors, gaveUp>>
Called(got) == core' = Append(core, Result(Head(archive), got))

GetDlgState ==
    /\ Task({"download", "limits", "answered", "open", "event", "clear"})
    /\ Called(state)
    /\ UNCHANGED <<index, state, late>>

GetNextHoleTask ==
    /\ Task({"next"})
    /\ Called(GetNextHole(index, Head(archive).call.from, Head(archive).call.depth))
    /\ UNCHANGED <<index, state, late>>

ValidateTask ==
    /\ Task({"validate"})
    /\ Called(ValidateHoleRequest(index, Head(archive).hole))
    /\ UNCHANGED <<index, state, late>>

\* Mutant of Merged: the version an event names counts as one there are the patches of.
MergedKnown(new) ==
    [last |-> new.last, upTo |-> Max({new.upTo, state.upTo}),
     version |-> Max({new.version, new.known, state.version})]

\* archive_state::merge_state().  known is the patch version a fetch event names,
\* version the one an answer has brought the patches of; 0 is no version.
Merged(new) ==
    LET patched == new.version > 0 /\ new.version # state.version
        deleted == new.upTo > state.upTo
        refused == /\ ~patched /\ ~(new.known > state.version)
                   /\ new.last > 0 /\ new.last < state.last
        upto == Max({new.upTo, state.upTo})
    IN CASE refused -> state
         [] ~refused /\ deleted /\ state.last = new.upTo -> [state EXCEPT !.upTo = upto]
         [] OTHER -> [last |-> new.last, upTo |-> upto,
                      version |-> IF patched THEN new.version ELSE state.version]

SetDlgState ==
    /\ Task({"set", "eventset", "clearset"})
    /\ state' = Merged(Head(archive).new)
    /\ IF Head(archive).kind = "clearset" THEN UNCHANGED core ELSE Called(state')
    /\ UNCHANGED <<index, late>>

UpdateHistory ==
    /\ Task({"update", "eventupdate"})
    /\ LET t == Head(archive)
           ids == {t.block[i].id : i \in DOMAIN t.block}
       IN /\ index' = InsertHistoryBlock(index, t.block, state.upTo, t.from, t.hasOlder)
          /\ late' = (late \/ (t.kind = "eventupdate" /\ ids \intersect Erased # {}))
    /\ Called("ok")
    /\ UNCHANGED state

\* contact_archive::delete_messages_up_to()
DeleteUpTo ==
    /\ Task({"delete"})
    /\ index' = IndexAbove(index, Head(archive).upTo)
    /\ state' = IF Head(archive).upTo >= state.last THEN [state EXCEPT !.last = None] ELSE state
    /\ Called("ok")
    /\ UNCHANGED late

DropHistory ==
    /\ Task({"drop"})
    /\ index' = <<>>
    /\ UNCHANGED <<state, core, late>>

-----------------------------------------------------------------------------
(* Callbacks of the core thread: they post tasks and requests.             *)

Callback(kind) ==
    /\ core # <<>> /\ Head(core).what.kind = kind
    /\ core' = Tail(core)
    /\ UNCHANGED <<server, told, events, event, index, state, opened, errors, late>>
What == Head(core).what
Got == Head(core).got

PostTasks(tasks) == archive' = archive \o tasks
PostTask(task) == PostTasks(<<task>>)
Send(req) == net' = Append(net, Sent(req))
Quiet == UNCHANGED <<handled, failed, gaveUp>>

\* download_holes(contact)
OnDownload ==
    /\ Callback("download")
    /\ PostTask(NextHoleTask(Call(Got.last, None, 0)))
    /\ Quiet /\ UNCHANGED net

\* Mutant of OnNextHole: the hole of an empty dialog is asked for again and again.
OnNextHoleAgain ==
    /\ Callback("next")
    /\ IF Got.error = "ok"
       THEN PostTask([kind |-> "limits", call |-> What.call, hole |-> Got.hole])
       ELSE UNCHANGED archive
    /\ Quiet /\ UNCHANGED net

OnNextHole ==
    /\ Callback("next")
    /\ IF Got.error = "ok" /\ ~(What.call.recursion > 0 /\ Got.hole.from = None)
       THEN PostTask([kind |-> "limits", call |-> What.call, hole |-> Got.hole])
       ELSE UNCHANGED archive
    /\ gaveUp' = (gaveUp \/ Got.error = "index_not_found")
    /\ UNCHANGED <<handled, failed, net>>

Obsolete(id) == id > 0 /\ id <= Got.upTo
DepthTail(depth, hole) ==
    IF depth = None THEN None ELSE depth - hole.depth + PageSize + 1
OnLimits ==
    LET hole == What.hole
        depth == What.call.depth
    IN /\ Callback("limits")
       /\ IF Obsolete(hole.from) \/ Obsolete(hole.to)
             \/ (depth # None /\ depth <= hole.depth)
          THEN UNCHANGED net
          ELSE Send(Request(hole.from, hole.to, PageSize, Got.version,
                            Validate(hole, DepthTail(depth, hole), What.call)))
       /\ Quiet /\ UNCHANGED archive

OnValidated ==
    /\ Callback("validate")
    /\ PostTask(NextHoleTask(Call(Got, What.depth, What.call.recursion + 1)))
    /\ Quiet /\ UNCHANGED net

\* get_history_from_server(): the packet is answered.
OnAnswer ==
    /\ Callback("answer")
    /\ PostTask([kind |-> "answered", req |-> What.req, answer |-> Got])
    /\ Quiet /\ UNCHANGED net

\* holes::failed_requests::add()
AddFailed(call) ==
    failed' = IF failed = <<>> THEN <<call>> ELSE <<Call(None, None, -1)>>

\* Mutant of OnFailed: a download that fails is forgotten.
OnFailedForget ==
    /\ Callback("fail")
    /\ IF What.req.then.kind = "download" THEN PostTask(DownloadAll) ELSE UNCHANGED archive
    /\ Quiet /\ UNCHANGED net

OnFailed ==
    LET then == What.req.then
    IN /\ Callback("fail")
       /\ IF then.kind = "download" THEN PostTask(DownloadAll) ELSE UNCHANGED archive
       /\ IF then.kind = "validate" /\ Got = "repeat"
          THEN AddFailed(then.call) ELSE UNCHANGED failed
       /\ gaveUp' = (gaveUp \/ (then.kind = "validate" /\ Got # "repeat"))
       /\ UNCHANGED <<handled, net>>

\* A tail of the history that ends before the index does: the index is dropped.
OpenTask == [kind |-> "open"]
OnAnswered ==
    LET block == What.answer.block
        stale == /\ What.req.from = None /\ block # <<>>
                 /\ LastId(index) > Max({block[i].id : i \in DOMAIN block})
        new == [last |-> What.answer.last, upTo |-> None,
                version |-> What.answer.version, known |-> 0]
    IN /\ Callback("answered")
       /\ IF stale
          THEN PostTasks(<<[kind |-> "drop"]>> \o IF opened THEN <<OpenTask>> ELSE <<>>)
          ELSE PostTask([kind |-> "set", new |-> new, req |-> What.req, answer |-> What.answer])
       /\ Quiet /\ UNCHANGED net

OnSet ==
    /\ Callback("set")
    /\ PostTask([kind |-> "update", block |-> What.answer.block,
                 from |-> IF What.req.editing THEN None ELSE What.req.from,
                 hasOlder |-> What.answer.older, then |-> What.req.then])
    /\ Quiet /\ UNCHANGED net

OnUpdated ==
    /\ Callback("update")
    /\ IF What.then = Nothing THEN UNCHANGED archive ELSE PostTask(What.then)
    /\ Quiet /\ UNCHANGED net

\* The dialog is opened, or told that its history was dropped: the newest message
\* first, then the holes, whatever became of the first request.
OnOpen ==
    /\ Callback("open")
    /\ Send(Request(None, None, 1, Got.version, DownloadAll))
    /\ Quiet /\ UNCHANGED archive

-----------------------------------------------------------------------------
(* A fetch event of the dialog; the next one waits until it is handled.    *)

DeliverEvent ==
    /\ handled /\ event # <<>>
    /\ handled' = FALSE
    /\ event' = <<>>
    /\ PostTask([kind |-> "event", news |-> event[1].news, tail |-> event[1].tail])
    /\ UNCHANGED <<server, told, events, client, core, net, errors, history>>

\* What the event changes in the state of the dialog, as read; a state that is empty
\* has no patch version to compare with.
OnEvent ==
    LET news == What.news
        isEmpty == Got.last = None
        changes == [version |-> ~isEmpty /\ news.version > 0 /\ news.version # Got.version,
                    upTo |-> news.upTo > Got.upTo,
                    last |-> news.last > Got.last]
        new == [last |-> news.last, upTo |-> news.upTo, version |-> 0, known |-> news.version]
    IN /\ Callback("event")
       /\ PostTask([kind |-> "eventset", new |-> new, tail |-> What.tail, changes |-> changes])
       /\ Quiet /\ UNCHANGED net

DeleteTask(to) == [kind |-> "delete", upTo |-> to]
TailHas(id) == \E i \in DOMAIN What.tail : What.tail[i].id = id

\* The patches, if there are new ones or the newest message did not come along.
\* What the server deleted is deleted, or the tail is inserted.
OnEventSet ==
    LET changes == What.changes
    IN /\ Callback("eventset")
       /\ IF changes.version \/ (changes.last /\ ~TailHas(Got.last))
          THEN Send([Request(None, None, 1, Got.version, Nothing) EXCEPT !.editing = TRUE])
          ELSE UNCHANGED net
       /\ IF changes.upTo /\ What.tail = <<>>
          THEN PostTasks(<<DeleteTask(Got.upTo), [kind |-> "clear"]>>)
          ELSE PostTask([kind |-> "eventupdate", block |-> What.tail, from |-> None,
                         hasOlder |-> FALSE, changes |-> changes, state |-> Got])
       /\ Quiet

OnEventUpdated ==
    LET changes == What.changes
        count == Len(What.block)
        last == IF count = 0 THEN What.state.last ELSE What.block[count].id
        download == /\ opened /\ last > 0
                    /\ count > 0 \/ changes.version \/ changes.last
        depth == IF count > 0 THEN count + 1 ELSE None
    IN /\ Callback("eventupdate")
       /\ PostTasks((IF download THEN <<NextHoleTask(Call(last, depth, 0))>> ELSE <<>>)
                    \o (IF changes.upTo THEN <<DeleteTask(What.state.upTo)>> ELSE <<>>))
       /\ handled' = ~changes.upTo
       /\ UNCHANGED <<failed, gaveUp, net>>

OnDeleted ==
    /\ Callback("delete")
    /\ handled' = TRUE
    /\ UNCHANGED <<failed, gaveUp, archive, net>>

\* clear_last_message_in_dlg_state() sets the whole state it has read before.
OnClear ==
    /\ Callback("clear")
    /\ PostTask([kind |-> "clearset",
                 new |-> [last |-> Got.last, upTo |-> Got.upTo,
                          version |-> Got.version, known |-> 0]])
    /\ Quiet /\ UNCHANGED net

-----------------------------------------------------------------------------
(* The user, and the network that is back. *)

OpenDialog ==
    /\ ~opened
    /\ opened' = TRUE
    /\ PostTask(OpenTask)
    /\ UNCHANGED <<server, wire, index, state, failed, core, net, errors, history>>

\* download_failed_holes()
Resume ==
    /\ failed # <<>>
    /\ failed' = <<>>
    /\ PostTask(NextHoleTask(failed[1]))
    /\ UNCHANGED <<server, wire, index, state, opened, core, net, errors, history>>

-----------------------------------------------------------------------------
Init ==
    /\ posted \in FirstIds /\ erased = <<>> /\ upTo = 0
    /\ told = [last |-> None, version |-> 0, upTo |-> 0] /\ events = 0 /\ event = <<>> /\ handled = TRUE
    /\ index = <<>>
    /\ state = [last |-> None, upTo |-> 0, version |-> 0]
    /\ opened = FALSE /\ failed = <<>>
    /\ archive = <<>> /\ core = <<>> /\ net = <<>>
    /\ errors = 0 /\ gaveUp = FALSE /\ late = FALSE

\* The core thread runs a callback at once, unless one waits that looks into the
\* index itself (OnAnswered): then the archive thread may change it before.  No
\* other callback can tell, for the tasks wait in their FIFO in any case.
CoreIsBusy == core # <<>> /\ \A i \in DOMAIN core : core[i].what.kind # "answered"

Server == Post \/ Erase \/ DeleteAll
Network == Serve \/ Arrive \/ Fail \/ SendEvent \/ DeliverEvent
Archive ==
    \/ GetDlgState \/ SetDlgState \/ UpdateHistory \/ DeleteUpTo \/ DropHistory
    \/ GetNextHoleTask \/ ValidateTask
Core ==
    \/ OnDownload \/ OnNextHole \/ OnLimits \/ OnValidated
    \/ OnAnswer \/ OnFailed \/ OnAnswered \/ OnSet \/ OnUpdated
    \/ OnOpen \/ OnEvent \/ OnEventSet \/ OnEventUpdated \/ OnDeleted \/ OnClear
User == OpenDialog \/ Resume

Others == Server \/ Network \/ Archive \/ User
Next == Core \/ (~CoreIsBusy /\ Others)

Spec == Init /\ [][Next]_vars

FairSpec ==
    /\ Spec
    /\ WF_vars(Archive) /\ WF_vars(Core)
    /\ WF_vars(Serve) /\ WF_vars(Arrive)
    /\ WF_vars(SendEvent) /\ WF_vars(DeliverEvent)
    /\ WF_vars(Resume)

-----------------------------------------------------------------------------
(* Properties. *)

\* The server's messages and erasures, and an index of them in which every header
\* names an earlier message as the one before it, whatever answers were inserted.
Ids0 == 1..MaxId
Opt(S) == S \union {None}
TypeOK ==
    /\ posted \in 0..MaxId /\ upTo \in 0..posted
    /\ Erased \subseteq Ids0 /\ Len(erased) <= MaxErased
    /\ Ids(index) \subseteq 1..posted
    /\ \A id \in Ids(index) :
          index[id] \in [prev : Opt(1..(id - 1)), patch : BOOLEAN, deleted : BOOLEAN]
    /\ state \in [last : Opt(Ids0), upTo : 0..MaxId, version : 0..MaxErased]

\* A part of the history that get_next_hole() no longer looks at has no message
\* left out: below the index's last header, whatever the server has is shown.  An
\* event that was overtaken by the patch of its message aside: insert_header() then
\* links the next header to the message that returns, even if that header is a patch,
\* which has no place in the list, and its own patch hands that link on.
NoHiddenHole ==
    GetNextHole(index, None, None).error = "last_reached" /\ ~late =>
        {id \in Live : id < Newest(Shown(index))} \subseteq Shown(index)

\* What the patches of the version say is deleted is not shown once all is done; an
\* event that was overtaken by the patch of its message aside.
PatchesApplied ==
    archive = <<>> /\ core = <<>> /\ net = <<>> /\ handled /\ ~late =>
        \A i \in 1..state.version : erased[i] \notin Shown(index)

\* get_next_hole() asserts that a search starts at a header of the index, or above
\* all of them: the message it was to start at is there.
PlaceIsFound ==
    \A i \in DOMAIN core : core[i].what.kind = "next" => core[i].got.error # "index_not_found"

\* download_holes() goes round callbacks and pages, with no bound but the index: it
\* comes to an end, whatever holes, deletions, patches and errors it meets.
Working == archive # <<>> \/ core # <<>> \/ net # <<>>
DownloadsEnd == <>[]~Working

\* The dialog opened by the user in the end shows what the server has, if the server
\* has told of it and no download ended with an error nobody repeats: whatever was
\* lost meanwhile to a stale answer, a dropped index or a failed page is asked for
\* again (download_holes, download_failed_holes, get_history_from_server).
Complete == Live \subseteq Shown(index)
HistoryArrives == <>[](opened /\ ~gaveUp /\ told = News => Complete)
=============================================================================
