------------------------------ MODULE Session ------------------------------
(***************************************************************************)
(* The session with the server and the fetch loop of core::wim::im         *)
(* (core/connections/wim/wim_im.cpp): start_session(), poll(),             *)
(* retry_oauth2_login() and the end of the im in im_container::logout().   *)
(*                                                                         *)
(* poll() asks the server for events, the continuation after the last of   *)
(* them calls poll() again: that is the loop.  An error makes it try again,*)
(* ping the session or start a new one.  A full start changes the id of    *)
(* the active session, and a fetch of another session does not go on.      *)
(*                                                                         *)
(* The core thread runs one callback at a time.  Fetches and session starts*)
(* are tasks of one thread (fetch_thread_); what the archive, the packets  *)
(* of wim_send_thread and the timers answer, they answer in any order.     *)
(***************************************************************************)
EXTENDS Integers, SequencesExt, Bags

CONSTANTS OAuthUses,    \* whether the user has an oauth2 token: a set of Booleans
          MaxNetErrors, \* the literal 2 poll() compares its count with
          MaxRelogins   \* bound: packets that are answered "need relogin", and logouts

ASSUME SessionAssumption ==
    /\ OAuthUses \subseteq BOOLEAN /\ OAuthUses # {}
    /\ MaxNetErrors \in Nat /\ MaxRelogins \in Nat

VARIABLES alive,     \* im_container holds the im
          oauth,     \* auth_params_->o2token_ is set
          leaving,   \* logout_
          hasUrl,    \* fetch_params_->is_valid()
          session,   \* active_session_id_
          running,   \* start_session_is_running_
          fetcher,   \* tasks of fetch_thread_
          away,      \* what other threads, packets and timers will answer
          core,      \* callbacks waiting for the core thread
          relogins,  \* how much of the bound is used
          dropped,   \* wim_send_thread dropped a packet the session waits for
          overtaken  \* a start began with another continuation left that goes on

imVars == <<alive, oauth, leaving, hasUrl, session, running>>
queues == <<fetcher, away, core>>
history == <<relogins, dropped, overtaken>>
vars == <<imVars, queues, history>>

\* Tasks, and callbacks waiting for one of several answers.
Fetch(s, first, errors) == [kind |-> "fetch", session |-> s, first |-> first, errors |-> errors]
Start(ping, login) == [kind |-> "start", ping |-> ping, login |-> login]
Events(s, first, relogin) ==
    [kind |-> "events", session |-> s, first |-> first, relogin |-> relogin]
Loads == [kind |-> "loads"]            \* pinned, unimportant, suggests after a start
Cached == [kind |-> "cached"]          \* load_cached_objects()
OAuth(ping, login) == [kind |-> "oauth", ping |-> ping, login |-> login]
Retry(ping, login) == [kind |-> "retry", ping |-> ping, login |-> login]
Login == [kind |-> "login"]            \* a login request that will be granted
EndSession == [kind |-> "end"]
Logout == [kind |-> "logout"]

\* A callback of the core thread: what is answered, and how.
Answer(what, how) == [what |-> what, how |-> how]

\* How each may be answered. A fetch is canceled only by the destructor of the im
\* (stop_waiters()), and its callback then finds no im; a start never is.
Outcomes(what) ==
    CASE what.kind = "fetch"  -> {"ok", "ended", "network", "resend", "other"}
      [] what.kind = "start"  -> {"ok", "too_fast", "relogin", "no_time", "error"}
      [] what.kind = "cached" -> {"ok", "error"}
      [] what.kind = "oauth"  -> {"ok", "network", "error"}
      [] OTHER -> {"ok"}

Sessions == Nat \ {0}
Tasks == [kind : {"fetch"}, session : Sessions, first : BOOLEAN,
          errors : 0..(MaxNetErrors + 1)]
           \union [kind : {"start"}, ping : BOOLEAN, login : BOOLEAN]
Others == [kind : {"events"}, session : Sessions, first : BOOLEAN, relogin : BOOLEAN]
            \union [kind : {"oauth", "retry"}, ping : BOOLEAN, login : BOOLEAN]
            \union {Loads, Cached, Login, EndSession, Logout}
Hows == {"ok", "ended", "network", "resend", "other", "too_fast", "relogin", "no_time", "error"}
Callbacks == {c \in [what : Tasks \union Others, how : Hows] : c.how \in Outcomes(c.what)}

TypeOK ==
    /\ {alive, oauth, leaving, hasUrl, running, dropped, overtaken} \subseteq BOOLEAN
    /\ session \in Sessions
    /\ fetcher \in Seq(Tasks)
    /\ IsABag(away) /\ BagToSet(away) \subseteq Others
    /\ core \in Seq(Callbacks)
    /\ relogins \in 0..MaxRelogins
    \* The flag stands for a start that is being executed or has been.
    /\ running <=> \/ \E i \in DOMAIN fetcher : fetcher[i].kind = "start"
                   \/ \E i \in DOMAIN core : core[i].what.kind = "start"

Init ==
    /\ alive = TRUE /\ leaving = FALSE /\ running = FALSE
    /\ session = 1
    /\ fetcher = <<>> /\ core = <<>>
    /\ \/ away = SetToBag({Cached}) /\ oauth \in OAuthUses /\ hasUrl \in BOOLEAN
       \/ away = SetToBag({Login}) /\ oauth = FALSE /\ hasUrl = FALSE
    /\ relogins = 0 /\ dropped = FALSE /\ overtaken = FALSE

-----------------------------------------------------------------------------
(* What goes on by itself: the fetch thread, answers, the end of a timer.   *)

One(x) == SetToBag({x})

\* All there is that will call poll() or start a session, the core thread's
\* current callback aside.
Pending == ToSet(fetcher) \union BagToSet(away) \union {core[i].what : i \in DOMAIN core}

\* Session ids are compared for equality only: a new one is the least that no
\* fetch still holds.
Used == {session} \union {p.session : p \in {q \in Pending : q.kind \in {"fetch", "events"}}}
NewSession == Min((1..(Cardinality(Used) + 1)) \ Used)

Execute ==
    /\ fetcher # <<>>
    /\ fetcher' = Tail(fetcher)
    /\ \E how \in Outcomes(Head(fetcher)) : core' = Append(core, Answer(Head(fetcher), how))
    /\ UNCHANGED <<imVars, away, history>>

Arrive(x) ==
    /\ BagIn(x, away)
    /\ away' = away (-) One(x)
    /\ \E how \in Outcomes(x) : core' = Append(core, Answer(x, how))
    /\ UNCHANGED <<imVars, fetcher, history>>

\* wim_send_thread forgets a packet with its handler (module WimSendThread).
Drop(x) ==
    /\ BagIn(x, away)
    /\ x.kind \in {"oauth", "login", "end"}
    /\ away' = away (-) One(x)
    /\ dropped' = TRUE
    /\ UNCHANGED <<imVars, fetcher, core, relogins, overtaken>>

-----------------------------------------------------------------------------
(* start_session() and poll(), as effects of the core thread's callbacks;   *)
(* rest is what waits for the core thread besides.                          *)

Live(p) == p.kind \in {"fetch", "events"} /\ p.session = session
Polls(p) == p.kind \in {"loads", "cached"}

\* What a start leaves alone: continuations that poll without a look at the
\* session, and, if it is a ping, those of the session.
Survivor(ping, rest) ==
    \E p \in ToSet(fetcher) \union BagToSet(away) \union {rest[i].what : i \in DOMAIN rest} :
        Polls(p) \/ (ping /\ Live(p))

StartNow(ping, login, rest) ==
    /\ running' = TRUE
    /\ session' = IF ping THEN session ELSE NewSession
    /\ fetcher' = Append(fetcher, Start(ping, login))
    /\ overtaken' = (overtaken \/ Survivor(ping, rest))
    /\ UNCHANGED away

\* Mutant of StartSession: start_session_is_running_ is not looked at.
StartAnyway(ping, login, rest) == StartNow(ping, login, rest)

StartSession(ping, login, rest) ==
    IF running THEN UNCHANGED <<running, session, fetcher, away, overtaken>>
               ELSE StartNow(ping, login, rest)

\* start_session_internal(): a new token first, if the user has one.
StartInternal(ping, login, rest) ==
    IF oauth THEN /\ away' = away (+) One(OAuth(ping, login))
                  /\ UNCHANGED <<running, session, fetcher, overtaken>>
             ELSE StartSession(ping, login, rest)

\* Mutant of Poll: without a url there is nothing to do.
PollIfValid(valid, first, errors, rest) ==
    /\ fetcher' = IF valid THEN Append(fetcher, Fetch(session, first, errors)) ELSE fetcher
    /\ UNCHANGED <<running, session, away, overtaken>>

Poll(valid, first, errors, rest) ==
    IF valid THEN /\ fetcher' = Append(fetcher, Fetch(session, first, errors))
                  /\ UNCHANGED <<running, session, away, overtaken>>
             ELSE StartInternal(FALSE, FALSE, rest)

\* The callback at the head of the queue runs, for as long as there is an im.
Head1 == Head(core)
Rest == Tail(core)
Callback(kind, hows) ==
    /\ alive
    /\ core # <<>>
    /\ Head1.what.kind = kind
    /\ Head1.how \in hows
    /\ UNCHANGED <<alive, leaving, relogins, dropped>>

\* core_dispatcher::unlogin(): the logout is a callback of its own.
Unlogin == core' = Append(Rest, Answer(Logout, "ok"))
UnchangedLoop == UNCHANGED <<running, session, fetcher, away, overtaken>>

-----------------------------------------------------------------------------
(* The callback of a fetch. *)

OnFetchOk ==
    /\ Callback("fetch", {"ok", "ended"})
    /\ core' = Rest
    /\ away' = away (+) One(Events(Head1.what.session, Head1.what.first,
                                   Head1.how = "ended"))
    /\ UNCHANGED <<oauth, hasUrl, session, running, fetcher, overtaken>>

\* An error of a fetch: nothing, if its session is not the active one any more.
OnFetchFails(hows) ==
    /\ Callback("fetch", hows)
    /\ core' = Rest
    /\ UNCHANGED <<oauth, hasUrl>>

OnStaleFetch ==
    /\ OnFetchFails({"network", "resend", "other"})
    /\ ~Live(Head1.what)
    /\ UnchangedLoop

OnNetworkError ==
    /\ OnFetchFails({"network"})
    /\ Live(Head1.what)
    /\ Head1.what.errors <= MaxNetErrors
    /\ Poll(hasUrl, Head1.what.first, Head1.what.errors + 1, Rest)

\* Too many of them: a ping, or other settings on the first fetch.
OnNetworkErrors ==
    /\ OnFetchFails({"network"})
    /\ Live(Head1.what)
    /\ Head1.what.errors > MaxNetErrors
    /\ \/ Head1.what.first /\ Poll(hasUrl, TRUE, 0, Rest)
       \/ StartInternal(TRUE, FALSE, Rest)

OnResend ==
    /\ OnFetchFails({"resend"})
    /\ Live(Head1.what)
    /\ Poll(hasUrl, Head1.what.first, Head1.what.errors, Rest)

\* Mutant of OnFetchError: nothing is started.
FetchErrorStops ==
    /\ OnFetchFails({"other"})
    /\ Live(Head1.what)
    /\ UnchangedLoop

OnFetchError ==
    /\ OnFetchFails({"other"})
    /\ Live(Head1.what)
    /\ StartInternal(FALSE, FALSE, Rest)

-----------------------------------------------------------------------------
(* The continuation after the last event of a fetch. *)

OnEvents == Callback("events", {"ok"})

\* The server ended the session; this is looked at before the session's id.
OnSessionEnded ==
    /\ OnEvents
    /\ Head1.what.relogin /\ ~leaving
    /\ Unlogin
    /\ UNCHANGED <<oauth, hasUrl>> /\ UnchangedLoop

\* Mutant of GoesAround: the id of the session is not compared.
AlwaysGoesAround(p) == TRUE

\* An answer that ended the session has no next url.
GoesAround(p) == Live(p)
OnEventsDone ==
    /\ OnEvents
    /\ ~Head1.what.relogin \/ leaving
    /\ hasUrl' = ~Head1.what.relogin
    /\ IF GoesAround(Head1.what) THEN Poll(hasUrl', FALSE, 0, Rest) ELSE UnchangedLoop
    /\ core' = Rest
    /\ UNCHANGED oauth

-----------------------------------------------------------------------------
(* The callback of start_session(). *)

OnStarted(hows) == Callback("start", hows) /\ UNCHANGED oauth

OnPingOk ==
    /\ OnStarted({"ok"})
    /\ Head1.what.ping
    /\ core' = Rest
    /\ hasUrl' = TRUE
    /\ running' = FALSE
    /\ fetcher' = Append(fetcher, Fetch(session, TRUE, 0))
    /\ UNCHANGED <<session, away, overtaken>>

\* load_pinned(), load_unimportant(), load_smartreply_suggests().
OnStartOk ==
    /\ OnStarted({"ok"})
    /\ ~Head1.what.ping
    /\ core' = Rest
    /\ hasUrl' = TRUE
    /\ running' = FALSE
    /\ away' = away (+) One(Loads)
    /\ UNCHANGED <<session, fetcher, overtaken>>

\* Errors that log the user out.
StartRefused(what, how) ==
    \/ how = "too_fast" /\ what.login
    \/ how = "relogin" /\ ~what.ping
    \/ how = "no_time"
OnStartRefused ==
    /\ OnStarted({"too_fast", "relogin", "no_time"})
    /\ StartRefused(Head1.what, Head1.how)
    /\ Unlogin
    /\ running' = FALSE
    /\ UNCHANGED <<hasUrl, session, fetcher, away, overtaken>>

\* Any other: again, and in full if the ping says so.
OnStartError ==
    /\ OnStarted({"too_fast", "relogin", "error"})
    /\ ~StartRefused(Head1.what, Head1.how)
    /\ core' = Rest
    /\ StartNow(Head1.what.ping /\ Head1.how # "relogin", Head1.what.login, Rest)
    /\ UNCHANGED hasUrl

-----------------------------------------------------------------------------
(* The other callbacks that start a session or the loop. *)

OnLoaded ==
    /\ Callback("loads", {"ok"}) \/ Callback("cached", {"ok"})
    /\ core' = Rest
    /\ Poll(hasUrl, TRUE, 0, Rest)
    /\ UNCHANGED <<oauth, hasUrl>>

OnNotCached ==
    /\ Callback("cached", {"error"})
    /\ core' = Rest
    /\ StartInternal(FALSE, FALSE, Rest)
    /\ UNCHANGED <<oauth, hasUrl>>

OnLogin ==
    /\ Callback("login", {"ok"})
    /\ core' = Rest
    /\ oauth' \in OAuthUses
    /\ StartSession(FALSE, TRUE, Rest)
    /\ UNCHANGED hasUrl

OnOAuthOk ==
    /\ Callback("oauth", {"ok"})
    /\ core' = Rest
    /\ StartSession(Head1.what.ping, Head1.what.login, Rest)
    /\ UNCHANGED <<oauth, hasUrl>>

\* A single shot timer calls retry_oauth2_login() again ...
OnOAuthError ==
    /\ Callback("oauth", {"network"})
    /\ core' = Rest
    /\ away' = away (+) One(Retry(Head1.what.ping, Head1.what.login))
    /\ UNCHANGED <<oauth, hasUrl, running, session, fetcher, overtaken>>

OnRetry ==
    /\ Callback("retry", {"ok"})
    /\ core' = Rest
    /\ away' = away (+) One(OAuth(Head1.what.ping, Head1.what.login))
    /\ UNCHANGED <<oauth, hasUrl, running, session, fetcher, overtaken>>

\* ... or the token is refused.
OnOAuthRefused ==
    /\ Callback("oauth", {"error"})
    /\ oauth' = FALSE
    /\ Unlogin
    /\ UNCHANGED hasUrl /\ UnchangedLoop

-----------------------------------------------------------------------------
(* The end of the im, and what other components do. *)

\* im_container::logout() destroys the im: its callbacks find a weak_ptr that
\* does not lock.  Logouts are callbacks of the dispatcher.
Logouts(s) == {i \in DOMAIN s : s[i].what = Logout}
Gone ==
    /\ alive' = FALSE /\ running' = FALSE
    /\ fetcher' = <<>> /\ away' = EmptyBag
    /\ core' = [i \in 1..Cardinality(Logouts(Rest)) |-> Answer(Logout, "ok")]
    /\ UNCHANGED <<oauth, leaving, hasUrl, session, history>>

OnLogout == alive /\ core # <<>> /\ Head1.what.kind \in {"logout", "end"} /\ Gone

\* The container holds no im any more.
OnSecondLogout ==
    /\ ~alive
    /\ core # <<>>
    /\ core' = Rest
    /\ UNCHANGED <<imVars, fetcher, away, history>>

\* There is something to answer, or to log out of, only after the login.
Event ==
    /\ alive
    /\ Login \notin Pending
    /\ relogins < MaxRelogins
    /\ relogins' = relogins + 1
    /\ UNCHANGED <<alive, hasUrl, dropped>>

\* handle_net_error(): a packet is answered "need relogin", or the version of the
\* API changed.
NeedRelogin ==
    /\ Event
    /\ StartInternal(FALSE, FALSE, core)
    /\ UNCHANGED <<oauth, leaving, core>>

\* refresh_oauth2_token() is refused.
RefreshRefused ==
    /\ Event
    /\ oauth
    /\ core' = Append(core, Answer(Logout, "ok"))
    /\ UNCHANGED <<oauth, leaving>> /\ UnchangedLoop

\* im::logout().
LogoutByUser ==
    /\ Event
    /\ ~leaving
    /\ leaving' = TRUE
    /\ oauth' = FALSE
    /\ away' = away (+) One(EndSession)
    /\ UNCHANGED <<core, running, session, fetcher, overtaken>>

-----------------------------------------------------------------------------
OnFetch == OnFetchOk \/ OnStaleFetch \/ OnNetworkError \/ OnNetworkErrors \/ OnResend
             \/ OnFetchError
OnEnd == OnSessionEnded \/ OnEventsDone
OnStart == OnPingOk \/ OnStartOk \/ OnStartRefused \/ OnStartError
OnOther == OnLoaded \/ OnNotCached \/ OnLogin \/ OnOAuthOk \/ OnOAuthError \/ OnRetry
             \/ OnOAuthRefused
Core == OnFetch \/ OnEnd \/ OnStart \/ OnOther \/ OnLogout \/ OnSecondLogout
Environment == NeedRelogin \/ RefreshRefused \/ LogoutByUser

Next ==
    \/ Execute
    \/ \E x \in BagToSet(away) : Arrive(x) \/ Drop(x)
    \/ Core
    \/ Environment

Spec == Init /\ [][Next]_vars

\* The two threads run, what is asked is answered, and the server and the
\* network are well now and then: asked again and again, they grant it.
Granted(kind) ==
    /\ Execute
    /\ Head(fetcher).kind = kind
    /\ Last(core').how = "ok"
GrantedToken ==
    \E x \in BagToSet(away) : x.kind = "oauth" /\ Arrive(x) /\ Last(core').how = "ok"
Answered(kind) == \E x \in BagToSet(away) : x.kind = kind /\ Arrive(x)
Fairness ==
    /\ WF_vars(Core)
    /\ WF_vars(Execute)
    /\ \A kind \in {"events", "loads", "cached", "oauth", "retry", "login", "end"} :
          WF_vars(Answered(kind))
    /\ \A kind \in {"fetch", "start"} : SF_vars(Granted(kind))
    /\ SF_vars(GrantedToken)
FairSpec == Spec /\ Fairness

-----------------------------------------------------------------------------
(* Correctness. *)

\* What leads back to poll(), or to the end of the im.
InLoop(p) == p.kind = "start" \/ Polls(p) \/ Live(p)
Continues(p) == InLoop(p) \/ p.kind \in {"login", "oauth", "retry", "logout", "end"}

\* As long as the im lives something waits that continues its loop, unless
\* wim_send_thread dropped what it waited for: no sequence of errors, pings,
\* restarts and stale answers leaves an im that never asks for events again.
LoopAlive == (alive /\ ~dropped) => \E p \in Pending : Continues(p)

\* How many tasks, answers and callbacks are in the loop.
LoopLength ==
    Cardinality({i \in DOMAIN fetcher : InLoop(fetcher[i])})
      + Cardinality({i \in DOMAIN core : InLoop(core[i].what)})
      + Cardinality(UNION {{p} \X (1..away[p]) : p \in {q \in BagToSet(away) : InLoop(q)}})

\* There is one loop: a start, a fetch of the session or a continuation that
\* polls, unless a start left one of those behind.
OneLoop == ~overtaken => LoopLength <= 1

\* Whatever fails, events of the session arrive again, or the im ends.
EventsArrive ==
    (alive /\ ~dropped) ~>
        (~alive \/ dropped \/ \E p \in Pending : p.kind = "events" /\ Live(p))
=============================================================================
