----------------------------- MODULE Connection -----------------------------
(***************************************************************************)
(* The WebSocket connection of one browser tab                             *)
(* (web/lib/chat/realtime/connection.ts): the attempt that fetches a       *)
(* ticket, the socket, the heartbeat, the retry timer and the check of the *)
(* session after close code 4001; with what the tab announces over it      *)
(* (web/lib/chat/realtime/activity.ts) and the Access Token it fetches     *)
(* tickets with (web/lib/auth/session/core.ts).                            *)
(*                                                                         *)
(* A callback runs to its end before the next one, so each is one step.    *)
(* The generation of an attempt is kept as whether it is still the last    *)
(* one.  Back-off times and the count of failed attempts are left out.     *)
(***************************************************************************)
EXTENDS Integers, Sequences, FiniteSets

CONSTANTS
    Calls,         \* bound: requests to the API that are under way together
    Requests,      \* requests over the socket that wait for an ack
    MaxStarts,     \* bound: times the workspace screen is mounted
    MaxNudges,     \* bound: presses of "retry", and online events
    MaxLogins,     \* bound: times the user logs in again, in another tab
    MaxFailures,   \* bound: things that go wrong in the network or the server
    MaxChanges     \* bound: times the user looks at the screen, or away

ASSUME BoundsAssumption ==
    {MaxStarts, MaxNudges, MaxLogins, MaxFailures, MaxChanges} \subseteq Nat
ASSUME CallsAssumption == IsFiniteSet(Calls)
ASSUME PingAssumption == "ping" \notin Requests

VARIABLES
    started,
    status,      \* ConnectionState.status
    calls,       \* issueTicket and revalidateSession under way; current: no later generation
    timer,       \* retryTimer is set
    socket,      \* the socket the tab holds
    link,        \* whether what is sent over it arrives
    heart,       \* heartbeatTimer runs ("interval"), or heartbeatTimeout does ("waiting")
    pending,     \* the requests that wait for an ack
    valid,       \* the session of the browser's cookie is not revoked
    token,       \* the Access Token passes verification
    older,       \* what is of a session before the cookie's, all of which are revoked
    seen,        \* compute(): the tab is in view and in use
    watching,    \* createActivity is started
    notified,    \* the last value it handed on
    settling,    \* settleTimer is set
    frames,      \* "activity" frames on their way to the server
    told,        \* what the server believes of this connection
    budget       \* what is left of the bounds

activity == <<seen, watching, notified, settling, frames, told>>
vars == <<started, status, calls, timer, socket, link, heart, pending, valid, token, older,
          seen, watching, notified, settling, frames, told, budget>>

Call == [op : {"none", "ticket", "revalidate"}, current : BOOLEAN]
Over == [op |-> "none", current |-> FALSE]

TypeOK ==
    /\ started \in BOOLEAN
    /\ status \in {"closed", "connecting", "open", "reconnecting"}
    /\ calls \in [Calls -> Call]
    /\ timer \in BOOLEAN
    /\ socket \in {"none", "connecting", "open"}
    /\ link \in BOOLEAN
    /\ heart \in {"off", "interval", "waiting"}
    /\ pending \subseteq Requests \cup {"ping"}
    /\ valid \in BOOLEAN
    /\ token \in BOOLEAN
    /\ older \subseteq {"token", "socket"}
    /\ seen \in BOOLEAN
    /\ watching \in BOOLEAN
    /\ notified \in BOOLEAN
    /\ settling \in BOOLEAN
    /\ frames \in Seq(BOOLEAN)
    /\ told \in BOOLEAN
    /\ budget \in [{"start", "nudge", "login", "failure", "change"} -> Nat]

Init ==
    /\ started = FALSE
    /\ status = "closed"
    /\ calls = [k \in Calls |-> Over]
    /\ timer = FALSE
    /\ socket = "none"
    /\ link = FALSE
    /\ heart = "off"
    /\ pending = {}
    /\ valid = TRUE
    /\ token \in BOOLEAN
    /\ older = {}
    /\ seen = FALSE
    /\ watching = FALSE
    /\ notified = FALSE
    /\ settling = FALSE
    /\ frames = <<>>
    /\ told = FALSE
    /\ budget = [start |-> MaxStarts, nudge |-> MaxNudges, login |-> MaxLogins,
                 failure |-> MaxFailures, change |-> MaxChanges]

Revoked(what) == ~valid \/ what \in older

Spend(what) == budget[what] > 0 /\ budget' = [budget EXCEPT ![what] = @ - 1]

-----------------------------------------------------------------------------
(* What the callbacks are made of. *)

\* ++generation: the results of all earlier calls will be ignored.
Superseded == [k \in Calls |-> [calls[k] EXCEPT !.current = FALSE]]

\* Mutant of Begin: the generation is not advanced.
BeginOnly(op) ==
    \E k \in Calls :
        /\ calls[k] = Over
        /\ calls' = [calls EXCEPT ![k] = [op |-> op, current |-> TRUE]]

Begin(op) ==
    \E k \in Calls :
        /\ calls[k] = Over
        /\ calls' = [Superseded EXCEPT ![k] = [op |-> op, current |-> TRUE]]

\* attempt.
Attempt ==
    /\ Begin("ticket")
    /\ timer' = FALSE
    /\ status' = (IF status = "closed" THEN "connecting" ELSE status)

\* Mutant of DropSocket: the requests that wait are forgotten about.
DropSocketOnly ==
    /\ socket' = "none"
    /\ heart' = "off"
    /\ frames' = <<>>
    /\ UNCHANGED <<link, told, pending>>

\* clearTimers, dropSocket and rejectPending.
DropSocket ==
    /\ socket' = "none"
    /\ heart' = "off"
    /\ pending' = {}
    /\ frames' = <<>>
    /\ UNCHANGED <<link, told>>

\* handleClose.  Every state but "open" makes activity.ts forget what it handed on.
HandleClose(revoked) ==
    /\ DropSocket
    /\ status' = "reconnecting"
    /\ notified' = FALSE
    /\ IF revoked
       THEN Begin("revalidate") /\ timer' = FALSE /\ token' = FALSE
       ELSE timer' = TRUE /\ UNCHANGED <<calls, token>>
    /\ UNCHANGED <<started, valid, older, seen, watching, settling>>

\* stop, in the state that the calls have left so far.
Halt ==
    /\ started' = FALSE
    /\ calls' = Superseded
    /\ timer' = FALSE
    /\ DropSocket
    /\ status' = "closed"
    /\ notified' = FALSE

-----------------------------------------------------------------------------
(* The screen, the user and the timers. *)

\* realtime.start: the screen is mounted.  The tab may still hold the token of a session that
\* is revoked by then.
Start ==
    /\ ~started
    /\ Spend("start")
    /\ started' = TRUE
    /\ watching' = TRUE
    /\ Attempt
    /\ UNCHANGED <<socket, link, heart, pending, valid, token, older, seen, notified, settling, frames, told>>

\* realtime.stop.
Stop ==
    /\ watching
    /\ watching' = FALSE
    /\ settling' = FALSE
    /\ IF started THEN Halt
       ELSE UNCHANGED <<started, calls, timer, socket, link, heart, pending, frames, told, status, notified>>
    /\ UNCHANGED <<valid, token, older, seen, budget>>

RetryTimer ==
    /\ timer
    /\ Attempt
    /\ UNCHANGED <<started, socket, link, heart, pending, valid, token, older, activity, budget>>

\* retryNow, and the browser's online event.
Nudge ==
    /\ started /\ socket = "none"
    /\ Spend("nudge")
    /\ Attempt
    /\ UNCHANGED <<started, socket, link, heart, pending, valid, token, older, activity>>

-----------------------------------------------------------------------------
(* The calls of the API. *)

Ends(k, op) == calls[k].op = op
Ended(k)    == calls' = [calls EXCEPT ![k] = Over]

\* The ticket is issued, after a refresh when the token does not pass any more.  A
\* revoked session keeps its token until it expires, and what the ticket opens is of the
\* session of the token.
Issued(k) ==
    /\ Ends(k, "ticket")
    /\ token \/ valid
    /\ token' = TRUE
    /\ older' = {x \in {"token", "socket"} :
                   IF x = "socket" /\ ~calls[k].current THEN x \in older
                   ELSE token /\ "token" \in older}
    /\ Ended(k)
    /\ IF calls[k].current
       THEN socket' = "connecting" /\ link' = TRUE
       ELSE UNCHANGED <<socket, link>>
    /\ UNCHANGED <<started, status, timer, heart, pending, valid, activity, budget>>

\* scheduleRetry, unless a later attempt is under way.
Retrying(k) ==
    IF calls[k].current
    THEN timer' = TRUE /\ status' = "reconnecting" /\ notified' = FALSE
    ELSE UNCHANGED <<timer, status, notified>>

\* Mutant of Refused: a refusal is one more failure.
RefusedForNow(k) ==
    /\ calls[k].op # "none"
    /\ ~token /\ ~valid
    /\ Retrying(k)
    /\ Ended(k)
    /\ UNCHANGED <<started, socket, link, heart, pending, valid, token, older, seen, watching, settling, frames, told, budget>>

\* The request, or the revalidation, finds the session revoked.
Refused(k) ==
    /\ calls[k].op # "none"
    /\ ~token /\ ~valid
    /\ IF calls[k].current
       THEN Halt
       ELSE Ended(k) /\ UNCHANGED <<started, timer, socket, link, heart, pending, frames, told, status, notified>>
    /\ UNCHANGED <<valid, token, older, seen, watching, settling, budget>>

\* The server or the network fails the call.
Unreachable(k) ==
    /\ calls[k].op # "none"
    /\ Spend("failure")
    /\ Retrying(k)
    /\ Ended(k)
    /\ UNCHANGED <<started, socket, link, heart, pending, valid, token, older, seen, watching, settling, frames, told>>

\* revalidateSession: the browser has a valid session by now.
Revalidated(k) ==
    /\ Ends(k, "revalidate") /\ valid
    /\ token' = TRUE
    /\ older' = older \ {"token"}
    /\ Ended(k)
    /\ Retrying(k)
    /\ UNCHANGED <<started, socket, link, heart, pending, valid, seen, watching, settling, frames, told, budget>>

-----------------------------------------------------------------------------
(* The socket. *)

\* Mutant of Announce: what was handed on before the connection is not repeated.
AnnounceChange ==
    /\ notified' = seen
    /\ frames' = (IF notified # seen THEN <<seen>> ELSE <<>>)

\* handleOpen of subscriptions.ts: the server takes a new connection for one that does
\* not look, so the current value is sent at once.
Announce == notified' = seen /\ frames' = <<seen>>

\* onopen.  The server upgrades a socket of a valid session only.
Opened ==
    /\ socket = "connecting" /\ ~Revoked("socket")
    /\ socket' = "open"
    /\ status' = "open"
    /\ heart' = "interval"
    /\ told' = FALSE
    /\ Announce
    /\ UNCHANGED <<started, calls, timer, link, pending, valid, token, older, seen, watching, settling, budget>>

\* The upgrade is refused, which the browser reports as code 1006.
NotUpgraded ==
    /\ socket = "connecting" /\ Revoked("socket")
    /\ HandleClose(FALSE)
    /\ UNCHANGED budget

\* The server closes the connections of a revoked session with 4001.
ClosedRevoked ==
    /\ socket = "open" /\ link /\ Revoked("socket")
    /\ HandleClose(TRUE)
    /\ UNCHANGED budget

\* Any other end of the socket: a restart of the server, a slow consumer, the network,
\* the offline event of the browser.
Closed ==
    /\ socket # "none"
    /\ Spend("failure")
    /\ HandleClose(FALSE)

\* The connection dies and nobody is told.
LinkDies ==
    /\ socket # "none" /\ link
    /\ Spend("failure")
    /\ link' = FALSE
    /\ UNCHANGED <<started, status, calls, timer, socket, heart, pending, valid, token, older, activity>>

Ask(r) ==
    /\ status = "open"
    /\ pending' = pending \cup {r}
    /\ UNCHANGED <<started, status, calls, timer, socket, link, heart, valid, token, older, activity, budget>>

\* Mutant of Ping: nobody minds when it is not answered.
PingOnly ==
    /\ heart = "interval"
    /\ pending' = pending \cup {"ping"}
    /\ UNCHANGED <<started, status, calls, timer, socket, link, heart, valid, token, older, activity, budget>>

\* heartbeatTimer.
Ping ==
    /\ heart = "interval"
    /\ heart' = "waiting"
    /\ pending' = pending \cup {"ping"}
    /\ UNCHANGED <<started, status, calls, timer, socket, link, valid, token, older, activity, budget>>

\* heartbeatTimeout.  On a link that is up it is the ack that came too late.
NoPong ==
    /\ heart = "waiting"
    /\ IF link THEN Spend("failure") ELSE UNCHANGED budget
    /\ HandleClose(FALSE)

\* The ack of a request arrives; that of the ping starts the next interval.
Ack(r) ==
    /\ r \in pending /\ link
    /\ pending' = pending \ {r}
    /\ heart' = (IF r = "ping" THEN "interval" ELSE heart)
    /\ UNCHANGED <<started, status, calls, timer, socket, link, valid, token, older, activity, budget>>

-----------------------------------------------------------------------------
(* What the user looks at. *)

Look ==
    /\ Spend("change")
    /\ seen' = ~seen
    /\ UNCHANGED <<started, status, calls, timer, socket, link, heart, pending, valid, token, older,
                   watching, notified, settling, frames, told>>

\* update: a change of visibility, an input, or the check of every minute.
Update ==
    /\ watching
    /\ settling' = (seen # notified)
    /\ UNCHANGED <<started, status, calls, timer, socket, link, heart, pending, valid, token, older,
                   seen, watching, notified, frames, told, budget>>

\* settleTimer; notify drops the frame unless the connection is open.
Settle ==
    /\ settling
    /\ settling' = FALSE
    /\ notified' = seen
    /\ frames' = (IF seen # notified /\ status = "open" THEN Append(frames, seen) ELSE frames)
    /\ UNCHANGED <<started, status, calls, timer, socket, link, heart, pending, valid, token, older,
                   seen, watching, told, budget>>

\* The server takes an "activity" frame.
Hear ==
    /\ frames # <<>> /\ link
    /\ told' = Head(frames)
    /\ frames' = Tail(frames)
    /\ UNCHANGED <<started, status, calls, timer, socket, link, heart, pending, valid, token, older,
                   seen, watching, notified, settling, budget>>

-----------------------------------------------------------------------------
(* The session. *)

\* The session is revoked: another device, a new password.
Revoke ==
    /\ valid
    /\ valid' = FALSE
    /\ UNCHANGED <<started, status, calls, timer, socket, link, heart, pending, token, older, activity, budget>>

\* The user logs in again in another tab: the cookie is of a new session, while this tab
\* still holds the token and the socket of the revoked one.
LogIn ==
    /\ ~valid
    /\ Spend("login")
    /\ valid' = TRUE
    /\ older' = {"token", "socket"}
    /\ UNCHANGED <<started, status, calls, timer, socket, link, heart, pending, token, activity>>

\* The Access Token expires.
Expire ==
    /\ token
    /\ token' = FALSE
    /\ UNCHANGED <<started, status, calls, timer, socket, link, heart, pending, valid, older, activity, budget>>

Next ==
    \/ Start \/ Stop \/ RetryTimer \/ Nudge
    \/ \E k \in Calls : Issued(k) \/ Refused(k) \/ Unreachable(k) \/ Revalidated(k)
    \/ Opened \/ NotUpgraded \/ ClosedRevoked \/ Closed \/ LinkDies
    \/ \E r \in Requests : Ask(r)
    \/ Ping \/ NoPong
    \/ \E r \in Requests \cup {"ping"} : Ack(r)
    \/ Look \/ Update \/ Settle \/ Hear \/ Revoke \/ LogIn \/ Expire

\* Timers fire, calls come back, a server that is reached answers, and the token of a
\* revoked session expires some day.  Faults are owed by nobody, nor are the user's steps.
Fairness ==
    /\ WF_vars(RetryTimer)
    /\ WF_vars(\E k \in Calls : Issued(k) \/ Refused(k) \/ Revalidated(k))
    /\ WF_vars(Opened \/ NotUpgraded \/ ClosedRevoked)
    /\ WF_vars(Ping)
    /\ WF_vars(~link /\ NoPong)
    /\ WF_vars(Update) /\ WF_vars(Settle) /\ WF_vars(Hear)
    /\ WF_vars(Revoked("token") /\ Expire)
    /\ \A r \in Requests \cup {"ping"} : WF_vars(Ack(r))

Spec == Init /\ [][Next]_vars /\ Fairness

-----------------------------------------------------------------------------

Current == {k \in Calls : calls[k].current}

\* While the connection is wanted there is exactly one thing that will bring it up or
\* keep it up: the retry timer, one call whose result counts, or the socket; and none
\* when it is not.  Fewer, and the tab waits for ever; more, and it ends with two sockets
\* or two timers (generation, clearTimers).  The heartbeat runs with the open socket.
OneWay ==
    /\ Cardinality(Current) + (IF timer THEN 1 ELSE 0) + (IF socket # "none" THEN 1 ELSE 0)
         = (IF started THEN 1 ELSE 0)
    /\ (status = "open") = (socket = "open") /\ (status = "open") = (heart # "off")
    /\ (status = "closed") = ~started
    /\ pending # {} => status = "open"

\* A connection that is wanted comes back, whatever fails on the way, and of a session
\* that is not revoked: the token of the revoked one is not used for ever (revalidate).
Reconnects ==
    started /\ valid ~> (status = "open" /\ link /\ ~Revoked("socket")) \/ ~started \/ ~valid

\* Every request is answered or fails: the heartbeat notices the connection that died
\* silently, and the socket takes its requests with it (rejectPending).
RequestsEnd == \A r \in Requests : r \in pending ~> r \notin pending

\* The tab of a revoked session gives up, even if it never hears code 4001.
RevokedGivesUp == ~valid ~> status = "closed" \/ valid

\* What the server believes of an open connection is in the end what the user does
\* (activity.ts starts anew with every connection).
ActivityArrives == <>[](status = "open" /\ link => told = seen)
=============================================================================
