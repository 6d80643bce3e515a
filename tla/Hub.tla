-------------------------------- MODULE Hub --------------------------------
(***************************************************************************)
(* internal/chat/realtime/hub.go on one instance: the WebSocket            *)
(* connections of one user, what they are subscribed to, and how the hub   *)
(* takes a subscription away when the user may no longer read its topic.   *)
(*                                                                         *)
(* Every step is what a goroutine does between two acquisitions of h.mu,   *)
(* or one read of the database.  A connection has one reading goroutine    *)
(* (httpx serve), so its Subscribe calls and its Unregister follow one     *)
(* another; the broker's goroutine delivers one event at a time; a timer   *)
(* revalidates everything.  Releases that follow a critical section        *)
(* outside the lock are counted in that section.                           *)
(***************************************************************************)
EXTENDS Integers, Sequences, FiniteSets

CONSTANTS
    Conns,      \* the connections of the user
    Topics,     \* rooms and workspaces
    Home,       \* the workspace of a topic
    MaxEpoch,   \* bound: revalidations while the user is connected
    MaxEvents   \* bound: events under way to this instance

ASSUME HubAssumption == IsFiniteSet(Conns) /\ MaxEpoch \in Nat /\ MaxEvents \in Nat

Checkers == {"broker", "timer"}

VARIABLES
    access,     \* the topics the user may subscribe to (database)
    deleted,    \* the rooms that were deleted
    events,     \* events published and not yet taken by the broker's goroutine
    missed,     \* topics taken away without this instance having been able to check
    conn,       \* Conns -> stage, closing, subs, and the Subscribe call under way
    epoch,      \* h.epochs of the user
    check,      \* revalidateUser by each checker: what it asked about and was told
    refs,       \* references held at the Subscriber, per topic
    shutdown    \* h.shuttingDown and h.unregistering, and whether drained is closed

vars == <<access, deleted, events, missed, conn, epoch, check, refs, shutdown>>

\* An event on the wire: the topics it makes the hub check again, the rooms it closes.
Events == [recheck : SUBSET Topics, closed : SUBSET Topics]
Conn == [stage : {"none", "registering", "open", "leaving"}, closing : BOOLEAN,
         subs : SUBSET Topics, call : {"none", "authorizing", "adding"},
         topics : SUBSET Topics, epoch : 0..MaxEpoch]
NoConn == [stage |-> "none", closing |-> FALSE, subs |-> {}, call |-> "none",
           topics |-> {}, epoch |-> 0]
NoCheck == [stage |-> "idle", asked |-> {}, allowed |-> {}]

TypeOK ==
    /\ access \subseteq Topics /\ deleted \subseteq Topics /\ missed \subseteq Topics
    /\ events \in Seq(Events)
    /\ conn \in [Conns -> Conn]
    /\ epoch \in 0..MaxEpoch
    /\ check \in [Checkers -> [stage : {"idle", "asking", "removing"},
                               asked : SUBSET Topics, allowed : SUBSET Topics]]
    /\ refs \in [Topics -> Int]
    /\ shutdown \in [begun : BOOLEAN, unregistering : Int, drained : BOOLEAN]

Init ==
    /\ access = Topics /\ deleted = {} /\ events = <<>> /\ missed = {}
    /\ conn = [c \in Conns |-> NoConn]
    /\ epoch = 0
    /\ check = [g \in Checkers |-> NoCheck]
    /\ refs = [t \in Topics |-> 0]
    /\ shutdown = [begun |-> FALSE, unregistering |-> 0, drained |-> FALSE]

Open(c) == conn[c].stage = "open"
Opened == {c \in Conns : Open(c)}
Subscribed == UNION {conn[c].subs : c \in Opened}
Scope(t) == {u \in Topics : Home[u] = Home[t]}

Add(T) == [t \in Topics |-> IF t \in T THEN refs[t] + 1 ELSE refs[t]]
\* One release for each connection of C and each topic of T it is subscribed to.
ReleaseOf(C, T) ==
    [t \in Topics |-> refs[t] - Cardinality({c \in C : t \in conn[c].subs \cap T})]

\* closeDrainedLocked, with the open connections and unregistrations left.
Drained(s, open) == [s EXCEPT !.drained = @ \/ (s.begun /\ open = {} /\ s.unregistering = 0)]

-----------------------------------------------------------------------------
(* The database and the events published after its commits. *)

\* Told, or lost on the way: Redis delivers at most once.
Publish(e, T) ==
    \/ /\ Len(events) < MaxEvents
       /\ events' = Append(events, e)
       /\ UNCHANGED missed
    \/ /\ missed' = missed \cup T
       /\ UNCHANGED events

\* The user leaves or is removed from a room, or from the workspace with all its rooms.
RemoveMember(t, T) ==
    /\ T \in {{t}, Scope(t)}
    /\ T \cap access # {}
    /\ access' = access \ T
    /\ Publish([recheck |-> Scope(t), closed |-> {}], T)
    /\ UNCHANGED <<deleted, conn, epoch, check, refs, shutdown>>

AddMember(t) ==
    /\ t \notin access \cup deleted
    /\ access' = access \cup {t}
    /\ UNCHANGED <<deleted, events, missed, conn, epoch, check, refs, shutdown>>

DeleteRoom(t) ==
    /\ t \notin deleted
    /\ access' = access \ {t}
    /\ deleted' = deleted \cup {t}
    /\ Publish([recheck |-> {}, closed |-> {t}], {t})
    /\ UNCHANGED <<conn, epoch, check, refs, shutdown>>

-----------------------------------------------------------------------------
(* A connection. *)

\* Register has the user's channel; the hub is not shutting down.
Register(c) ==
    /\ conn[c].stage = "none"
    /\ ~shutdown.begun
    /\ conn' = [conn EXCEPT ![c].stage = "registering"]
    /\ UNCHANGED <<access, deleted, events, missed, epoch, check, refs, shutdown>>

\* Mutant of Registered: shuttingDown is not looked at again.
RegisteredLate(c) ==
    /\ conn[c].stage = "registering"
    /\ conn' = [conn EXCEPT ![c].stage = "open"]
    /\ UNCHANGED <<access, deleted, events, missed, epoch, check, refs, shutdown>>

\* Back under the lock, it looks again whether a shutdown began.
Registered(c) ==
    /\ conn[c].stage = "registering"
    /\ conn' = [conn EXCEPT ![c].stage = IF shutdown.begun THEN "none" ELSE "open"]
    /\ UNCHANGED <<access, deleted, events, missed, epoch, check, refs, shutdown>>

\* Close(reason): a full send queue, a revoked session, a resync.  The reader ends later.
Close(c) ==
    /\ Open(c) /\ ~conn[c].closing
    /\ conn' = [conn EXCEPT ![c].closing = TRUE]
    /\ UNCHANGED <<access, deleted, events, missed, epoch, check, refs, shutdown>>

\* The reader ends, by itself or because the connection was closed.
Unregister(c) ==
    /\ Open(c)
    /\ conn[c].call = "none"
    /\ conn' = [conn EXCEPT ![c] = [NoConn EXCEPT !.stage = "leaving"]]
    /\ refs' = ReleaseOf({c}, Topics)
    /\ epoch' = IF Opened = {c} THEN 0 ELSE epoch
    /\ shutdown' = [shutdown EXCEPT !.unregistering = @ + 1]
    /\ UNCHANGED <<access, deleted, events, missed, check>>

\* Mutant of Unregistered: unregistering is counted down without looking at drained.
UnregisteredQuietly(c) ==
    /\ conn[c].stage = "leaving"
    /\ conn' = [conn EXCEPT ![c] = NoConn]
    /\ shutdown' = [shutdown EXCEPT !.unregistering = @ - 1]
    /\ UNCHANGED <<access, deleted, events, missed, epoch, check, refs>>

\* The releases and the presence update outside the lock are done.
Unregistered(c) ==
    /\ conn[c].stage = "leaving"
    /\ conn' = [conn EXCEPT ![c] = NoConn]
    /\ shutdown' = Drained([shutdown EXCEPT !.unregistering = @ - 1], Opened)
    /\ UNCHANGED <<access, deleted, events, missed, epoch, check, refs>>

\* Subscribe: the epoch is read before the database is.
Subscribe(c, t) ==
    /\ Open(c)
    /\ conn[c].call = "none"
    /\ t \notin conn[c].subs
    /\ conn' = [conn EXCEPT ![c] = [@ EXCEPT !.call = "authorizing", !.topics = {t}, !.epoch = epoch]]
    /\ UNCHANGED <<access, deleted, events, missed, epoch, check, refs, shutdown>>

\* AuthorizeRoom lets the user in and the channel is acquired.
Authorized(c) ==
    /\ conn[c].call = "authorizing"
    /\ conn[c].topics \subseteq access
    /\ conn' = [conn EXCEPT ![c].call = "adding"]
    /\ refs' = Add(conn[c].topics)
    /\ UNCHANGED <<access, deleted, events, missed, epoch, check, shutdown>>

\* Not found, or the database or Redis failed: the call returns the error.
Refused(c) ==
    /\ conn[c].call = "authorizing"
    /\ conn' = [conn EXCEPT ![c] = [@ EXCEPT !.call = "none", !.topics = {}, !.epoch = 0]]
    /\ UNCHANGED <<access, deleted, events, missed, epoch, check, refs, shutdown>>

\* Mutant of Retry: the reference is kept and acquired once more.
RetryHolding(c) ==
    /\ conn[c].call = "adding"
    /\ conn[c].epoch # epoch
    /\ conn' = [conn EXCEPT ![c] = [@ EXCEPT !.call = "authorizing", !.epoch = epoch]]
    /\ UNCHANGED <<access, deleted, events, missed, epoch, check, refs, shutdown>>

\* The epoch moved since: the reference is given back and the authorisation done again.
Retry(c) ==
    /\ conn[c].call = "adding"
    /\ conn[c].epoch # epoch
    /\ conn' = [conn EXCEPT ![c] = [@ EXCEPT !.call = "authorizing", !.epoch = epoch]]
    /\ refs' = [t \in Topics |-> IF t \in conn[c].topics THEN refs[t] - 1 ELSE refs[t]]
    /\ UNCHANGED <<access, deleted, events, missed, epoch, check, shutdown>>

Added(c) ==
    /\ conn[c].epoch = epoch
    /\ conn[c].call = "adding"
    /\ conn' = [conn EXCEPT ![c] = [@ EXCEPT !.call = "none", !.subs = conn[c].subs \cup conn[c].topics,
                                            !.topics = {}, !.epoch = 0]]
    /\ UNCHANGED <<access, deleted, events, missed, epoch, check, refs, shutdown>>

\* The subscriptions of the connections C to the topics T end.
Drop(C, T) == [c \in Conns |-> IF c \in C THEN [conn[c] EXCEPT !.subs = @ \ T] ELSE conn[c]]

Unsubscribe(c, t) ==
    /\ Open(c)
    /\ conn[c].call = "none"
    /\ t \in conn[c].subs
    /\ conn' = Drop({c}, {t})
    /\ refs' = ReleaseOf({c}, {t})
    /\ UNCHANGED <<access, deleted, events, missed, epoch, check, shutdown>>

-----------------------------------------------------------------------------
(* Deliveries and revalidations. *)

\* Mutant of Recheck: the epoch moves only when there is something to ask.
RecheckQuietly(g, T) ==
    LET asked == Subscribed \cap T
    IN  IF Opened # {} /\ asked # {} THEN
            /\ epoch < MaxEpoch
            /\ epoch' = epoch + 1
            /\ check' = [check EXCEPT ![g] = [NoCheck EXCEPT !.stage = "asking", !.asked = asked]]
        ELSE UNCHANGED <<epoch, check>>

\* revalidateUser, first half: nothing for a user without connections; the epoch moves
\* before the subscriptions in T are collected.
Recheck(g, T) ==
    LET asked == Subscribed \cap T
    IN  IF Opened = {} THEN UNCHANGED <<epoch, check>> ELSE
            /\ epoch < MaxEpoch
            /\ epoch' = epoch + 1
            /\ check' = [check EXCEPT ![g] = IF asked = {} THEN NoCheck
                             ELSE [NoCheck EXCEPT !.stage = "asking", !.asked = asked]]

\* DeliverLocal of an event that changes access: revalidation comes first.
DeliverAccessChange ==
    /\ check["broker"].stage = "idle"
    /\ events # <<>>
    /\ Head(events).closed = {}
    /\ events' = Tail(events)
    /\ Recheck("broker", Head(events).recheck)
    /\ UNCHANGED <<access, deleted, missed, conn, refs, shutdown>>

\* DeliverLocal of room.deleted: sent to the subscribers, who are then unsubscribed.
DeliverClosed ==
    /\ check["broker"].stage = "idle"
    /\ events # <<>>
    /\ Head(events).closed # {}
    /\ events' = Tail(events)
    /\ conn' = Drop(Opened, Head(events).closed)
    /\ refs' = ReleaseOf(Opened, Head(events).closed)
    /\ UNCHANGED <<access, deleted, missed, epoch, check, shutdown>>

\* The periodic revalidation of everything makes up for events that were missed.
Revalidate ==
    /\ check["timer"].stage = "idle"
    /\ missed' = {}
    /\ Recheck("timer", Topics)
    /\ UNCHANGED <<access, deleted, events, conn, refs, shutdown>>

\* Allowed answers from the database.
Allowed(g) ==
    /\ check[g].stage = "asking"
    /\ check' = [check EXCEPT ![g].stage = "removing", ![g].allowed = @ \cup (check[g].asked \cap access)]
    /\ UNCHANGED <<access, deleted, events, missed, conn, epoch, refs, shutdown>>

\* Allowed fails: the subscriptions stay until the next periodic revalidation.
AllowedFails(g) ==
    /\ check[g].stage = "asking"
    /\ check' = [check EXCEPT ![g] = NoCheck]
    /\ missed' = missed \cup check[g].asked
    /\ UNCHANGED <<access, deleted, events, conn, epoch, refs, shutdown>>

\* Only what was asked about is taken away.
Remove(g) ==
    LET T == check[g].asked \ check[g].allowed
    IN  /\ check[g].stage = "removing"
        /\ conn' = Drop(Opened, T)
        /\ refs' = ReleaseOf(Opened, T)
        /\ check' = [check EXCEPT ![g] = NoCheck]
        /\ UNCHANGED <<access, deleted, events, missed, epoch, shutdown>>

\* Shutdown: no new connection, and every one is closed.
Shutdown ==
    /\ ~shutdown.begun
    /\ shutdown' = Drained([shutdown EXCEPT !.begun = TRUE], Opened)
    /\ conn' = [c \in Conns |-> [conn[c] EXCEPT !.closing = @ \/ Open(c)]]
    /\ UNCHANGED <<access, deleted, events, missed, epoch, check, refs>>

\* What the reading goroutine of a connection does by itself.
Reader(c) == Registered(c) \/ Authorized(c) \/ Refused(c) \/ Retry(c) \/ Added(c) \/ Unregistered(c)

Next ==
    \/ \E t \in Topics :
        \/ \E T \in {{t}, Scope(t)} : RemoveMember(t, T)
        \/ AddMember(t)
        \/ DeleteRoom(t)
    \/ \E c \in Conns :
        \/ Register(c) \/ Close(c) \/ Unregister(c) \/ Reader(c)
        \/ \E t \in Topics : Subscribe(c, t) \/ Unsubscribe(c, t)
    \/ DeliverAccessChange \/ DeliverClosed
    \/ Revalidate
    \/ \E g \in Checkers : Allowed(g) \/ AllowedFails(g) \/ Remove(g)
    \/ Shutdown

\* The calls of a reader end.  The reader of a connection that was closed may handle the
\* messages it has read, and then ends: the write loop closes the socket in seconds.
Fairness ==
    \A c \in Conns : WF_vars(Reader(c)) /\ SF_vars(conn[c].closing /\ Unregister(c))

Spec == Init /\ [][Next]_vars /\ Fairness

-----------------------------------------------------------------------------
(* Safety. *)

\* An event about the topic is on its way, or one was missed.
Pending(t) ==
    \/ \E i \in DOMAIN events : t \in events[i].recheck \cup events[i].closed
    \/ t \in missed

\* The hub is going to look at the topic: a revalidation has asked about it and has not
\* been told that it is allowed, or will ask.
Due(t) == Pending(t) \/ \E g \in Checkers : t \in check[g].asked \ check[g].allowed

\* No connection stays subscribed to a topic that the user may not read, whatever Subscribe
\* calls were under way when the access went, unless the hub is going to look at it: once
\* an access change was revalidated nothing is left to the next periodic revalidation
\* (rule 8).  Deleted rooms are no part of it: see ClosedIsLeft.
NoStaleSubscription ==
    \A c \in Conns : \A t \in conn[c].subs : t \in access \/ Due(t) \/ t \in deleted

\* References are neither leaked nor given back twice: each channel is held once for each
\* subscription and for each Subscribe call between Acquire and the lock.
RefsBalanced ==
    \A t \in Topics : refs[t] = Cardinality({c \in Conns : t \in conn[c].subs})
                              + Cardinality({c \in Conns : conn[c].call = "adding" /\ t \in conn[c].topics})

\* When Shutdown returns, no connection is registered or in its clean-up, and none will
\* be: main closes Redis after it, and presence could not be updated any more.
DrainedIsOver ==
    shutdown.drained => shutdown.begun /\ \A c \in Conns : conn[c].stage \in {"none", "registering"}

\* The subscriptions to a deleted room end when its event is delivered.
ClosedIsLeft == \A c \in Conns : \A t \in conn[c].subs \cap deleted : Due(t)

\* A shutdown ends: the last clean-up finds that it was the last, in whatever order the
\* connections are registered, closed and unregistered.
ShutdownEnds == shutdown.begun ~> shutdown.drained

-----------------------------------------------------------------------------
(* The inductive invariant behind NoStaleSubscription and DrainedIsOver. *)

\* Only an open connection has subscriptions or a call under way, and its call has seen an
\* epoch that is not in the future: the epoch is forgotten with the last open connection.
\* What it asks for is not subscribed yet.
CallsInv ==
    \A c \in Conns :
        /\ ~Open(c) => conn[c].subs = {} /\ conn[c].call = "none"
        /\ conn[c].call # "none" => conn[c].epoch <= epoch /\ conn[c].topics \cap conn[c].subs = {}

\* A call that was let in and has seen the present epoch adds a topic that may be read, or
\* whose check is still to begin.
AddsWithAccess ==
    \A c \in Conns : conn[c].call = "adding" /\ conn[c].epoch = epoch =>
        \A t \in conn[c].topics : t \in access \/ Pending(t) \/ t \in deleted

\* What a revalidation was not told about yet is not allowed.
ChecksInv ==
    \A g \in Checkers : /\ check[g].stage = "asking" => check[g].allowed = {}
                        /\ check[g].stage = "idle" => check[g].asked = {}

\* An event checks again or closes, and a closed room was deleted.
EventsInv ==
    \A i \in DOMAIN events : /\ events[i].closed \subseteq deleted
                             /\ events[i].closed # {} => events[i].recheck = {}

HubInv ==
    TypeOK /\ CallsInv /\ AddsWithAccess /\ ChecksInv /\ EventsInv /\ NoStaleSubscription

\* The one behind DrainedIsOver: the clean-ups are counted.
DrainInv ==
    /\ shutdown.unregistering = Cardinality({c \in Conns : conn[c].stage = "leaving"})
    /\ DrainedIsOver
=============================================================================
