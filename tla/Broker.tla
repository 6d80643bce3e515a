------------------------------- MODULE Broker -------------------------------
(***************************************************************************)
(* internal/chat/realtime/redis.go: the Broker counts the subscriptions of *)
(* an instance, keeps its channels subscribed at Redis, and waits until    *)
(* Redis has taken a SUBSCRIBE in before it acknowledges one.              *)
(*                                                                         *)
(* Redis and the go-redis client are external: commands are processed in   *)
(* the order they are sent; a connection that breaks takes the commands    *)
(* and the messages on it along; a new one subscribes the client's list    *)
(* and confirms the control channel before anything else arrives.          *)
(***************************************************************************)
EXTENDS Naturals, Sequences, FiniteSets

CONSTANTS
    Channels, Holders, NoChannel,
    MaxSeq,         \* bound: SUBSCRIBEs and PINGs that are numbered
    MaxMessages,    \* bound: messages published
    MaxBreaks,      \* bound: connections lost
    Replaced        \* whether a failing write may get its new connection at once

ASSUME BrokerAssumption ==
    /\ IsFiniteSet(Holders) /\ NoChannel \notin Channels
    /\ {MaxSeq, MaxMessages, MaxBreaks} \subseteq Nat
    /\ Replaced \in BOOLEAN

VARIABLES
    refs,       \* b.refs
    at,         \* b.subscribedAt; 0 for a channel that has no entry
    seq,        \* b.seq
    acked,      \* b.acked
    holder,     \* what each caller of Acquire is doing; its waiter is the token
    listed,     \* the channels that go-redis subscribes again on a new connection
    closed,     \* b.closed
    link,       \* the connection: up, what Redis has subscribed, commands and replies on it
    count,      \* messages and breaks so far (for the bounds)
    due         \* history: what Feed owes

vars == <<refs, at, seq, acked, holder, listed, closed, link, count, due>>

Stages == {"idle", "confirming", "waiting", "held", "failed"}
Idle == [stage |-> "idle", channel |-> NoChannel, token |-> 0]
Down == [up |-> FALSE, subscribed |-> {}, out |-> <<>>, in |-> <<>>]
Control == [kind |-> "control", n |-> 0, channel |-> NoChannel]
\* A new connection: the list is subscribed and the control channel confirmed.
Fresh == [up |-> TRUE, subscribed |-> listed, out |-> <<>>, in |-> <<Control>>]

Item == [kind : {"subscribe", "unsubscribe", "ping", "pong", "control", "message"},
         n : Nat, channel : Channels \cup {NoChannel}]

TypeOK ==
    /\ refs \in [Channels -> 0..Cardinality(Holders)]
    /\ at \in [Channels -> 0..MaxSeq]
    /\ seq \in 0..MaxSeq /\ acked \in 0..seq
    /\ holder \in [Holders -> [stage : Stages, channel : Channels \cup {NoChannel}, token : 0..MaxSeq]]
    /\ listed \subseteq Channels /\ closed \in BOOLEAN
    /\ link \in [up : BOOLEAN, subscribed : SUBSET Channels, out : Seq(Item), in : Seq(Item)]
    /\ due \subseteq [channel : Channels, n : Nat]

Init ==
    /\ refs = [ch \in Channels |-> 0] /\ at = refs
    /\ seq = 0 /\ acked = 0
    /\ holder = [h \in Holders |-> Idle]
    /\ listed = {} /\ closed = FALSE
    /\ link = [Fresh EXCEPT !.subscribed = {}, !.in = <<>>]
    /\ count = [messages |-> 0, breaks |-> 0]
    /\ due = {}

Is(h, stage) == holder[h].stage = stage
Acknowledged(ch) == \E h \in Holders : Is(h, "held") /\ holder[h].channel = ch

\* writeMu is held from the SUBSCRIBE until the PING is sent.
Writing == \E h \in Holders : Is(h, "confirming")

Send(kind, n, ch) == [link EXCEPT !.out = Append(@, [kind |-> kind, n |-> n, channel |-> ch])]

-----------------------------------------------------------------------------
(* Acquire and Release. *)

Acquire(h, ch) ==
    /\ Is(h, "idle") /\ ~Writing /\ ~closed
    /\ refs' = [refs EXCEPT ![ch] = @ + 1]
    /\ holder' = [holder EXCEPT ![h] = [Idle EXCEPT !.stage = "confirming", !.channel = ch]]
    /\ IF refs[ch] = 0 THEN
           /\ link.up /\ seq < MaxSeq
           /\ seq' = seq + 1
           /\ at' = [at EXCEPT ![ch] = seq + 1]
           /\ listed' = listed \cup {ch}
           /\ link' = Send("subscribe", seq + 1, ch)
       ELSE UNCHANGED <<seq, at, listed, link>>
    /\ UNCHANGED <<acked, count, due, closed>>

\* The write fails: go-redis replaces the connection with the list it had, or cannot, and
\* then puts the channel on its list.  writeMu is unlocked before Release is called.
SubscribeFails(h, ch) ==
    /\ Is(h, "idle") /\ ~Writing /\ ~closed
    /\ refs[ch] = 0
    /\ ~link.up \/ count.breaks < MaxBreaks
    /\ refs' = [refs EXCEPT ![ch] = 1]
    /\ holder' = [holder EXCEPT ![h] = [Idle EXCEPT !.stage = "failed", !.channel = ch]]
    /\ link' \in {Down} \cup IF Replaced THEN {Fresh} ELSE {}
    /\ listed' = listed \cup {ch}
    /\ count' = [count EXCEPT !.breaks = IF link.up THEN @ + 1 ELSE @]
    /\ UNCHANGED <<at, seq, acked, due, closed>>

\* Mutant of Confirm: Acquire returns once the SUBSCRIBE is sent.
ConfirmAtOnce(h) ==
    /\ Is(h, "confirming")
    /\ holder' = [holder EXCEPT ![h].stage = "held"]
    /\ UNCHANGED <<refs, at, seq, acked, listed, link, count, due, closed>>

\* Redis is known to have processed the SUBSCRIBE, or a PING is sent after it.
Confirm(h) ==
    /\ Is(h, "confirming")
    /\ IF at[holder[h].channel] <= acked THEN
           /\ holder' = [holder EXCEPT ![h].stage = "held"]
           /\ UNCHANGED <<seq, link>>
       ELSE /\ link.up /\ seq < MaxSeq
            /\ seq' = seq + 1
            /\ holder' = [holder EXCEPT ![h] = [@ EXCEPT !.stage = "waiting", !.token = seq + 1]]
            /\ link' = Send("ping", seq + 1, NoChannel)
    /\ UNCHANGED <<refs, at, acked, listed, count, due, closed>>

\* The PING cannot be sent, or its PONG does not arrive within SubscribeTimeout.
GiveUp(h) ==
    /\ holder[h].stage \in {"confirming", "waiting"}
    /\ holder' = [holder EXCEPT ![h] = [@ EXCEPT !.stage = "failed", !.token = 0]]
    /\ UNCHANGED <<refs, at, seq, acked, listed, link, count, due, closed>>

\* Mutant of Release: every Release counts as the last.
ReleaseLast(h) ==
    LET ch == holder[h].channel
        OthersHold(m) == \E g \in Holders \ {h} : Is(g, "held") /\ holder[g].channel = m.channel
    IN  /\ holder[h].stage \in {"held", "failed"} /\ ~Writing
        /\ refs' = [refs EXCEPT ![ch] = @ - 1]
        /\ holder' = [holder EXCEPT ![h] = Idle]
        /\ due' = {m \in due : OthersHold(m)}
        /\ at' = [at EXCEPT ![ch] = 0]
        /\ listed' = listed \ {ch}
        /\ link' = IF link.up /\ ~closed THEN Send("unsubscribe", 0, ch) ELSE link
        /\ UNCHANGED <<seq, acked, count, closed>>

\* The last Release forgets the channel and sends UNSUBSCRIBE.
Release(h) ==
    LET ch == holder[h].channel
        OthersHold(m) == \E g \in Holders \ {h} : Is(g, "held") /\ holder[g].channel = m.channel
    IN  /\ holder[h].stage \in {"held", "failed"} /\ ~Writing
        /\ refs' = [refs EXCEPT ![ch] = @ - 1]
        /\ holder' = [holder EXCEPT ![h] = Idle]
        /\ due' = {m \in due : OthersHold(m)}
        /\ IF refs[ch] = 1 THEN
               /\ at' = [at EXCEPT ![ch] = 0]
               /\ listed' = listed \ {ch}
               /\ link' = IF link.up /\ ~closed THEN Send("unsubscribe", 0, ch) ELSE link
           ELSE UNCHANGED <<at, listed, link>>
        /\ UNCHANGED <<seq, acked, count, closed>>

-----------------------------------------------------------------------------
(* Redis and the connection (external). *)

\* PING is answered; SUBSCRIBE and UNSUBSCRIBE take effect.
Process ==
    /\ link.out # <<>>
    /\ LET c == Head(link.out) IN
       link' = [link EXCEPT !.out = Tail(@),
                    !.subscribed = CASE c.kind = "subscribe" -> @ \cup {c.channel}
                                     [] c.kind = "unsubscribe" -> @ \ {c.channel}
                                     [] OTHER -> @,
                    !.in = IF c.kind = "ping" THEN Append(@, [c EXCEPT !.kind = "pong"]) ELSE @]
    /\ UNCHANGED <<refs, at, seq, acked, holder, listed, count, due, closed>>

Publish(ch) ==
    LET n == count.messages + 1
    IN  /\ n <= MaxMessages
        /\ count' = [count EXCEPT !.messages = n]
        /\ due' = IF Acknowledged(ch) /\ ~closed THEN due \cup {[channel |-> ch, n |-> n]} ELSE due
        /\ link' = IF ch \in link.subscribed
                   THEN [link EXCEPT !.in = Append(@, [kind |-> "message", n |-> n, channel |-> ch])]
                   ELSE link
        /\ UNCHANGED <<refs, at, seq, acked, holder, listed, closed>>

Break ==
    /\ link.up
    /\ count.breaks < MaxBreaks
    /\ count' = [count EXCEPT !.breaks = @ + 1]
    /\ link' = Down
    /\ UNCHANGED <<refs, at, seq, acked, holder, listed, due, closed>>

Reconnect ==
    /\ ~link.up /\ ~closed
    /\ link' = Fresh
    /\ UNCHANGED <<refs, at, seq, acked, holder, listed, count, due, closed>>

-----------------------------------------------------------------------------
(* Run: one goroutine takes in what arrives. *)

Received(kind) ==
    /\ link.in # <<>>
    /\ Head(link.in).kind = kind
    /\ link' = [link EXCEPT !.in = Tail(@)]

\* Every Acquire whose token was passed goes on.
Pong ==
    /\ Received("pong")
    /\ acked' = IF Head(link.in).n > acked THEN Head(link.in).n ELSE acked
    /\ holder' = [h \in Holders |->
           IF Is(h, "waiting") /\ holder[h].token <= acked'
           THEN [holder[h] EXCEPT !.stage = "held", !.token = 0] ELSE holder[h]]
    /\ UNCHANGED <<refs, at, seq, listed, count, due, closed>>

Message ==
    /\ Received("message")
    /\ due' = {m \in due : m.n # Head(link.in).n}
    /\ UNCHANGED <<refs, at, seq, acked, holder, listed, count, closed>>

FailWaiters == [h \in Holders |->
    IF Is(h, "waiting") THEN [holder[h] EXCEPT !.stage = "failed", !.token = 0] ELSE holder[h]]

\* Mutant of Resubscribed: the clients are not resynced.
ResubscribedQuietly ==
    /\ Received("control")
    /\ holder' = FailWaiters
    /\ UNCHANGED <<refs, at, seq, acked, listed, count, due, closed>>

\* The control channel is confirmed again: what was published meanwhile is lost.  Every
\* Acquire that waits fails, and every client is made to synchronise.
Resubscribed ==
    /\ Received("control")
    /\ holder' = FailWaiters
    /\ due' = {}
    /\ UNCHANGED <<refs, at, seq, acked, listed, count, closed>>

\* The server stops, after the hub has closed its connections: the waiters get ErrClosed
\* and the connection to Redis is closed.
Close ==
    /\ ~closed
    /\ closed' = TRUE
    /\ holder' = FailWaiters
    /\ link' = Down
    /\ due' = {}
    /\ UNCHANGED <<refs, at, seq, acked, listed, count>>

Run == Pong \/ Message \/ Resubscribed

Next ==
    \/ \E h \in Holders :
        \/ Confirm(h) \/ GiveUp(h) \/ Release(h)
        \/ \E ch \in Channels : Acquire(h, ch) \/ SubscribeFails(h, ch)
    \/ \E ch \in Channels : Publish(ch)
    \/ Process \/ Break \/ Reconnect
    \/ Run
    \/ Close

\* The receiving goroutine runs, Redis answers, and a lost connection is noticed by the
\* health check and opened again.
Fairness == WF_vars(Run) /\ WF_vars(Process) /\ WF_vars(Reconnect)

Spec == Init /\ [][Next]_vars /\ Fairness

-----------------------------------------------------------------------------
(* Properties. *)

\* refs counts the callers that have not released; writeMu makes the last Release and the
\* first Acquire exclude each other, so a channel with callers is on go-redis's list.
RefsExact ==
    /\ \A ch \in Channels :
        /\ refs[ch] = Cardinality({h \in Holders : holder[h].channel = ch})
        /\ ~closed => (refs[ch] > 0 <=> ch \in listed)

\* The subscription that Acquire reported is in force at Redis, or a resync is to come.
AckedInForce ==
    \A h \in Holders : Is(h, "held") =>
        \/ holder[h].channel \in link.subscribed
        \/ ~link.up
        \/ \E i \in DOMAIN link.in : link.in[i].kind = "control"

\* The broker keeps the promise of Feed: no message that is owed is left out or overtaken
\* without a resync, and each is handed on or resynced in the end.
F == INSTANCE Feed WITH
         holds <- [h \in Holders |-> IF Is(h, "held") THEN holder[h].channel ELSE NoChannel],
         Numbers <- 1..MaxMessages
Feeds == F!Spec
=============================================================================
