----------------------------- MODULE SendQueue -----------------------------
(***************************************************************************)
(* Sending to one room from one browser tab: the queue that                *)
(* web/lib/chat/store/send.ts keeps per room, the requests it leaves on    *)
(* the network, and the transaction of SendMessage                         *)
(* (internal/chat/message.go) that makes a request idempotent by its       *)
(* client_msg_id.                                                          *)
(*                                                                         *)
(* A message is its client_msg_id, numbered in the order of composition;   *)
(* its content is left out.  The loop of runSendQueue runs from one await  *)
(* to the next without giving up the thread, so each stretch is one step.  *)
(***************************************************************************)
EXTENDS Integers, Sequences, FiniteSets

CONSTANTS
    MaxMessages,   \* bound: messages composed
    MaxRetries,    \* bound: times the user presses "send again"
    MaxRemovals,   \* bound: times the user loses the room, or the page is reloaded
    Faults         \* "error": a transaction fails; "lost": a response is

ASSUME BoundsAssumption == MaxMessages \in Nat /\ MaxRetries \in Nat /\ MaxRemovals \in Nat
ASSUME FaultsAssumption == Faults \subseteq {"error", "lost"}

Messages == 1..MaxMessages
Tries    == 1..(MaxMessages + MaxRetries)

VARIABLES
    seq,        \* messages.seq of each message, 0 while the row does not exist
    lastSeq,    \* rooms.last_message_seq
    member,     \* the sender's row of room_members exists
    removals,   \* how often it was removed, or the page reloaded
    events,     \* message.created published and not received: on its way, or lost
    notice,     \* room.member_removed is on its way to the tab
    composed,   \* messages composed so far
    outgoing,   \* ChatState.outgoing: the status of each message that is shown
    queue,      \* sendQueues: the messages to send, in order
    loop,       \* sendLoops: the request the loop waits for, 0 while there is no loop
    detached,   \* the loop waits with a queue that dropOutgoing has forgotten
    tries,      \* requests sent so far
    request,    \* POST /rooms/{id}/messages: its message, how far the server is,
                \* and whether the tab still listens
    ahead,      \* the messages that were being sent when each was composed (history)
    givenUp     \* messages that were shown as failed, or dropped (history)

server == <<seq, lastSeq, member, removals>>
sender == <<outgoing, queue, loop, tries, request, givenUp>>
vars   == <<seq, lastSeq, member, removals, events, notice, composed, outgoing, queue,
            loop, detached, tries, request, ahead, givenUp>>

Stages  == {"sent", "locked", "absent", "ok", "error"}
Request == [msg : 0..MaxMessages, stage : Stages, open : BOOLEAN]
Unused  == [msg |-> 0, stage |-> "error", open |-> FALSE]

\* A request that is over on both sides leaves no trace.
Left(r) == IF ~r.open /\ r.stage \in {"ok", "error"} THEN Unused ELSE r

TypeOK ==
    /\ seq \in [Messages -> 0..MaxMessages]
    /\ lastSeq \in Nat
    /\ member \in BOOLEAN
    /\ removals \in 0..MaxRemovals
    /\ events \subseteq Messages
    /\ notice \in BOOLEAN
    /\ composed \in 0..MaxMessages
    /\ outgoing \in [Messages -> {"none", "pending", "failed"}]
    /\ queue \in Seq(Messages)
    /\ loop \in {0} \cup Tries
    /\ detached \in BOOLEAN
    /\ tries \in 0..(MaxMessages + MaxRetries)
    /\ request \in [Tries -> Request]
    /\ ahead \in [Messages -> SUBSET Messages]
    /\ givenUp \subseteq Messages

Init ==
    /\ seq = [m \in Messages |-> 0]
    /\ lastSeq = 0
    /\ member = TRUE
    /\ removals = 0
    /\ events = {}
    /\ notice = FALSE
    /\ composed = 0
    /\ outgoing = [m \in Messages |-> "none"]
    /\ queue = <<>>
    /\ loop = 0
    /\ detached = FALSE
    /\ tries = 0
    /\ request = [i \in Tries |-> Unused]
    /\ ahead = [m \in Messages |-> {}]
    /\ givenUp = {}

-----------------------------------------------------------------------------
(* The queue of the tab. *)

Pending(status) == {m \in Messages : status[m] = "pending"}

\* One turn of the for loop: what is no longer pending is skipped.
Turn(q, status) ==
    LET waiting == {k \in 1..Len(q) : q[k] \in Pending(status)}
        first   == CHOOSE k \in waiting : \A l \in waiting : k <= l
    IN  IF waiting = {} THEN <<>> ELSE SubSeq(q, first, Len(q))

\* The loop goes on with the queue q: it sends the first item, or it ends.  r is request
\* as the step has left it so far.
GoOn(q, status, r) ==
    LET rest == Turn(q, status)
    IN  /\ queue' = rest
        /\ outgoing' = status
        /\ detached' = FALSE
        /\ IF rest = <<>>
           THEN loop' = 0 /\ request' = r /\ tries' = tries
           ELSE /\ tries' = tries + 1
                /\ loop' = tries'
                /\ request' = [r EXCEPT ![tries'] =
                                  [msg |-> Head(rest), stage |-> "sent", open |-> TRUE]]

\* enqueueSend, which starts a loop unless one runs.
Enqueue(m, status) ==
    IF loop = 0
    THEN GoOn(Append(queue, m), status, request)
    ELSE /\ queue' = Append(queue, m)
         /\ outgoing' = status
         /\ UNCHANGED <<loop, detached, tries, request>>

\* Mutant of FailQueue: only the message whose request failed is given up.
FailHead(r) ==
    LET status == [outgoing EXCEPT ![request[loop].msg] = IF @ = "pending" THEN "failed" ELSE @]
    IN  GoOn(IF detached THEN queue ELSE Tail(queue), status, r) /\ givenUp' = givenUp \cup {request[loop].msg}

\* Mutant of FailQueue: the queue is forgotten and its messages stay as they are.
ForgetQueue(r) ==
    /\ queue' = <<>> /\ loop' = 0 /\ detached' = FALSE /\ request' = r
    /\ UNCHANGED <<outgoing, givenUp, tries>>

\* failQueue: what is queued fails, sent or not.  The loop then finds no queue and ends.
FailQueue(r) ==
    LET failed == {queue[k] : k \in 1..Len(queue)} \cap Pending(outgoing)
    IN  /\ queue' = <<>>
        /\ outgoing' = [m \in Messages |-> IF m \in failed THEN "failed" ELSE outgoing[m]]
        /\ givenUp' = givenUp \cup failed
        /\ loop' = 0
        /\ detached' = FALSE
        /\ request' = r
        /\ tries' = tries

\* Mutant of Drop: the queue is forgotten and its messages stay shown.
DropQueue ==
    /\ queue' = <<>>
    /\ detached' = (loop # 0)
    /\ UNCHANGED <<outgoing, givenUp>>

\* dropOutgoing; the loop, if there is one, keeps waiting.
Drop ==
    /\ queue' = <<>>
    /\ outgoing' = [m \in Messages |-> "none"]
    /\ givenUp' = givenUp \cup {m \in Messages : outgoing[m] # "none"}
    /\ detached' = (loop # 0)

\* store.sendMessage; the room is open for writing until the tab hears otherwise.
Compose ==
    /\ composed < MaxMessages
    /\ member \/ notice
    /\ composed' = composed + 1
    /\ ahead' = [ahead EXCEPT ![composed'] = Pending(outgoing)]
    /\ Enqueue(composed', [outgoing EXCEPT ![composed'] = "pending"])
    /\ UNCHANGED <<server, events, notice, givenUp>>

\* retryMessage.  Every message is sent once and then once per retry (MaxRetries).
Retry(m) ==
    /\ outgoing[m] = "failed"
    /\ tries + Cardinality(Pending(outgoing)) + (MaxMessages - composed) < Cardinality(Tries)
    /\ Enqueue(m, [outgoing EXCEPT ![m] = "pending"])
    /\ UNCHANGED <<server, events, notice, composed, ahead, givenUp>>

\* discardMessage.
Discard(m) ==
    /\ outgoing[m] = "failed"
    /\ outgoing' = [outgoing EXCEPT ![m] = "none"]
    /\ UNCHANGED <<server, events, notice, composed, ahead, queue, loop, detached, tries, request, givenUp>>

\* receiveMessage(message, true) drops the message from outgoing.
Confirmed(m) == [outgoing EXCEPT ![m] = "none"]

Closed(i) == [request EXCEPT ![i] = Left([@ EXCEPT !.open = FALSE])]

\* The response of a request; the loop goes on when it is the one it waits for.
Answered(i) ==
    /\ request[i].open /\ request[i].stage = "ok"
    /\ LET status == Confirmed(request[i].msg)
       IN  IF loop = i
           THEN GoOn(IF detached THEN queue ELSE Tail(queue), status, Closed(i))
           ELSE /\ outgoing' = status
                /\ request' = Closed(i)
                /\ UNCHANGED <<queue, loop, detached, tries>>
    /\ UNCHANGED <<server, events, notice, composed, ahead, givenUp>>

\* The request fails: the server says so, or the network does, whatever the server did.
Rejected(i) ==
    /\ request[i].open
    /\ request[i].stage = "error" \/ "lost" \in Faults
    /\ IF loop = i
       THEN FailQueue(Closed(i))
       ELSE request' = Closed(i) /\ UNCHANGED <<outgoing, queue, loop, detached, tries, givenUp>>
    /\ UNCHANGED <<server, events, notice, composed, ahead>>

\* SEND_TIMEOUT_MS is over.  A late response is still listened to.
TimedOut ==
    /\ loop # 0
    /\ FailQueue(request)
    /\ UNCHANGED <<server, events, notice, composed, ahead>>

\* message.created of the tab's own message.
Receive(m) ==
    /\ m \in events
    /\ events' = events \ {m}
    /\ outgoing' = Confirmed(m)
    /\ UNCHANGED <<server, notice, composed, ahead, queue, loop, detached, tries, request, givenUp>>

\* room.member_removed of a private room.
Noticed ==
    /\ notice
    /\ notice' = FALSE
    /\ Drop
    /\ UNCHANGED <<server, events, composed, ahead, loop, tries, request>>

\* The page is reloaded: nothing of the store survives, and nobody listens any more.
Reload ==
    /\ removals < MaxRemovals
    /\ removals' = removals + 1
    /\ queue' = <<>>
    /\ outgoing' = [m \in Messages |-> "none"]
    /\ givenUp' = givenUp \cup {m \in Messages : outgoing[m] # "none"}
    /\ loop' = 0
    /\ detached' = FALSE
    /\ events' = {}
    /\ notice' = FALSE
    /\ request' = [i \in Tries |-> Left([request[i] EXCEPT !.open = FALSE])]
    /\ UNCHANGED <<seq, lastSeq, member, composed, ahead, tries>>

-----------------------------------------------------------------------------
(* The server.  A transaction goes one statement at a time; the row of       *)
(* room_members stays locked from LockRoomMemberships to the end of it.      *)

Running == {i \in Tries : request[i].stage \in {"locked", "absent"}}
At(i, stage) == request' = [request EXCEPT ![i] = Left([@ EXCEPT !.stage = stage])]

\* Mutant of Lock: the membership is read and not locked.
LockNothing(i) ==
    /\ request[i].stage = "sent"
    /\ At(i, IF member THEN "locked" ELSE "error")
    /\ UNCHANGED <<server, events, notice, composed, ahead, outgoing, queue, loop, detached, tries, givenUp>>

\* loadRoomAccess with memberRowLock, and CanWriteRoom.
Lock(i) ==
    /\ request[i].stage = "sent"
    /\ Running = {}
    /\ At(i, IF member THEN "locked" ELSE "error")
    /\ UNCHANGED <<server, events, notice, composed, ahead, outgoing, queue, loop, detached, tries, givenUp>>

\* GetMessageIDByClientMsgID: a message that is there already is the answer.
Lookup(i) ==
    /\ request[i].stage = "locked"
    /\ At(i, IF seq[request[i].msg] # 0 THEN "ok" ELSE "absent")
    /\ UNCHANGED <<server, events, notice, composed, ahead, outgoing, queue, loop, detached, tries, givenUp>>

\* AllocateMessageSeq, CreateMessage and the commit; then deliver publishes the event.
\* UNIQUE (room_id, sender_id, client_msg_id) turns a second row down.
Commit(i) ==
    LET m == request[i].msg
    IN  /\ request[i].stage = "absent"
        /\ IF seq[m] # 0
           THEN At(i, "error") /\ UNCHANGED <<seq, lastSeq, events>>
           ELSE /\ lastSeq' = lastSeq + 1
                /\ seq' = [seq EXCEPT ![m] = lastSeq']
                /\ events' = events \cup {m}
                /\ At(i, "ok")
        /\ UNCHANGED <<member, removals, notice, composed, ahead, outgoing, queue, loop, detached, tries, givenUp>>

\* A statement of the transaction fails.
Abort(i) ==
    /\ "error" \in Faults
    /\ request[i].stage \in {"sent", "locked", "absent"}
    /\ At(i, "error")
    /\ UNCHANGED <<server, events, notice, composed, ahead, outgoing, queue, loop, detached, tries, givenUp>>

\* The user is removed from the room, or leaves it: the row is deleted when it is free.
Remove ==
    /\ member /\ Running = {}
    /\ removals < MaxRemovals
    /\ removals' = removals + 1
    /\ member' = FALSE
    /\ notice' = TRUE
    /\ UNCHANGED <<seq, lastSeq, events, composed, ahead, detached, sender>>

\* The user is added again.
AddMember ==
    /\ ~member
    /\ member' = TRUE
    /\ UNCHANGED <<seq, lastSeq, removals, events, notice, composed, ahead, detached, sender>>

Next ==
    \/ Compose \/ TimedOut \/ Noticed \/ Reload \/ Remove \/ AddMember
    \/ \E m \in Messages : Retry(m) \/ Discard(m) \/ Receive(m)
    \/ \E i \in Tries : Answered(i) \/ Rejected(i) \/ Lock(i) \/ Lookup(i) \/ Commit(i) \/ Abort(i)

\* The timer of sendOne fires; neither the server nor the network owes anything.
Spec == Init /\ [][Next]_vars /\ WF_vars(TimedOut)

-----------------------------------------------------------------------------

\* Messages get their seq in the order they were composed.  One is overtaken only after
\* it was shown as failed, or dropped; and by one that waited behind it only when that one
\* was given up with it (runSendQueue sends one at a time, failQueue fails what waits).
InOrder ==
    \A a, b \in Messages :
        a < b /\ seq[b] # 0 =>
            \/ seq[a] # 0 /\ seq[a] < seq[b]
            \/ a \in givenUp /\ (a \in ahead[b] => b \in givenUp)

\* A request that found no message with its client_msg_id never meets one when it
\* inserts: the row lock, and not the UNIQUE constraint, makes a retry idempotent, so a
\* retry that races the first request is answered with the message and not an error.
NeverConflicts ==
    \A i \in Tries : request[i].stage = "absent" => seq[request[i].msg] = 0

\* Whatever is shown as being sent waits in the queue of a loop that runs, each message
\* once: through failures, retries, late answers and a room lost and found again.
PendingIsQueued ==
    /\ \A m \in Pending(outgoing) : Cardinality({k \in 1..Len(queue) : queue[k] = m}) = 1
    /\ queue # <<>> => loop # 0 /\ (~detached => request[loop].msg = queue[1])

\* Nothing is shown as being sent for ever.
SendingEnds == \A m \in Messages : outgoing[m] = "pending" ~> outgoing[m] # "pending"
=============================================================================
