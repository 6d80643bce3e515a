---------------------------- MODULE RoomTimeline ----------------------------
(***************************************************************************)
(* One room as one browser tab sees it: the rooms/messages rows of the     *)
(* server, the at-most-once event delivery, and the tab's timeline         *)
(* (web/lib/chat/store/timeline.ts) that a REST page starts, WebSocket     *)
(* events extend and the change_seq difference repairs.                    *)
(*                                                                         *)
(* A message is its seq; a version of it is the change_seq that the row    *)
(* carried.  Bodies, senders and times are left out: two versions of a     *)
(* message differ exactly when their change_seq differ.                    *)
(***************************************************************************)
EXTENDS Integers, FiniteSets

CONSTANTS
    MaxSeq,         \* bound: messages ever created in the room
    MaxChange,      \* bound: change_seq numbers ever allocated in the room
    PageLimit,      \* rows of a history page (the server's DefaultMessageLimit)
    ChangesLimit,   \* rows of a difference page (the client asks for 100)
    Faults          \* what the environment may do besides being slow

ASSUME BoundsAssumption == MaxSeq \in Nat /\ MaxChange \in Nat
ASSUME LimitsAssumption == PageLimit \in Nat \ {0} /\ ChangesLimit \in Nat \ {0}
\* "lost": a publish fails and nobody notices; "failure": a REST request of the timeline
\* fails; "page": one of the history does (RoomHistory); "gone": another target
\* subscribed in the same batch is answered not_found.
ASSUME FaultsAssumption == Faults \subseteq {"lost", "failure", "page", "gone"}

Seqs     == 1..MaxSeq
Changes  == 0..MaxChange        \* 0: no version at all
Versions == [Seqs -> Changes]
Nothing  == [s \in Seqs |-> 0]

VARIABLES
    rows,        \* messages.change_seq of each row, 0 while the row does not exist
    root,        \* messages.thread_root_id of each row, 0 for a post
    channel,     \* the rows whose in_channel is true
    lastSeq,     \* rooms.last_message_seq
    lastChange,  \* rooms.last_change_seq
    events,      \* committed changes the tab has not been told of yet
    conn,        \* the tab's WebSocket and its subscription to the room: down, not yet
                 \* acknowledged, or what was done when it was acknowledged
    status,      \* TimelineState.status
    held,        \* TimelineState.messages: the version held of each message
    hasOlder, hasNewer,
    cursor,      \* TimelineState.changeSeq
    paging,      \* loadingOlder / loadingNewer
    again,       \* the running synchronisation was asked for once more
    req          \* the GET /rooms/{id}/messages requests on their way

server   == <<rows, root, channel, lastSeq, lastChange>>
timeline == <<status, held, hasOlder, hasNewer, cursor, paging>>
vars     == <<rows, root, channel, lastSeq, lastChange, events, conn, status, held,
              hasOlder, hasNewer, cursor, paging, again, req>>

-----------------------------------------------------------------------------
(* What the types of the source allow. *)

Event   == [seq : Seqs, change : 1..MaxChange]
Slots   == {"open", "sync", "older", "newer", "jump"}
Query   == [by : {"latest", "changes", "before", "after", "around"}, arg : 0..(MaxSeq + MaxChange)]
Request == [stage : {"idle", "sent", "room", "page"}, query : Query, last : Changes,
            page : Versions, more : BOOLEAN, moreAfter : BOOLEAN]

Latest == [by |-> "latest", arg |-> 0]
Idle   == [stage |-> "idle", query |-> Latest, last |-> 0, page |-> Nothing,
           more |-> FALSE, moreAfter |-> FALSE]
Sent(query) == [Idle EXCEPT !.stage = "sent", !.query = query]

Busy(slot) == req[slot].stage # "idle"

\* The server sends the room's events to the tab.
Live == conn # "down"

\* Whether some target of a batch of subscriptions may be answered not_found.
Gone == IF "gone" \in Faults THEN BOOLEAN ELSE {FALSE}

TypeOK ==
    /\ rows \in Versions
    /\ root \in [Seqs -> 0..MaxSeq]
    /\ channel \in SUBSET Seqs
    /\ lastSeq \in 0..MaxSeq
    /\ lastChange \in Changes
    /\ events \in SUBSET Event
    /\ conn \in {"down", "subscribed", "synced", "dropped", "skipped"}
    /\ status \in {"none", "loading", "ready", "error"}
    /\ held \in Versions
    /\ hasOlder \in BOOLEAN
    /\ hasNewer \in BOOLEAN
    /\ cursor \in Changes
    /\ paging \in SUBSET {"older", "newer"}
    /\ again \in BOOLEAN
    /\ req \in [Slots -> Request]

Init ==
    /\ rows = Nothing
    /\ root = [s \in Seqs |-> 0]
    /\ channel = {}
    /\ lastSeq = 0
    /\ lastChange = 0
    /\ events = {}
    /\ conn = "down"
    /\ status = "none"
    /\ held = Nothing
    /\ hasOlder = FALSE
    /\ hasNewer = FALSE
    /\ cursor = 0
    /\ paging = {}
    /\ again = FALSE
    /\ req = [slot \in Slots |-> Idle]

-----------------------------------------------------------------------------
(* The server's writes.  Each is one transaction that holds the rooms row    *)
(* from the allocation to the commit, so it is one step here; its events are *)
(* published after the commit, in no particular order.                       *)

\* Mutant of Bump: a reply and its root share one number.
BumpOnce(s1, s2) ==
    /\ rows' = [s \in Seqs |-> IF s \in {s1, s2} THEN lastChange + 1 ELSE rows[s]]
    /\ lastChange' = lastChange + 1
    /\ lastChange' \in Changes
    /\ events' = events \cup {[seq |-> s, change |-> rows'[s]] : s \in {s1, s2} \ {0}}

\* s1 and then s2 get the next change_seq numbers; s2 = 0 when there is no second row.
Bump(s1, s2) ==
    /\ rows' = [s \in Seqs |-> IF s = s1 THEN lastChange + 1
                               ELSE IF s = s2 THEN lastChange + 2 ELSE rows[s]]
    /\ lastChange' = lastChange + (IF s2 = 0 THEN 1 ELSE 2)
    /\ lastChange' \in Changes
    /\ events' = events \cup {[seq |-> s, change |-> rows'[s]] : s \in {s1, s2} \ {0}}

NewRow == lastSeq + 1

\* SendMessage to the channel (and the system messages, which are numbered alike).
SendMessage ==
    /\ lastSeq < MaxSeq
    /\ lastSeq' = NewRow
    /\ channel' = channel \cup {NewRow}
    /\ Bump(NewRow, 0)
    /\ UNCHANGED <<root, conn, timeline, again, req>>

\* SendMessage with a thread_root_id: the reply takes the first number, the root
\* (whose reply count changes) the second.
SendThreadReply(top, alsoInChannel) ==
    /\ lastSeq < MaxSeq
    /\ top \in 1..lastSeq /\ root[top] = 0
    /\ lastSeq' = NewRow
    /\ root' = [root EXCEPT ![NewRow] = top]
    /\ channel' = IF alsoInChannel THEN channel \cup {NewRow} ELSE channel
    /\ Bump(NewRow, top)
    /\ UNCHANGED <<conn, timeline, again, req>>

\* EditMessage, DeleteMessage of a post, pins, reactions, previews: one number.
ChangeMessage(s) ==
    /\ s \in 1..lastSeq
    /\ Bump(s, 0)
    /\ UNCHANGED <<root, channel, lastSeq, conn, timeline, again, req>>

\* DeleteMessage of a thread reply also changes the root's reply count.
DeleteThreadReply(s) ==
    /\ s \in 1..lastSeq /\ root[s] # 0
    /\ Bump(s, root[s])
    /\ UNCHANGED <<root, channel, lastSeq, conn, timeline, again, req>>

-----------------------------------------------------------------------------
(* The server's answer to GET /rooms/{id}/messages: the rooms row first, the *)
(* messages afterwards (READ COMMITTED: a later statement sees later rows).  *)

\* T is what SELECT ... FROM S ORDER BY ... LIMIT n returns.
FirstRows(S, n, precedes(_, _), T) ==
    /\ T \subseteq S
    /\ \A t \in T, s \in S \ T : precedes(t, s)
    /\ \/ T = S  /\ Cardinality(S) <= n
       \/ T # S  /\ Cardinality(T) = n

OldestFirst(s, t) == s < t
NewestFirst(s, t) == s > t
EarliestChangeFirst(s, t) == rows[s] < rows[t]

InChannel(lo, hi) == {s \in channel : lo < s /\ s < hi}
PageOf(S) == [s \in Seqs |-> IF s \in S THEN rows[s] ELSE 0]

ReadRoomRow(slot) ==
    /\ req[slot].stage = "sent"
    /\ req' = [req EXCEPT ![slot].stage = "room", ![slot].last = lastChange]
    /\ UNCHANGED <<server, events, conn, timeline, again>>

Answer(slot, S, more, moreAfter) ==
    req' = [req EXCEPT ![slot].stage = "page", ![slot].page = PageOf(S),
                       ![slot].more = more, ![slot].moreAfter = moreAfter]

\* One row more than the limit is read to tell whether there are more.
ReadRows(slot, S, limit, precedes(_, _)) ==
    \E T \in SUBSET S : FirstRows(S, limit, precedes, T) /\ Answer(slot, T, T # S, FALSE)

\* ListMessages with one cursor or none, and with an around_message_id that names no
\* message or a deleted one (arg 0): the latest page.
ReadOneWay(slot) ==
    LET query == req[slot].query IN
    /\ req[slot].stage = "room"
    /\ \/ /\ query.by = "changes"
          /\ ReadRows(slot, {s \in Seqs : rows[s] > query.arg}, ChangesLimit, EarliestChangeFirst)
       \/ /\ query.by = "after"
          /\ ReadRows(slot, InChannel(query.arg, MaxSeq + 1), PageLimit, OldestFirst)
       \/ /\ query.by = "before"
          /\ ReadRows(slot, InChannel(0, query.arg), PageLimit, NewestFirst)
       \/ /\ query.by = "latest" \/ (query.by = "around" /\ query.arg = 0)
          /\ ReadRows(slot, channel, PageLimit, NewestFirst)
    /\ UNCHANGED <<server, events, conn, timeline, again>>

Smaller(a, b) == IF a < b THEN a ELSE b
Greater(a, b) == IF a < b THEN b ELSE a

\* messagesAround: the target, half a page before it, the rest of the page after it.
\* Its three statements are read as one: what a later one sees more is also newer than
\* the room row.
ReadAround(slot) ==
    LET target == req[slot].query.arg
        before == InChannel(0, target)
        after  == InChannel(target, MaxSeq + 1) IN
    /\ req[slot].stage = "room"
    /\ req[slot].query.by = "around" /\ target # 0
    /\ \E older \in SUBSET before, newer \in SUBSET after :
        /\ FirstRows(before, Smaller(PageLimit \div 2, PageLimit - 1), NewestFirst, older)
        /\ FirstRows(after, PageLimit - 1 - Cardinality(older), OldestFirst, newer)
        /\ Answer(slot, older \cup {target} \cup newer, older # before, newer # after)
    /\ UNCHANGED <<server, events, conn, timeline, again>>

-----------------------------------------------------------------------------
(* rules/messages.ts *)

Held(h) == {s \in Seqs : h[s] # 0}

\* Mutant of Merge: what comes in replaces what is held.
LayOver(h, page) == [s \in Seqs |-> IF page[s] # 0 THEN page[s] ELSE h[s]]

\* mergeMessages: of two versions of a message the one with the larger change_seq stays.
Merge(h, page) == [s \in Seqs |-> Greater(h[s], page[s])]

\* The part of the room that a timeline with these ends covers (mergeIntoWindow's filter).
Covers(h, older, newer, s) ==
    /\ older /\ Held(h) # {} => \E t \in Held(h) : t <= s
    /\ newer /\ Held(h) # {} => \E t \in Held(h) : s <= t

MergeIntoWindow(h, older, newer, page) ==
    [s \in Seqs |-> IF Covers(h, older, newer, s) THEN Greater(h[s], page[s]) ELSE h[s]]

\* advanceCursor: from there, over the numbers that some held message carries.
Advances(from, h, to) ==
    /\ to \in from..MaxChange
    /\ \A c \in (from + 1)..to : \E s \in Seqs : h[s] = c
    /\ ~\E s \in Seqs : h[s] = to + 1

\* Mutant of AdvanceCursor: a gap is stepped over.
AdvanceCursorToNewest(from, h) ==
    \E to \in from..MaxChange :
        /\ \A s \in Seqs : h[s] <= to
        /\ to = from \/ \E s \in Seqs : h[s] = to
        /\ cursor' = to

AdvanceCursor(from, h) == \E to \in from..MaxChange : Advances(from, h, to) /\ cursor' = to

-----------------------------------------------------------------------------
(* store/timeline.ts: syncTimeline.  One synchronisation of a room runs at a *)
(* time; a request for another one makes it run once more when it ends.      *)

\* The requests once the next syncOnce has begun, with the cursor and status it finds.
SyncOnce(requests, at, st) ==
    [requests EXCEPT !["sync"] = IF st = "ready" THEN Sent([by |-> "changes", arg |-> at]) ELSE Idle]

\* Mutant of SyncTimeline: a synchronisation that runs is taken to be enough.
SyncTimelineUnlessBusy(requests, at, st) ==
    IF Busy("sync") THEN UNCHANGED again /\ req' = requests
                    ELSE again' = FALSE /\ req' = SyncOnce(requests, at, st)

SyncTimeline(requests, at, st) ==
    IF Busy("sync") THEN again' = TRUE /\ req' = requests
                    ELSE again' = FALSE /\ req' = SyncOnce(requests, at, st)

\* Mutant of SyncEnds: the request for another round is forgotten.
SyncEndsAtOnce(at, st) == again' = FALSE /\ req' = [req EXCEPT !["sync"] = Idle]

\* The end of one syncOnce: the do-while goes round once more when it was asked to.
SyncEnds(at, st) ==
    /\ again' = FALSE
    /\ req' = IF again THEN SyncOnce(req, at, st) ELSE [req EXCEPT !["sync"] = Idle]

SyncAnswered(by) == req["sync"].stage = "page" /\ req["sync"].query.by = by

\* Mutant of SyncChanges: a first page is taken for the whole difference.
SyncFirstChanges ==
    LET answer == req["sync"] IN
    /\ SyncAnswered("changes")
    /\ held' = MergeIntoWindow(held, hasOlder, hasNewer, answer.page)
    /\ AdvanceCursor(Greater(cursor, answer.last), held')
    /\ SyncEnds(cursor', status)
    /\ UNCHANGED <<server, events, conn, status, hasOlder, hasNewer, paging>>

\* The difference fits in one page: lay it over the window.
SyncChanges ==
    LET answer == req["sync"] IN
    /\ SyncAnswered("changes") /\ ~answer.more
    /\ held' = MergeIntoWindow(held, hasOlder, hasNewer, answer.page)
    /\ AdvanceCursor(Greater(cursor, answer.last), held')
    /\ SyncEnds(cursor', status)
    /\ UNCHANGED <<server, events, conn, status, hasOlder, hasNewer, paging>>

\* More than a page behind: ask for the latest page instead.
SyncTooFarBehind ==
    /\ SyncAnswered("changes") /\ req["sync"].more
    /\ req' = [req EXCEPT !["sync"] = Sent(Latest)]
    /\ UNCHANGED <<server, events, conn, timeline, again>>

\* Mutant of SyncLatest: what arrived since the page was read is given up.
SyncLatestAlone ==
    LET answer == req["sync"] IN
    /\ SyncAnswered("latest")
    /\ held' = answer.page
    /\ hasOlder' = answer.more
    /\ hasNewer' = FALSE
    /\ AdvanceCursor(answer.last, held')
    /\ SyncEnds(cursor', status)
    /\ UNCHANGED <<server, events, conn, status, paging>>

\* The latest page replaces the window; what arrived since it was read stays.
SyncLatest ==
    LET answer  == req["sync"]
        arrived == [s \in Seqs |-> IF held[s] > answer.last THEN held[s] ELSE 0] IN
    /\ SyncAnswered("latest")
    /\ held' = MergeIntoWindow(answer.page, answer.more, FALSE, arrived)
    /\ hasOlder' = answer.more
    /\ hasNewer' = FALSE
    /\ AdvanceCursor(answer.last, held')
    /\ SyncEnds(cursor', status)
    /\ UNCHANGED <<server, events, conn, status, paging>>

\* The request fails: the loop is left, a request for another round is forgotten.
SyncFails ==
    /\ "failure" \in Faults /\ Busy("sync")
    /\ again' = FALSE
    /\ req' = [req EXCEPT !["sync"] = Idle]
    /\ status' \in {status, "error"}
    /\ UNCHANGED <<server, events, conn, held, hasOlder, hasNewer, cursor, paging>>

-----------------------------------------------------------------------------
(* store/timeline.ts: openRoom, receiveMessage *)

\* The room is not in the store: empty timeline, fetch the latest page.
OpenRoom ==
    /\ status \in {"none", "error"} /\ ~Busy("open")
    /\ status' = "loading"
    /\ held' = Nothing
    /\ hasOlder' = FALSE /\ hasNewer' = FALSE
    /\ cursor' = 0
    /\ paging' = {}
    /\ req' = [req EXCEPT !["open"] = Sent(Latest)]
    /\ UNCHANGED <<server, events, conn, again>>

OpenRoomAnswered ==
    LET answer  == req["open"]
        arrived == [s \in Seqs |-> IF held[s] > answer.last THEN held[s] ELSE 0] IN
    /\ answer.stage = "page"
    /\ status' = "ready"
    /\ held' = MergeIntoWindow(answer.page, answer.more, FALSE, arrived)
    /\ hasOlder' = answer.more /\ hasNewer' = FALSE
    /\ AdvanceCursor(answer.last, held')
    /\ paging' = {}
    /\ req' = [req EXCEPT !["open"] = Idle]
    /\ UNCHANGED <<server, events, conn, again>>

OpenRoomFails ==
    /\ "failure" \in Faults /\ Busy("open")
    /\ status' = "error"
    /\ req' = [req EXCEPT !["open"] = Idle]
    /\ UNCHANGED <<server, events, conn, held, hasOlder, hasNewer, cursor, paging, again>>

\* The room is in the store: GET /rooms/{id}, then only the difference.
ReopenRoom ==
    /\ status = "ready"
    /\ \/ /\ SyncTimeline(req, cursor, status)
          /\ UNCHANGED status
       \/ /\ "failure" \in Faults
          /\ status' = "error"
          /\ UNCHANGED <<again, req>>
    /\ UNCHANGED <<server, events, conn, held, hasOlder, hasNewer, cursor, paging>>

\* While the room is opening: keep what arrives, whatever part of the room it is in.
ReceiveWhileLoading(e) ==
    /\ status = "loading"
    /\ held' = [held EXCEPT ![e.seq] = Greater(@, e.change)]
    /\ UNCHANGED <<cursor, again, req>>

EventVersions(e) == [Nothing EXCEPT ![e.seq] = e.change]

ReceiveNews(e) ==
    /\ status = "ready" /\ e.change > cursor
    /\ held' = MergeIntoWindow(held, hasOlder, hasNewer, EventVersions(e))
    /\ AdvanceCursor(IF e.change = cursor + 1 THEN e.change ELSE cursor, held')
    /\ IF e.change > cursor + 1 /\ cursor' < e.change
         THEN SyncTimeline(req, cursor', status)
         ELSE UNCHANGED <<again, req>>

ReceiveNothing(e) ==
    /\ status \in {"none", "error"} \/ (status = "ready" /\ e.change <= cursor)
    /\ UNCHANGED <<held, cursor, again, req>>

\* receiveMessage, for an event or for the response of a write of this tab (which
\* comes whatever the connection does, and in addition to the event).
Receive(e, alsoLater) ==
    /\ e \in events
    /\ events' = IF alsoLater THEN events ELSE events \ {e}
    /\ ReceiveWhileLoading(e) \/ ReceiveNews(e) \/ ReceiveNothing(e)
    /\ UNCHANGED <<server, conn, status, hasOlder, hasNewer, paging>>

-----------------------------------------------------------------------------
(* realtime/subscriptions.ts: the connection, the subscription, the resync   *)

\* An event published while the tab is not subscribed goes nowhere.
Miss(e) ==
    /\ e \in events
    /\ ~Live \/ "lost" \in Faults
    /\ events' = events \ {e}
    /\ UNCHANGED <<server, conn, timeline, again, req>>

Disconnect ==
    /\ Live
    /\ conn' = "down"
    /\ UNCHANGED <<server, events, timeline, again, req>>

\* The connection is open again and the server has subscribed it to the room.
Subscribe ==
    /\ conn = "down"
    /\ conn' = "subscribed"
    /\ UNCHANGED <<server, events, timeline, again, req>>

\* The acks of the whole batch are in.  The rooms that it subscribed are resynced unless
\* some target of the batch was not_found ("dropped"); a timeline that is not ready is
\* passed over, which matters when it is being loaded ("skipped").
BatchAcked(gone) ==
    LET resync == ~gone /\ status = "ready" IN
    /\ conn = "subscribed"
    /\ conn' = CASE gone -> "dropped" [] ~gone /\ status = "loading" -> "skipped" [] OTHER -> "synced"
    /\ IF resync THEN SyncTimeline(req, cursor, status) ELSE UNCHANGED <<again, req>>
    /\ UNCHANGED <<server, events, timeline>>

-----------------------------------------------------------------------------
(* The system without history paging (RoomHistory adds it). *)

Write ==
    \/ SendMessage
    \/ \E top \in Seqs, also \in BOOLEAN : SendThreadReply(top, also)
    \/ \E s \in Seqs : ChangeMessage(s) \/ DeleteThreadReply(s)

Serve == \E slot \in Slots : ReadRoomRow(slot) \/ ReadOneWay(slot) \/ ReadAround(slot)

Synchronise == SyncChanges \/ SyncTooFarBehind \/ SyncLatest

Open == OpenRoom \/ OpenRoomAnswered \/ ReopenRoom

Network ==
    \/ \E e \in events : Miss(e) \/ \E alsoLater \in BOOLEAN : Receive(e, alsoLater)
    \/ Disconnect \/ Subscribe \/ \E gone \in Gone : BatchAcked(gone)

Next == Write \/ Serve \/ Synchronise \/ SyncFails \/ Open \/ OpenRoomFails \/ Network

Spec == Init /\ [][Next]_vars

\* What the tab and the server get round to: answering requests, taking in answers
\* and events, subscribing again.  Writes, opening a room, losses and disconnections
\* are never forced.
Fairness ==
    /\ WF_vars(Serve)
    /\ WF_vars(Synchronise)
    /\ WF_vars(OpenRoomAnswered)
    /\ WF_vars(\E e \in events : Receive(e, FALSE))
    /\ WF_vars(Subscribe)
    /\ WF_vars(\E gone \in Gone : BatchAcked(gone))

FairSpec == Spec /\ Fairness

-----------------------------------------------------------------------------
(* What the tab may rely on. *)

\* Every message of the channel that a window covers is held in its present version,
\* as far as the changes up to a number go.
UpToDate(h, older, newer, upTo) ==
    \A s \in channel : rows[s] <= upTo /\ Covers(h, older, newer, s) => h[s] = rows[s]

\* docs/events.md ("at or below the cursor: already reflected"): whatever the window
\* covers and the cursor claims is held in the version of the database, although pages,
\* differences and events overtake one another.
CursorSound == status = "ready" => UpToDate(held, hasOlder, hasNewer, cursor)

\* The versions h were written to these messages: none is ahead of its row, none is
\* the present version of another message.
Genuine(h) ==
    \A s \in Seqs : h[s] # 0 => h[s] <= rows[s] /\ \A t \in Seqs \ {s} : rows[t] # h[s]

\* The merges of pages, differences and events (mergeMessages, mergeIntoWindow) never
\* show a version that was not written to its message, and the cursor never claims a
\* number that the room has not allocated.
NothingInvented == Genuine(held) /\ cursor <= lastChange

\* Nothing is on its way to the tab and the tab has asked for nothing.
Quiet == events = {} /\ ~Busy("open") /\ ~Busy("sync") /\ status = "ready"

AllShown == UpToDate(held, hasOlder, hasNewer, lastChange)

\* ADR 0026 (after the ack of a new subscription, fetch again): once the difference is
\* fetched the tab is not behind; nothing it missed while it was away stays unnoticed.
ResyncedWhenQuiet == Quiet /\ conn = "synced" => AllShown

\* ADR 0026, the same for the first connection: the room was still being loaded when
\* its subscription was acknowledged.
LoadedWhenQuiet == Quiet /\ conn = "skipped" => AllShown

\* ADR 0026, the same for a reconnection: another target of the batch was not_found.
BatchWhenQuiet == Quiet /\ conn = "dropped" => AllShown

\* docs/events.md ("cursor + 2 or above: the events between were lost, fetch the
\* difference"): a tab at rest that shows a version has everything written before it.
GapFetched ==
    Quiet /\ conn = "synced" =>
        \A t \in Held(held) : UpToDate(held, hasOlder, hasNewer, held[t])

NoneOlder ==
    \A s \in Seqs : held[s] # 0 /\ held'[s] # 0 /\ status = status' => held[s] <= held'[s]

\* rules/messages.ts:20 ("a page and an event that overtake each other never put an older
\* content back"): a message on the screen never returns to an older version.
NoOlderVersion == [][NoneOlder]_vars

\* ADR 0014 and 0026: a tab that stays connected, resynced and ready ends up showing
\* what was written, however its requests and the events interleave.
Converges == <>[](conn = "synced" /\ status = "ready") => <>[]AllShown

-----------------------------------------------------------------------------
(* Why CursorSound holds: its inductive strengthening. *)

\* ADR 0014: the numbers have no duplicates, and none is ahead of the room's counter.
Numbered ==
    /\ \A s \in Seqs : rows[s] <= lastChange
    /\ \A s, t \in Seqs : rows[s] = rows[t] /\ rows[s] # 0 => s = t
    /\ \A s \in channel : rows[s] # 0

\* Answers and events carry versions of their messages, the room row was read first.
Carried ==
    /\ \A e \in events : Genuine(EventVersions(e))
    /\ \A slot \in Slots : Genuine(req[slot].page) /\ req[slot].last <= lastChange

\* A latest page on its way is a window that is up to date to its last_change_seq.
PagesSound ==
    /\ req["open"].query = Latest
    /\ req["sync"].query.by \in {"latest", "changes"}
    /\ \A slot \in {"open", "sync"} :
        req[slot].stage = "page" /\ req[slot].query.by = "latest" =>
            UpToDate(req[slot].page, req[slot].more, FALSE, req[slot].last)

\* A difference on its way was asked for from the cursor or from below it, also when the
\* room is opened anew meanwhile, and has all that changed from there.
DifferenceSound ==
    LET answer == req["sync"]
        from   == answer.query.arg IN
    answer.query.by = "changes" =>
        /\ from <= lastChange
        /\ status = "ready" => from <= cursor
        /\ req["open"].stage \in {"room", "page"} => from <= req["open"].last
        /\ answer.stage = "page" /\ ~answer.more =>
            \A s \in Seqs : from < rows[s] /\ rows[s] <= answer.last => answer.page[s] = rows[s]

\* Inductive whatever the tab does: what is held and what is on its way was written.
WrittenInv == Numbered /\ Carried /\ NothingInvented

\* Inductive together with it: what the pages and the difference under way know.
PagesInv ==
    /\ PagesSound /\ DifferenceSound
    /\ ~hasNewer
    /\ Busy("open") => status # "ready"

\* Inductive: what the numbering of the server (message.go, rooms.sql), the pages and
\* the requests under way guarantee together, so that the cursor may be trusted.
CursorInv == WrittenInv /\ PagesInv /\ CursorSound

-----------------------------------------------------------------------------
(* Why ResyncedWhenQuiet holds when no publish is lost and no request fails: *)
(* its inductive strengthening.                                              *)

\* The present version of a message is on its way to the tab.
Due(s) == [seq |-> s, change |-> rows[s]] \in events

InWindow(s)     == Covers(held, hasOlder, hasNewer, s)
InPage(slot, s) == Covers(req[slot].page, req[slot].more, FALSE, s)

LatestRead(slot) == req[slot].stage = "page" /\ req[slot].query.by = "latest"

\* Without failures a tab opens its room once, synchronises only what is open, and does
\* not keep a request for another round beyond the round that runs.
OneAtATime ==
    /\ status \in {"none", "loading", "ready"}
    /\ status = "loading" <=> Busy("open")
    /\ Busy("sync") => status = "ready"
    /\ again => Busy("sync")

\* The rows are numbered from below, so a new one is above every window.
RowsBelow ==
    /\ \A s \in channel : s <= lastSeq
    /\ \A s \in Seqs : rows[s] # 0 => s <= lastSeq
    /\ \A s \in Seqs : root[s] <= lastSeq

\* A window with an open older end reaches over a whole page of the channel.
Wide(h, older) ==
    older => \E T \in SUBSET channel :
        /\ Cardinality(T) = PageLimit
        /\ \A t \in T : \E u \in Held(h) : u <= t

\* That is why a latest page that replaces a window never covers more than it does: an
\* event that was dropped as out of the window is not missed afterwards.
PageWithin ==
    /\ status = "ready" => Wide(held, hasOlder)
    /\ \A slot \in {"open", "sync"} : LatestRead(slot) => Wide(req[slot].page, req[slot].more)
    /\ LatestRead("sync") => \A s \in channel : InPage("sync", s) => InWindow(s)

\* A latest page on its way shows the present versions, or they are on their way too, or
\* have arrived and are laid over it.
PageComplete(slot) ==
    \A s \in channel : InPage(slot, s) =>
        req[slot].page[s] = rows[s] \/ held[s] = rows[s] \/ Due(s)

PagesComplete ==
    conn = "synced" =>
        /\ LatestRead("open") => PageComplete("open")
        /\ LatestRead("sync") /\ ~again => PageComplete("sync")

\* The running synchronisation will show the present version of a message.
Fetching(s) ==
    LET answer == req["sync"] IN
    \/ answer.stage \in {"sent", "room"}
    \/ answer.stage = "page" /\ (answer.query.by = "latest" \/ answer.more \/ answer.page[s] = rows[s])

\* What the window covers is shown, on its way or being fetched.
NothingForgotten ==
    conn = "synced" /\ status = "ready" =>
        again \/ \A s \in channel : InWindow(s) => held[s] = rows[s] \/ Due(s) \/ Fetching(s)

\* Inductive together with CursorInv (syncTimeline, openRoom and receiveMessage against
\* the resync after an acknowledgement).
ResyncInv == OneAtATime /\ RowsBelow /\ PageWithin /\ PagesComplete /\ NothingForgotten

============================================================================
