----------------------------- MODULE RoomHistory -----------------------------
(***************************************************************************)
(* The timeline of RoomTimeline whose user also reads the history:         *)
(* web/lib/chat/store/history.ts loads older and newer pages at the ends   *)
(* of the window and replaces the window to jump to a message or to the    *)
(* first unread one (ADR 0042).  The pages and the jumps are requests that *)
(* overlap one another, the synchronisation and the events.                *)
(***************************************************************************)
EXTENDS RoomTimeline

\* What the user does.  At most one request of each kind is under way at a time.  (The
\* code allows a second jump before the first has answered, and a second older or newer
\* page after a jump has reset the loading flags.)
CONSTANT Paging
ASSUME PagingAssumption == Paging \subseteq {"older", "newer", "jump", "unread"}

EndOf(h, s, before(_, _)) == s \in Held(h) /\ \A t \in Held(h) \ {s} : before(s, t)

\* Mutant of LoadOlder: the page starts one message too far back.
LoadOlderPastOne ==
    /\ "older" \in Paging
    /\ status = "ready" /\ hasOlder /\ "older" \notin paging
    /\ ~Busy("older")
    /\ \E oldest \in Seqs :
        /\ EndOf(held, oldest, <)
        /\ req' = [req EXCEPT !["older"] = Sent([by |-> "before", arg |-> oldest - 1])]
    /\ paging' = paging \cup {"older"}
    /\ UNCHANGED <<server, events, conn, status, held, hasOlder, hasNewer, cursor, again>>

\* loadOlder: the page before the oldest message held.
LoadOlder ==
    /\ "older" \in Paging
    /\ status = "ready" /\ hasOlder /\ "older" \notin paging
    /\ ~Busy("older")
    /\ \E oldest \in Seqs :
        /\ EndOf(held, oldest, <)
        /\ req' = [req EXCEPT !["older"] = Sent([by |-> "before", arg |-> oldest])]
    /\ paging' = paging \cup {"older"}
    /\ UNCHANGED <<server, events, conn, status, held, hasOlder, hasNewer, cursor, again>>

\* Its answer is added to whatever the window is by now.
OlderLoaded ==
    LET answer == req["older"] IN
    /\ answer.stage = "page"
    /\ held' = Merge(held, answer.page)
    /\ hasOlder' = answer.more
    /\ paging' = paging \ {"older"}
    /\ req' = [req EXCEPT !["older"] = Idle]
    /\ UNCHANGED <<server, events, conn, status, hasNewer, cursor, again>>

\* loadNewer: the page after the newest message held, while the window is open there.
LoadNewer ==
    /\ "newer" \in Paging
    /\ status = "ready" /\ hasNewer /\ "newer" \notin paging
    /\ ~Busy("newer")
    /\ \E newest \in Seqs :
        /\ EndOf(held, newest, >)
        /\ req' = [req EXCEPT !["newer"] = Sent([by |-> "after", arg |-> newest])]
    /\ paging' = paging \cup {"newer"}
    /\ UNCHANGED <<server, events, conn, status, held, hasOlder, hasNewer, cursor, again>>

\* Its answer; once the window reaches the newest message the difference is fetched.
NewerLoaded ==
    LET answer == req["newer"]
        closed == [req EXCEPT !["newer"] = Idle] IN
    /\ answer.stage = "page"
    /\ held' = Merge(held, answer.page)
    /\ hasNewer' = answer.more
    /\ paging' = paging \ {"newer"}
    /\ AdvanceCursor(cursor, held')
    /\ IF answer.more THEN req' = closed /\ UNCHANGED again
                      ELSE SyncTimeline(closed, cursor', status)
    /\ UNCHANGED <<server, events, conn, status, hasOlder>>

\* jumpToMessage, once the room is open; target 0 is a message that is not there.
JumpToMessage(target) ==
    /\ "jump" \in Paging
    /\ status = "ready" /\ ~Busy("open") /\ ~Busy("jump")
    /\ target \in 0..lastSeq
    /\ req' = [req EXCEPT !["jump"] = Sent([by |-> "around", arg |-> target])]
    /\ UNCHANGED <<server, events, conn, timeline, again>>

\* jumpToUnread: the page after unreadAfterSeq, some read position before the window
\* (room-view.tsx offers it only then).
JumpToUnread(unreadAfter) ==
    /\ "unread" \in Paging
    /\ status = "ready" /\ ~Busy("jump")
    /\ hasOlder /\ Held(held) # {} /\ \A s \in Held(held) : unreadAfter < s
    /\ req' = [req EXCEPT !["jump"] = Sent([by |-> "after", arg |-> unreadAfter])]
    /\ UNCHANGED <<server, events, conn, timeline, again>>

\* replaceWindow: the page is the window, the cursor does not go back.
ReplaceWindow ==
    LET answer == req["jump"]
        unread == answer.query.by = "after" IN
    /\ answer.stage = "page"
    /\ status' = "ready"
    /\ held' = answer.page
    /\ hasOlder' = IF unread THEN answer.query.arg > 0 ELSE answer.more
    /\ hasNewer' = IF unread THEN answer.more ELSE answer.moreAfter
    /\ paging' = {}
    /\ AdvanceCursor(Greater(cursor, answer.last), held')
    /\ req' = [req EXCEPT !["jump"] = Idle]
    /\ UNCHANGED <<server, events, conn, again>>

\* Mutant of HistoryFails: the loading flag stays set.
HistoryFailsLoading(slot) ==
    /\ "page" \in Faults
    /\ Busy(slot)
    /\ req' = [req EXCEPT ![slot] = Idle]
    /\ UNCHANGED <<server, events, conn, timeline, again>>

\* A page or a jump fails: its loading flag is cleared, the window stays.
HistoryFails(slot) ==
    /\ "page" \in Faults
    /\ Busy(slot)
    /\ req' = [req EXCEPT ![slot] = Idle]
    /\ paging' = paging \ {slot}
    /\ UNCHANGED <<server, events, conn, status, held, hasOlder, hasNewer, cursor, again>>

-----------------------------------------------------------------------------

ReadHistory ==
    \/ LoadOlder \/ OlderLoaded
    \/ LoadNewer \/ NewerLoaded
    \/ \E s \in 0..MaxSeq : JumpToMessage(s) \/ JumpToUnread(s)
    \/ ReplaceWindow
    \/ \E slot \in {"older", "newer", "jump"} : HistoryFails(slot)

HistoryNext == Next \/ ReadHistory

HistorySpec == Init /\ [][HistoryNext]_vars

-----------------------------------------------------------------------------
(* What the reader of the history may rely on. *)

AtRest == Quiet /\ conn = "synced" /\ \A slot \in Slots : ~Busy(slot)

\* rules/messages.ts:49 (no hole in the middle of the window, which the next page would
\* skip): at rest every message of the channel that the window covers is held.
NoHole ==
    AtRest => \A s \in channel : Covers(held, hasOlder, hasNewer, s) => held[s] # 0

\* history.ts:116 ("fetch again what was dropped meanwhile"): a window that reaches the
\* newest message misses none of the messages after the oldest one it holds.
ReachesNewest ==
    AtRest /\ ~hasNewer =>
        \A s \in channel : (\E t \in Held(held) : t <= s) => held[s] # 0

\* loadingOlder and loadingNewer block the next page, so they are set only while the
\* request that clears them is on its way, whatever jumps and failures come between.
LoadingEnds == \A slot \in paging : Busy(slot)

\* The promise of rules/messages.ts:20 with everything a reader of the history does: only
\* replaceWindow, which takes its page as it is, puts an older version back.
OnlyJumpsGoBack == [][ReplaceWindow \/ NoneOlder]_vars

-----------------------------------------------------------------------------
(* Why OnlyJumpsGoBack holds: its inductive strengthening. *)

\* The versions of a message that the tab holds, will be told of or has asked for.
Versioned(s) ==
    {rows[s], held[s]} \cup {e.change : e \in {e \in events : e.seq = s}}
                       \cup {req[slot].page[s] : slot \in Slots}

\* Inductive: a version that is newer than the one a page carries is newer than all the
\* page speaks for (change_seq and last_change_seq of ListMessages), so whoever lays
\* aside what is above last_change_seq puts nothing older in its place.
OvertakenInv ==
    /\ \A slot \in Slots : req[slot].last <= lastChange
    /\ \A s \in Seqs : rows[s] <= lastChange
    /\ \A s \in Seqs : \A v \in Versioned(s) :
        /\ v <= rows[s]
        /\ \A slot \in Slots :
            req[slot].stage = "page" /\ req[slot].page[s] # 0 => v <= req[slot].page[s] \/ req[slot].last < v

-----------------------------------------------------------------------------
(* Why NoHole holds for a user who pages back: its inductive strengthening.  *)

\* The exception (history.ts:143): the latest page replaces the window while an older
\* page, which starts where the replaced window did, is on its way.
Undisturbed == SyncLatest => ~Busy("older")

\* What is missing: a message that the window covers and does not hold.
Missing(s) == InWindow(s) /\ held[s] = 0

\* Neither an answer nor the database lets the cursor pass a message that is missing.
MissingAhead == status = "ready" => \A s \in channel : Missing(s) => rows[s] > cursor

\* A message that a latest page leaves out was posted after the page's room row was read.
LeftOutIsNew ==
    \A slot \in {"open", "sync"} : LatestRead(slot) =>
        \A s \in channel : InPage(slot, s) /\ req[slot].page[s] = 0 =>
            \A v \in Versioned(s) : v # 0 => req[slot].last < v

\* What a page leaves out is held or on its way, or a resync is going to fetch it.
LeftOutIsDue(slot) ==
    LatestRead(slot) =>
        \A s \in channel : InPage(slot, s) => req[slot].page[s] # 0 \/ held[s] # 0 \/ Due(s)

\* The running synchronisation will show some version of a message.
Found(s) ==
    LET answer == req["sync"] IN
    \/ answer.stage \in {"sent", "room"}
    \/ answer.stage = "page" /\ (answer.query.by = "latest" \/ answer.more \/ answer.page[s] # 0)

NothingMissed ==
    status = "ready" => again \/ \A s \in channel : Missing(s) => Due(s) \/ Found(s)

MissingIsDue ==
    conn = "synced" =>
        /\ LeftOutIsDue("open")
        /\ again \/ LeftOutIsDue("sync")
        /\ NothingMissed

\* An older page fits the window that it is going to be added to.
OlderFits ==
    LET answer == req["older"] IN
    Busy("older") =>
        /\ status = "ready" /\ hasOlder
        /\ answer.query.by = "before"
        /\ answer.query.arg \in Held(held) /\ \A t \in Held(held) : answer.query.arg <= t
        /\ answer.stage = "page" =>
            /\ answer.more => Held(answer.page) # {}
            /\ \A s \in channel :
                s < answer.query.arg /\ Covers(answer.page, answer.more, FALSE, s) => answer.page[s] # 0

\* Inductive where no publish is lost, no request of the timeline fails and nobody jumps:
\* the layers of CursorInv and the parts of ResyncInv that an older page, which may show
\* old versions, leaves as they are, and for the rest "held" in place of "up to date".
HoleInv ==
    /\ WrittenInv /\ PagesInv
    /\ ~Busy("newer") /\ ~Busy("jump")
    /\ OneAtATime /\ RowsBelow /\ PageWithin
    /\ MissingAhead /\ LeftOutIsNew /\ MissingIsDue /\ OlderFits

=============================================================================
