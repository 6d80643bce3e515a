------------------------- MODULE RoomTimelineProofs -------------------------
(***************************************************************************)
(* Proofs about RoomTimeline for every number of messages and changes and  *)
(* every page size: the types; that the cursor of a timeline may be        *)
(* trusted whatever is lost or fails (CursorInv is inductive); and that a  *)
(* tab that was resynced and is at rest shows what was written (ResyncInv  *)
(* is), where no publish is lost and no request fails.  The server's       *)
(* writes keep what windows and pages know, because they only give out     *)
(* numbers above all of it; a merge keeps a window sound, because genuine  *)
(* versions never pass their row; the cursor advances over a number only   *)
(* when the message that has it is held.  And proofs about RoomHistory:    *)
(* its types and loading flags; that nothing is shown that was not written *)
(* (WrittenInv, the layer of CursorInv that every paging leaves as it is); *)
(* that only a jump puts an older version back (OvertakenInv is            *)
(* inductive); and that a user who only pages back gets no hole (HoleInv), *)
(* unless the latest page replaces the window under an older page.         *)
(***************************************************************************)
EXTENDS RoomHistory, FiniteSetTheorems, TLAPS

-----------------------------------------------------------------------------
(* The operators of the model have the types their uses need. *)

LEMMA MergeType ==
    ASSUME NEW h \in Versions, NEW p \in Versions, NEW older, NEW newer
    PROVE  MergeIntoWindow(h, older, newer, p) \in Versions
BY DEF MergeIntoWindow, Versions, Changes, Greater

LEMMA PageType ==
    ASSUME rows \in Versions, NEW S
    PROVE  PageOf(S) \in Versions
BY BoundsAssumption DEF PageOf, Versions, Changes

LEMMA NothingType == Nothing \in Versions /\ 0 \in Changes
BY BoundsAssumption DEF Nothing, Versions, Changes

LEMMA IdleType == Idle \in Request
BY BoundsAssumption DEF Idle, Request, Latest, Query, Versions, Changes, Nothing

LEMMA SentType ==
    ASSUME NEW query \in Query
    PROVE  Sent(query) \in Request
BY IdleType DEF Sent, Request, Idle, Latest

LEMMA LatestType == Latest \in Query
BY BoundsAssumption DEF Latest, Query

LEMMA ChangesQueryType ==
    ASSUME NEW at \in Changes
    PROVE  [by |-> "changes", arg |-> at] \in Query
BY BoundsAssumption DEF Query, Changes

LEMMA RequestsType ==
    ASSUME NEW r \in [Slots -> Request], NEW slot \in Slots, NEW q \in Request
    PROVE  [r EXCEPT ![slot] = q] \in [Slots -> Request]
OBVIOUS

LEMMA SyncOnceType ==
    ASSUME NEW r \in [Slots -> Request], NEW at \in Changes, NEW st
    PROVE  SyncOnce(r, at, st) \in [Slots -> Request]
BY RequestsType, IdleType, SentType, ChangesQueryType DEF SyncOnce, Slots

LEMMA SyncTimelineType ==
    ASSUME NEW r \in [Slots -> Request], NEW at \in Changes, NEW st,
           SyncTimeline(r, at, st)
    PROVE  /\ again' \in BOOLEAN
           /\ req' \in [Slots -> Request]
BY SyncOnceType DEF SyncTimeline

LEMMA SyncEndsType ==
    ASSUME req \in [Slots -> Request], NEW at \in Changes, NEW st, SyncEnds(at, st)
    PROVE  /\ again' \in BOOLEAN
           /\ req' \in [Slots -> Request]
BY SyncOnceType, IdleType, RequestsType DEF SyncEnds, Slots

LEMMA AdvanceType ==
    ASSUME NEW from \in Changes, NEW h, AdvanceCursor(from, h)
    PROVE  cursor' \in Changes /\ from <= cursor'
BY BoundsAssumption DEF AdvanceCursor, Advances, Changes

LEMMA BumpType ==
    ASSUME TypeOK, NEW s1, NEW s2, s1 \in Seqs, s2 \in 0..MaxSeq, Bump(s1, s2)
    PROVE  rows' \in Versions /\ lastChange' \in Changes /\ events' \in SUBSET Event
<1> USE BoundsAssumption
<1>1. lastChange \in Changes /\ lastChange' \in Changes /\ lastChange' >= lastChange + 1
      /\ (s2 # 0 => lastChange' = lastChange + 2)
  BY DEF TypeOK, Bump, Changes
<1>2. rows' \in Versions
  BY <1>1 DEF TypeOK, Bump, Changes, Versions, Seqs
<1>3. \A s \in {s1, s2} \ {0} : s \in Seqs /\ rows'[s] \in 1..MaxChange
  BY <1>1 DEF TypeOK, Bump, Changes, Versions, Seqs
<1>4. events' \in SUBSET Event
  BY <1>3 DEF TypeOK, Bump, Event
<1> QED BY <1>1, <1>2, <1>4

LEMMA AnswerType ==
    ASSUME TypeOK, NEW slot \in Slots, NEW S, NEW more \in BOOLEAN, NEW moreAfter \in BOOLEAN,
           Answer(slot, S, more, moreAfter)
    PROVE  req' \in [Slots -> Request]
<1>1. rows \in Versions /\ req \in [Slots -> Request]
  BY DEF TypeOK
<1>2. PageOf(S) \in Versions
  BY <1>1, PageType
<1>3. [req[slot] EXCEPT !.stage = "page", !.page = PageOf(S), !.more = more, !.moreAfter = moreAfter] \in Request
  BY <1>1, <1>2 DEF Request
<1>4. req' = [req EXCEPT ![slot] = [req[slot] EXCEPT !.stage = "page", !.page = PageOf(S),
                                     !.more = more, !.moreAfter = moreAfter]]
  BY <1>1 DEF Answer, Request
<1> QED BY <1>1, <1>3, <1>4, RequestsType

-----------------------------------------------------------------------------
(* Every step keeps the types. *)

LEMMA InitType == Init => TypeOK
<1> SUFFICES ASSUME Init PROVE TypeOK
  OBVIOUS
<1>1. req \in [Slots -> Request]
  BY IdleType DEF Init
<1>2. root \in [Seqs -> 0..MaxSeq] /\ lastSeq \in 0..MaxSeq
  BY BoundsAssumption DEF Init
<1> QED BY <1>1, <1>2, NothingType DEF Init, TypeOK

LEMMA WriteType == ASSUME TypeOK, Write PROVE TypeOK'
<1> USE BoundsAssumption
<1>1. ASSUME SendMessage PROVE TypeOK'
  <2>1. NewRow \in Seqs /\ 0 \in 0..MaxSeq
    BY <1>1 DEF SendMessage, NewRow, TypeOK, Seqs
  <2>2. rows' \in Versions /\ lastChange' \in Changes /\ events' \in SUBSET Event
    BY <1>1, <2>1, BumpType DEF SendMessage
  <2> QED BY <1>1, <2>1, <2>2 DEF SendMessage, NewRow, TypeOK, timeline, Seqs
<1>2. ASSUME NEW top \in Seqs, NEW also \in BOOLEAN, SendThreadReply(top, also) PROVE TypeOK'
  <2>1. NewRow \in Seqs /\ top \in 0..MaxSeq
    BY <1>2 DEF SendThreadReply, NewRow, TypeOK, Seqs
  <2>2. rows' \in Versions /\ lastChange' \in Changes /\ events' \in SUBSET Event
    BY <1>2, <2>1, BumpType DEF SendThreadReply
  <2>3. root' \in [Seqs -> 0..MaxSeq] /\ channel' \in SUBSET Seqs /\ lastSeq' \in 0..MaxSeq
    BY <1>2, <2>1 DEF SendThreadReply, NewRow, TypeOK, Seqs
  <2> QED BY <1>2, <2>2, <2>3 DEF SendThreadReply, TypeOK, timeline
<1>3. ASSUME NEW s \in Seqs, ChangeMessage(s) PROVE TypeOK'
  <2>1. rows' \in Versions /\ lastChange' \in Changes /\ events' \in SUBSET Event
    BY <1>3, BumpType DEF ChangeMessage
  <2> QED BY <1>3, <2>1 DEF ChangeMessage, TypeOK, timeline
<1>4. ASSUME NEW s \in Seqs, DeleteThreadReply(s) PROVE TypeOK'
  <2>1. root[s] \in 0..MaxSeq
    BY DEF TypeOK
  <2>2. rows' \in Versions /\ lastChange' \in Changes /\ events' \in SUBSET Event
    BY <1>4, <2>1, BumpType DEF DeleteThreadReply
  <2> QED BY <1>4, <2>2 DEF DeleteThreadReply, TypeOK, timeline
<1> QED BY <1>1, <1>2, <1>3, <1>4 DEF Write

LEMMA ServeType == ASSUME TypeOK, Serve PROVE TypeOK'
<1>1. ASSUME NEW slot \in Slots, ReadRoomRow(slot) PROVE req' \in [Slots -> Request]
  <2>1. [req[slot] EXCEPT !.stage = "room", !.last = lastChange] \in Request
    BY DEF TypeOK, Request
  <2>2. req' = [req EXCEPT ![slot] = [req[slot] EXCEPT !.stage = "room", !.last = lastChange]]
    BY <1>1 DEF ReadRoomRow, TypeOK, Request
  <2> QED BY <2>1, <2>2, RequestsType DEF TypeOK
<1>2. ASSUME NEW slot \in Slots, ReadOneWay(slot) PROVE req' \in [Slots -> Request]
  BY <1>2, AnswerType DEF ReadOneWay, ReadRows
<1>3. ASSUME NEW slot \in Slots, ReadAround(slot) PROVE req' \in [Slots -> Request]
  BY <1>3, AnswerType DEF ReadAround
<1>4. req' \in [Slots -> Request]
  BY <1>1, <1>2, <1>3 DEF Serve
<1>5. UNCHANGED <<server, events, conn, timeline, again>>
  BY DEF Serve, ReadRoomRow, ReadOneWay, ReadAround
<1> QED BY <1>4, <1>5 DEF TypeOK, server, timeline

LEMMA AnswerFields ==
    ASSUME TypeOK, NEW slot \in Slots
    PROVE  /\ req[slot].page \in Versions
           /\ req[slot].last \in Changes
           /\ req[slot].more \in BOOLEAN
BY DEF TypeOK, Request

LEMMA ArrivedType ==
    ASSUME TypeOK, NEW last
    PROVE  [s \in Seqs |-> IF held[s] > last THEN held[s] ELSE 0] \in Versions
BY BoundsAssumption DEF TypeOK, Versions, Changes

LEMMA GreaterType ==
    ASSUME NEW a \in Changes, NEW b \in Changes
    PROVE  Greater(a, b) \in Changes /\ a <= Greater(a, b) /\ b <= Greater(a, b)
BY BoundsAssumption DEF Greater, Changes

LEMMA SynchroniseType == ASSUME TypeOK, Synchronise \/ SyncFails PROVE TypeOK'
<1> "sync" \in Slots
  BY DEF Slots
<1>1. ASSUME SyncChanges PROVE TypeOK'
  <2>1. held' \in Versions
    BY <1>1, AnswerFields, MergeType DEF SyncChanges, TypeOK
  <2>2. cursor' \in Changes
    BY <1>1, AnswerFields, GreaterType, AdvanceType DEF SyncChanges, TypeOK
  <2>3. again' \in BOOLEAN /\ req' \in [Slots -> Request]
    BY <1>1, <2>2, SyncEndsType DEF SyncChanges, TypeOK
  <2> QED BY <1>1, <2>1, <2>2, <2>3 DEF SyncChanges, TypeOK, server
<1>2. ASSUME SyncTooFarBehind PROVE TypeOK'
  <2>1. req' \in [Slots -> Request]
    BY <1>2, LatestType, SentType, RequestsType DEF SyncTooFarBehind, TypeOK
  <2> QED BY <1>2, <2>1 DEF SyncTooFarBehind, TypeOK, server, timeline
<1>3. ASSUME SyncLatest PROVE TypeOK'
  <2>1. held' \in Versions
    BY <1>3, AnswerFields, ArrivedType, MergeType DEF SyncLatest
  <2>2. cursor' \in Changes
    BY <1>3, AnswerFields, AdvanceType DEF SyncLatest
  <2>3. again' \in BOOLEAN /\ req' \in [Slots -> Request]
    BY <1>3, <2>2, SyncEndsType DEF SyncLatest, TypeOK
  <2> QED BY <1>3, <2>1, <2>2, <2>3, AnswerFields DEF SyncLatest, TypeOK, server
<1>4. ASSUME SyncFails PROVE TypeOK'
  <2>1. req' \in [Slots -> Request]
    BY <1>4, IdleType, RequestsType DEF SyncFails, TypeOK
  <2> QED BY <1>4, <2>1 DEF SyncFails, TypeOK, server
<1> QED BY <1>1, <1>2, <1>3, <1>4 DEF Synchronise

LEMMA OpenType == ASSUME TypeOK, Open \/ OpenRoomFails PROVE TypeOK'
<1> "open" \in Slots
  BY DEF Slots
<1>1. ASSUME OpenRoom PROVE TypeOK'
  <2>1. req' \in [Slots -> Request]
    BY <1>1, LatestType, SentType, RequestsType DEF OpenRoom, TypeOK
  <2> QED BY <1>1, <2>1, NothingType DEF OpenRoom, TypeOK, server
<1>2. ASSUME OpenRoomAnswered PROVE TypeOK'
  <2>1. held' \in Versions
    BY <1>2, AnswerFields, ArrivedType, MergeType DEF OpenRoomAnswered
  <2>2. cursor' \in Changes
    BY <1>2, AnswerFields, AdvanceType DEF OpenRoomAnswered
  <2>3. req' \in [Slots -> Request]
    BY <1>2, IdleType, RequestsType DEF OpenRoomAnswered, TypeOK
  <2> QED BY <1>2, <2>1, <2>2, <2>3, AnswerFields DEF OpenRoomAnswered, TypeOK, server
<1>3. ASSUME ReopenRoom PROVE TypeOK'
  <2>1. again' \in BOOLEAN /\ req' \in [Slots -> Request]
    BY <1>3, SyncTimelineType DEF ReopenRoom, TypeOK
  <2> QED BY <1>3, <2>1 DEF ReopenRoom, TypeOK, server
<1>4. ASSUME OpenRoomFails PROVE TypeOK'
  <2>1. req' \in [Slots -> Request]
    BY <1>4, IdleType, RequestsType DEF OpenRoomFails, TypeOK
  <2> QED BY <1>4, <2>1 DEF OpenRoomFails, TypeOK, server
<1> QED BY <1>1, <1>2, <1>3, <1>4 DEF Open

LEMMA NetworkType == ASSUME TypeOK, Network PROVE TypeOK'
<1>1. ASSUME NEW e \in events, Miss(e) PROVE TypeOK'
  BY <1>1 DEF Miss, TypeOK, server, timeline
<1>2. ASSUME NEW e \in events, NEW alsoLater \in BOOLEAN, Receive(e, alsoLater) PROVE TypeOK'
  <2>1. e.seq \in Seqs /\ e.change \in Changes
    BY BoundsAssumption DEF TypeOK, Event, Changes
  <2>2. ASSUME ReceiveWhileLoading(e)
        PROVE  held' \in Versions /\ cursor' \in Changes /\ again' \in BOOLEAN /\ req' \in [Slots -> Request]
    <3>1. Greater(held[e.seq], e.change) \in Changes
      BY <2>1, GreaterType DEF TypeOK, Versions
    <3> QED BY <2>2, <3>1 DEF ReceiveWhileLoading, TypeOK, Versions
  <2>3. ASSUME ReceiveNews(e)
        PROVE  held' \in Versions /\ cursor' \in Changes /\ again' \in BOOLEAN /\ req' \in [Slots -> Request]
    <3>1. EventVersions(e) \in Versions
      BY <2>1, BoundsAssumption DEF EventVersions, Nothing, Versions, Changes
    <3>2. held' \in Versions
      BY <2>3, <3>1, MergeType DEF ReceiveNews, TypeOK
    <3>3. cursor' \in Changes
      BY <2>1, <2>3, AdvanceType DEF ReceiveNews, TypeOK
    <3>4. again' \in BOOLEAN /\ req' \in [Slots -> Request]
      BY <2>3, <3>3, SyncTimelineType DEF ReceiveNews, TypeOK
    <3> QED BY <3>2, <3>3, <3>4
  <2>4. ASSUME ReceiveNothing(e)
        PROVE  held' \in Versions /\ cursor' \in Changes /\ again' \in BOOLEAN /\ req' \in [Slots -> Request]
    BY <2>4 DEF ReceiveNothing, TypeOK
  <2> QED BY <1>2, <2>2, <2>3, <2>4 DEF Receive, TypeOK, server
<1>3. ASSUME Disconnect \/ Subscribe PROVE TypeOK'
  BY <1>3 DEF Disconnect, Subscribe, TypeOK, server, timeline
<1>4. ASSUME NEW gone \in Gone, BatchAcked(gone) PROVE TypeOK'
  <2>1. again' \in BOOLEAN /\ req' \in [Slots -> Request]
    BY <1>4, SyncTimelineType DEF BatchAcked, TypeOK
  <2>2. conn' \in {"synced", "dropped", "skipped"}
    BY <1>4 DEF BatchAcked
  <2> QED BY <1>4, <2>1, <2>2 DEF BatchAcked, TypeOK, server, timeline
<1> QED BY <1>1, <1>2, <1>3, <1>4 DEF Network

LEMMA NextType == TypeOK /\ [Next]_vars => TypeOK'
<1>1. ASSUME TypeOK, UNCHANGED vars PROVE TypeOK'
  BY <1>1 DEF TypeOK, vars
<1> QED BY <1>1, WriteType, ServeType, SynchroniseType, OpenType, NetworkType DEF Next

\* Every variable keeps its type, for every bound and whatever the environment does: no
\* page, merge or cursor leaves the numbers that the room has.
THEOREM TypeCorrect == Spec => []TypeOK
BY InitType, NextType, PTL DEF Spec

-----------------------------------------------------------------------------
(* Windows, merges and the cursor. *)

\* A merge into the window never makes it cover more than it did.
LEMMA MergeCovers ==
    ASSUME NEW h \in Versions, NEW p \in Versions, NEW older \in BOOLEAN, NEW newer \in BOOLEAN,
           NEW s \in Seqs, Covers(MergeIntoWindow(h, older, newer, p), older, newer, s)
    PROVE  Covers(h, older, newer, s)
<1> DEFINE h2 == MergeIntoWindow(h, older, newer, p)
<1>1. \A t \in Seqs : h[t] \in Nat /\ p[t] \in Nat
  BY BoundsAssumption DEF Versions, Changes
<1>2. \A t \in Held(h2) : t \in Held(h) \/ Covers(h, older, newer, t)
  BY DEF MergeIntoWindow, Held
<1>3. Held(h) \subseteq Held(h2)
  BY <1>1 DEF MergeIntoWindow, Held, Greater
<1>4. ASSUME older, Held(h) # {} PROVE \E t \in Held(h) : t <= s
  <2>1. PICK t \in Held(h2) : t <= s
    BY <1>3, <1>4 DEF Covers
  <2>2. CASE t \in Held(h)
    BY <2>1, <2>2
  <2>3. CASE t \notin Held(h)
    <3>1. PICK u \in Held(h) : u <= t
      BY <1>2, <1>4, <2>3 DEF Covers
    <3> QED BY <2>1, <3>1, BoundsAssumption DEF Held, Seqs
  <2> QED BY <2>2, <2>3
<1>5. ASSUME newer, Held(h) # {} PROVE \E t \in Held(h) : s <= t
  <2>1. PICK t \in Held(h2) : s <= t
    BY <1>3, <1>5 DEF Covers
  <2>2. CASE t \in Held(h)
    BY <2>1, <2>2
  <2>3. CASE t \notin Held(h)
    <3>1. PICK u \in Held(h) : t <= u
      BY <1>2, <1>5, <2>3 DEF Covers
    <3> QED BY <2>1, <3>1, BoundsAssumption DEF Held, Seqs
  <2> QED BY <2>2, <2>3
<1> QED BY <1>4, <1>5 DEF Covers

LEMMA MergeGenuine ==
    ASSUME NEW h \in Versions, NEW p \in Versions, NEW older, NEW newer, Genuine(h), Genuine(p)
    PROVE  Genuine(MergeIntoWindow(h, older, newer, p))
<1> DEFINE h2 == MergeIntoWindow(h, older, newer, p)
<1>1. \A s \in Seqs : h2[s] = h[s] \/ h2[s] = p[s]
  BY DEF MergeIntoWindow, Greater
<1> QED BY <1>1 DEF Genuine

\* A merge of genuine versions keeps the window up to date.
LEMMA MergeSound ==
    ASSUME rows \in Versions, channel \in SUBSET Seqs,
           NEW h \in Versions, NEW p \in Versions, NEW older \in BOOLEAN, NEW newer \in BOOLEAN,
           NEW upTo, Genuine(h), Genuine(p), UpToDate(h, older, newer, upTo)
    PROVE  UpToDate(MergeIntoWindow(h, older, newer, p), older, newer, upTo)
<1> DEFINE h2 == MergeIntoWindow(h, older, newer, p)
<1> SUFFICES ASSUME NEW s \in channel, rows[s] <= upTo, Covers(h2, older, newer, s)
             PROVE  h2[s] = rows[s]
  BY DEF UpToDate
<1>1. s \in Seqs /\ h[s] = rows[s]
  BY MergeCovers DEF UpToDate
<1>2. h2[s] = h[s] \/ (h2[s] = p[s] /\ h[s] < p[s])
  BY <1>1 DEF MergeIntoWindow, Greater
<1>3. rows[s] \in Nat /\ p[s] \in Nat /\ (p[s] # 0 => p[s] <= rows[s])
  BY <1>1, BoundsAssumption DEF Genuine, Versions, Changes
<1> QED BY <1>1, <1>2, <1>3

\* The cursor passes only numbers whose message is held, so the window stays up to date.
LEMMA AdvanceSound ==
    ASSUME rows \in Versions, channel \in SUBSET Seqs, NEW h \in Versions, NEW older, NEW newer,
           NEW from \in Changes, NEW to, Genuine(h), UpToDate(h, older, newer, from),
           Advances(from, h, to)
    PROVE  UpToDate(h, older, newer, to)
<1> SUFFICES ASSUME NEW s \in channel, rows[s] <= to, Covers(h, older, newer, s)
             PROVE  h[s] = rows[s]
  BY DEF UpToDate
<1>1. rows[s] \in Nat /\ from \in Nat /\ to \in Nat /\ s \in Seqs
  BY BoundsAssumption DEF Versions, Changes, Advances
<1>2. CASE rows[s] <= from
  BY <1>2 DEF UpToDate
<1>3. CASE rows[s] > from
  <2>1. PICK t \in Seqs : h[t] = rows[s]
    BY <1>1, <1>3 DEF Advances
  <2>2. h[t] # 0
    BY <1>1, <1>3, <2>1
  <2> QED BY <1>1, <2>1, <2>2 DEF Genuine
<1> QED BY <1>1, <1>2, <1>3

LEMMA AdvanceBounded ==
    ASSUME Numbered, rows \in Versions, lastChange \in Changes, NEW h \in Versions,
           NEW from \in Changes, NEW to, Genuine(h), from <= lastChange, Advances(from, h, to)
    PROVE  to <= lastChange
<1>1. from \in Nat /\ to \in Nat /\ lastChange \in Nat
  BY BoundsAssumption DEF Changes, Advances
<1>2. CASE to = from
  BY <1>2
<1>3. CASE to > from
  <2>1. PICK s \in Seqs : h[s] = to
    BY <1>1, <1>3 DEF Advances
  <2>2. to <= rows[s] /\ rows[s] <= lastChange /\ rows[s] \in Nat
    BY <1>1, <1>3, <2>1, BoundsAssumption DEF Genuine, Numbered, Versions, Changes
  <2> QED BY <1>1, <2>2
<1>4. to >= from
  BY <1>1 DEF Advances, Changes
<1> QED BY <1>1, <1>2, <1>3, <1>4

\* The latest page is an up-to-date window, open at the older end when there is more.
LEMMA LatestPageSound ==
    ASSUME rows \in Versions, channel \in SUBSET Seqs, Numbered, NEW upTo,
           NEW T \in SUBSET channel, FirstRows(channel, PageLimit, NewestFirst, T)
    PROVE  UpToDate(PageOf(T), T # channel, FALSE, upTo)
<1> SUFFICES ASSUME NEW s \in channel, Covers(PageOf(T), T # channel, FALSE, s)
             PROVE  PageOf(T)[s] = rows[s]
  BY DEF UpToDate
<1>1. CASE s \in T
  BY <1>1 DEF PageOf
<1>2. CASE s \notin T
  <2>1. T # channel /\ Cardinality(T) = PageLimit
    BY <1>2 DEF FirstRows
  <2>2. T # {}
    BY <2>1, LimitsAssumption, FS_EmptySet
  <2>3. Held(PageOf(T)) = T
    BY DEF Held, PageOf, Numbered
  <2>4. PICK t \in T : t <= s
    BY <2>1, <2>2, <2>3 DEF Covers
  <2>5. t > s
    BY <1>2 DEF FirstRows, NewestFirst
  <2> QED BY <2>4, <2>5, BoundsAssumption DEF Seqs
<1> QED BY <1>1, <1>2

LEMMA PageGenuine ==
    ASSUME rows \in Versions, Numbered, NEW S
    PROVE  Genuine(PageOf(S))
BY BoundsAssumption DEF PageOf, Genuine, Numbered, Versions, Changes

-----------------------------------------------------------------------------
(* The server's writes: new numbers are above everything the tab knows. *)

\* Genuine and UpToDate of given versions, after the step.
GenuineAfter(h) ==
    \A s \in Seqs : h[s] # 0 => h[s] <= rows'[s] /\ \A t \in Seqs \ {s} : rows'[t] # h[s]
UpToDateAfter(h, older, newer, upTo) ==
    \A s \in channel' : rows'[s] <= upTo /\ Covers(h, older, newer, s) => h[s] = rows'[s]

\* What a write does to the rows.
Grown ==
    /\ rows' \in Versions /\ channel' \in SUBSET Seqs
    /\ lastChange' \in Changes /\ lastChange <= lastChange'
    /\ \A s \in Seqs : rows'[s] = rows[s] \/ rows'[s] > lastChange
    /\ \A s \in channel' : s \in channel \/ rows'[s] > lastChange

LEMMA GrownGenuine ==
    ASSUME TypeOK, Numbered, Grown, NEW h \in Versions, Genuine(h)
    PROVE  GenuineAfter(h)
<1> SUFFICES ASSUME NEW s \in Seqs, h[s] # 0
             PROVE  h[s] <= rows'[s] /\ \A t \in Seqs \ {s} : rows'[t] # h[s]
  BY DEF GenuineAfter
<1>1. h[s] <= rows[s] /\ rows[s] <= lastChange /\ \A t \in Seqs \ {s} : rows[t] # h[s]
  BY DEF Genuine, Numbered
<1>2. h[s] \in Nat /\ lastChange \in Nat /\ \A t \in Seqs : rows[t] \in Nat /\ rows'[t] \in Nat
  BY BoundsAssumption DEF TypeOK, Grown, Versions, Changes
<1> QED BY <1>1, <1>2 DEF Grown

LEMMA GrownUpToDate ==
    ASSUME TypeOK, Grown, NEW h, NEW older, NEW newer, NEW upTo \in Changes,
           upTo <= lastChange, UpToDate(h, older, newer, upTo)
    PROVE  UpToDateAfter(h, older, newer, upTo)
<1> SUFFICES ASSUME NEW s \in channel', rows'[s] <= upTo, Covers(h, older, newer, s)
             PROVE  h[s] = rows'[s]
  BY DEF UpToDateAfter
<1>1. s \in Seqs /\ rows'[s] \in Nat /\ upTo \in Nat /\ lastChange \in Nat
  BY BoundsAssumption DEF TypeOK, Grown, Versions, Changes
<1>2. s \in channel /\ rows'[s] = rows[s]
  BY <1>1 DEF Grown
<1> QED BY <1>2 DEF UpToDate

\* Bump gives out numbers above the counter, each to one row.
LEMMA BumpGrown ==
    ASSUME TypeOK, Numbered, NEW s1 \in Seqs, NEW s2 \in 0..MaxSeq, Bump(s1, s2),
           channel \subseteq channel', channel' \subseteq channel \cup {s1}
    PROVE  Grown /\ Numbered' /\ \A e \in events' : e \in events \/ e.change = rows'[e.seq]
<1>1. /\ rows' \in Versions /\ lastChange' \in Changes /\ channel' \in SUBSET Seqs
      /\ lastChange \in Nat /\ lastChange' \in Nat
      /\ \A s \in Seqs : rows[s] \in Nat /\ rows'[s] \in Nat
  BY BumpType, BoundsAssumption DEF TypeOK, Versions, Changes
<1>2. lastChange' = IF s2 = 0 THEN lastChange + 1 ELSE lastChange + 2
  BY <1>1 DEF Bump
<1>3. \A s \in Seqs : IF s = s1 THEN rows'[s] = lastChange + 1
                      ELSE IF s = s2 THEN rows'[s] = lastChange + 2
                      ELSE rows'[s] = rows[s]
  BY DEF Bump
<1>4. \A s \in Seqs : s # 0
  BY DEF Seqs
<1>5. Grown
  BY <1>1, <1>2, <1>3 DEF Grown
<1>6. Numbered'
  <2>1. \A s \in Seqs : rows'[s] <= lastChange'
    BY <1>1, <1>2, <1>3, <1>4 DEF Numbered
  <2>2. \A s, t \in Seqs : rows'[s] = rows'[t] /\ rows'[s] # 0 => s = t
    BY <1>1, <1>3 DEF Numbered
  <2>3. \A s \in channel' : rows'[s] # 0
    BY <1>1, <1>3 DEF Numbered, TypeOK
  <2> QED BY <2>1, <2>2, <2>3 DEF Numbered
<1>7. \A e \in events' : e \in events \/ e.change = rows'[e.seq]
  BY DEF Bump
<1> QED BY <1>5, <1>6, <1>7

LEMMA EventGenuine ==
    ASSUME Numbered', rows' \in Versions, NEW e \in Event, e.change = rows'[e.seq]
    PROVE  GenuineAfter(EventVersions(e))
BY BoundsAssumption DEF Event, GenuineAfter, EventVersions, Nothing, Numbered, Versions, Changes, Seqs

\* What a write does, and what it leaves alone.
LEMMA WriteGrows ==
    ASSUME TypeOK, Numbered, Write
    PROVE  /\ Grown /\ Numbered' /\ \A e \in events' : e \in events \/ e.change = rows'[e.seq]
           /\ UNCHANGED <<conn, timeline, again, req>>
<1> DEFINE Grows == /\ Grown /\ Numbered'
                    /\ \A e \in events' : e \in events \/ e.change = rows'[e.seq]
                    /\ UNCHANGED <<conn, timeline, again, req>>
<1>1. ASSUME NEW s1 \in Seqs, NEW s2 \in 0..MaxSeq, Bump(s1, s2),
             channel \subseteq channel', channel' \subseteq channel \cup {s1},
             UNCHANGED <<conn, timeline, again, req>>
      PROVE  Grows
  BY <1>1, BumpGrown
<1>2. 0 \in 0..MaxSeq /\ \A s \in Seqs : s \in 0..MaxSeq
  BY BoundsAssumption DEF Seqs
<1>3. lastSeq < MaxSeq => NewRow \in Seqs
  BY BoundsAssumption DEF TypeOK, NewRow, Seqs
<1>4. ASSUME SendMessage PROVE Grows
  BY <1>1, <1>2, <1>3, <1>4 DEF SendMessage
<1>5. ASSUME NEW top \in Seqs, NEW also \in BOOLEAN, SendThreadReply(top, also) PROVE Grows
  <2>1. NewRow \in Seqs /\ Bump(NewRow, top) /\ UNCHANGED <<conn, timeline, again, req>>
    BY <1>3, <1>5 DEF SendThreadReply
  <2>2. channel \subseteq channel' /\ channel' \subseteq channel \cup {NewRow}
    BY <1>5 DEF SendThreadReply
  <2> QED BY <1>1, <1>2, <2>1, <2>2
<1>6. ASSUME NEW s \in Seqs, ChangeMessage(s) PROVE Grows
  BY <1>1, <1>2, <1>6 DEF ChangeMessage
<1>7. ASSUME NEW s \in Seqs, DeleteThreadReply(s) PROVE Grows
  <2>1. root[s] \in 0..MaxSeq
    BY DEF TypeOK
  <2> QED BY <1>1, <1>7, <2>1 DEF DeleteThreadReply
<1> QED BY <1>4, <1>5, <1>6, <1>7 DEF Write

LEMMA WriteWritten == ASSUME TypeOK, TypeOK', WrittenInv, Write PROVE WrittenInv'
<1> USE DEF timeline
<1>1. /\ Numbered /\ Grown /\ Numbered' /\ UNCHANGED <<conn, timeline, again, req>>
      /\ \A e \in events' : e \in events \/ e.change = rows'[e.seq]
  BY WriteGrows DEF WrittenInv
<1>2. Carried'
  <2>1. ASSUME NEW e \in events' PROVE Genuine(EventVersions(e))'
    <3>1. GenuineAfter(EventVersions(e))
      <4>1. CASE e \in events
        <5>1. EventVersions(e) \in Versions
          BY <4>1, BoundsAssumption DEF TypeOK, Event, EventVersions, Nothing, Versions, Changes
        <5> QED BY <1>1, <4>1, <5>1, GrownGenuine DEF WrittenInv, Carried
      <4>2. CASE e \notin events
        <5>1. e \in Event /\ e.change = rows'[e.seq] /\ rows' \in Versions
          BY <1>1, <2>1, <4>2 DEF TypeOK
        <5> QED BY <1>1, <5>1, EventGenuine
      <4> QED BY <4>1, <4>2
    <3> QED BY <3>1 DEF GenuineAfter, Genuine
  <2>2. ASSUME NEW slot \in Slots PROVE Genuine(req[slot].page)' /\ (req[slot].last <= lastChange)'
    <3>1. req[slot].page \in Versions /\ req[slot].last \in Changes /\ Genuine(req[slot].page)
          /\ req[slot].last <= lastChange
      BY AnswerFields DEF WrittenInv, Carried
    <3>2. GenuineAfter(req[slot].page)
      BY <1>1, <3>1, GrownGenuine
    <3>3. req[slot].last <= lastChange'
      BY <1>1, <3>1, BoundsAssumption DEF TypeOK, Grown, Changes
    <3> QED BY <1>1, <3>2, <3>3 DEF GenuineAfter, Genuine
  <2> QED BY <2>1, <2>2 DEF Carried
<1>3. NothingInvented'
  <2>1. GenuineAfter(held)
    BY <1>1, GrownGenuine DEF WrittenInv, NothingInvented, TypeOK
  <2>2. cursor <= lastChange'
    BY <1>1, BoundsAssumption DEF WrittenInv, NothingInvented, TypeOK, Grown, Changes
  <2> QED BY <1>1, <2>1, <2>2 DEF NothingInvented, Genuine, GenuineAfter
<1> QED BY <1>1, <1>2, <1>3 DEF WrittenInv

LEMMA WritePages == ASSUME TypeOK, WrittenInv, PagesInv, Write PROVE PagesInv'
<1> USE DEF timeline
<1>1. Grown /\ UNCHANGED <<conn, timeline, again, req>>
  BY WriteGrows DEF WrittenInv
<1>2. PagesSound'
  <2>1. ASSUME NEW slot \in {"open", "sync"}, req[slot].stage = "page", req[slot].query.by = "latest"
        PROVE  UpToDate(req[slot].page, req[slot].more, FALSE, req[slot].last)'
    <3>1. UpToDateAfter(req[slot].page, req[slot].more, FALSE, req[slot].last)
      BY <1>1, <2>1, GrownUpToDate, AnswerFields DEF WrittenInv, PagesInv, PagesSound, Carried, Slots
    <3> QED BY <1>1, <3>1 DEF UpToDateAfter, UpToDate, Covers
  <2> QED BY <1>1, <2>1 DEF PagesInv, PagesSound
<1>3. DifferenceSound'
  <2>1. ASSUME NEW s \in Seqs, rows'[s] <= req["sync"].last PROVE rows'[s] = rows[s]
    BY <1>1, <2>1, AnswerFields, BoundsAssumption
       DEF Grown, WrittenInv, Carried, Slots, TypeOK, Versions, Changes
  <2>2. req["sync"].query.arg \in Nat /\ lastChange \in Nat /\ lastChange' \in Nat /\ lastChange <= lastChange'
    BY <1>1, BoundsAssumption DEF TypeOK, Slots, Request, Query, Changes, Grown
  <2> QED BY <1>1, <2>1, <2>2 DEF PagesInv, DifferenceSound
<1> QED BY <1>1, <1>2, <1>3 DEF PagesInv, Busy

LEMMA WriteCursor == ASSUME TypeOK, CursorInv, Write PROVE CursorSound'
<1>1. Grown /\ UNCHANGED <<status, held, hasOlder, hasNewer, cursor>>
  BY WriteGrows DEF CursorInv, WrittenInv, timeline
<1> SUFFICES ASSUME status = "ready" PROVE UpToDate(held, hasOlder, hasNewer, cursor)'
  BY <1>1 DEF CursorSound
<1>2. UpToDateAfter(held, hasOlder, hasNewer, cursor)
  BY <1>1, GrownUpToDate DEF CursorInv, CursorSound, WrittenInv, NothingInvented, TypeOK
<1> QED BY <1>1, <1>2 DEF UpToDateAfter, UpToDate, Covers

-----------------------------------------------------------------------------
(* The server's answers. *)

\* An answer is the room's counter of the moment or rows as they are, in one slot.
LEMMA ServeSteps ==
    ASSUME TypeOK, NEW slot \in Slots, ReadRoomRow(slot) \/ ReadOneWay(slot) \/ ReadAround(slot)
    PROVE  /\ UNCHANGED <<server, events, conn, timeline, again>>
           /\ \A t \in Slots \ {slot} : req'[t] = req[t]
           /\ req'[slot].query = req[slot].query
           /\ \/ /\ ReadRoomRow(slot) /\ req'[slot].stage = "room"
                 /\ req'[slot].page = req[slot].page /\ req'[slot].last = lastChange
              \/ /\ ~ReadRoomRow(slot) /\ req[slot].stage = "room" /\ req'[slot].stage = "page"
                 /\ req'[slot].last = req[slot].last
                 /\ \E S \in SUBSET Seqs : req'[slot].page = PageOf(S)
<1>1. UNCHANGED <<server, events, conn, timeline, again>>
  BY DEF ReadRoomRow, ReadOneWay, ReadAround
<1>2. CASE ReadRoomRow(slot)
  BY <1>1, <1>2 DEF ReadRoomRow, TypeOK, Request
<1>3. CASE ReadOneWay(slot) \/ ReadAround(slot)
  <2>1. req[slot].stage = "room" /\ \E S, more, moreAfter : Answer(slot, S, more, moreAfter)
    BY <1>3 DEF ReadOneWay, ReadAround, ReadRows
  <2>2. PICK S, more, moreAfter : Answer(slot, S, more, moreAfter)
    BY <2>1
  <2>3. PageOf(S) = PageOf(S \cap Seqs) /\ S \cap Seqs \in SUBSET Seqs
    BY DEF PageOf
  <2> QED BY <1>1, <2>1, <2>2, <2>3 DEF Answer, TypeOK, Request, ReadRoomRow
<1> QED BY <1>2, <1>3

LEMMA ServeWritten == ASSUME TypeOK, WrittenInv, Serve PROVE WrittenInv'
<1>1. PICK slot \in Slots : ReadRoomRow(slot) \/ ReadOneWay(slot) \/ ReadAround(slot)
  BY DEF Serve
<1>2. /\ UNCHANGED <<rows, channel, lastChange, events, held, cursor>>
      /\ \A t \in Slots \ {slot} : req'[t] = req[t]
  BY <1>1, ServeSteps DEF server, timeline
<1>3. Genuine(req'[slot].page) /\ req'[slot].last <= lastChange
  <2>1. CASE req'[slot].page = req[slot].page /\ req'[slot].last = lastChange
    BY <2>1, BoundsAssumption DEF WrittenInv, Carried, TypeOK, Changes
  <2>2. CASE req'[slot].last = req[slot].last /\ \E S \in SUBSET Seqs : req'[slot].page = PageOf(S)
    BY <2>2, PageGenuine DEF WrittenInv, Carried, TypeOK
  <2> QED BY <1>1, <2>1, <2>2, ServeSteps
<1>4. \A t \in Slots : Genuine(req'[t].page) /\ req'[t].last <= lastChange
  BY <1>2, <1>3 DEF WrittenInv, Carried
<1> QED BY <1>2, <1>4 DEF WrittenInv, Numbered, Carried, NothingInvented, Genuine

\* What the pages know after an answer: the latest one and a whole difference have to
\* know what the last two hypotheses say.
LEMMA AnsweredPages ==
    ASSUME TypeOK, WrittenInv, PagesInv, NEW slot \in Slots,
           ReadRoomRow(slot) \/ ReadOneWay(slot) \/ ReadAround(slot),
           slot \in {"open", "sync"} /\ req'[slot].stage = "page" /\ req[slot].query.by = "latest" =>
               UpToDate(req'[slot].page, req'[slot].more, FALSE, req[slot].last),
           slot = "sync" /\ req'[slot].stage = "page" /\ req[slot].query.by = "changes" /\ ~req'[slot].more =>
               \A s \in Seqs : req[slot].query.arg < rows[s] => req'[slot].page[s] = rows[s]
    PROVE  PagesInv'
<1>1. /\ UNCHANGED <<rows, channel, lastChange, status, held, hasOlder, hasNewer, cursor>>
      /\ \A t \in Slots \ {slot} : req'[t] = req[t]
      /\ req'[slot].query = req[slot].query /\ req'[slot].stage \in {"room", "page"}
      /\ req[slot].stage # "idle"
      /\ req'[slot].stage = "page" => req'[slot].last = req[slot].last /\ req[slot].stage = "room"
      /\ req'[slot].stage = "room" => req'[slot].last = lastChange
  BY ServeSteps DEF server, timeline, ReadRoomRow
<1>2. PagesSound'
  <2>1. \A t \in {"open", "sync"} : req'[t].query = req[t].query
    BY <1>1 DEF Slots
  <2>2. ASSUME NEW t \in {"open", "sync"}, req'[t].stage = "page", req'[t].query.by = "latest"
        PROVE  UpToDate(req'[t].page, req'[t].more, FALSE, req'[t].last)
    <3>1. CASE t = slot
      BY <1>1, <2>1, <2>2, <3>1
    <3>2. CASE t # slot
      BY <1>1, <2>2, <3>2 DEF PagesInv, PagesSound, Slots
    <3> QED BY <3>1, <3>2
  <2>3. \A t \in {"open", "sync"} : req'[t].stage = "page" /\ req'[t].query.by = "latest" =>
            UpToDate(req[t].page, req[t].more, FALSE, req[t].last)'
    BY <1>1, <2>2 DEF UpToDate, Covers
  <2> QED BY <2>1, <2>3 DEF PagesInv, PagesSound
<1>3. DifferenceSound'
  <2>1. "sync" \in Slots /\ "open" \in Slots /\ req'["sync"].query = req["sync"].query
    BY <1>1 DEF Slots
  <2>2. ASSUME req'["open"].stage \in {"room", "page"}, req["sync"].query.by = "changes"
        PROVE  req["sync"].query.arg <= req'["open"].last
    <3>1. CASE slot = "open"
      BY <1>1, <2>2, <3>1 DEF PagesInv, DifferenceSound
    <3>2. CASE slot # "open"
      BY <1>1, <2>1, <2>2, <3>2 DEF PagesInv, DifferenceSound
    <3> QED BY <3>1, <3>2
  <2>3. ASSUME req'["sync"].stage = "page", ~req'["sync"].more, req["sync"].query.by = "changes",
               NEW s \in Seqs, req["sync"].query.arg < rows[s], rows[s] <= req'["sync"].last
        PROVE  req'["sync"].page[s] = rows[s]
    <3>1. CASE slot = "sync"
      BY <2>3, <3>1
    <3>2. CASE slot # "sync"
      BY <1>1, <2>1, <2>3, <3>2 DEF PagesInv, DifferenceSound
    <3> QED BY <3>1, <3>2
  <2> QED BY <1>1, <2>1, <2>2, <2>3 DEF PagesInv, DifferenceSound
<1>4. Busy("open")' => Busy("open")
  BY <1>1 DEF Busy, Slots
<1> QED BY <1>1, <1>2, <1>3, <1>4 DEF PagesInv

LEMMA AnswerIs ==
    ASSUME TypeOK, NEW slot \in Slots, NEW S, NEW more, NEW moreAfter,
           Answer(slot, S, more, moreAfter)
    PROVE  req'[slot].page = PageOf(S) /\ req'[slot].more = more
BY DEF Answer, TypeOK, Request

\* The latest page, as it is answered.
LEMMA LatestAnswer ==
    ASSUME TypeOK, NEW slot \in Slots, ReadRoomRow(slot) \/ ReadOneWay(slot) \/ ReadAround(slot),
           req'[slot].stage = "page", req[slot].query.by = "latest"
    PROVE  \E T \in SUBSET channel : /\ FirstRows(channel, PageLimit, NewestFirst, T)
                                     /\ req'[slot].page = PageOf(T)
                                     /\ req'[slot].more = (T # channel)
<1>1. ReadOneWay(slot)
  BY DEF ReadRoomRow, ReadAround, TypeOK, Request
<1>2. PICK T \in SUBSET channel : /\ FirstRows(channel, PageLimit, NewestFirst, T)
                                  /\ Answer(slot, T, T # channel, FALSE)
  BY <1>1 DEF ReadOneWay, ReadRows
<1>3. req'[slot].page = PageOf(T) /\ req'[slot].more = (T # channel)
  BY <1>2, AnswerIs
<1> QED BY <1>2, <1>3

\* A whole difference, as it is answered, has every row that changed.
LEMMA DifferenceAnswer ==
    ASSUME TypeOK, NEW slot \in Slots, ReadRoomRow(slot) \/ ReadOneWay(slot) \/ ReadAround(slot),
           req'[slot].stage = "page", req[slot].query.by = "changes", ~req'[slot].more,
           NEW s \in Seqs, req[slot].query.arg < rows[s]
    PROVE  req'[slot].page[s] = rows[s]
<1> DEFINE changed == {t \in Seqs : rows[t] > req[slot].query.arg}
<1>1. ReadOneWay(slot)
  BY DEF ReadRoomRow, ReadAround, TypeOK, Request
<1>2. PICK T \in SUBSET changed : Answer(slot, T, T # changed, FALSE)
  <2>1. ReadRows(slot, changed, ChangesLimit, EarliestChangeFirst)
    BY <1>1 DEF ReadOneWay
  <2> QED BY <2>1 DEF ReadRows
<1>3. req'[slot].page = PageOf(T) /\ T = changed
  BY <1>2, AnswerIs
<1>4. s \in changed
  BY BoundsAssumption DEF TypeOK, Request, Query, Versions, Changes
<1> QED BY <1>3, <1>4 DEF PageOf

LEMMA ServePages == ASSUME TypeOK, WrittenInv, PagesInv, Serve PROVE PagesInv'
<1>1. PICK slot \in Slots : ReadRoomRow(slot) \/ ReadOneWay(slot) \/ ReadAround(slot)
  BY DEF Serve
<1>2. ASSUME req'[slot].stage = "page", req[slot].query.by = "latest"
      PROVE  UpToDate(req'[slot].page, req'[slot].more, FALSE, req[slot].last)
  <2>1. PICK T \in SUBSET channel : /\ FirstRows(channel, PageLimit, NewestFirst, T)
                                    /\ req'[slot].page = PageOf(T)
                                    /\ req'[slot].more = (T # channel)
    BY <1>1, <1>2, LatestAnswer
  <2>2. UpToDate(PageOf(T), T # channel, FALSE, req[slot].last)
    BY <2>1, LatestPageSound DEF TypeOK, WrittenInv
  <2> QED BY <2>1, <2>2
<1> QED BY <1>1, <1>2, DifferenceAnswer, AnsweredPages

LEMMA ServeCursor == ASSUME TypeOK, CursorInv, Serve PROVE CursorSound'
<1>1. UNCHANGED <<server, timeline>>
  BY DEF Serve, ReadRoomRow, ReadOneWay, ReadAround
<1> QED BY <1>1 DEF server, timeline, CursorInv, CursorSound, UpToDate, Covers

-----------------------------------------------------------------------------
(* What the tab has was written. *)

\* A difference from the present cursor, as syncOnce asks for it.
ChangesFrom(at) == Sent([by |-> "changes", arg |-> at])

LEMMA NewRequests ==
    /\ Idle.stage = "idle" /\ Idle.query.by = "latest"
    /\ Sent(Latest).stage = "sent" /\ Sent(Latest).query.by = "latest"
    /\ \A at : ChangesFrom(at).stage = "sent"
BY DEF Idle, Sent, Latest, ChangesFrom

\* A request that begins or that is none carries no answer yet.
LEMMA FreshRequests ==
    /\ Idle.page = Nothing /\ Idle.last = 0
    /\ \A query : Sent(query).page = Nothing /\ Sent(query).last = 0
    /\ \A at : ChangesFrom(at).page = Nothing /\ ChangesFrom(at).last = 0
BY DEF Idle, Sent, ChangesFrom

\* What asking for a synchronisation, and ending one, does to the requests.
LEMMA SyncTimelineRequests ==
    ASSUME NEW r \in [Slots -> Request], NEW at, NEW st, SyncTimeline(r, at, st)
    PROVE  /\ \A slot \in Slots \ {"sync"} : req'[slot] = r[slot]
           /\ \/ req'["sync"] \in {r["sync"], Idle}
              \/ st = "ready" /\ req'["sync"] = ChangesFrom(at)
BY DEF SyncTimeline, SyncOnce, Slots, ChangesFrom

LEMMA SyncEndsRequests ==
    ASSUME req \in [Slots -> Request], NEW at, NEW st, SyncEnds(at, st)
    PROVE  /\ \A slot \in Slots \ {"sync"} : req'[slot] = req[slot]
           /\ req'["sync"] = Idle \/ (st = "ready" /\ req'["sync"] = ChangesFrom(at))
BY DEF SyncEnds, SyncOnce, Slots, ChangesFrom

\* The tab and the network leave the room alone; a request stays or carries nothing.
Fresh(slot) == req'[slot].page = Nothing /\ req'[slot].last = 0
TabStep ==
    /\ UNCHANGED server /\ events' \subseteq events
    /\ \A slot \in Slots : req'[slot] = req[slot] \/ Fresh(slot)

LEMMA TabSteps ==
    ASSUME TypeOK, Synchronise \/ SyncFails \/ Open \/ OpenRoomFails \/ Network \/ ReadHistory
    PROVE  TabStep
<1>r. req \in [Slots -> Request] /\ Slots = {"open", "sync", "older", "newer", "jump"}
  BY DEF TypeOK, Slots
<1>1. ASSUME NEW slot \in Slots, NEW q \in {Idle} \cup {Sent(query) : query \in Query},
             req' = [req EXCEPT ![slot] = q]
      PROVE  \A t \in Slots : req'[t] = req[t] \/ Fresh(t)
  BY <1>1, <1>r, FreshRequests DEF Fresh
<1>2. CASE SyncChanges \/ SyncLatest
  <2>1. PICK at : SyncEnds(at, status)
    BY <1>2 DEF SyncChanges, SyncLatest
  <2>2. \A slot \in Slots : req'[slot] = req[slot] \/ Fresh(slot)
    BY <1>r, <2>1, SyncEndsRequests, FreshRequests DEF Fresh
  <2> QED BY <1>2, <2>2 DEF SyncChanges, SyncLatest, TabStep
<1>3. CASE SyncTooFarBehind \/ SyncFails \/ OpenRoom \/ OpenRoomAnswered \/ OpenRoomFails
  BY <1>3, <1>r, FreshRequests
     DEF SyncTooFarBehind, SyncFails, OpenRoom, OpenRoomAnswered, OpenRoomFails, TabStep, Fresh
<1>4. ASSUME NEW at, NEW st, SyncTimeline(req, at, st) \/ req' = req
      PROVE  \A t \in Slots : req'[t] = req[t] \/ Fresh(t)
  BY <1>4, <1>r, SyncTimelineRequests, FreshRequests DEF Fresh
<1>5. CASE ReopenRoom
  BY <1>4, <1>5 DEF ReopenRoom, TabStep
<1>6. CASE Network
  <2>1. UNCHANGED server /\ events' \subseteq events
    BY <1>6 DEF Network, Miss, Receive, Disconnect, Subscribe, BatchAcked
  <2>2. \E at, st : SyncTimeline(req, at, st) \/ req' = req
    BY <1>6 DEF Network, Miss, Receive, ReceiveWhileLoading, ReceiveNews, ReceiveNothing,
                Disconnect, Subscribe, BatchAcked
  <2> QED BY <1>4, <2>1, <2>2 DEF TabStep
<1>7. CASE LoadOlder \/ LoadNewer \/ \E s \in 0..MaxSeq : JumpToMessage(s) \/ JumpToUnread(s)
  <2>1. UNCHANGED server /\ events' \subseteq events
    BY <1>7 DEF LoadOlder, LoadNewer, JumpToMessage, JumpToUnread, EndOf
  <2>2. \E slot \in Slots : \E query : req' = [req EXCEPT ![slot] = Sent(query)]
    BY <1>7, <1>r DEF LoadOlder, LoadNewer, JumpToMessage, JumpToUnread, EndOf
  <2>3. \A t \in Slots : req'[t] = req[t] \/ Fresh(t)
    BY <1>r, <2>2, FreshRequests DEF Fresh
  <2> QED BY <2>1, <2>3 DEF TabStep
<1>8. CASE OlderLoaded \/ ReplaceWindow \/ \E slot \in {"older", "newer", "jump"} : HistoryFails(slot)
  <2>1. UNCHANGED server /\ events' \subseteq events
    BY <1>8 DEF OlderLoaded, ReplaceWindow, HistoryFails
  <2>2. \E slot \in Slots : req' = [req EXCEPT ![slot] = Idle]
    BY <1>8, <1>r DEF OlderLoaded, ReplaceWindow, HistoryFails
  <2>3. \A t \in Slots : req'[t] = req[t] \/ Fresh(t)
    BY <1>r, <2>2, FreshRequests DEF Fresh
  <2> QED BY <2>1, <2>3 DEF TabStep
<1>9. CASE NewerLoaded
  <2>1. PICK closed \in [Slots -> Request] : closed = [req EXCEPT !["newer"] = Idle]
    BY <1>r, IdleType, RequestsType
  <2>2. \A t \in Slots : closed[t] = req[t] \/ (closed[t].page = Nothing /\ closed[t].last = 0)
    BY <1>r, <2>1, FreshRequests
  <2>3. req' = closed \/ SyncTimeline(closed, cursor', status)
    BY <1>9, <2>1 DEF NewerLoaded
  <2>4. \A t \in Slots : req'[t] = closed[t] \/ Fresh(t)
    BY <2>1, <2>3, FreshRequests DEF SyncTimeline, SyncOnce, Fresh
  <2>5. \A t \in Slots : req'[t] = req[t] \/ Fresh(t)
    BY <2>2, <2>4 DEF Fresh
  <2> QED BY <1>9, <2>5 DEF NewerLoaded, TabStep
<1> QED BY <1>2, <1>3, <1>5, <1>6, <1>7, <1>8, <1>9 DEF Synchronise, Open, ReadHistory

\* Such a step keeps what was written to what it was, if the window does.
LEMMA TabWritten ==
    ASSUME TypeOK, WrittenInv, TabStep, Genuine(held'), cursor' <= lastChange
    PROVE  WrittenInv'
<1> USE DEF server
<1>1. Genuine(Nothing) /\ 0 <= lastChange
  BY BoundsAssumption DEF Genuine, Nothing, TypeOK, Changes
<1>2. \A slot \in Slots : Genuine(req'[slot].page) /\ req'[slot].last <= lastChange
  BY <1>1 DEF TabStep, Fresh, WrittenInv, Carried
<1>3. /\ UNCHANGED <<rows, channel, lastChange>> /\ events' \subseteq events
  BY DEF TabStep
<1>4. Carried'
  BY <1>2, <1>3 DEF WrittenInv, Carried, Genuine
<1>5. Numbered' /\ NothingInvented'
  BY <1>3 DEF WrittenInv, Numbered, NothingInvented, Genuine
<1> QED BY <1>4, <1>5 DEF WrittenInv

\* The versions that arrived while a page was on its way.
Arrived(last) == [s \in Seqs |-> IF held[s] > last THEN held[s] ELSE 0]

\* A merge of what was written and an advance from a number the room has allocated.
LEMMA AdvanceWritten ==
    ASSUME TypeOK, WrittenInv, NEW h \in Versions, Genuine(h), NEW from \in Changes,
           from <= lastChange, held' = h, AdvanceCursor(from, held')
    PROVE  Genuine(held') /\ cursor' <= lastChange /\ from <= cursor'
<1>1. Advances(from, h, cursor') /\ from <= cursor'
  BY AdvanceType DEF AdvanceCursor
<1> QED BY <1>1, AdvanceBounded DEF TypeOK, WrittenInv

\* A merge into the window and an advance of its cursor.
LEMMA MergedWritten ==
    ASSUME TypeOK, WrittenInv, NEW p \in Versions, Genuine(p), NEW from \in Changes,
           cursor <= from, from <= lastChange,
           held' = MergeIntoWindow(held, hasOlder, hasNewer, p), AdvanceCursor(from, held')
    PROVE  Genuine(held') /\ cursor' <= lastChange /\ from <= cursor' /\ cursor <= cursor'
<1>1. held' \in Versions /\ Genuine(held')
  BY MergeType, MergeGenuine DEF TypeOK, WrittenInv, NothingInvented
<1>2. cursor' <= lastChange /\ from <= cursor'
  BY <1>1, AdvanceWritten
<1>3. cursor' \in Changes /\ cursor \in Changes
  BY AdvanceType DEF TypeOK
<1> QED BY <1>1, <1>2, <1>3, BoundsAssumption DEF Changes

\* A latest page with what arrived since it was read.
LEMMA LatestWritten ==
    ASSUME TypeOK, WrittenInv, NEW slot \in {"open", "sync"},
           held' = MergeIntoWindow(req[slot].page, req[slot].more, FALSE, Arrived(req[slot].last)),
           AdvanceCursor(req[slot].last, held')
    PROVE  /\ held' \in Versions /\ Genuine(held') /\ cursor' <= lastChange /\ req[slot].last <= cursor'
           /\ Arrived(req[slot].last) \in Versions /\ Genuine(Arrived(req[slot].last))
<1> DEFINE answer == req[slot]
<1>1. /\ answer.page \in Versions /\ answer.last \in Changes /\ answer.more \in BOOLEAN
      /\ Genuine(answer.page) /\ answer.last <= lastChange
  BY AnswerFields DEF WrittenInv, Carried, Slots
<1>2. Arrived(answer.last) \in Versions /\ Genuine(Arrived(answer.last))
  BY ArrivedType DEF Arrived, WrittenInv, NothingInvented, Genuine
<1>3. held' \in Versions /\ Genuine(held')
  BY <1>1, <1>2, MergeType, MergeGenuine
<1> QED BY <1>1, <1>2, <1>3, AdvanceWritten

\* The difference and an event as what is merged into the window.
LEMMA DifferenceFields ==
    ASSUME TypeOK, WrittenInv
    PROVE  /\ req["sync"].page \in Versions /\ Genuine(req["sync"].page)
           /\ req["sync"].last \in Changes /\ req["sync"].last <= lastChange
           /\ Greater(cursor, req["sync"].last) \in Changes
           /\ cursor <= Greater(cursor, req["sync"].last)
           /\ req["sync"].last <= Greater(cursor, req["sync"].last)
           /\ Greater(cursor, req["sync"].last) <= lastChange
<1>1. /\ req["sync"].page \in Versions /\ Genuine(req["sync"].page)
      /\ req["sync"].last \in Changes /\ req["sync"].last <= lastChange
      /\ cursor \in Changes /\ cursor <= lastChange
  BY AnswerFields DEF WrittenInv, Carried, Slots, TypeOK, NothingInvented
<1> QED BY <1>1, GreaterType DEF Greater

LEMMA EventFields ==
    ASSUME TypeOK, WrittenInv, NEW e \in events
    PROVE  /\ e.seq \in Seqs /\ e.change \in Changes /\ e.change \in Nat /\ e.change # 0
           /\ EventVersions(e) \in Versions /\ Genuine(EventVersions(e))
           /\ EventVersions(e)[e.seq] = e.change
           /\ e.change <= rows[e.seq] /\ e.change <= lastChange
           /\ \A t \in Seqs \ {e.seq} : rows[t] # e.change
<1>1. e \in Event /\ e.seq \in Seqs /\ e.change \in Changes /\ e.change \in Nat /\ e.change # 0
  BY BoundsAssumption DEF TypeOK, Event, Changes
<1>2. /\ EventVersions(e) \in Versions /\ Genuine(EventVersions(e))
      /\ EventVersions(e)[e.seq] = e.change
  BY <1>1, BoundsAssumption DEF WrittenInv, Carried, EventVersions, Nothing, Versions, Changes
<1>3. e.change <= rows[e.seq] /\ \A t \in Seqs \ {e.seq} : rows[t] # e.change
  BY <1>1, <1>2 DEF Genuine
<1>4. rows[e.seq] <= lastChange /\ rows[e.seq] \in Nat /\ lastChange \in Nat
  BY <1>1, BoundsAssumption DEF WrittenInv, Numbered, TypeOK, Versions, Changes
<1> QED BY <1>1, <1>2, <1>3, <1>4

LEMMA SynchroniseWritten == ASSUME TypeOK, WrittenInv, Synchronise \/ SyncFails PROVE WrittenInv'
<1>1. CASE SyncChanges
  <2>1. Genuine(held') /\ cursor' <= lastChange
    BY <1>1, DifferenceFields, MergedWritten DEF SyncChanges
  <2> QED BY <1>1, <2>1, TabSteps, TabWritten DEF Synchronise
<1>2. CASE SyncLatest
  <2>1. Genuine(held') /\ cursor' <= lastChange
    BY <1>2, LatestWritten DEF SyncLatest, Arrived
  <2> QED BY <1>2, <2>1, TabSteps, TabWritten DEF Synchronise
<1>3. CASE SyncTooFarBehind \/ SyncFails
  <2>1. UNCHANGED <<held, cursor>>
    BY <1>3 DEF SyncTooFarBehind, SyncFails, timeline
  <2> QED BY <2>1, TabSteps, TabWritten DEF WrittenInv, NothingInvented
<1> QED BY <1>1, <1>2, <1>3 DEF Synchronise

LEMMA OpenWritten == ASSUME TypeOK, WrittenInv, Open \/ OpenRoomFails PROVE WrittenInv'
<1>1. CASE OpenRoom
  <2>1. Genuine(held') /\ cursor' <= lastChange
    BY <1>1, BoundsAssumption DEF OpenRoom, Genuine, Nothing, TypeOK, Changes
  <2> QED BY <2>1, TabSteps, TabWritten
<1>2. CASE OpenRoomAnswered
  <2>1. Genuine(held') /\ cursor' <= lastChange
    BY <1>2, LatestWritten DEF OpenRoomAnswered, Arrived
  <2> QED BY <2>1, TabSteps, TabWritten
<1>3. CASE ReopenRoom \/ OpenRoomFails
  <2>1. UNCHANGED <<held, cursor>>
    BY <1>3 DEF ReopenRoom, OpenRoomFails
  <2> QED BY <2>1, TabSteps, TabWritten DEF WrittenInv, NothingInvented
<1> QED BY <1>1, <1>2, <1>3 DEF Open

\* The number that the cursor advances from when an event is taken.
AdvanceFrom(e) == IF e.change = cursor + 1 THEN e.change ELSE cursor

LEMMA NewsWritten ==
    ASSUME TypeOK, WrittenInv, NEW e \in events, ReceiveNews(e)
    PROVE  /\ Genuine(held') /\ cursor' <= lastChange
           /\ AdvanceFrom(e) \in Changes /\ AdvanceFrom(e) <= cursor' /\ cursor <= cursor'
<1>1. /\ held' = MergeIntoWindow(held, hasOlder, hasNewer, EventVersions(e))
      /\ AdvanceCursor(AdvanceFrom(e), held') /\ e.change > cursor
  BY DEF ReceiveNews, AdvanceFrom
<1>2. AdvanceFrom(e) \in Changes /\ cursor <= AdvanceFrom(e) /\ AdvanceFrom(e) <= lastChange
  <2>1. cursor \in Changes /\ cursor \in Nat /\ cursor <= lastChange
    BY BoundsAssumption DEF TypeOK, Changes, WrittenInv, NothingInvented
  <2> QED BY <1>1, <2>1, EventFields DEF AdvanceFrom
<1> QED BY <1>1, <1>2, EventFields, MergedWritten

LEMMA NetworkWritten == ASSUME TypeOK, WrittenInv, Network PROVE WrittenInv'
<1>h. held \in Versions /\ Genuine(held) /\ cursor <= lastChange
  BY DEF TypeOK, WrittenInv, NothingInvented
<1>1. ASSUME NEW e \in events, NEW alsoLater \in BOOLEAN, Receive(e, alsoLater) PROVE WrittenInv'
  <2>1. CASE ReceiveWhileLoading(e)
    <3>1. held' = [held EXCEPT ![e.seq] = Greater(@, e.change)] /\ cursor' = cursor
      BY <2>1 DEF ReceiveWhileLoading
    <3>2. \A s \in Seqs : held'[s] = held[s] \/ held'[s] = EventVersions(e)[s]
      BY <1>h, <3>1, EventFields DEF Greater, Versions
    <3>3. Genuine(held')
      BY <1>h, <3>2, EventFields DEF Genuine
    <3> QED BY <1>1, <1>h, <3>1, <3>3, TabSteps, TabWritten
  <2>2. CASE ReceiveNews(e)
    BY <1>1, <2>2, NewsWritten, TabSteps, TabWritten
  <2>3. CASE ReceiveNothing(e)
    BY <1>1, <1>h, <2>3, TabSteps, TabWritten DEF ReceiveNothing
  <2> QED BY <1>1, <2>1, <2>2, <2>3 DEF Receive
<1>2. CASE UNCHANGED <<held, cursor>>
  BY <1>2, <1>h, TabSteps, TabWritten
<1> QED BY <1>1, <1>2 DEF Network, Miss, Disconnect, Subscribe, BatchAcked, timeline

\* Pages of the history are merged whole; a jump takes its page as it is.
LEMMA HistoryWritten == ASSUME TypeOK, WrittenInv, ReadHistory PROVE WrittenInv'
<1>h. /\ held \in Versions /\ Genuine(held) /\ cursor \in Changes /\ cursor <= lastChange
      /\ {"older", "newer", "jump"} \subseteq Slots
  BY DEF TypeOK, WrittenInv, NothingInvented, Slots
<1>1. ASSUME NEW slot \in {"older", "newer", "jump"}
      PROVE  /\ req[slot].page \in Versions /\ Genuine(req[slot].page)
             /\ req[slot].last \in Changes /\ req[slot].last <= lastChange
             /\ Merge(held, req[slot].page) \in Versions /\ Genuine(Merge(held, req[slot].page))
  <2>1. /\ req[slot].page \in Versions /\ Genuine(req[slot].page)
        /\ req[slot].last \in Changes /\ req[slot].last <= lastChange
    BY <1>h, AnswerFields DEF WrittenInv, Carried
  <2>2. \A s \in Seqs : Merge(held, req[slot].page)[s] \in {held[s], req[slot].page[s]}
    BY DEF Merge, Greater
  <2>3. Merge(held, req[slot].page) \in Versions
    BY <1>h, <2>1 DEF Merge, Versions, Changes, Greater
  <2> QED BY <1>h, <2>1, <2>2, <2>3 DEF Genuine
<1>2. CASE UNCHANGED <<held, cursor>>
  BY <1>2, <1>h, TabSteps, TabWritten
<1>3. CASE OlderLoaded
  BY <1>1, <1>3, <1>h, TabSteps, TabWritten DEF OlderLoaded
<1>4. CASE NewerLoaded
  <2>1. Genuine(held') /\ cursor' <= lastChange
    BY <1>1, <1>4, <1>h, AdvanceWritten DEF NewerLoaded
  <2> QED BY <2>1, TabSteps, TabWritten
<1>5. CASE ReplaceWindow
  <2>1. Greater(cursor, req["jump"].last) \in Changes /\ Greater(cursor, req["jump"].last) <= lastChange
    BY <1>1, <1>h, GreaterType DEF Greater
  <2>2. Genuine(held') /\ cursor' <= lastChange
    BY <1>1, <1>5, <2>1, AdvanceWritten DEF ReplaceWindow
  <2> QED BY <2>2, TabSteps, TabWritten
<1> QED BY <1>2, <1>3, <1>4, <1>5
        DEF ReadHistory, LoadOlder, LoadNewer, JumpToMessage, JumpToUnread, HistoryFails, timeline, EndOf

LEMMA InitWritten == ASSUME Init PROVE WrittenInv
<1>1. \A slot \in Slots : req[slot] = Idle
  BY DEF Init
<1>2. Genuine(Nothing) /\ 0 <= lastChange /\ Numbered
  BY DEF Init, Genuine, Numbered, Nothing
<1> QED BY <1>1, <1>2, FreshRequests DEF Init, WrittenInv, Carried, NothingInvented

LEMMA NextWritten == TypeOK /\ TypeOK' /\ WrittenInv /\ [HistoryNext]_vars => WrittenInv'
<1>1. ASSUME WrittenInv, UNCHANGED vars PROVE WrittenInv'
  BY <1>1 DEF vars, WrittenInv, Numbered, Carried, NothingInvented, Genuine
<1> QED BY <1>1, WriteWritten, ServeWritten, SynchroniseWritten, OpenWritten, NetworkWritten,
           HistoryWritten DEF HistoryNext, Next

-----------------------------------------------------------------------------
(* The tab's steps: pages and differences on their way. *)

LEMMA PagesFacts ==
    ASSUME TypeOK, PagesInv
    PROVE  /\ hasNewer = FALSE /\ req["open"].query.by = "latest"
           /\ req["open"].stage # "idle" => status # "ready"
           /\ status = "ready" /\ req["sync"].query.by = "changes" => req["sync"].query.arg <= cursor
           /\ req["sync"].query.arg \in Nat /\ cursor \in Nat
           /\ req \in [Slots -> Request]
<1>1. req["sync"].query.arg \in Nat /\ cursor \in Nat
  BY BoundsAssumption DEF TypeOK, Slots, Request, Query, Changes
<1> QED BY <1>1 DEF PagesInv, PagesSound, DifferenceSound, Latest, Busy, TypeOK

\* The requests of the timeline are the ones it had, new ones or none.
LEMMA TabPages ==
    ASSUME TypeOK, TypeOK', PagesInv, UNCHANGED server, hasNewer' = FALSE, cursor' <= lastChange,
           req'["open"] \in {req["open"], Idle, Sent(Latest)},
           \/ req'["sync"] \in {req["sync"], Idle, Sent(Latest)}
           \/ status' = "ready" /\ req'["sync"] = ChangesFrom(cursor'),
           status' = "ready" /\ req'["sync"] = req["sync"] /\ req["sync"].query.by = "changes" =>
               req["sync"].query.arg <= cursor',
           req'["open"].stage # "idle" => status' # "ready"
    PROVE  PagesInv'
<1> USE DEF server
<1>1. "sync" \in Slots /\ "open" \in Slots
  BY DEF Slots
<1>2. /\ Idle.stage = "idle" /\ Idle.query = Latest
      /\ Sent(Latest).stage = "sent" /\ Sent(Latest).query = Latest
      /\ Latest.by = "latest"
  BY DEF Idle, Sent, Latest
<1>3. /\ ChangesFrom(cursor').stage = "sent" /\ ChangesFrom(cursor').query.by = "changes"
      /\ ChangesFrom(cursor').query.arg = cursor'
  BY DEF ChangesFrom, Sent, Idle
<1>4. PagesSound'
  <2>1. req'["open"].query = Latest /\ req'["sync"].query.by \in {"latest", "changes"}
    BY <1>1, <1>2, <1>3 DEF PagesInv, PagesSound, Slots
  <2>2. ASSUME NEW slot \in {"open", "sync"}, req'[slot].stage = "page"
        PROVE  req'[slot] = req[slot]
    BY <1>1, <1>2, <1>3, <2>2
  <2>3. \A slot \in {"open", "sync"} : req'[slot].stage = "page" /\ req'[slot].query.by = "latest" =>
            UpToDate(req'[slot].page, req'[slot].more, FALSE, req'[slot].last)
    BY <2>2 DEF PagesInv, PagesSound
  <2> QED BY <2>1, <2>3 DEF PagesSound, UpToDate, Covers
<1>5. DifferenceSound'
  <2>1. CASE req'["sync"] = req["sync"] /\ req["sync"].query.by = "changes"
    <3>1. req'["open"].stage \in {"room", "page"} => req'["open"] = req["open"]
      BY <1>1, <1>2
    <3> QED BY <2>1, <3>1 DEF PagesInv, DifferenceSound
  <2>2. CASE status' = "ready" /\ req'["sync"] = ChangesFrom(cursor')
    <3>1. req'["open"].stage = "idle" /\ cursor' \in Nat
      BY <2>2, BoundsAssumption DEF TypeOK, Changes
    <3> QED BY <1>3, <2>2, <3>1 DEF DifferenceSound
  <2>3. CASE req'["sync"].query.by # "changes"
    BY <2>3 DEF DifferenceSound
  <2> QED BY <1>2, <2>1, <2>2, <2>3
<1> QED BY <1>4, <1>5 DEF PagesInv, Busy

LEMMA SynchronisePages ==
    ASSUME TypeOK, TypeOK', WrittenInv, PagesInv, Synchronise \/ SyncFails PROVE PagesInv'
<1>w. cursor <= lastChange /\ "open" \in Slots \ {"sync"} /\ "sync" \in Slots
  BY DEF WrittenInv, NothingInvented, Slots
<1>1. ASSUME req["sync"].stage = "page", SyncEnds(cursor', status), UNCHANGED <<server, status>>,
             hasNewer' = FALSE, cursor' <= lastChange
      PROVE  PagesInv'
  <2>1. /\ req'["open"] = req["open"]
        /\ req'["sync"] = Idle \/ (status' = "ready" /\ req'["sync"] = ChangesFrom(cursor'))
    BY <1>1, <1>w, PagesFacts, SyncEndsRequests
  <2>2. req'["sync"] # req["sync"]
    BY <1>1, <2>1, NewRequests
  <2> QED BY <1>1, <2>1, <2>2, PagesFacts, TabPages
<1>2. CASE SyncChanges
  <2>1. cursor' <= lastChange
    BY <1>2, DifferenceFields, MergedWritten DEF SyncChanges
  <2> QED BY <1>1, <1>2, <2>1, PagesFacts DEF SyncChanges, SyncAnswered
<1>3. CASE SyncLatest
  <2>1. cursor' <= lastChange
    BY <1>3, LatestWritten DEF SyncLatest, Arrived
  <2> QED BY <1>1, <1>3, <2>1 DEF SyncLatest, SyncAnswered
<1>4. CASE SyncTooFarBehind \/ SyncFails
  <2>1. /\ req'["open"] = req["open"] /\ req'["sync"] \in {Idle, Sent(Latest)}
        /\ UNCHANGED <<server, hasNewer, cursor>> /\ status' \in {status, "error"}
    BY <1>4, <1>w, PagesFacts DEF SyncTooFarBehind, SyncFails, timeline
  <2>2. req'["sync"] = req["sync"] => req["sync"].query.by # "changes"
    BY <2>1, NewRequests
  <2> QED BY <1>w, <2>1, <2>2, PagesFacts, TabPages
<1> QED BY <1>2, <1>3, <1>4 DEF Synchronise

LEMMA OpenPages ==
    ASSUME TypeOK, TypeOK', WrittenInv, PagesInv, Open \/ OpenRoomFails PROVE PagesInv'
<1>w. cursor <= lastChange /\ "open" \in Slots \ {"sync"} /\ "sync" \in Slots /\ 0 <= lastChange
  BY BoundsAssumption DEF WrittenInv, NothingInvented, Slots, TypeOK, Changes
<1>1. CASE OpenRoom
  <2>1. /\ req'["open"] = Sent(Latest) /\ req'["sync"] = req["sync"]
        /\ UNCHANGED server /\ status' = "loading" /\ hasNewer' = FALSE /\ cursor' = 0
    BY <1>1, <1>w, PagesFacts DEF OpenRoom
  <2> QED BY <1>w, <2>1, TabPages
<1>2. CASE OpenRoomAnswered
  <2> DEFINE answer == req["open"]
  <2>1. /\ answer.stage = "page" /\ hasNewer' = FALSE /\ UNCHANGED server
        /\ req'["open"] = Idle /\ req'["sync"] = req["sync"]
    BY <1>2, <1>w, PagesFacts DEF OpenRoomAnswered
  <2>2. cursor' <= lastChange /\ answer.last <= cursor'
    BY <1>2, LatestWritten DEF OpenRoomAnswered, Arrived
  <2>3. ASSUME req["sync"].query.by = "changes" PROVE req["sync"].query.arg <= cursor'
    <3>1. req["sync"].query.arg <= answer.last
      BY <2>1, <2>3 DEF PagesInv, DifferenceSound
    <3>2. answer.last \in Nat /\ cursor' \in Nat
      BY <1>w, BoundsAssumption, AnswerFields DEF TypeOK, Changes
    <3> QED BY <2>2, <3>1, <3>2, PagesFacts
  <2> QED BY <2>1, <2>2, <2>3, NewRequests, TabPages
<1>3. CASE ReopenRoom
  <2>1. UNCHANGED <<server, hasNewer, cursor>> /\ status = "ready" /\ status' \in {"ready", "error"}
    BY <1>3 DEF ReopenRoom
  <2>2. /\ req'["open"] = req["open"]
        /\ \/ req'["sync"] \in {req["sync"], Idle}
           \/ status' = "ready" /\ req'["sync"] = ChangesFrom(cursor')
    BY <1>3, <1>w, <2>1, PagesFacts, SyncTimelineRequests DEF ReopenRoom
  <2> QED BY <1>w, <2>1, <2>2, PagesFacts, TabPages
<1>4. CASE OpenRoomFails
  <2>1. /\ UNCHANGED <<server, hasNewer, cursor>> /\ status' = "error"
        /\ req'["open"] = Idle /\ req'["sync"] = req["sync"]
    BY <1>4, <1>w, PagesFacts DEF OpenRoomFails
  <2> QED BY <1>w, <2>1, PagesFacts, TabPages
<1> QED BY <1>1, <1>2, <1>3, <1>4 DEF Open

LEMMA NetworkPages ==
    ASSUME TypeOK, TypeOK', WrittenInv, PagesInv, Network PROVE PagesInv'
<1>w. cursor <= lastChange /\ "open" \in Slots \ {"sync"} /\ "sync" \in Slots
  BY DEF WrittenInv, NothingInvented, Slots
<1>1. ASSUME UNCHANGED <<server, status, hasNewer>>, cursor <= cursor', cursor' <= lastChange,
             SyncTimeline(req, cursor', status) \/ req' = req
      PROVE  PagesInv'
  <2>1. /\ req'["open"] = req["open"]
        /\ \/ req'["sync"] \in {req["sync"], Idle}
           \/ status' = "ready" /\ req'["sync"] = ChangesFrom(cursor')
    <3>1. CASE SyncTimeline(req, cursor', status)
      BY <1>1, <1>w, <3>1, PagesFacts, SyncTimelineRequests
    <3> QED BY <1>1, <3>1
  <2>2. status = "ready" /\ req["sync"].query.by = "changes" => req["sync"].query.arg <= cursor'
    <3>1. cursor' \in Nat
      BY BoundsAssumption DEF TypeOK, Changes
    <3> QED BY <1>1, <3>1, PagesFacts
  <2> QED BY <1>1, <2>1, <2>2, PagesFacts, TabPages
<1>2. ASSUME NEW e \in events, NEW alsoLater \in BOOLEAN, Receive(e, alsoLater) PROVE PagesInv'
  <2>1. CASE ReceiveNews(e)
    <3>1. cursor <= cursor' /\ cursor' <= lastChange
      BY <2>1, NewsWritten
    <3> QED BY <1>1, <1>2, <2>1, <3>1 DEF Receive, ReceiveNews
  <2>2. CASE ReceiveWhileLoading(e) \/ ReceiveNothing(e)
    BY <1>1, <1>2, <1>w, <2>2, PagesFacts DEF Receive, ReceiveWhileLoading, ReceiveNothing
  <2> QED BY <1>2, <2>1, <2>2 DEF Receive
<1>3. CASE (\E e \in events : Miss(e)) \/ Disconnect \/ Subscribe \/ \E gone \in Gone : BatchAcked(gone)
  <2>1. UNCHANGED <<server, timeline>> /\ (SyncTimeline(req, cursor, status) \/ req' = req)
    BY <1>3 DEF Miss, Disconnect, Subscribe, BatchAcked
  <2> QED BY <1>1, <1>w, <2>1, PagesFacts DEF timeline
<1> QED BY <1>2, <1>3 DEF Network

LEMMA NextPages == TypeOK /\ TypeOK' /\ WrittenInv /\ PagesInv /\ [Next]_vars => PagesInv'
<1>1. ASSUME PagesInv, UNCHANGED vars PROVE PagesInv'
  BY <1>1 DEF vars, PagesInv, PagesSound, DifferenceSound, UpToDate, Covers, Busy
<1> QED BY <1>1, WritePages, ServePages, SynchronisePages, OpenPages, NetworkPages DEF Next

LEMMA InitPages == ASSUME Init PROVE PagesInv
<1>1. Idle.stage = "idle" /\ Idle.query = Latest /\ Latest.by = "latest"
  BY DEF Idle, Latest
<1>2. \A slot \in Slots : req[slot] = Idle
  BY DEF Init
<1>3. "open" \in Slots /\ "sync" \in Slots
  BY DEF Slots
<1> QED BY <1>1, <1>2, <1>3 DEF Init, PagesInv, PagesSound, DifferenceSound

-----------------------------------------------------------------------------
(* The tab's steps: the window is up to date to the cursor. *)

\* An advance keeps a window up to date.
LEMMA AdvancedCursor ==
    ASSUME TypeOK, NEW h \in Versions, Genuine(h), NEW older, NEW newer, NEW from \in Changes,
           AdvanceCursor(from, h), UpToDate(h, older, newer, from)
    PROVE  UpToDate(h, older, newer, cursor')
<1>1. Advances(from, h, cursor')
  BY AdvanceType DEF AdvanceCursor
<1> QED BY <1>1, AdvanceSound DEF TypeOK

\* A latest page with what arrived since it was read is an up-to-date window.
LEMMA LatestCursor ==
    ASSUME TypeOK, WrittenInv, PagesInv, NEW slot \in {"open", "sync"},
           req[slot].stage = "page", req[slot].query.by = "latest",
           held' = MergeIntoWindow(req[slot].page, req[slot].more, FALSE, Arrived(req[slot].last)),
           AdvanceCursor(req[slot].last, held')
    PROVE  UpToDate(held', req[slot].more, FALSE, cursor')
<1> DEFINE answer == req[slot]
<1>1. /\ answer.page \in Versions /\ answer.last \in Changes /\ answer.more \in BOOLEAN
      /\ Genuine(answer.page)
      /\ UpToDate(answer.page, answer.more, FALSE, answer.last)
  BY AnswerFields DEF WrittenInv, PagesInv, Carried, PagesSound, Slots
<1>2. /\ Arrived(answer.last) \in Versions /\ Genuine(Arrived(answer.last))
      /\ held' \in Versions /\ Genuine(held')
  BY LatestWritten
<1>3. UpToDate(held', answer.more, FALSE, answer.last)
  BY <1>1, <1>2, MergeSound DEF TypeOK
<1> QED BY <1>1, <1>2, <1>3, AdvancedCursor

\* A merge into a window that is up to date to the cursor: it stays so, and the numbers
\* from there up to which the merge brought everything may be claimed.
LEMMA MergedCursor ==
    ASSUME TypeOK, CursorInv, status = "ready", NEW p \in Versions, Genuine(p), NEW from \in Changes,
           held' = MergeIntoWindow(held, hasOlder, hasNewer, p), AdvanceCursor(from, held'),
           \A s \in channel : cursor < rows[s] /\ rows[s] <= from
                              /\ Covers(held, hasOlder, hasNewer, s) => p[s] = rows[s]
    PROVE  UpToDate(held', hasOlder, hasNewer, cursor')
<1>t. /\ held \in Versions /\ Genuine(held) /\ rows \in Versions /\ channel \in SUBSET Seqs
      /\ hasOlder \in BOOLEAN /\ hasNewer \in BOOLEAN /\ cursor \in Nat
      /\ \A s \in Seqs : rows[s] \in Nat /\ held[s] \in Nat
  BY BoundsAssumption DEF TypeOK, CursorInv, WrittenInv, NothingInvented, Versions, Changes
<1>1. UpToDate(held', hasOlder, hasNewer, cursor)
  BY <1>t, MergeSound DEF CursorInv, CursorSound
<1>2. UpToDate(held', hasOlder, hasNewer, from)
  <2> SUFFICES ASSUME NEW s \in channel, rows[s] <= from, ~(rows[s] <= cursor),
                      Covers(held', hasOlder, hasNewer, s)
               PROVE  held'[s] = rows[s]
    BY <1>1 DEF UpToDate
  <2>1. s \in Seqs /\ Covers(held, hasOlder, hasNewer, s)
    BY <1>t, MergeCovers
  <2>2. p[s] = rows[s] /\ (held[s] # 0 => held[s] <= rows[s])
    BY <1>t, <2>1 DEF Genuine
  <2> QED BY <1>t, <2>1, <2>2 DEF MergeIntoWindow, Greater
<1>3. held' \in Versions /\ Genuine(held')
  BY <1>t, MergeType, MergeGenuine
<1> QED BY <1>2, <1>3, AdvancedCursor

LEMMA TabCursor ==
    ASSUME TypeOK, CursorInv, Synchronise \/ SyncFails \/ Open \/ OpenRoomFails \/ Network
    PROVE  CursorSound'
<1> SUFFICES ASSUME status' = "ready" PROVE UpToDate(held', hasOlder', hasNewer', cursor')
  <2>1. UNCHANGED server
    BY TabSteps DEF TabStep
  <2> QED BY <2>1 DEF server, CursorSound, UpToDate, Covers
<1>i. WrittenInv /\ PagesInv /\ CursorSound
  BY DEF CursorInv
<1>1. CASE SyncChanges
  <2> DEFINE answer == req["sync"]
             from   == Greater(cursor, answer.last)
  <2>1. /\ answer.stage = "page" /\ answer.query.by = "changes" /\ ~answer.more /\ status = "ready"
        /\ held' = MergeIntoWindow(held, hasOlder, hasNewer, answer.page)
        /\ AdvanceCursor(from, held') /\ UNCHANGED <<hasOlder, hasNewer>>
    BY <1>1 DEF SyncChanges, SyncAnswered
  <2>2. ASSUME NEW s \in channel, cursor < rows[s], rows[s] <= from PROVE answer.page[s] = rows[s]
    <3>1. answer.query.arg <= cursor /\ answer.query.arg \in Nat /\ cursor \in Nat
      BY <1>i, <2>1, PagesFacts
    <3>2. s \in Seqs /\ rows[s] \in Nat /\ answer.last \in Nat
      BY <1>i, DifferenceFields, BoundsAssumption DEF TypeOK, Versions, Changes
    <3>3. rows[s] <= answer.last /\ answer.query.arg < rows[s]
      BY <2>2, <3>1, <3>2 DEF Greater
    <3> QED BY <1>i, <2>1, <3>2, <3>3 DEF PagesInv, DifferenceSound
  <2> HIDE DEF from
  <2>3. from \in Changes
    BY <1>i, DifferenceFields DEF from
  <2> QED BY <1>i, <2>1, <2>2, <2>3, DifferenceFields, MergedCursor
<1>2. CASE SyncLatest
  BY <1>2, <1>i, LatestCursor DEF SyncLatest, SyncAnswered, Arrived
<1>3. CASE OpenRoomAnswered
  BY <1>3, <1>i, PagesFacts, LatestCursor DEF OpenRoomAnswered, Arrived
<1>4. ASSUME NEW e \in events, NEW alsoLater \in BOOLEAN, Receive(e, alsoLater), ReceiveNews(e)
      PROVE  UpToDate(held', hasOlder', hasNewer', cursor')
  <2>1. /\ status = "ready"
        /\ held' = MergeIntoWindow(held, hasOlder, hasNewer, EventVersions(e))
        /\ AdvanceCursor(AdvanceFrom(e), held') /\ UNCHANGED <<hasOlder, hasNewer>>
    BY <1>4 DEF Receive, ReceiveNews, AdvanceFrom
  <2>2. ASSUME NEW s \in channel, cursor < rows[s], rows[s] <= AdvanceFrom(e)
        PROVE  EventVersions(e)[s] = rows[s]
    <3>1. s \in Seqs /\ rows[s] \in Nat /\ cursor \in Nat
      BY BoundsAssumption DEF TypeOK, Versions, Changes
    <3>2. rows[s] = e.change
      BY <1>i, <2>2, <3>1, EventFields DEF AdvanceFrom
    <3>3. s = e.seq
      BY <1>i, <3>1, <3>2, EventFields
    <3> QED BY <1>i, <3>2, <3>3, EventFields
  <2>3. AdvanceFrom(e) \in Changes
    BY <1>4, <1>i, NewsWritten
  <2> QED BY <1>i, <2>1, <2>2, <2>3, EventFields, MergedCursor
<1>5. CASE UNCHANGED <<held, hasOlder, hasNewer, cursor>> /\ status = "ready"
  BY <1>5, <1>i DEF CursorSound
<1>6. CASE SyncTooFarBehind \/ SyncFails \/ OpenRoom \/ OpenRoomFails \/ ReopenRoom
  BY <1>5, <1>6 DEF SyncTooFarBehind, SyncFails, OpenRoom, OpenRoomFails, ReopenRoom, timeline
<1>7. CASE Network
  BY <1>4, <1>5, <1>7 DEF Network, Receive, ReceiveWhileLoading, ReceiveNothing,
                          Miss, Disconnect, Subscribe, BatchAcked, timeline
<1> QED BY <1>1, <1>2, <1>3, <1>6, <1>7 DEF Synchronise, Open

-----------------------------------------------------------------------------

LEMMA NextCursor == TypeOK /\ TypeOK' /\ CursorInv /\ [Next]_vars => CursorInv'
<1>1. ASSUME CursorInv, UNCHANGED vars PROVE CursorSound'
  BY <1>1 DEF vars, CursorInv, CursorSound, UpToDate, Covers
<1>2. ASSUME TypeOK, CursorInv, Next PROVE CursorSound'
  BY <1>2, WriteCursor, ServeCursor, TabCursor DEF Next
<1> QED BY <1>1, <1>2, NextWritten, NextPages DEF CursorInv, HistoryNext

\* The inductive invariant: what numbers, pages and requests guarantee together.
THEOREM CursorInvariant == Spec => []CursorInv
<1>1. Init => CursorInv
  BY InitWritten, InitPages DEF CursorInv, Init, CursorSound
<1> QED BY <1>1, InitType, NextType, NextCursor, PTL DEF Spec

\* docs/events.md: a change at or below the cursor is already reflected, whatever the
\* order in which pages, differences and events arrive, whatever is lost or fails.
THEOREM CursorTrusted == Spec => []CursorSound
<1>1. CursorInv => CursorSound
  BY DEF CursorInv
<1> QED BY <1>1, CursorInvariant, PTL

\* No merge shows a version that was not written to the message, and the cursor never
\* runs ahead of the room.
THEOREM OnlyWritten == Spec => []NothingInvented
<1>1. CursorInv => NothingInvented
  BY DEF CursorInv, WrittenInv
<1> QED BY <1>1, CursorInvariant, PTL

-----------------------------------------------------------------------------
(* The resync: windows that are replaced and what is on its way. *)

LEMMA MergeHeld ==
    ASSUME NEW h \in Versions, NEW p \in Versions, NEW older, NEW newer
    PROVE  Held(h) \subseteq Held(MergeIntoWindow(h, older, newer, p))
BY BoundsAssumption DEF Held, MergeIntoWindow, Greater, Versions, Changes

\* A window that holds more covers more.
LEMMA CoversMore ==
    ASSUME NEW h, NEW h2, NEW older, NEW s, Held(h) \subseteq Held(h2),
           older => Held(h) # {}, Covers(h, older, FALSE, s)
    PROVE  Covers(h2, older, FALSE, s)
BY DEF Covers

LEMMA WideMore ==
    ASSUME NEW h, NEW h2, NEW older, Held(h) \subseteq Held(h2), Wide(h, older)
    PROVE  Wide(h2, older)
BY DEF Wide

LEMMA WideHolds ==
    ASSUME NEW h, NEW older, older, Wide(h, older)
    PROVE  Held(h) # {}
<1>1. PICK T \in SUBSET channel : /\ Cardinality(T) = PageLimit
                                  /\ \A t \in T : \E u \in Held(h) : u <= t
  BY DEF Wide
<1>2. T # {}
  BY <1>1, LimitsAssumption, FS_EmptySet
<1> QED BY <1>1, <1>2

LEMMA LatestPageHeld ==
    ASSUME Numbered, channel \in SUBSET Seqs, NEW T \in SUBSET channel
    PROVE  Held(PageOf(T)) = T
BY DEF Held, PageOf, Numbered

\* A latest page with more before it is a whole page wide.
LEMMA LatestPageWide ==
    ASSUME Numbered, channel \in SUBSET Seqs, NEW T \in SUBSET channel,
           FirstRows(channel, PageLimit, NewestFirst, T)
    PROVE  Wide(PageOf(T), T # channel)
<1> SUFFICES ASSUME T # channel PROVE Wide(PageOf(T), TRUE)
  BY DEF Wide
<1>1. Cardinality(T) = PageLimit
  BY DEF FirstRows
<1>2. \A t \in T : t \in Held(PageOf(T)) /\ t <= t
  BY LatestPageHeld, BoundsAssumption DEF Seqs
<1> QED BY <1>1, <1>2 DEF Wide

\* The latest page covers nothing that a wide window does not cover.
LEMMA LatestPageWithin ==
    ASSUME Numbered, channel \in SUBSET Seqs, NEW T \in SUBSET channel,
           FirstRows(channel, PageLimit, NewestFirst, T),
           NEW h \in Versions, NEW older, Wide(h, older),
           NEW s \in channel, Covers(PageOf(T), T # channel, FALSE, s)
    PROVE  Covers(h, older, FALSE, s)
<1> SUFFICES ASSUME older PROVE \E u \in Held(h) : u <= s
  BY DEF Covers
<1>f. IsFiniteSet(T) /\ Cardinality(T) \in Nat /\ Cardinality(T) <= PageLimit
  <2>1. IsFiniteSet(Seqs)
    BY BoundsAssumption, FS_Interval DEF Seqs
  <2>2. IsFiniteSet(T)
    BY <2>1, FS_Subset
  <2>3. Cardinality(T) = PageLimit \/ (T = channel /\ Cardinality(channel) <= PageLimit)
    BY DEF FirstRows
  <2> QED BY <2>2, <2>3, FS_CardinalityType, LimitsAssumption
<1>n. \A t \in channel : t \in Nat
  BY BoundsAssumption DEF Seqs
<1>1. s \in T
  <2> SUFFICES ASSUME s \notin T PROVE FALSE
    OBVIOUS
  <2>1. T # channel /\ Cardinality(T) = PageLimit /\ \A t \in T : t > s
    BY DEF FirstRows, NewestFirst
  <2>2. T # {}
    BY <2>1, LimitsAssumption, FS_EmptySet
  <2>3. PICK t \in T : t <= s
    BY <2>1, <2>2, LatestPageHeld DEF Covers
  <2> QED BY <1>n, <2>1, <2>3
<1>2. PICK W \in SUBSET channel : /\ Cardinality(W) = PageLimit
                                  /\ \A t \in W : \E u \in Held(h) : u <= t
  BY DEF Wide
<1>3. \E t \in W : t <= s
  <2> SUFFICES ASSUME \A t \in W : ~(t <= s) PROVE FALSE
    OBVIOUS
  <2>1. \A t \in W : t > s
    BY <1>n
  <2>2. W \subseteq T \ {s}
    <3> SUFFICES ASSUME NEW t \in W, t \notin T PROVE FALSE
      BY <1>n, <2>1
    <3>1. s > t
      BY <1>1 DEF FirstRows, NewestFirst
    <3> QED BY <1>n, <2>1, <3>1
  <2>3. IsFiniteSet(T \ {s}) /\ Cardinality(T \ {s}) = Cardinality(T) - 1
    BY <1>f, <1>1, FS_RemoveElement
  <2>4. Cardinality(W) <= Cardinality(T \ {s})
    BY <2>2, <2>3, FS_Subset
  <2> QED BY <1>2, <1>f, <2>3, <2>4, LimitsAssumption
<1>4. PICK t \in W, u \in Held(h) : t <= s /\ u <= t
  BY <1>2, <1>3
<1> QED BY <1>4, <1>n, BoundsAssumption DEF Held, Seqs

\* The faults under which a tab is resynced for certain.
NoneLost == "lost" \notin Faults /\ "failure" \notin Faults

\* The version of a row stays held through a merge of genuine versions.
LEMMA MergeKeepsRow ==
    ASSUME rows \in Versions, NEW h \in Versions, NEW p \in Versions, NEW older \in BOOLEAN, NEW newer \in BOOLEAN,
           NEW s \in Seqs, Genuine(p), h[s] = rows[s]
    PROVE  MergeIntoWindow(h, older, newer, p)[s] = rows[s]
<1>1. rows[s] \in Nat /\ p[s] \in Nat /\ (p[s] # 0 => p[s] <= rows[s])
  BY BoundsAssumption DEF Genuine, Versions, Changes
<1> QED BY <1>1 DEF MergeIntoWindow, Greater

\* What is merged in its row's version is held, where the window covers it.
LEMMA MergeTakesRow ==
    ASSUME rows \in Versions, NEW h \in Versions, NEW p \in Versions, NEW older \in BOOLEAN, NEW newer \in BOOLEAN,
           NEW s \in Seqs, Genuine(h), p[s] = rows[s], Covers(h, older, newer, s)
    PROVE  MergeIntoWindow(h, older, newer, p)[s] = rows[s]
<1>1. rows[s] \in Nat /\ h[s] \in Nat /\ (h[s] # 0 => h[s] <= rows[s])
  BY BoundsAssumption DEF Genuine, Versions, Changes
<1> QED BY <1>1 DEF MergeIntoWindow, Greater

\* What asking for a synchronisation of an open timeline, and ending one, does.
LEMMA SyncTimelineAsks ==
    ASSUME req \in [Slots -> Request], NEW at, SyncTimeline(req, at, "ready")
    PROVE  /\ \A slot \in Slots \ {"sync"} : req'[slot] = req[slot]
           /\ \/ again' = TRUE /\ req'["sync"] = req["sync"] /\ Busy("sync")
              \/ again' = FALSE /\ req'["sync"] = ChangesFrom(at)
BY DEF SyncTimeline, SyncOnce, Slots, ChangesFrom

LEMMA SyncEndsAsks ==
    ASSUME req \in [Slots -> Request], NEW at, SyncEnds(at, "ready")
    PROVE  /\ \A slot \in Slots \ {"sync"} : req'[slot] = req[slot]
           /\ again' = FALSE
           /\ req'["sync"] = IF again THEN ChangesFrom(at) ELSE Idle
BY DEF SyncEnds, SyncOnce, Slots, ChangesFrom

LEMMA SlotsDiffer == "open" \in Slots \ {"sync"} /\ "sync" \in Slots
BY DEF Slots

LEMMA ServeAlone == ASSUME TypeOK, OneAtATime, Serve PROVE OneAtATime'
<1>1. UNCHANGED <<status, again>>
  BY DEF Serve, ReadRoomRow, ReadOneWay, ReadAround, timeline
<1>2. PICK slot \in Slots : ReadRoomRow(slot) \/ ReadOneWay(slot) \/ ReadAround(slot)
  BY DEF Serve
<1>3. /\ req[slot].stage # "idle" /\ req'[slot].stage # "idle"
      /\ \A t \in Slots \ {slot} : req'[t] = req[t]
  <2>1. CASE ReadRoomRow(slot)
    BY <2>1 DEF ReadRoomRow, TypeOK, Request
  <2>2. CASE req[slot].stage = "room" /\ \E S, more, moreAfter : Answer(slot, S, more, moreAfter)
    BY <2>2 DEF Answer, TypeOK, Request
  <2> QED BY <1>2, <2>1, <2>2 DEF ReadOneWay, ReadAround, ReadRows
<1>4. \A t \in Slots : Busy(t)' <=> Busy(t)
  BY <1>3 DEF Busy
<1> QED BY <1>1, <1>4, SlotsDiffer DEF OneAtATime

LEMMA TabAlone ==
    ASSUME NoneLost, TypeOK, OneAtATime, Synchronise \/ SyncFails \/ Open \/ OpenRoomFails
    PROVE  OneAtATime'
<1>s. "open" \in Slots /\ "sync" \in Slots
  BY SlotsDiffer
<1>1. ASSUME NEW at, SyncEnds(at, status), SyncAnswered("changes") \/ SyncAnswered("latest"),
             status' = status
      PROVE  OneAtATime'
  <2>1. Busy("sync") /\ status = "ready"
    BY <1>1 DEF SyncAnswered, Busy, OneAtATime
  <2>2. /\ req'["open"] = req["open"] /\ again' = FALSE
    BY <1>1, <2>1, SyncEndsAsks, SlotsDiffer DEF TypeOK
  <2> QED BY <1>1, <2>1, <2>2 DEF OneAtATime, Busy
<1>2. ASSUME SyncChanges \/ SyncLatest PROVE OneAtATime'
  BY <1>1, <1>2 DEF SyncChanges, SyncLatest
<1>3. ASSUME SyncTooFarBehind PROVE OneAtATime'
  BY <1>3, <1>s, NewRequests DEF SyncTooFarBehind, SyncAnswered, OneAtATime, Busy, timeline, TypeOK
<1>4. ASSUME OpenRoom PROVE OneAtATime'
  BY <1>4, <1>s, NewRequests DEF OpenRoom, OneAtATime, Busy, TypeOK
<1>5. ASSUME OpenRoomAnswered PROVE OneAtATime'
  BY <1>5, <1>s, NewRequests DEF OpenRoomAnswered, OneAtATime, Busy, TypeOK
<1>6. ASSUME ReopenRoom PROVE OneAtATime'
  <2>1. status = "ready" /\ status' = "ready" /\ SyncTimeline(req, cursor, "ready")
    BY <1>6 DEF ReopenRoom, NoneLost
  <2> QED BY <2>1, SyncTimelineAsks, SlotsDiffer, NewRequests DEF OneAtATime, Busy, TypeOK
<1>7. ~SyncFails /\ ~OpenRoomFails
  BY DEF SyncFails, OpenRoomFails, NoneLost
<1> QED BY <1>2, <1>3, <1>4, <1>5, <1>6, <1>7 DEF Synchronise, Open

LEMMA NetworkAlone == ASSUME TypeOK, OneAtATime, Network PROVE OneAtATime'
<1>1. ASSUME status = "ready", status' = status, NEW at, SyncTimeline(req, at, status)
      PROVE  OneAtATime'
  BY <1>1, SyncTimelineAsks, SlotsDiffer, NewRequests DEF OneAtATime, Busy, TypeOK
<1>2. ASSUME UNCHANGED <<status, again, req>> PROVE OneAtATime'
  BY <1>2 DEF OneAtATime, Busy
<1>3. ASSUME (\E e \in events : Miss(e)) \/ Disconnect \/ Subscribe PROVE OneAtATime'
  BY <1>2, <1>3 DEF Miss, Disconnect, Subscribe, timeline
<1>4. ASSUME NEW e \in events, NEW alsoLater \in BOOLEAN, Receive(e, alsoLater) PROVE OneAtATime'
  BY <1>1, <1>2, <1>4 DEF Receive, ReceiveWhileLoading, ReceiveNews, ReceiveNothing
<1>5. ASSUME NEW gone \in Gone, BatchAcked(gone) PROVE OneAtATime'
  BY <1>1, <1>2, <1>5 DEF BatchAcked, timeline
<1> QED BY <1>3, <1>4, <1>5 DEF Network

\* A write changes the rows it publishes, and adds rows only above the others.
LEMMA WriteSteps ==
    ASSUME TypeOK, Numbered, RowsBelow, Write
    PROVE  /\ Grown /\ Numbered' /\ RowsBelow' /\ events \subseteq events'
           /\ UNCHANGED <<conn, timeline, again, req>>
           /\ channel \subseteq channel'
           /\ \A s \in Seqs : rows'[s] = rows[s] \/ [seq |-> s, change |-> rows'[s]] \in events'
           /\ \A s \in channel' : s \in channel \/ s > lastSeq
<1>t. lastSeq \in Nat /\ channel \in SUBSET Seqs /\ \A s \in Seqs : rows[s] \in Nat /\ root[s] \in 0..MaxSeq /\ s \in Nat /\ s # 0
  BY BoundsAssumption DEF TypeOK, Versions, Changes, Seqs
<1>1. ASSUME NEW s1 \in Seqs, NEW s2 \in 0..MaxSeq, Bump(s1, s2)
      PROVE  /\ events \subseteq events'
             /\ \A s \in Seqs : rows'[s] = rows[s] \/ [seq |-> s, change |-> rows'[s]] \in events'
             /\ \A s \in Seqs : rows'[s] # 0 => rows[s] # 0 \/ s \in {s1, s2}
  <2>1. \A s \in Seqs : rows'[s] = rows[s] \/ s \in {s1, s2} \ {0}
    BY <1>1, <1>t DEF Bump
  <2>2. events' = events \cup {[seq |-> s, change |-> rows'[s]] : s \in {s1, s2} \ {0}}
    BY <1>1 DEF Bump
  <2> QED BY <2>1, <2>2
<1>2. 0 \in 0..MaxSeq /\ \A s \in Seqs : s \in 0..MaxSeq
  BY BoundsAssumption DEF Seqs
<1>3. lastSeq < MaxSeq => NewRow \in Seqs /\ NewRow > lastSeq
  BY BoundsAssumption DEF TypeOK, NewRow, Seqs
<1> DEFINE Steps ==
        /\ Grown /\ Numbered' /\ RowsBelow' /\ events \subseteq events'
        /\ UNCHANGED <<conn, timeline, again, req>>
        /\ channel \subseteq channel'
        /\ \A s \in Seqs : rows'[s] = rows[s] \/ [seq |-> s, change |-> rows'[s]] \in events'
        /\ \A s \in channel' : s \in channel \/ s > lastSeq
<1>4. ASSUME NEW s1 \in Seqs, NEW s2 \in 0..MaxSeq, Bump(s1, s2),
             lastSeq' \in Nat, lastSeq <= lastSeq', s1 <= lastSeq', s2 <= lastSeq',
             channel \subseteq channel', channel' \subseteq channel \cup {s1},
             channel' = channel \/ s1 > lastSeq,
             \A s \in Seqs : root'[s] <= lastSeq',
             UNCHANGED <<conn, timeline, again, req>>
      PROVE  Steps
  <2>1. Grown /\ Numbered'
    BY <1>4, BumpGrown
  <2>2. \A s \in channel' : s <= lastSeq'
    BY <1>4, <1>t DEF RowsBelow
  <2>3. \A s \in Seqs : rows'[s] # 0 => s <= lastSeq'
    <3>1. \A s \in Seqs : rows[s] # 0 => s <= lastSeq'
      BY <1>4, <1>t DEF RowsBelow
    <3> QED BY <1>1, <1>4, <3>1
  <2>4. RowsBelow'
    BY <1>4, <2>2, <2>3 DEF RowsBelow
  <2>5. \A s \in channel' : s \in channel \/ s > lastSeq
    BY <1>4
  <2> QED BY <1>1, <1>4, <2>1, <2>4, <2>5
<1>5. CASE SendMessage
  <2>1. /\ NewRow \in Seqs /\ Bump(NewRow, 0) /\ lastSeq' = NewRow
        /\ channel' = channel \cup {NewRow} /\ UNCHANGED <<root, conn, timeline, again, req>>
    BY <1>3, <1>5 DEF SendMessage
  <2>2. PICK new \in Seqs : new = NewRow
    BY <2>1
  <2>3. /\ lastSeq' = new /\ new \in Nat /\ lastSeq <= new /\ new > lastSeq /\ 0 <= new /\ new <= new
    BY <1>t, <2>1, <2>2 DEF NewRow
  <2>4. \A s \in Seqs : root'[s] <= lastSeq'
    BY <1>t, <2>1, <2>3 DEF RowsBelow
  <2>5. /\ Bump(new, 0) /\ channel \subseteq channel' /\ channel' \subseteq channel \cup {new}
        /\ UNCHANGED <<conn, timeline, again, req>>
    BY <2>1, <2>2
  <2> QED BY <1>2, <1>4, <2>3, <2>4, <2>5
<1>6. CASE \E top \in Seqs, also \in BOOLEAN : SendThreadReply(top, also)
  <2>1. PICK top \in Seqs, also \in BOOLEAN : SendThreadReply(top, also)
    BY <1>6
  <2>2. /\ NewRow \in Seqs /\ Bump(NewRow, top) /\ lastSeq' = NewRow
        /\ top <= lastSeq /\ root' = [root EXCEPT ![NewRow] = top]
        /\ channel' \in {channel, channel \cup {NewRow}}
        /\ UNCHANGED <<conn, timeline, again, req>>
    BY <1>3, <2>1 DEF SendThreadReply
  <2>3. PICK new \in Seqs : new = NewRow
    BY <2>2
  <2>4. /\ lastSeq' = new /\ new \in Nat /\ lastSeq <= new /\ new > lastSeq /\ new <= new
        /\ top \in Nat /\ top <= new /\ top \in 0..MaxSeq
    BY <1>2, <1>t, <2>2, <2>3 DEF NewRow
  <2>5. \A s \in Seqs : root'[s] <= lastSeq'
    <3>1. \A s \in Seqs : root'[s] = top \/ root'[s] = root[s]
      BY <2>2 DEF TypeOK
    <3>2. \A s \in Seqs : root[s] <= new
      BY <1>t, <2>4 DEF RowsBelow
    <3> QED BY <2>4, <3>1, <3>2
  <2>6. /\ Bump(new, top) /\ channel \subseteq channel' /\ channel' \subseteq channel \cup {new}
        /\ UNCHANGED <<conn, timeline, again, req>>
    BY <2>2, <2>3
  <2> QED BY <1>4, <2>4, <2>5, <2>6
<1>7. ASSUME NEW s1 \in Seqs, NEW s2 \in 0..MaxSeq, Bump(s1, s2), s1 <= lastSeq, s2 <= lastSeq,
             UNCHANGED <<root, channel, lastSeq, conn, timeline, again, req>>
      PROVE  Steps
  <2>1. \A s \in Seqs : root'[s] <= lastSeq'
    BY <1>7 DEF RowsBelow
  <2> QED BY <1>4, <1>7, <1>t, <2>1
<1>8. CASE \E s \in Seqs : ChangeMessage(s)
  <2>1. PICK s \in Seqs : ChangeMessage(s)
    BY <1>8
  <2>2. s <= lastSeq /\ 0 <= lastSeq
    BY <1>t, <2>1 DEF ChangeMessage
  <2> QED BY <1>2, <1>7, <2>1, <2>2 DEF ChangeMessage
<1>9. CASE \E s \in Seqs : DeleteThreadReply(s)
  <2>1. PICK s \in Seqs : DeleteThreadReply(s)
    BY <1>9
  <2>2. s <= lastSeq /\ root[s] <= lastSeq /\ root[s] \in 0..MaxSeq
    BY <1>t, <2>1 DEF DeleteThreadReply, RowsBelow
  <2> QED BY <1>7, <2>1, <2>2 DEF DeleteThreadReply
<1> QED BY <1>5, <1>6, <1>8, <1>9 DEF Write

\* A new row is above every window.
LEMMA WritePageWithin ==
    ASSUME TypeOK, WrittenInv, PagesInv, OneAtATime, RowsBelow, PageWithin, Write
    PROVE  RowsBelow' /\ PageWithin'
<1>1. /\ RowsBelow' /\ UNCHANGED <<status, held, hasOlder, hasNewer, req>>
      /\ channel' \in SUBSET Seqs /\ channel \subseteq channel'
      /\ \A s \in channel' : s \in channel \/ s > lastSeq
  BY WriteSteps DEF WrittenInv, Grown, timeline
<1>t. /\ hasNewer = FALSE /\ held \in Versions /\ lastSeq \in Nat
      /\ \A s \in Seqs : s \in Nat /\ rows[s] \in Nat /\ held[s] \in Nat
  BY BoundsAssumption DEF PagesInv, TypeOK, Versions, Changes, Seqs
<1>2. ASSUME NEW h, NEW older, Wide(h, older)
      PROVE  older => \E T \in SUBSET channel' : /\ Cardinality(T) = PageLimit
                                                 /\ \A t \in T : \E u \in Held(h) : u <= t
  BY <1>1, <1>2 DEF Wide
<1>3. status = "ready" => Wide(held, hasOlder)'
  BY <1>1, <1>2 DEF PageWithin, Wide
<1>4. ASSUME NEW slot \in {"open", "sync"}, LatestRead(slot)
      PROVE  Wide(req[slot].page, req[slot].more)'
  <2>1. Wide(req[slot].page, req[slot].more)
    BY <1>4 DEF PageWithin
  <2> QED BY <1>1, <1>2, <2>1 DEF Wide
<1>5. ASSUME LatestRead("sync"), NEW s \in channel', InPage("sync", s)
      PROVE  InWindow(s)
  <2>1. CASE s \in channel
    BY <1>5, <2>1 DEF PageWithin
  <2>2. CASE s \notin channel
    <3>1. ASSUME hasOlder PROVE \E u \in Held(held) : u <= s
      <4>1. status = "ready"
        BY <1>5 DEF LatestRead, OneAtATime, Busy
      <4>2. PICK u \in Held(held) : TRUE
        BY <3>1, <4>1, WideHolds DEF PageWithin
      <4>3. u \in Seqs /\ held[u] # 0 /\ held[u] <= rows[u]
        BY <4>2 DEF Held, WrittenInv, NothingInvented, Genuine
      <4>4. rows[u] # 0
        BY <1>t, <4>3
      <4>5. u <= lastSeq /\ s > lastSeq
        BY <1>1, <2>2, <4>3, <4>4 DEF RowsBelow
      <4> QED BY <1>1, <1>t, <4>3, <4>5
    <3> QED BY <1>t, <3>1 DEF InWindow, Covers
  <2> QED BY <2>1, <2>2
<1> QED BY <1>1, <1>3, <1>4, <1>5 DEF PageWithin, LatestRead, InPage, InWindow, Covers

\* A write puts what it changes on its way.
LEMMA WriteResync == ASSUME TypeOK, CursorInv, ResyncInv, Write PROVE ResyncInv'
<1>1. /\ Grown /\ Numbered' /\ RowsBelow' /\ events \subseteq events'
      /\ UNCHANGED <<conn, status, held, hasOlder, hasNewer, cursor, paging, again, req>>
      /\ channel \subseteq channel'
      /\ \A s \in Seqs : rows'[s] = rows[s] \/ [seq |-> s, change |-> rows'[s]] \in events'
      /\ \A s \in channel' : s \in channel \/ s > lastSeq
  BY WriteSteps DEF CursorInv, WrittenInv, PagesInv, ResyncInv, timeline
<1>2. OneAtATime'
  BY <1>1 DEF ResyncInv, OneAtATime, Busy
<1>t. /\ channel' \in SUBSET Seqs /\ hasNewer = FALSE /\ held \in Versions
      /\ \A s \in Seqs : s \in Nat /\ rows[s] \in Nat /\ held[s] \in Nat
      /\ lastSeq \in Nat
  BY <1>1, BoundsAssumption DEF Grown, CursorInv, WrittenInv, PagesInv, TypeOK, Versions, Changes, Seqs
<1>3. \A s \in channel' : (s \in channel /\ rows'[s] = rows[s]) \/ Due(s)'
  <2> SUFFICES ASSUME NEW s \in channel', s \notin channel \/ rows'[s] # rows[s] PROVE Due(s)'
    OBVIOUS
  <2>1. rows'[s] # rows[s]
    <3>1. rows[s] <= lastChange /\ lastChange \in Nat /\ rows'[s] \in Nat
      BY <1>1, <1>t, BoundsAssumption DEF CursorInv, WrittenInv, PagesInv, Numbered, TypeOK, Changes, Grown, Versions
    <3> QED BY <1>1, <1>t, <3>1 DEF Grown
  <2> QED BY <1>1, <1>t, <2>1 DEF Due
<1>4. \A s : Due(s) /\ rows'[s] = rows[s] => Due(s)'
  BY <1>1 DEF Due
<1>5. PageWithin'
  BY WritePageWithin DEF CursorInv, ResyncInv
<1>6. PagesComplete'
  <2>1. ASSUME NEW slot \in {"open", "sync"}, PageComplete(slot) PROVE PageComplete(slot)'
    <3> SUFFICES ASSUME NEW s \in channel', InPage(slot, s), ~Due(s)'
                 PROVE  req[slot].page[s] = rows'[s] \/ held[s] = rows'[s]
      BY <1>1 DEF PageComplete, InPage, Covers
    <3>1. s \in channel /\ rows'[s] = rows[s] /\ ~Due(s)
      BY <1>3, <1>4
    <3> QED BY <2>1, <3>1 DEF PageComplete
  <2> QED BY <1>1, <2>1 DEF ResyncInv, PagesComplete, LatestRead
<1>7. NothingForgotten'
  <2> SUFFICES ASSUME conn = "synced", status = "ready", ~again,
                      NEW s \in channel', InWindow(s), ~Due(s)'
               PROVE  held[s] = rows'[s] \/ Fetching(s)'
    BY <1>1 DEF NothingForgotten, InWindow, Covers
  <2>1. s \in channel /\ rows'[s] = rows[s] /\ ~Due(s)
    BY <1>3, <1>4
  <2>2. held[s] = rows[s] \/ Fetching(s)
    BY <2>1 DEF ResyncInv, NothingForgotten
  <2> QED BY <1>1, <2>1, <2>2 DEF Fetching
<1> QED BY <1>1, <1>2, <1>5, <1>6, <1>7 DEF ResyncInv

\* A latest page that is read is wide and within the window that it will replace.
LEMMA ServePageWithin ==
    ASSUME TypeOK, WrittenInv, PagesInv, OneAtATime, PageWithin, Serve
    PROVE  PageWithin'
<1> USE DEF server, timeline
<1>1. PICK slot \in Slots : ReadRoomRow(slot) \/ ReadOneWay(slot) \/ ReadAround(slot)
  BY DEF Serve
<1>2. /\ UNCHANGED <<channel, status, held, hasOlder, hasNewer>>
      /\ \A t \in Slots \ {slot} : req'[t] = req[t]
      /\ req[slot].stage # "idle" /\ req'[slot].query = req[slot].query
  BY <1>1, ServeSteps DEF ReadRoomRow
<1>t. channel \in SUBSET Seqs /\ Numbered /\ held \in Versions /\ hasNewer = FALSE
  BY DEF TypeOK, WrittenInv, PagesInv
<1>3. ASSUME NEW t \in {"open", "sync"}, LatestRead(t)', t = slot
      PROVE  /\ Wide(req'[t].page, req'[t].more)
             /\ t = "sync" => \A s \in channel : Covers(req'[t].page, req'[t].more, FALSE, s) => InWindow(s)
  <2>1. PICK T \in SUBSET channel : /\ FirstRows(channel, PageLimit, NewestFirst, T)
                                    /\ req'[slot].page = PageOf(T)
                                    /\ req'[slot].more = (T # channel)
    BY <1>1, <1>2, <1>3, LatestAnswer DEF LatestRead
  <2>2. Wide(PageOf(T), T # channel)
    BY <1>t, <2>1, LatestPageWide
  <2>3. ASSUME t = "sync", NEW s \in channel, Covers(PageOf(T), T # channel, FALSE, s)
        PROVE  InWindow(s)
    <3>1. Wide(held, hasOlder)
      BY <1>2, <1>3, <2>3 DEF OneAtATime, Busy, PageWithin
    <3> QED BY <1>t, <2>1, <2>3, <3>1, LatestPageWithin DEF InWindow
  <2> QED BY <1>3, <2>1, <2>2, <2>3
<1>4. ASSUME NEW t \in {"open", "sync"}, LatestRead(t)', t # slot
      PROVE  /\ Wide(req'[t].page, req'[t].more)
             /\ t = "sync" => \A s \in channel : Covers(req'[t].page, req'[t].more, FALSE, s) => InWindow(s)
  BY <1>2, <1>4, SlotsDiffer DEF LatestRead, PageWithin, InPage
<1>5. status = "ready" => Wide(held, hasOlder)
  BY DEF PageWithin
<1> QED BY <1>2, <1>3, <1>4, <1>5 DEF PageWithin, Wide, InPage, InWindow, Covers

\* What an answer has to bring: a latest page shows the present versions; a whole
\* difference shows what is not held.
LEMMA AnswerResync ==
    ASSUME TypeOK, CursorInv, ResyncInv, NEW slot \in Slots, NEW S,
           NEW more \in BOOLEAN, NEW moreAfter \in BOOLEAN,
           Answer(slot, S, more, moreAfter), req[slot].stage = "room",
           UNCHANGED <<server, events, conn, timeline, again>>, OneAtATime', PageWithin',
           req[slot].query.by = "latest" =>
               \A s \in channel : Covers(PageOf(S), more, FALSE, s) => s \in S,
           slot = "sync" /\ req[slot].query.by = "changes" /\ ~more =>
               \A s \in channel : InWindow(s) => s \in S \/ held[s] = rows[s]
    PROVE  ResyncInv'
<1> USE DEF server, timeline
<1>1. /\ req'[slot].page = PageOf(S) /\ req'[slot].more = more /\ req'[slot].stage = "page"
      /\ req'[slot].query = req[slot].query
      /\ \A t \in Slots \ {slot} : req'[t] = req[t]
  BY DEF Answer, TypeOK, Request
<1>2. \A s \in S \cap Seqs : PageOf(S)[s] = rows[s]
  BY DEF PageOf
<1>3. RowsBelow'
  BY DEF ResyncInv, RowsBelow
<1>5. PagesComplete'
  <2>1. ASSUME NEW t \in {"open", "sync"}, LatestRead(t)', conn = "synced", t = "sync" => ~again,
               NEW s \in channel, Covers(req'[t].page, req'[t].more, FALSE, s)
        PROVE  req'[t].page[s] = rows[s] \/ held[s] = rows[s] \/ Due(s)
    <3>1. CASE t = slot
      <4>1. s \in S /\ s \in Seqs
        BY <1>1, <2>1, <3>1 DEF LatestRead, TypeOK
      <4> QED BY <1>1, <1>2, <3>1, <4>1
    <3>2. CASE t # slot
      <4>1. req'[t] = req[t]
        BY <1>1, <3>2, SlotsDiffer
      <4>2. LatestRead(t) /\ InPage(t, s)
        BY <2>1, <4>1 DEF LatestRead, InPage
      <4> QED BY <2>1, <4>1, <4>2 DEF ResyncInv, PagesComplete, PageComplete
    <3> QED BY <3>1, <3>2
  <2> QED BY <2>1 DEF PagesComplete, PageComplete, InPage, Covers, Due
<1>6. NothingForgotten'
  <2> SUFFICES ASSUME conn = "synced", status = "ready", ~again,
                      NEW s \in channel, InWindow(s), ~Due(s), held[s] # rows[s]
               PROVE  Fetching(s)'
    BY DEF NothingForgotten, InWindow, Covers, Due
  <2>1. Fetching(s)
    BY DEF ResyncInv, NothingForgotten
  <2>2. CASE slot = "sync"
    <3>1. req[slot].query.by \in {"latest", "changes"}
      BY <2>2 DEF CursorInv, WrittenInv, PagesInv, PagesSound
    <3>2. ASSUME req[slot].query.by = "changes", ~more PROVE PageOf(S)[s] = rows[s]
      BY <1>2, <2>2, <3>2 DEF TypeOK
    <3> QED BY <1>1, <2>2, <3>1, <3>2 DEF Fetching
  <2>3. CASE slot # "sync"
    BY <1>1, <2>1, <2>3, SlotsDiffer DEF Fetching
  <2> QED BY <2>2, <2>3
<1> QED BY <1>3, <1>5, <1>6 DEF ResyncInv

LEMMA RoomRowResync ==
    ASSUME TypeOK, CursorInv, ResyncInv, NEW slot \in Slots, ReadRoomRow(slot), OneAtATime', PageWithin'
    PROVE  ResyncInv'
<1> USE DEF server, timeline
<1>1. /\ UNCHANGED <<server, events, conn, timeline, again>>
      /\ req'[slot].stage = "room" /\ \A t \in Slots \ {slot} : req'[t] = req[t]
  BY DEF ReadRoomRow, TypeOK, Request
<1>2. RowsBelow'
  BY <1>1 DEF ResyncInv, RowsBelow
<1>3. \A t \in {"open", "sync"} : LatestRead(t)' => req'[t] = req[t] /\ LatestRead(t)
  BY <1>1, SlotsDiffer DEF LatestRead
<1>5. PagesComplete'
  BY <1>1, <1>3 DEF ResyncInv, PagesComplete, PageComplete, InPage, Covers, Due
<1>6. \A s : Fetching(s) => Fetching(s)'
  BY <1>1, SlotsDiffer DEF Fetching
<1>7. NothingForgotten'
  BY <1>1, <1>6 DEF ResyncInv, NothingForgotten, InWindow, Covers, Due
<1> QED BY <1>2, <1>5, <1>7 DEF ResyncInv

LEMMA ServeResync == ASSUME TypeOK, CursorInv, ResyncInv, Serve PROVE ResyncInv'
<1>a. OneAtATime' /\ PageWithin'
  BY ServeAlone, ServePageWithin DEF CursorInv, ResyncInv
<1>1. ASSUME NEW slot \in Slots, ReadOneWay(slot) PROVE ResyncInv'
  <2> DEFINE changed == {s \in Seqs : rows[s] > req[slot].query.arg}
  <2>1. req[slot].stage = "room" /\ UNCHANGED <<server, events, conn, timeline, again>>
    BY <1>1 DEF ReadOneWay
  <2>2. rows \in Versions /\ channel \in SUBSET Seqs /\ Numbered
    BY DEF TypeOK, CursorInv, WrittenInv, PagesInv
  <2>3. CASE /\ req[slot].query.by = "changes"
             /\ ReadRows(slot, changed, ChangesLimit, EarliestChangeFirst)
    <3>1. PICK T \in SUBSET changed : Answer(slot, T, T # changed, FALSE)
      BY <2>3 DEF ReadRows
    <3>2. ASSUME slot = "sync", T = changed, NEW s \in channel, InWindow(s), s \notin T
          PROVE  held[s] = rows[s]
      <4>0. req["sync"].stage = "room" /\ req["sync"].query.by = "changes"
        BY <2>1, <2>3, <3>2
      <4>1. status = "ready" /\ req[slot].query.arg <= cursor
        BY <3>2, <4>0 DEF ResyncInv, OneAtATime, Busy, CursorInv, WrittenInv, PagesInv, DifferenceSound
      <4>2. req[slot].query.arg \in Nat /\ cursor \in Nat /\ rows[s] \in Nat
        BY <2>2, BoundsAssumption DEF TypeOK, Request, Query, Versions, Changes
      <4>3. rows[s] <= cursor
        BY <2>2, <3>2, <4>1, <4>2
      <4> QED BY <3>2, <4>1, <4>3 DEF CursorInv, WrittenInv, PagesInv, CursorSound, UpToDate, InWindow
    <3>3. req[slot].query.by # "latest" /\ (T # changed) \in BOOLEAN /\ FALSE \in BOOLEAN
      BY <2>3
    <3> QED BY <1>a, <2>1, <3>1, <3>2, <3>3, AnswerResync
  <2>4. CASE /\ req[slot].query.by \in {"after", "before", "around"}
             /\ \E T \in SUBSET Seqs, more \in BOOLEAN : Answer(slot, T, more, FALSE)
    <3>1. PICK T \in SUBSET Seqs, more \in BOOLEAN : Answer(slot, T, more, FALSE)
      BY <2>4
    <3>2. req[slot].query.by # "latest" /\ req[slot].query.by # "changes" /\ FALSE \in BOOLEAN
      BY <2>4
    <3> QED BY <1>a, <2>1, <3>1, <3>2, AnswerResync
  <2>5. CASE /\ req[slot].query.by = "latest"
             /\ ReadRows(slot, channel, PageLimit, NewestFirst)
    <3>1. PICK T \in SUBSET channel : /\ FirstRows(channel, PageLimit, NewestFirst, T)
                                      /\ Answer(slot, T, T # channel, FALSE)
      BY <2>5 DEF ReadRows
    <3>3. ASSUME NEW s \in channel, Covers(PageOf(T), T # channel, FALSE, s) PROVE s \in T
      <4>1. UpToDate(PageOf(T), T # channel, FALSE, rows[s])
        BY <2>2, <3>1, LatestPageSound
      <4>2. s \in Seqs /\ rows[s] <= rows[s] /\ rows[s] # 0
        BY <2>2, <3>3, BoundsAssumption DEF Numbered, Versions, Changes
      <4>3. PageOf(T)[s] = rows[s]
        BY <3>3, <4>1, <4>2, Zenon DEF UpToDate
      <4> QED BY <4>2, <4>3 DEF PageOf
    <3>5. req[slot].query.by # "changes" /\ (T # channel) \in BOOLEAN /\ FALSE \in BOOLEAN
      BY <2>5
    <3> QED BY <1>a, <2>1, <3>1, <3>3, <3>5, AnswerResync
  <2>6. CASE req[slot].query.by = "around" /\ ReadRows(slot, channel, PageLimit, NewestFirst)
    BY <2>2, <2>4, <2>6 DEF ReadRows
  <2> QED BY <1>1, <2>3, <2>4, <2>5, <2>6 DEF ReadOneWay, ReadRows, InChannel, TypeOK
<1>2. ASSUME NEW slot \in Slots, ReadAround(slot) PROVE ResyncInv'
  <2> DEFINE target == req[slot].query.arg
             before == InChannel(0, target)
             after  == InChannel(target, MaxSeq + 1)
  <2>1. PICK older \in SUBSET before, newer \in SUBSET after :
            Answer(slot, older \cup {target} \cup newer, older # before, newer # after)
    BY <1>2 DEF ReadAround
  <2>2. /\ req[slot].stage = "room" /\ req[slot].query.by = "around"
        /\ UNCHANGED <<server, events, conn, timeline, again>>
    BY <1>2 DEF ReadAround
  <2>3. /\ req[slot].query.by # "latest" /\ req[slot].query.by # "changes"
        /\ (older # before) \in BOOLEAN /\ (newer # after) \in BOOLEAN
    BY <2>2
  <2> QED BY <1>a, <2>1, <2>2, <2>3, AnswerResync
<1>3. ASSUME NEW slot \in Slots, ReadRoomRow(slot) PROVE ResyncInv'
  BY <1>a, <1>3, RoomRowResync
<1> QED BY <1>1, <1>2, <1>3 DEF Serve

\* A latest page that replaces the window is wide with what arrived.
LEMMA LatestWide ==
    ASSUME TypeOK, WrittenInv, PageWithin, NEW slot \in {"open", "sync"}, LatestRead(slot),
           held' = MergeIntoWindow(req[slot].page, req[slot].more, FALSE, Arrived(req[slot].last))
    PROVE  Wide(held', req[slot].more)
<1>1. req[slot].page \in Versions /\ Arrived(req[slot].last) \in Versions
  BY AnswerFields, ArrivedType DEF Arrived, Slots
<1>2. Wide(req[slot].page, req[slot].more)
  BY DEF PageWithin
<1>3. Held(req[slot].page) \subseteq Held(held')
  BY <1>1, MergeHeld
<1> QED BY <1>2, <1>3, WideMore

\* A latest page that replaces the window: what it covers is shown or on its way.
LEMMA LatestResync ==
    ASSUME TypeOK, CursorInv, ResyncInv, NEW slot \in {"open", "sync"}, LatestRead(slot),
           held' = MergeIntoWindow(req[slot].page, req[slot].more, FALSE, Arrived(req[slot].last)),
           hasOlder' = req[slot].more, hasNewer' = FALSE,
           UNCHANGED <<server, events>>
    PROVE  /\ Wide(held', hasOlder')
           /\ PageComplete(slot) =>
                 \A s \in channel : Covers(held', hasOlder', FALSE, s) => held'[s] = rows[s] \/ Due(s)
<1> DEFINE answer == req[slot]
<1>1. /\ answer.page \in Versions /\ answer.last \in Changes /\ answer.more \in BOOLEAN
      /\ Genuine(answer.page)
      /\ UpToDate(answer.page, answer.more, FALSE, answer.last)
  BY AnswerFields DEF CursorInv, WrittenInv, PagesInv, Carried, PagesSound, Slots, LatestRead
<1>2. Arrived(answer.last) \in Versions /\ Genuine(Arrived(answer.last))
  BY ArrivedType DEF Arrived, CursorInv, WrittenInv, PagesInv, NothingInvented, Genuine
<1>3. Wide(held', hasOlder')
  BY LatestWide DEF CursorInv, ResyncInv
<1>4. ASSUME PageComplete(slot), NEW s \in channel, Covers(held', hasOlder', FALSE, s), ~Due(s)
      PROVE  held'[s] = rows[s]
  <2>1. s \in Seqs /\ rows \in Versions /\ rows[s] \in Nat /\ answer.last \in Nat
    BY <1>1, BoundsAssumption DEF TypeOK, Versions, Changes
  <2>2. Covers(answer.page, answer.more, FALSE, s)
    BY <1>1, <1>2, <1>4, <2>1, MergeCovers
  <2>3. PICK page \in Versions, arrived \in Versions, more \in BOOLEAN, newer \in BOOLEAN :
            /\ page = answer.page /\ arrived = Arrived(answer.last)
            /\ more = answer.more /\ newer = FALSE
    BY <1>1, <1>2
  <2>4. /\ held' = MergeIntoWindow(page, more, newer, arrived)
        /\ Genuine(page) /\ Genuine(arrived) /\ Covers(page, more, newer, s)
    BY <1>1, <1>2, <2>2, <2>3
  <2>5. CASE page[s] = rows[s]
    <3>1. rows \in Versions /\ s \in Seqs /\ Genuine(arrived) /\ page[s] = rows[s]
      BY <2>1, <2>4, <2>5
    <3>2. MergeIntoWindow(page, more, newer, arrived)[s] = rows[s]
      BY <3>1, MergeKeepsRow
    <3> QED BY <2>4, <3>2
  <2>6. CASE page[s] # rows[s]
    <3>1. held[s] = rows[s]
      BY <1>4, <2>2, <2>3, <2>6 DEF PageComplete, InPage
    <3>2. rows[s] > answer.last
      <4>1. ~(rows[s] <= answer.last)
        BY <1>1, <1>4, <2>2, <2>3, <2>6, Zenon DEF UpToDate
      <4> QED BY <2>1, <4>1
    <3>3. arrived[s] = rows[s]
      BY <2>1, <2>3, <3>1, <3>2 DEF Arrived
    <3>4. rows \in Versions /\ s \in Seqs /\ Genuine(page) /\ Covers(page, more, newer, s)
      BY <2>1, <2>4
    <3>5. MergeIntoWindow(page, more, newer, arrived)[s] = rows[s]
      BY <3>3, <3>4, MergeTakesRow
    <3> QED BY <2>4, <3>5
  <2> QED BY <2>5, <2>6
<1> QED BY <1>3, <1>4

\* The latest pages that stay on their way stay wide and within the window.
LEMMA TabPageWithin ==
    ASSUME PageWithin, UNCHANGED server,
           \A slot \in {"open", "sync"} : LatestRead(slot)' => req'[slot] = req[slot],
           status' = "ready" => Wide(held', hasOlder'),
           LatestRead("sync")' =>
               \A s \in channel : InWindow(s) => Covers(held', hasOlder', hasNewer', s)
    PROVE  PageWithin'
<1> USE DEF server
<1>1. \A slot \in {"open", "sync"} :
          LatestRead(slot)' => LatestRead(slot) /\ req'[slot] = req[slot]
  BY DEF LatestRead
<1>2. \A slot \in {"open", "sync"} : LatestRead(slot)' => Wide(req'[slot].page, req'[slot].more)
  BY <1>1 DEF PageWithin
<1>3. ASSUME LatestRead("sync")', NEW s \in channel,
             Covers(req'["sync"].page, req'["sync"].more, FALSE, s)
      PROVE  Covers(held', hasOlder', hasNewer', s)
  BY <1>1, <1>3 DEF PageWithin, InPage
<1> QED BY <1>2, <1>3 DEF PageWithin, Wide, InPage, InWindow, Covers

\* What a step of the tab or the network has to establish: its window is wide, the latest
\* pages that stay on their way lose nothing, and nothing is forgotten.
LEMMA TabResync ==
    ASSUME TypeOK, CursorInv, ResyncInv, UNCHANGED server, OneAtATime', NothingForgotten',
           \A slot \in {"open", "sync"} : LatestRead(slot)' => req'[slot] = req[slot],
           status' = "ready" => Wide(held', hasOlder'),
           LatestRead("sync")' =>
               \A s \in channel : InWindow(s) => Covers(held', hasOlder', hasNewer', s),
           conn' = "synced" /\ LatestRead("open")' => conn = "synced",
           conn' = "synced" /\ LatestRead("sync")' /\ ~again' => conn = "synced" /\ ~again,
           \A slot \in {"open", "sync"}, s \in channel :
               conn' = "synced" /\ LatestRead(slot)' /\ InPage(slot, s)
               /\ (held[s] = rows[s] \/ Due(s)) =>
                   held'[s] = rows[s] \/ [seq |-> s, change |-> rows[s]] \in events'
    PROVE  ResyncInv'
<1> USE DEF server
<1>1. \A slot \in {"open", "sync"} :
          LatestRead(slot)' => LatestRead(slot) /\ req'[slot] = req[slot]
  BY DEF LatestRead
<1>2. RowsBelow'
  BY DEF ResyncInv, RowsBelow
<1>3. PageWithin'
  BY TabPageWithin DEF ResyncInv
<1>4. PagesComplete'
  <2>1. ASSUME NEW slot \in {"open", "sync"}, conn' = "synced", LatestRead(slot)',
               slot = "sync" => ~again', NEW s \in channel,
               Covers(req'[slot].page, req'[slot].more, FALSE, s)
        PROVE  req'[slot].page[s] = rows[s] \/ held'[s] = rows[s]
               \/ [seq |-> s, change |-> rows[s]] \in events'
    <3>1. LatestRead(slot) /\ req'[slot] = req[slot] /\ InPage(slot, s)
      BY <1>1, <2>1 DEF InPage
    <3>2. req[slot].page[s] = rows[s] \/ held[s] = rows[s] \/ Due(s)
      BY <2>1, <3>1 DEF ResyncInv, PagesComplete, PageComplete
    <3> QED BY <2>1, <3>1, <3>2
  <2> QED BY <2>1 DEF PagesComplete, PageComplete, InPage, Covers, Due
<1> QED BY <1>2, <1>3, <1>4 DEF ResyncInv

\* Once the difference is asked for, nothing is forgotten.
LEMMA AskedResync ==
    ASSUME req'["sync"].stage = "sent" \/ again' = TRUE
    PROVE  NothingForgotten'
BY DEF NothingForgotten, Fetching

LEMMA SyncChangesResync ==
    ASSUME TypeOK, CursorInv, ResyncInv, SyncChanges, OneAtATime' PROVE ResyncInv'
<1> DEFINE answer == req["sync"]
<1>1. /\ answer.stage = "page" /\ answer.query.by = "changes" /\ ~answer.more
      /\ held' = MergeIntoWindow(held, hasOlder, hasNewer, answer.page)
      /\ SyncEnds(cursor', status)
      /\ UNCHANGED <<server, events, conn, status, hasOlder, hasNewer, paging>>
  BY DEF SyncChanges, SyncAnswered
<1>2. status = "ready" /\ ~Busy("open")
  BY <1>1 DEF ResyncInv, OneAtATime, Busy
<1>3. /\ req'["open"] = req["open"] /\ again' = FALSE
      /\ req'["sync"] = IF again THEN ChangesFrom(cursor') ELSE Idle
  BY <1>1, <1>2, SyncEndsAsks, SlotsDiffer DEF TypeOK
<1>4. ~LatestRead("open")' /\ ~LatestRead("sync")'
  BY <1>2, <1>3, NewRequests DEF LatestRead, Busy
<1>t. /\ held \in Versions /\ answer.page \in Versions /\ Genuine(held) /\ Genuine(answer.page)
      /\ hasOlder \in BOOLEAN /\ hasNewer \in BOOLEAN /\ rows \in Versions /\ channel \in SUBSET Seqs
  BY AnswerFields, SlotsDiffer DEF TypeOK, CursorInv, WrittenInv, PagesInv, NothingInvented, Carried
<1>5. Wide(held', hasOlder')
  <2>1. Wide(held, hasOlder)
    BY <1>2 DEF ResyncInv, PageWithin
  <2>2. Held(held) \subseteq Held(held')
    BY <1>1, <1>t, MergeHeld
  <2> QED BY <1>1, <2>1, <2>2, WideMore
<1>6. NothingForgotten'
  <2>1. CASE again
    BY <1>3, <2>1, NewRequests, AskedResync
  <2>2. CASE ~again
    <3>1. ASSUME conn = "synced", NEW s \in channel, Covers(held', hasOlder, hasNewer, s), ~Due(s)
          PROVE  held'[s] = rows[s]
      <4>1. s \in Seqs /\ InWindow(s)
        BY <1>1, <1>t, <3>1, MergeCovers DEF InWindow
      <4>2. held[s] = rows[s] \/ answer.page[s] = rows[s]
        BY <1>1, <1>2, <2>2, <3>1, <4>1 DEF ResyncInv, NothingForgotten, Fetching
      <4>3. PICK page \in Versions : page = answer.page
        BY <1>t
      <4>4. held' = MergeIntoWindow(held, hasOlder, hasNewer, page) /\ Genuine(page)
        BY <1>1, <1>t, <4>3
      <4>5. CASE held[s] = rows[s]
        BY <1>t, <4>1, <4>4, <4>5, MergeKeepsRow
      <4>6. CASE page[s] = rows[s]
        BY <1>t, <4>1, <4>4, <4>6, MergeTakesRow DEF InWindow
      <4> QED BY <4>2, <4>3, <4>5, <4>6
    <3> QED BY <1>1, <3>1 DEF server, NothingForgotten, InWindow, Covers, Due
  <2> QED BY <2>1, <2>2
<1> QED BY <1>1, <1>4, <1>5, <1>6, TabResync

LEMMA SyncTooFarBehindResync ==
    ASSUME TypeOK, CursorInv, ResyncInv, SyncTooFarBehind, OneAtATime' PROVE ResyncInv'
<1>1. /\ req'["open"] = req["open"] /\ req'["sync"] = Sent(Latest)
      /\ UNCHANGED <<server, events, conn, timeline, again>>
      /\ Busy("sync")
  BY SlotsDiffer DEF SyncTooFarBehind, SyncAnswered, Busy, TypeOK
<1>2. status = "ready" /\ ~Busy("open")
  BY <1>1 DEF ResyncInv, OneAtATime
<1>3. ~LatestRead("open")' /\ ~LatestRead("sync")'
  BY <1>1, <1>2, NewRequests DEF LatestRead, Busy
<1>4. NothingForgotten'
  BY <1>1, NewRequests, AskedResync
<1>5. Wide(held', hasOlder')
  BY <1>1, <1>2 DEF timeline, ResyncInv, PageWithin
<1> QED BY <1>1, <1>3, <1>4, <1>5, TabResync

LEMMA SyncLatestResync ==
    ASSUME TypeOK, CursorInv, ResyncInv, SyncLatest, OneAtATime' PROVE ResyncInv'
<1> DEFINE answer == req["sync"]
<1>1. /\ LatestRead("sync")
      /\ held' = MergeIntoWindow(answer.page, answer.more, FALSE, Arrived(answer.last))
      /\ hasOlder' = answer.more /\ hasNewer' = FALSE
      /\ SyncEnds(cursor', status)
      /\ UNCHANGED <<server, events, conn, status, paging>>
  BY DEF SyncLatest, SyncAnswered, Arrived, LatestRead
<1>2. status = "ready" /\ ~Busy("open")
  BY <1>1 DEF ResyncInv, OneAtATime, Busy, LatestRead
<1>3. /\ req'["open"] = req["open"] /\ again' = FALSE
      /\ req'["sync"] = IF again THEN ChangesFrom(cursor') ELSE Idle
  BY <1>1, <1>2, SyncEndsAsks, SlotsDiffer DEF TypeOK
<1>4. ~LatestRead("open")' /\ ~LatestRead("sync")'
  BY <1>2, <1>3, NewRequests DEF LatestRead, Busy
<1>5. /\ Wide(held', hasOlder')
      /\ PageComplete("sync") =>
            \A s \in channel : Covers(held', hasOlder', FALSE, s) => held'[s] = rows[s] \/ Due(s)
  BY <1>1, LatestResync
<1>6. NothingForgotten'
  <2>1. CASE again
    BY <1>3, <2>1, NewRequests, AskedResync
  <2>2. CASE ~again
    <3>1. conn = "synced" => PageComplete("sync")
      BY <1>1, <2>2 DEF ResyncInv, PagesComplete
    <3> QED BY <1>1, <1>5, <3>1 DEF server, NothingForgotten, InWindow, Covers, Due
  <2> QED BY <2>1, <2>2
<1> QED BY <1>1, <1>4, <1>5, <1>6, TabResync

LEMMA OpenResync ==
    ASSUME NoneLost, TypeOK, CursorInv, ResyncInv, Open, OneAtATime' PROVE ResyncInv'
<1>1. ASSUME OpenRoom PROVE ResyncInv'
  <2>1. /\ UNCHANGED <<server, events, conn, again>> /\ status' = "loading"
        /\ req'["open"] = Sent(Latest) /\ req'["sync"] = req["sync"] /\ status # "ready"
    BY <1>1, SlotsDiffer DEF OpenRoom, TypeOK
  <2>2. ~LatestRead("open")' /\ ~LatestRead("sync")'
    BY <2>1, NewRequests DEF LatestRead, ResyncInv, OneAtATime, Busy
  <2>3. NothingForgotten'
    BY <2>1 DEF NothingForgotten
  <2> QED BY <2>1, <2>2, <2>3, TabResync
<1>2. ASSUME OpenRoomAnswered PROVE ResyncInv'
  <2> DEFINE answer == req["open"]
  <2>1. /\ LatestRead("open") /\ status' = "ready"
        /\ held' = MergeIntoWindow(answer.page, answer.more, FALSE, Arrived(answer.last))
        /\ hasOlder' = answer.more /\ hasNewer' = FALSE
        /\ UNCHANGED <<server, events, conn, again>>
        /\ req'["open"] = Idle /\ req'["sync"] = req["sync"]
    BY <1>2, SlotsDiffer
       DEF OpenRoomAnswered, Arrived, LatestRead, TypeOK, CursorInv, WrittenInv, PagesInv, PagesSound, Latest
  <2>2. ~Busy("sync") /\ ~again
    BY <2>1 DEF ResyncInv, OneAtATime, Busy, LatestRead
  <2>3. ~LatestRead("open")' /\ ~LatestRead("sync")'
    BY <2>1, <2>2, NewRequests DEF LatestRead, Busy
  <2>4. /\ Wide(held', hasOlder')
        /\ PageComplete("open") =>
              \A s \in channel : Covers(held', hasOlder', FALSE, s) => held'[s] = rows[s] \/ Due(s)
    BY <2>1, LatestResync
  <2>5. conn = "synced" => PageComplete("open")
    BY <2>1 DEF ResyncInv, PagesComplete
  <2>6. NothingForgotten'
    BY <2>1, <2>4, <2>5 DEF server, NothingForgotten, InWindow, Covers, Due
  <2> QED BY <2>1, <2>3, <2>4, <2>6, TabResync
<1>3. ASSUME ReopenRoom PROVE ResyncInv'
  <2>1. /\ UNCHANGED <<server, events, conn, status, held, hasOlder, hasNewer, cursor, paging>>
        /\ status = "ready" /\ SyncTimeline(req, cursor, "ready")
    BY <1>3 DEF ReopenRoom, NoneLost
  <2>2. /\ req'["open"] = req["open"]
        /\ \/ again' = TRUE /\ req'["sync"] = req["sync"]
           \/ req'["sync"] = ChangesFrom(cursor)
    BY <2>1, SyncTimelineAsks, SlotsDiffer DEF TypeOK
  <2>3. ~LatestRead("open")' /\ (LatestRead("sync")' => again' /\ req'["sync"] = req["sync"])
    BY <2>1, <2>2, NewRequests DEF LatestRead, ResyncInv, OneAtATime, Busy
  <2>4. NothingForgotten'
    BY <2>2, NewRequests, AskedResync
  <2>5. Wide(held', hasOlder')
    BY <2>1 DEF ResyncInv, PageWithin
  <2>6. \A s \in channel : /\ InWindow(s) => Covers(held', hasOlder', hasNewer', s)
                           /\ held[s] = rows[s] \/ Due(s) =>
                                held'[s] = rows[s] \/ [seq |-> s, change |-> rows[s]] \in events'
    BY <2>1 DEF InWindow, Due
  <2>7. \A slot \in {"open", "sync"} : LatestRead(slot)' => req'[slot] = req[slot]
    BY <2>3
  <2>8. ~(LatestRead("sync")' /\ ~again')
    BY <2>3
  <2> QED BY <2>1, <2>3, <2>4, <2>5, <2>6, <2>7, <2>8, TabResync
<1> QED BY <1>1, <1>2, <1>3 DEF Open

\* An event that is taken off its way leaves the present version of its message held,
\* where that matters.
LEMMA EventTaken ==
    ASSUME NEW e \in events, events \ {e} \subseteq events', NEW s,
           held[s] = rows[s] => held'[s] = rows[s],
           e.seq = s /\ e.change = rows[s] => held'[s] = rows[s],
           held[s] = rows[s] \/ Due(s)
    PROVE  held'[s] = rows[s] \/ [seq |-> s, change |-> rows[s]] \in events'
BY DEF Due

LEMMA ReceiveResync ==
    ASSUME TypeOK, CursorInv, ResyncInv, NEW e \in events, NEW alsoLater \in BOOLEAN,
           Receive(e, alsoLater), OneAtATime'
    PROVE  ResyncInv'
<1>1. /\ UNCHANGED <<server, conn, status, hasOlder, hasNewer, paging>>
      /\ events \ {e} \subseteq events'
      /\ ReceiveWhileLoading(e) \/ ReceiveNews(e) \/ ReceiveNothing(e)
  BY DEF Receive
<1>e. /\ e.seq \in Seqs /\ e.change \in Nat /\ e.change # 0
      /\ EventVersions(e) \in Versions /\ Genuine(EventVersions(e))
      /\ EventVersions(e)[e.seq] = e.change
  BY BoundsAssumption
     DEF TypeOK, Event, CursorInv, WrittenInv, PagesInv, Carried, EventVersions, Nothing, Versions, Changes
<1>t. /\ held \in Versions /\ rows \in Versions /\ Genuine(held) /\ channel \in SUBSET Seqs
      /\ hasOlder \in BOOLEAN /\ hasNewer = FALSE /\ hasNewer \in BOOLEAN
      /\ \A s \in Seqs : rows[s] \in Nat /\ held[s] \in Nat
  BY BoundsAssumption DEF TypeOK, CursorInv, WrittenInv, PagesInv, NothingInvented, Versions, Changes
<1>2. CASE ReceiveWhileLoading(e)
  <2>1. /\ status = "loading" /\ UNCHANGED <<cursor, again, req>>
        /\ held' = [held EXCEPT ![e.seq] = Greater(@, e.change)]
    BY <1>2 DEF ReceiveWhileLoading
  <2>2. ~LatestRead("sync")'
    BY <2>1 DEF LatestRead, ResyncInv, OneAtATime, Busy
  <2>3. NothingForgotten'
    BY <1>1, <2>1 DEF NothingForgotten
  <2>4. ASSUME NEW s \in channel, held[s] = rows[s] \/ Due(s)
        PROVE  held'[s] = rows[s] \/ [seq |-> s, change |-> rows[s]] \in events'
    <3>1. s \in Seqs /\ held'[s] = IF s = e.seq THEN Greater(held[s], e.change) ELSE held[s]
      BY <1>e, <1>t, <2>1 DEF Versions
    <3>2. /\ held[s] # 0 => held[s] <= rows[s]
          /\ s = e.seq => e.change <= rows[s]
      BY <1>e, <1>t, <3>1 DEF Genuine
    <3>3. held[s] = rows[s] => held'[s] = rows[s]
      BY <1>e, <1>t, <3>1, <3>2 DEF Greater
    <3>4. e.seq = s /\ e.change = rows[s] => held'[s] = rows[s]
      BY <1>e, <1>t, <3>1, <3>2 DEF Greater
    <3> QED BY <1>1, <2>4, <3>3, <3>4, EventTaken
  <2> QED BY <1>1, <2>1, <2>2, <2>3, <2>4, TabResync
<1>3. CASE ReceiveNews(e)
  <2>1. /\ status = "ready"
        /\ held' = MergeIntoWindow(held, hasOlder, hasNewer, EventVersions(e))
        /\ SyncTimeline(req, cursor', "ready") \/ UNCHANGED <<again, req>>
    BY <1>3 DEF ReceiveNews
  <2>2. ~Busy("open") /\ Wide(held, hasOlder)
    BY <2>1 DEF ResyncInv, OneAtATime, PageWithin
  <2>3. /\ req'["open"] = req["open"]
        /\ \/ UNCHANGED <<again, req>>
           \/ again' = TRUE /\ req'["sync"] = req["sync"]
           \/ req'["sync"] = ChangesFrom(cursor')
    BY <2>1, SyncTimelineAsks, SlotsDiffer DEF TypeOK
  <2>4. /\ ~LatestRead("open")'
        /\ LatestRead("sync")' => /\ req'["sync"] = req["sync"] /\ LatestRead("sync")
                                  /\ again' = TRUE \/ again' = again
    BY <2>2, <2>3, NewRequests DEF LatestRead, Busy
  <2>5. Held(held) \subseteq Held(held') /\ Wide(held', hasOlder')
    BY <1>1, <1>e, <1>t, <2>1, <2>2, MergeHeld, WideMore
  <2>6. ASSUME NEW s \in channel, InWindow(s) PROVE Covers(held', hasOlder', hasNewer', s)
    <3>1. hasOlder => Held(held) # {}
      BY <2>2, WideHolds
    <3>2. Covers(held, hasOlder, FALSE, s)
      BY <1>t, <2>6 DEF InWindow
    <3>3. Covers(held', hasOlder, FALSE, s)
      BY <2>5, <3>1, <3>2, CoversMore
    <3> QED BY <1>1, <1>t, <3>3
  <2>7. ASSUME NEW s \in channel, InWindow(s), held[s] = rows[s] \/ Due(s)
        PROVE  held'[s] = rows[s] \/ [seq |-> s, change |-> rows[s]] \in events'
    <3>1. PICK news \in Versions : news = EventVersions(e)
      BY <1>e
    <3>2. /\ s \in Seqs /\ Genuine(news) /\ news[e.seq] = e.change
          /\ held' = MergeIntoWindow(held, hasOlder, hasNewer, news)
      BY <1>e, <1>t, <2>1, <3>1
    <3>3. held[s] = rows[s] => held'[s] = rows[s]
      BY <1>t, <3>2, MergeKeepsRow
    <3>4. ASSUME e.seq = s, e.change = rows[s] PROVE held'[s] = rows[s]
      <4>1. news[s] = rows[s]
        BY <3>2, <3>4
      <4> QED BY <1>t, <2>7, <3>2, <4>1, MergeTakesRow DEF InWindow
    <3> QED BY <1>1, <2>7, <3>3, <3>4, EventTaken
  <2>8. NothingForgotten'
    <3>1. CASE UNCHANGED <<again, req>>
      <4>1. ASSUME conn = "synced", ~again, NEW s \in channel,
                   Covers(held', hasOlder, hasNewer, s)
            PROVE  held'[s] = rows[s] \/ [seq |-> s, change |-> rows[s]] \in events' \/ Fetching(s)
        <5>1. InWindow(s)
          BY <1>e, <1>t, <2>1, <4>1, MergeCovers DEF InWindow
        <5>2. held[s] = rows[s] \/ Due(s) \/ Fetching(s)
          BY <2>1, <4>1, <5>1 DEF ResyncInv, NothingForgotten
        <5> QED BY <2>7, <4>1, <5>1, <5>2
      <4> QED BY <1>1, <3>1, <4>1
              DEF server, NothingForgotten, InWindow, Covers, Due, Fetching
    <3>2. CASE again' = TRUE \/ req'["sync"] = ChangesFrom(cursor')
      BY <3>2, NewRequests, AskedResync
    <3> QED BY <2>3, <3>1, <3>2
  <2>9. LatestRead("sync") => \A s \in channel : InPage("sync", s) => InWindow(s)
    BY DEF ResyncInv, PageWithin
  <2> QED BY <1>1, <2>4, <2>5, <2>6, <2>7, <2>8, <2>9, TabResync
<1>4. CASE ReceiveNothing(e)
  <2>1. /\ UNCHANGED <<held, cursor, again, req>>
        /\ status = "none" \/ (status = "ready" /\ e.change <= cursor)
    BY <1>4 DEF ReceiveNothing, ResyncInv, OneAtATime
  <2>2. ASSUME status = "ready", NEW s \in channel, InWindow(s), held[s] = rows[s] \/ Due(s)
        PROVE  held'[s] = rows[s] \/ [seq |-> s, change |-> rows[s]] \in events'
    <3>1. e.change = rows[s] => held[s] = rows[s]
      BY <2>1, <2>2 DEF CursorInv, WrittenInv, PagesInv, CursorSound, UpToDate, InWindow
    <3> QED BY <1>1, <2>1, <2>2, <3>1, EventTaken
  <2>3. NothingForgotten'
    <3>1. ASSUME conn = "synced", status = "ready", ~again, NEW s \in channel, InWindow(s)
          PROVE  held'[s] = rows[s] \/ [seq |-> s, change |-> rows[s]] \in events' \/ Fetching(s)
      <4>1. held[s] = rows[s] \/ Due(s) \/ Fetching(s)
        BY <3>1 DEF ResyncInv, NothingForgotten
      <4> QED BY <2>2, <3>1, <4>1
    <3> QED BY <1>1, <2>1, <3>1 DEF server, NothingForgotten, InWindow, Covers, Due, Fetching
  <2>4. /\ ~LatestRead("open")' /\ ~LatestRead("open")
        /\ LatestRead("sync")' => LatestRead("sync") /\ status = "ready"
        /\ status' = "ready" => Wide(held', hasOlder')
    BY <1>1, <2>1 DEF LatestRead, ResyncInv, OneAtATime, Busy, PageWithin
  <2>5. LatestRead("sync") => \A s \in channel : InPage("sync", s) => InWindow(s)
    BY DEF ResyncInv, PageWithin
  <2>6. \A s \in channel : InWindow(s) => Covers(held', hasOlder', hasNewer', s)
    BY <1>1, <2>1 DEF InWindow
  <2> QED BY <1>1, <2>1, <2>2, <2>3, <2>4, <2>5, <2>6, TabResync
<1> QED BY <1>1, <1>2, <1>3, <1>4

LEMMA NetworkResync ==
    ASSUME NoneLost, TypeOK, CursorInv, ResyncInv, Network, OneAtATime' PROVE ResyncInv'
<1>1. ASSUME conn' # "synced", UNCHANGED <<server, timeline, again, req>> PROVE ResyncInv'
  <2>1. /\ status' = "ready" => Wide(held', hasOlder')
        /\ \A s \in channel : InWindow(s) => Covers(held', hasOlder', hasNewer', s)
    BY <1>1 DEF timeline, ResyncInv, PageWithin, InWindow
  <2>2. NothingForgotten'
    BY <1>1 DEF NothingForgotten
  <2> QED BY <1>1, <2>1, <2>2, TabResync
<1>2. ASSUME (\E e \in events : Miss(e)) \/ Disconnect \/ Subscribe PROVE ResyncInv'
  <2>1. conn' # "synced" /\ UNCHANGED <<server, timeline, again, req>>
    BY <1>2 DEF Miss, Disconnect, Subscribe, Live, NoneLost
  <2> QED BY <1>1, <2>1
<1>3. ASSUME NEW gone \in Gone, BatchAcked(gone) PROVE ResyncInv'
  <2>1. UNCHANGED <<server, events, timeline>>
    BY <1>3 DEF BatchAcked
  <2>2. CASE ~gone /\ status = "ready"
    <3>1. SyncTimeline(req, cursor, "ready")
      BY <1>3, <2>2 DEF BatchAcked
    <3>2. /\ req'["open"] = req["open"]
          /\ \/ again' = TRUE /\ req'["sync"] = req["sync"]
             \/ req'["sync"] = ChangesFrom(cursor)
      BY <3>1, SyncTimelineAsks, SlotsDiffer DEF TypeOK
    <3>3. ~LatestRead("open")' /\ (LatestRead("sync")' => again' /\ req'["sync"] = req["sync"])
      BY <2>2, <3>2, NewRequests DEF LatestRead, ResyncInv, OneAtATime, Busy
    <3>4. NothingForgotten'
      BY <3>2, NewRequests, AskedResync
    <3>5. Wide(held', hasOlder')
      BY <2>1, <2>2 DEF timeline, ResyncInv, PageWithin
    <3>6. \A s \in channel : /\ InWindow(s) => Covers(held', hasOlder', hasNewer', s)
                             /\ held[s] = rows[s] \/ Due(s) =>
                                  held'[s] = rows[s] \/ [seq |-> s, change |-> rows[s]] \in events'
      BY <2>1 DEF timeline, InWindow, Due
    <3>7. \A slot \in {"open", "sync"} : LatestRead(slot)' => req'[slot] = req[slot]
      BY <3>3
    <3>8. ~(LatestRead("sync")' /\ ~again')
      BY <3>3
    <3> QED BY <2>1, <3>3, <3>4, <3>5, <3>6, <3>7, <3>8, TabResync
  <2>3. CASE gone \/ status = "loading"
    <3>1. conn' # "synced" /\ UNCHANGED <<again, req>>
      BY <1>3, <2>3 DEF BatchAcked
    <3> QED BY <1>1, <2>1, <3>1
  <2>4. CASE ~gone /\ status = "none"
    <3>1. UNCHANGED <<again, req>>
      BY <1>3, <2>4 DEF BatchAcked
    <3>2. ~LatestRead("open")' /\ ~LatestRead("sync")'
      BY <2>4, <3>1 DEF LatestRead, ResyncInv, OneAtATime, Busy
    <3>3. status' # "ready" /\ NothingForgotten'
      BY <2>1, <2>4 DEF timeline, NothingForgotten
    <3> QED BY <2>1, <3>1, <3>2, <3>3, TabResync
  <2> QED BY <2>2, <2>3, <2>4 DEF ResyncInv, OneAtATime
<1> QED BY <1>2, <1>3, ReceiveResync DEF Network

LEMMA InitResync == ASSUME Init PROVE ResyncInv
<1>1. \A slot \in Slots : req[slot] = Idle
  BY DEF Init
<1>2. ~Busy("open") /\ ~Busy("sync") /\ ~LatestRead("open") /\ ~LatestRead("sync")
  BY <1>1, SlotsDiffer, NewRequests DEF Busy, LatestRead
<1>3. OneAtATime /\ PageWithin /\ PagesComplete /\ NothingForgotten
  BY <1>2 DEF Init, OneAtATime, PageWithin, PagesComplete, NothingForgotten
<1>4. RowsBelow
  BY DEF Init, RowsBelow, Nothing
<1> QED BY <1>3, <1>4 DEF ResyncInv

LEMMA NextResync ==
    ASSUME NoneLost PROVE TypeOK /\ CursorInv /\ ResyncInv /\ [Next]_vars => ResyncInv'
<1> SUFFICES ASSUME TypeOK, CursorInv, ResyncInv, [Next]_vars PROVE ResyncInv'
  OBVIOUS
<1>1. CASE UNCHANGED vars
  BY <1>1 DEF vars, ResyncInv, OneAtATime, Busy, RowsBelow, PageWithin, Wide, InWindow, InPage,
              Covers, LatestRead, PagesComplete, PageComplete, Due, NothingForgotten, Fetching
<1>2. CASE Write
  BY <1>2, WriteResync
<1>3. CASE Serve
  BY <1>3, ServeResync
<1>4. CASE Synchronise
  <2>1. OneAtATime'
    BY <1>4, TabAlone DEF ResyncInv
  <2> QED BY <1>4, <2>1, SyncChangesResync, SyncTooFarBehindResync, SyncLatestResync DEF Synchronise
<1>5. CASE Open
  <2>1. OneAtATime'
    BY <1>5, TabAlone DEF ResyncInv
  <2> QED BY <1>5, <2>1, OpenResync
<1>6. CASE Network
  <2>1. OneAtATime'
    BY <1>6, NetworkAlone DEF ResyncInv
  <2> QED BY <1>6, <2>1, NetworkResync
<1>7. ~SyncFails /\ ~OpenRoomFails
  BY DEF SyncFails, OpenRoomFails, NoneLost
<1> QED BY <1>1, <1>2, <1>3, <1>4, <1>5, <1>6, <1>7 DEF Next

\* The inductive invariant of the resync: where no publish is lost and no request fails,
\* what the window of a tab covers is shown, on its way, or being fetched.
THEOREM ResyncInvariant ==
    ASSUME "lost" \notin Faults, "failure" \notin Faults
    PROVE  Spec => []ResyncInv
<1>1. NoneLost
  BY DEF NoneLost
<1>2. TypeOK /\ CursorInv /\ ResyncInv /\ [Next]_vars => ResyncInv'
  BY <1>1, NextResync
<1> QED BY <1>2, InitResync, TypeCorrect, CursorInvariant, PTL DEF Spec

\* ADR 0026: where no publish is lost and no request fails, a tab whose subscription was
\* followed by a resync and that has nothing on its way is not behind.
THEOREM ResyncedAtRest ==
    ASSUME "lost" \notin Faults, "failure" \notin Faults
    PROVE  Spec => []ResyncedWhenQuiet
<1>1. CursorInv /\ ResyncInv => ResyncedWhenQuiet
  <2> SUFFICES ASSUME ResyncInv, Quiet, conn = "synced",
                      NEW s \in channel, Covers(held, hasOlder, hasNewer, s)
               PROVE  held[s] = rows[s]
    BY DEF ResyncedWhenQuiet, AllShown, UpToDate
  <2>1. status = "ready" /\ events = {} /\ req["sync"].stage = "idle" /\ ~again
    BY DEF Quiet, ResyncInv, OneAtATime, Busy
  <2>2. held[s] = rows[s] \/ Due(s) \/ Fetching(s)
    BY <2>1 DEF ResyncInv, NothingForgotten, InWindow
  <2> QED BY <2>1, <2>2 DEF Due, Fetching
<1> QED BY <1>1, ResyncInvariant, CursorInvariant, PTL

-----------------------------------------------------------------------------
(* The history: every step of it keeps the types, too. *)

LEMMA MergeAllType ==
    ASSUME NEW h \in Versions, NEW p \in Versions
    PROVE  Merge(h, p) \in Versions
BY DEF Merge, Versions, Changes, Greater

LEMMA LoadType ==
    ASSUME TypeOK, LoadOlder \/ LoadNewer \/ \E s \in 0..MaxSeq : JumpToMessage(s) \/ JumpToUnread(s)
    PROVE  TypeOK'
<1>1. ASSUME NEW slot \in {"older", "newer", "jump"}, NEW by \in {"before", "after", "around"},
             NEW s \in 0..MaxSeq, req' = [req EXCEPT ![slot] = Sent([by |-> by, arg |-> s])]
      PROVE  req' \in [Slots -> Request]
  <2>1. [by |-> by, arg |-> s] \in Query
    BY BoundsAssumption DEF Query
  <2> QED BY <1>1, <2>1, SentType, RequestsType DEF TypeOK, Slots
<1>2. \A s \in Seqs : s \in 0..MaxSeq
  BY BoundsAssumption DEF Seqs
<1>3. CASE LoadOlder
  <2>1. PICK s \in Seqs : req' = [req EXCEPT !["older"] = Sent([by |-> "before", arg |-> s])]
    BY <1>3 DEF LoadOlder, EndOf
  <2>2. req' \in [Slots -> Request]
    BY <1>1, <1>2, <2>1
  <2> QED BY <1>3, <2>2 DEF LoadOlder, TypeOK, server, EndOf
<1>4. CASE LoadNewer
  <2>1. PICK s \in Seqs : req' = [req EXCEPT !["newer"] = Sent([by |-> "after", arg |-> s])]
    BY <1>4 DEF LoadNewer, EndOf
  <2>2. req' \in [Slots -> Request]
    BY <1>1, <1>2, <2>1
  <2> QED BY <1>4, <2>2 DEF LoadNewer, TypeOK, server, EndOf
<1>5. CASE \E s \in 0..MaxSeq : JumpToMessage(s) \/ JumpToUnread(s)
  <2>1. PICK s \in 0..MaxSeq : JumpToMessage(s) \/ JumpToUnread(s)
    BY <1>5
  <2>2. req' \in [Slots -> Request]
    BY <1>1, <2>1 DEF JumpToMessage, JumpToUnread
  <2> QED BY <2>1, <2>2 DEF JumpToMessage, JumpToUnread, TypeOK, server, timeline
<1> QED BY <1>3, <1>4, <1>5

LEMMA LoadedType ==
    ASSUME TypeOK, OlderLoaded \/ NewerLoaded \/ ReplaceWindow
                   \/ \E slot \in {"older", "newer", "jump"} : HistoryFails(slot)
    PROVE  TypeOK'
<1>s. {"older", "newer", "jump"} \subseteq Slots
  BY DEF Slots
<1>1. ASSUME NEW slot \in Slots, req' = [req EXCEPT ![slot] = Idle] PROVE req' \in [Slots -> Request]
  BY <1>1, IdleType, RequestsType DEF TypeOK
<1>2. CASE OlderLoaded
  <2>1. held' \in Versions /\ hasOlder' \in BOOLEAN
    BY <1>2, <1>s, AnswerFields, MergeAllType DEF OlderLoaded, TypeOK
  <2>2. req' \in [Slots -> Request]
    BY <1>1, <1>2, <1>s DEF OlderLoaded
  <2> QED BY <1>2, <2>1, <2>2 DEF OlderLoaded, TypeOK, server
<1>3. CASE NewerLoaded
  <2> DEFINE closed == [req EXCEPT !["newer"] = Idle]
  <2>1. held' \in Versions /\ hasNewer' \in BOOLEAN
    BY <1>3, <1>s, AnswerFields, MergeAllType DEF NewerLoaded, TypeOK
  <2>2. cursor' \in Changes
    BY <1>3, AdvanceType DEF NewerLoaded, TypeOK
  <2>3. closed \in [Slots -> Request]
    BY <1>s, IdleType, RequestsType DEF TypeOK
  <2>4. (req' = closed /\ UNCHANGED again) \/ SyncTimeline(closed, cursor', status)
    BY <1>3 DEF NewerLoaded
  <2>5. req' \in [Slots -> Request] /\ again' \in BOOLEAN
    BY <2>2, <2>3, <2>4, SyncTimelineType DEF TypeOK
  <2> QED BY <1>3, <2>1, <2>2, <2>5 DEF NewerLoaded, TypeOK, server
<1>4. CASE ReplaceWindow
  <2>1. held' \in Versions
    BY <1>4, <1>s, AnswerFields DEF ReplaceWindow
  <2>2. hasOlder' \in BOOLEAN /\ hasNewer' \in BOOLEAN
    <3>1. PICK a \in Request : a = req["jump"]
      BY <1>s DEF TypeOK
    <3>2. a.more \in BOOLEAN /\ a.moreAfter \in BOOLEAN /\ (a.query.arg > 0) \in BOOLEAN
      BY <3>1 DEF Request
    <3>3. hasOlder' = (IF a.query.by = "after" THEN a.query.arg > 0 ELSE a.more)
          /\ hasNewer' = (IF a.query.by = "after" THEN a.more ELSE a.moreAfter)
      BY <1>4, <3>1 DEF ReplaceWindow
    <3> QED BY <3>2, <3>3, Zenon
  <2>3. cursor' \in Changes
    BY <1>4, <1>s, AnswerFields, GreaterType, AdvanceType DEF ReplaceWindow, TypeOK
  <2>4. req' \in [Slots -> Request]
    BY <1>1, <1>4, <1>s DEF ReplaceWindow
  <2> QED BY <1>4, <2>1, <2>2, <2>3, <2>4 DEF ReplaceWindow, TypeOK, server
<1>5. CASE \E slot \in {"older", "newer", "jump"} : HistoryFails(slot)
  <2>1. PICK slot \in {"older", "newer", "jump"} : HistoryFails(slot)
    BY <1>5
  <2>2. req' \in [Slots -> Request]
    BY <1>1, <1>s, <2>1 DEF HistoryFails
  <2> QED BY <2>1, <2>2 DEF HistoryFails, TypeOK, server
<1> QED BY <1>2, <1>3, <1>4, <1>5

LEMMA HistoryNextType == TypeOK /\ [HistoryNext]_vars => TypeOK'
BY NextType, LoadType, LoadedType DEF HistoryNext, ReadHistory

\* The types hold with the history, too, whatever the user asks for.
THEOREM HistoryTypes == HistorySpec => []TypeOK
BY InitType, HistoryNextType, PTL DEF HistorySpec

\* Whatever the user reads and whatever fails, nothing is shown that was not written to
\* its message, and the cursor never runs ahead of the room.
THEOREM OnlyWrittenRead == HistorySpec => []NothingInvented
<1>1. WrittenInv => NothingInvented
  BY DEF WrittenInv
<1> QED BY <1>1, InitWritten, NextWritten, HistoryTypes, PTL DEF HistorySpec

-----------------------------------------------------------------------------
(* The loading flags. *)

\* The steps that do not read the history leave its requests to the server.
LEMMA NextReaches ==
    ASSUME TypeOK, Next
    PROVE  /\ paging' \subseteq paging
           /\ \A slot \in Slots \ {"open", "sync"} : Busy(slot) <=> req'[slot].stage # "idle"
<1> DEFINE Goal == /\ paging' \subseteq paging
                   /\ \A slot \in Slots \ {"open", "sync"} : Busy(slot) <=> req'[slot].stage # "idle"
<1>1. ASSUME paging' \subseteq paging, \A slot \in Slots \ {"open", "sync"} : req'[slot] = req[slot]
      PROVE  Goal
  BY <1>1 DEF Busy
<1> SUFFICES Goal
  OBVIOUS
<1> HIDE DEF Goal
<1>2. ASSUME NEW r \in [Slots -> Request], NEW at, NEW st, SyncTimeline(r, at, st),
             \A slot \in Slots \ {"open", "sync"} : r[slot] = req[slot]
      PROVE  \A slot \in Slots \ {"open", "sync"} : req'[slot] = req[slot]
  BY <1>2 DEF SyncTimeline, SyncOnce
<1>3. ASSUME NEW at, NEW st, SyncEnds(at, st)
      PROVE  \A slot \in Slots \ {"open", "sync"} : req'[slot] = req[slot]
  BY <1>3 DEF SyncEnds, SyncOnce, TypeOK
<1>4. CASE Write
  BY <1>1, <1>4 DEF Write, SendMessage, SendThreadReply, ChangeMessage, DeleteThreadReply, timeline
<1>5. CASE Serve
  <2>1. PICK slot \in Slots : ReadRoomRow(slot) \/ ReadOneWay(slot) \/ ReadAround(slot)
    BY <1>5 DEF Serve
  <2>2. /\ req[slot].stage # "idle" /\ req'[slot].stage # "idle"
        /\ \A t \in Slots \ {slot} : req'[t] = req[t]
    <3>1. CASE ReadRoomRow(slot)
      BY <3>1 DEF ReadRoomRow, TypeOK, Request
    <3>2. CASE req[slot].stage = "room" /\ \E S, more, moreAfter : Answer(slot, S, more, moreAfter)
      BY <3>2 DEF Answer, TypeOK, Request
    <3> QED BY <2>1, <3>1, <3>2 DEF ReadOneWay, ReadAround, ReadRows
  <2>3. paging' = paging
    BY <2>1 DEF ReadRoomRow, ReadOneWay, ReadAround, timeline
  <2> QED BY <2>2, <2>3 DEF Goal, Busy
<1>6. CASE SyncChanges \/ SyncLatest
  BY <1>1, <1>3, <1>6 DEF SyncChanges, SyncLatest
<1>7. CASE SyncTooFarBehind \/ SyncFails
  BY <1>1, <1>7 DEF SyncTooFarBehind, SyncFails, timeline, TypeOK
<1>8. CASE OpenRoom \/ OpenRoomAnswered \/ OpenRoomFails
  BY <1>1, <1>8 DEF OpenRoom, OpenRoomAnswered, OpenRoomFails, TypeOK
<1>9. CASE ReopenRoom
  BY <1>1, <1>2, <1>9 DEF ReopenRoom, TypeOK
<1>10. CASE \E e \in events, alsoLater \in BOOLEAN : Receive(e, alsoLater)
  BY <1>1, <1>2, <1>10 DEF Receive, ReceiveWhileLoading, ReceiveNews, ReceiveNothing, TypeOK
<1>11. CASE (\E e \in events : Miss(e)) \/ Disconnect \/ Subscribe
  BY <1>1, <1>11 DEF Miss, Disconnect, Subscribe, timeline
<1>12. CASE \E gone \in Gone : BatchAcked(gone)
  BY <1>1, <1>2, <1>12 DEF BatchAcked, timeline, TypeOK
<1> QED BY <1>4, <1>5, <1>6, <1>7, <1>8, <1>9, <1>10, <1>11, <1>12 DEF Next, Synchronise, Open, Network

LEMMA NextLoading == ASSUME TypeOK, LoadingEnds, Next PROVE LoadingEnds'
<1>s. paging \subseteq Slots \ {"open", "sync"}
  BY DEF TypeOK, Slots
<1> QED BY <1>s, NextReaches DEF LoadingEnds, Busy

LEMMA HistoryLoading == ASSUME TypeOK, LoadingEnds, ReadHistory PROVE LoadingEnds'
<1>s. "older" \in Slots \ {"sync"} /\ "newer" \in Slots \ {"sync"} /\ "jump" \in Slots
  BY DEF Slots
<1>p. paging \subseteq {"older", "newer"}
  BY DEF TypeOK
<1>1. \A query : Sent(query).stage = "sent"
  BY DEF Sent, Idle
<1>2. ASSUME NEW slot \in Slots, NEW query, req' = [req EXCEPT ![slot] = Sent(query)],
             paging' \subseteq paging \cup {slot}
      PROVE  LoadingEnds'
  BY <1>1, <1>2, <1>p, <1>s DEF LoadingEnds, Busy, TypeOK
<1>2a. CASE LoadOlder
  <2>1. PICK s \in Seqs : req' = [req EXCEPT !["older"] = Sent([by |-> "before", arg |-> s])]
    BY <1>2a DEF LoadOlder, EndOf
  <2>2. paging' \subseteq paging \cup {"older"}
    BY <1>2a DEF LoadOlder, EndOf
  <2> QED BY <1>2, <1>s, <2>1, <2>2
<1>2b. CASE LoadNewer
  <2>1. PICK s \in Seqs : req' = [req EXCEPT !["newer"] = Sent([by |-> "after", arg |-> s])]
    BY <1>2b DEF LoadNewer, EndOf
  <2>2. paging' \subseteq paging \cup {"newer"}
    BY <1>2b DEF LoadNewer, EndOf
  <2> QED BY <1>2, <1>s, <2>1, <2>2
<1>3. CASE \E s \in 0..MaxSeq : JumpToMessage(s) \/ JumpToUnread(s)
  BY <1>1, <1>3, <1>p, <1>s DEF JumpToMessage, JumpToUnread, LoadingEnds, Busy, TypeOK, timeline
<1>4. CASE OlderLoaded
  BY <1>4, <1>p, <1>s DEF OlderLoaded, LoadingEnds, Busy, TypeOK
<1>5. CASE NewerLoaded
  <2>1. paging' = paging \ {"newer"} /\ req'["older"] = req["older"]
    BY <1>5, <1>s DEF NewerLoaded, SyncTimeline, SyncOnce, TypeOK
  <2> QED BY <1>p, <2>1 DEF LoadingEnds, Busy
<1>6. CASE ReplaceWindow
  BY <1>6 DEF ReplaceWindow, LoadingEnds
<1>7. CASE \E slot \in {"older", "newer", "jump"} : HistoryFails(slot)
  <2>1. PICK slot \in {"older", "newer", "jump"} : HistoryFails(slot)
    BY <1>7
  <2>2. /\ paging' = paging \ {slot} /\ req' = [req EXCEPT ![slot] = Idle]
        /\ req \in [Slots -> Request]
    BY <2>1 DEF HistoryFails, TypeOK
  <2>3. \A t \in paging' : t \in paging /\ req'[t] = req[t]
    BY <1>p, <1>s, <2>2
  <2> QED BY <2>3 DEF LoadingEnds, Busy
<1> QED BY <1>2a, <1>2b, <1>3, <1>4, <1>5, <1>6, <1>7 DEF ReadHistory

\* No loading flag outlives the request that clears it, whatever jumps and failures come
\* between (history.ts: loadOlder, loadNewer, replaceWindow).
THEOREM NoStuckLoading == HistorySpec => []LoadingEnds
<1>1. Init => LoadingEnds
  BY DEF Init, LoadingEnds
<1>2. TypeOK /\ LoadingEnds /\ [HistoryNext]_vars => LoadingEnds'
  <2>1. UNCHANGED vars /\ LoadingEnds => LoadingEnds'
    BY DEF vars, LoadingEnds, Busy
  <2> QED BY <2>1, NextLoading, HistoryLoading DEF HistoryNext
<1> QED BY <1>1, <1>2, HistoryTypes, PTL DEF HistorySpec

-----------------------------------------------------------------------------
(* Which versions overtake which. *)

VersionsTyped ==
    /\ lastChange \in Nat
    /\ \A s \in Seqs : rows[s] \in Nat /\ held[s] \in Nat /\ \A v \in Versioned(s) : v \in Nat
    /\ \A slot \in Slots : /\ req[slot].last \in Nat /\ req[slot].page \in Versions
                           /\ \A s \in Seqs : req[slot].page[s] \in Nat
    /\ \A e \in events : e.seq \in Seqs /\ e.change \in Nat

LEMMA VersionedTypes == TypeOK => VersionsTyped
<1> SUFFICES ASSUME TypeOK PROVE VersionsTyped
  OBVIOUS
<1>1. \A c \in Changes : c \in Nat
  BY BoundsAssumption DEF Changes
<1>2. \A h \in Versions : \A s \in Seqs : h[s] \in Nat
  BY <1>1 DEF Versions
<1>3. \A e \in events : e.seq \in Seqs /\ e.change \in Nat
  BY BoundsAssumption DEF TypeOK, Event
<1>4. \A slot \in Slots : req[slot].last \in Changes /\ req[slot].page \in Versions
  BY AnswerFields
<1>5. lastChange \in Changes /\ rows \in Versions /\ held \in Versions
  BY DEF TypeOK
<1> QED BY <1>1, <1>2, <1>3, <1>4, <1>5 DEF VersionsTyped, Versioned

\* What a step may do to the versions: each is an old one, newer than every number, or
\* the row's; a page stays, goes or carries the rows.
LEMMA OvertakenKeeps ==
    ASSUME TypeOK, TypeOK', OvertakenInv,
           \A slot \in Slots : req'[slot].last <= lastChange',
           \A s \in Seqs : rows[s] <= rows'[s] /\ rows'[s] <= lastChange',
           \A s \in Seqs : \A v \in Versioned(s)' :
               v = 0 \/ v \in Versioned(s) \/ (lastChange < v /\ v <= rows'[s]),
           \A slot \in Slots, s \in Seqs :
               \/ req'[slot].stage # "page" \/ req'[slot].page[s] = 0
               \/ req'[slot].page[s] = rows'[s]
               \/ req'[slot] = req[slot]
    PROVE  OvertakenInv'
<1>0. VersionsTyped /\ VersionsTyped'
  BY VersionedTypes, PTL
<1>1. ASSUME NEW s \in Seqs, NEW v \in Versioned(s)'
      PROVE  v <= rows'[s]
  <2>1. v \in Nat /\ rows[s] \in Nat /\ rows'[s] \in Nat
    BY <1>0, <1>1 DEF VersionsTyped
  <2>2. v \in Versioned(s) => v <= rows[s]
    BY <1>1 DEF OvertakenInv
  <2> QED BY <1>1, <2>1, <2>2
<1>2. ASSUME NEW s \in Seqs, NEW v \in Versioned(s)', NEW slot \in Slots,
             req'[slot].stage = "page", req'[slot].page[s] # 0
      PROVE  v <= req'[slot].page[s] \/ req'[slot].last < v
  <2> DEFINE p  == req'[slot].page[s]
             l  == req'[slot].last
             p0 == req[slot].page[s]
             l0 == req[slot].last
  <2>1. v \in Nat /\ p \in Nat /\ l \in Nat
    BY <1>0, <1>2 DEF VersionsTyped
  <2>2. l0 \in Nat /\ lastChange \in Nat
    BY <1>0, <1>2 DEF VersionsTyped
  <2>3. v <= rows'[s]
    BY <1>1, <1>2
  <2>4. l0 <= lastChange /\ (req[slot].stage = "page" /\ v \in Versioned(s) /\ p0 # 0 => v <= p0 \/ l0 < v)
    BY <1>2 DEF OvertakenInv
  <2>5. CASE p = rows'[s]
    BY <2>3, <2>5
  <2>6. CASE req'[slot] = req[slot]
    BY <1>2, <2>1, <2>2, <2>4, <2>6
  <2> QED BY <1>2, <2>5, <2>6
<1>3. \A s \in Seqs : \A v \in Versioned(s)' : v <= rows'[s] /\
          \A slot \in Slots :
              req'[slot].stage = "page" /\ req'[slot].page[s] # 0 => v <= req'[slot].page[s] \/ req'[slot].last < v
  BY <1>1, <1>2
<1> QED BY <1>3 DEF OvertakenInv

\* The steps of the tab take what they show from what it has or is told.
LEMMA TabOvertaken ==
    ASSUME TypeOK, TypeOK', OvertakenInv, UNCHANGED server, events' \subseteq events,
           \A slot \in Slots : req'[slot] = req[slot] \/ (req'[slot].page = Nothing /\ req'[slot].last = 0),
           \A s \in Seqs : held'[s] = 0 \/ held'[s] \in Versioned(s)
    PROVE  OvertakenInv'
<1>u. lastChange' = lastChange /\ rows' = rows /\ lastChange \in Nat
  BY VersionedTypes DEF server, VersionsTyped
<1>1. \A slot \in Slots : req'[slot].last <= lastChange'
  BY <1>u DEF OvertakenInv
<1>2. \A s \in Seqs : rows[s] <= rows'[s] /\ rows'[s] <= lastChange'
  BY <1>u, VersionedTypes DEF OvertakenInv, VersionsTyped
<1>3. \A slot \in Slots, s \in Seqs :
          \/ req'[slot].page[s] = 0
          \/ req'[slot] = req[slot]
  BY DEF Nothing
<1>4. ASSUME NEW s \in Seqs, NEW v \in Versioned(s)'
      PROVE  v = 0 \/ v \in Versioned(s)
  <2>1. \/ v = rows'[s] \/ v = held'[s]
        \/ \E e \in events' : e.seq = s /\ v = e.change
        \/ \E slot \in Slots : v = req'[slot].page[s]
    BY <1>4 DEF Versioned
  <2>2. CASE v = rows'[s]
    BY <1>u, <2>2 DEF Versioned
  <2>3. CASE v = held'[s]
    BY <2>3
  <2>4. CASE \E e \in events' : e.seq = s /\ v = e.change
    BY <2>4 DEF Versioned
  <2>5. CASE \E slot \in Slots : v = req'[slot].page[s]
    BY <1>3, <2>5 DEF Versioned
  <2> QED BY <2>1, <2>2, <2>3, <2>4, <2>5
<1> QED BY <1>1, <1>2, <1>3, <1>4, OvertakenKeeps

LEMMA WriteOvertaken == ASSUME TypeOK, TypeOK', OvertakenInv, Write PROVE OvertakenInv' /\ NoneOlder
<1>0. VersionsTyped'
  BY VersionedTypes, PTL
<1>t. lastChange \in Nat /\ \A s \in Seqs : rows[s] \in Nat /\ s \in Nat /\ s # 0
  BY VersionedTypes DEF Seqs, VersionsTyped
<1>1. ASSUME NEW s1 \in Seqs, NEW s2 \in 0..MaxSeq, Bump(s1, s2), UNCHANGED <<timeline, req>>
      PROVE  OvertakenInv' /\ NoneOlder
  <2>1. lastChange' = (IF s2 = 0 THEN lastChange + 1 ELSE lastChange + 2) /\ held' = held /\ req' = req
    BY <1>1, <1>t DEF Bump, timeline
  <2>2. \A s \in Seqs : rows'[s] = rows[s] \/ (lastChange < rows'[s] /\ rows'[s] <= lastChange')
    <3>1. \A s \in Seqs : rows'[s] = IF s = s1 THEN lastChange + 1
                                     ELSE IF s = s2 THEN lastChange + 2 ELSE rows[s]
      BY <1>1 DEF Bump
    <3> QED BY <1>t, <2>1, <3>1
  <2>3. \A s \in Seqs : rows[s] <= rows'[s] /\ rows'[s] <= lastChange'
    <3>1. lastChange' \in Nat /\ lastChange <= lastChange' /\ \A s \in Seqs : rows[s] <= lastChange
      BY <1>t, <2>1 DEF OvertakenInv
    <3>2. ASSUME NEW s \in Seqs PROVE rows[s] <= rows'[s] /\ rows'[s] <= lastChange'
      <4>1. rows[s] \in Nat /\ rows'[s] \in Nat /\ rows[s] <= lastChange
        BY <1>0, <1>t, <3>1, <3>2 DEF VersionsTyped
      <4> QED BY <1>t, <2>2, <3>1, <3>2, <4>1
    <3> QED BY <3>2
  <2>4. \A slot \in Slots : req'[slot].last <= lastChange'
    BY <1>t, <2>1, VersionedTypes DEF OvertakenInv, VersionsTyped
  <2>5. \A e \in events' : e \in events \/ e.change = rows'[e.seq]
    BY <1>1 DEF Bump
  <2>6. ASSUME NEW s \in Seqs, NEW v \in Versioned(s)'
        PROVE  v \in Versioned(s) \/ (lastChange < v /\ v <= rows'[s])
    <3>1. \/ v = rows'[s] \/ v = held'[s]
          \/ \E e \in events' : e.seq = s /\ v = e.change
          \/ \E slot \in Slots : v = req'[slot].page[s]
      BY <2>6 DEF Versioned
    <3>2. rows'[s] \in Nat
      BY <2>2, <1>t, VersionedTypes, BoundsAssumption DEF TypeOK, Versions, Changes, VersionsTyped
    <3>3. CASE v = rows'[s]
      BY <2>2, <3>2, <3>3 DEF Versioned
    <3>4. CASE \E e \in events' : e.seq = s /\ v = e.change
      BY <2>5, <3>3, <3>4 DEF Versioned
    <3> QED BY <2>1, <3>1, <3>3, <3>4 DEF Versioned
  <2>7. NoneOlder
    BY <2>1, VersionedTypes DEF NoneOlder, VersionsTyped
  <2>8. OvertakenInv'
    BY <2>1, <2>3, <2>4, <2>6, OvertakenKeeps
  <2> QED BY <2>7, <2>8
<1>2. 0 \in 0..MaxSeq /\ \A s \in Seqs : s \in 0..MaxSeq
  BY BoundsAssumption DEF Seqs
<1>3. lastSeq < MaxSeq => NewRow \in Seqs
  BY BoundsAssumption DEF TypeOK, NewRow, Seqs
<1>4. CASE SendMessage
  BY <1>1, <1>2, <1>3, <1>4 DEF SendMessage
<1>5. CASE \E top \in Seqs, also \in BOOLEAN : SendThreadReply(top, also)
  BY <1>1, <1>2, <1>3, <1>5 DEF SendThreadReply
<1>6. CASE \E s \in Seqs : ChangeMessage(s)
  BY <1>1, <1>2, <1>6 DEF ChangeMessage
<1>7. CASE \E s \in Seqs : DeleteThreadReply(s)
  <2>1. PICK s \in Seqs : DeleteThreadReply(s)
    BY <1>7
  <2>2. root[s] \in 0..MaxSeq
    BY DEF TypeOK
  <2> QED BY <1>1, <2>1, <2>2 DEF DeleteThreadReply
<1> QED BY <1>4, <1>5, <1>6, <1>7 DEF Write

\* The room row is read before the messages, whose present versions the page carries.
LEMMA ServeOvertaken == ASSUME TypeOK, TypeOK', OvertakenInv, Serve PROVE OvertakenInv' /\ NoneOlder
<1>1. PICK slot \in Slots : ReadRoomRow(slot) \/ ReadOneWay(slot) \/ ReadAround(slot)
  BY DEF Serve
<1>2. rows' = rows /\ lastChange' = lastChange /\ events' = events /\ held' = held
  BY <1>1 DEF ReadRoomRow, ReadOneWay, ReadAround, timeline, server
<1>3. \A t \in Slots \ {slot} : req'[t] = req[t]
  BY <1>1, ServeSteps
<1>4. \/ req'[slot].stage # "page" /\ req'[slot].page = req[slot].page /\ req'[slot].last = lastChange
      \/ req'[slot].last = req[slot].last /\ \E S : req'[slot].page = PageOf(S)
  <2>1. CASE ReadRoomRow(slot)
    BY <2>1 DEF ReadRoomRow, TypeOK, Request
  <2>2. CASE \E S, more, moreAfter : Answer(slot, S, more, moreAfter)
    BY <2>2 DEF Answer, TypeOK, Request
  <2> QED BY <1>1, <2>1, <2>2 DEF ReadOneWay, ReadAround, ReadRows
<1>5. \A s \in Seqs : req'[slot].page[s] \in {req[slot].page[s], rows[s], 0}
  BY <1>4 DEF PageOf
<1>6. \A t \in Slots, s \in Seqs :
          req'[t].stage # "page" \/ req'[t].page[s] = 0 \/ req'[t].page[s] = rows'[s] \/ req'[t] = req[t]
  <2>1. \A s \in Seqs : req'[slot].stage # "page" \/ req'[slot].page[s] \in {0, rows'[s]}
    BY <1>2, <1>4 DEF PageOf
  <2> QED BY <1>3, <2>1
<1>7. \A t \in Slots : req'[t].last <= lastChange'
  BY <1>2, <1>3, <1>4, VersionedTypes DEF VersionsTyped, OvertakenInv
<1>8. ASSUME NEW s \in Seqs, NEW v \in Versioned(s)' PROVE v = 0 \/ v \in Versioned(s)
  <2>1. \/ v = rows'[s] \/ v = held'[s]
        \/ \E e \in events' : e.seq = s /\ v = e.change
        \/ \E t \in Slots : v = req'[t].page[s]
    BY <1>8 DEF Versioned
  <2>2. CASE \E t \in Slots : v = req'[t].page[s]
    BY <1>3, <1>5, <1>8, <2>2 DEF Versioned
  <2> QED BY <1>2, <2>1, <2>2 DEF Versioned
<1>9. \A s \in Seqs : rows[s] <= rows'[s] /\ rows'[s] <= lastChange'
  BY <1>2, VersionedTypes DEF VersionsTyped, OvertakenInv
<1>10. NoneOlder
  BY <1>2, VersionedTypes DEF NoneOlder, VersionsTyped
<1>11. OvertakenInv'
  BY <1>6, <1>7, <1>8, <1>9, OvertakenKeeps
<1> QED BY <1>10, <1>11

LEMMA MergeTakes ==
    ASSUME NEW h, NEW p, NEW older, NEW newer, NEW s \in Seqs
    PROVE  MergeIntoWindow(h, older, newer, p)[s] \in {h[s], p[s]}
BY DEF MergeIntoWindow, Greater

LEMMA MergeGrows ==
    ASSUME NEW h \in Versions, NEW p \in Versions, NEW older, NEW newer, NEW s \in Seqs
    PROVE  h[s] <= MergeIntoWindow(h, older, newer, p)[s]
<1>1. h[s] \in Nat /\ p[s] \in Nat
  BY BoundsAssumption DEF Versions, Changes
<1> QED BY <1>1 DEF MergeIntoWindow, Greater

LEMMA GreaterBounds ==
    ASSUME NEW a \in Nat, NEW b \in Nat
    PROVE  /\ a <= Greater(a, b) /\ b <= Greater(a, b)
           /\ Greater(a, b) \in Nat /\ Greater(a, b) \in {a, b}
BY DEF Greater

\* A page that replaces the window, under what arrived after it: nothing older is shown.
LEMMA LatestOvertaken ==
    ASSUME TypeOK, OvertakenInv, NEW slot \in Slots, req[slot].stage = "page",
           held' = MergeIntoWindow(req[slot].page, req[slot].more, FALSE,
                                   [s \in Seqs |-> IF held[s] > req[slot].last THEN held[s] ELSE 0])
    PROVE  NoneOlder /\ \A s \in Seqs : held'[s] = 0 \/ held'[s] \in Versioned(s)
<1>1. PICK page \in Versions : page = req[slot].page
  BY AnswerFields
<1>2. PICK last \in Nat : last = req[slot].last
  BY VersionedTypes DEF VersionsTyped
<1>3. PICK arrived \in Versions : arrived = [s \in Seqs |-> IF held[s] > last THEN held[s] ELSE 0]
  BY <1>2, ArrivedType
<1>4. PICK more \in BOOLEAN : more = req[slot].more
  BY AnswerFields
<1>5. held' = MergeIntoWindow(page, more, FALSE, arrived)
  BY <1>1, <1>2, <1>3, <1>4
<1>6. \A s \in Seqs : page[s] \in Versioned(s) /\ held[s] \in Versioned(s)
  BY <1>1 DEF Versioned
<1>7. ASSUME NEW s \in Seqs PROVE held'[s] = 0 \/ held'[s] \in Versioned(s)
  <2>1. held'[s] = IF Covers(page, more, FALSE, s) THEN Greater(page[s], arrived[s]) ELSE page[s]
    BY <1>5, <1>7 DEF MergeIntoWindow
  <2>2. held'[s] \in {page[s], arrived[s]}
    BY <2>1 DEF Greater
  <2>3. arrived[s] \in {held[s], 0}
    BY <1>3, <1>7
  <2> QED BY <1>6, <1>7, <2>2, <2>3
<1>8. ASSUME NEW s \in Seqs, held[s] # 0, held'[s] # 0 PROVE held[s] <= held'[s]
  <2>1. page[s] \in Nat /\ held[s] \in Nat /\ s \in Nat
    BY <1>1, VersionedTypes DEF VersionsTyped, Seqs
  <2>2. page[s] # 0 => held[s] <= page[s] \/ last < held[s]
    BY <1>1, <1>2, <1>6 DEF OvertakenInv
  <2>3. page[s] # 0 => Covers(page, more, FALSE, s)
    BY <2>1 DEF Covers, Held
  <2>4. held'[s] = IF Covers(page, more, FALSE, s) THEN Greater(page[s], arrived[s]) ELSE page[s]
    BY <1>5 DEF MergeIntoWindow
  <2>5. arrived[s] = IF last < held[s] THEN held[s] ELSE 0
    BY <1>2, <1>3, <2>1
  <2>6. held'[s] = Greater(page[s], arrived[s])
    BY <1>8, <2>3, <2>4
  <2>7. arrived[s] \in Nat
    BY <1>3, <1>8, BoundsAssumption DEF Versions, Changes
  <2> DEFINE shown == Greater(page[s], arrived[s])
  <2>8. page[s] <= shown /\ arrived[s] <= shown /\ shown \in Nat /\ shown \in {page[s], arrived[s]}
    BY <2>1, <2>7, GreaterBounds
  <2>s. held'[s] = shown
    BY <2>6
  <2> HIDE DEF shown
  <2>9. held[s] <= shown
    <3>1. CASE last < held[s]
      BY <2>5, <2>8, <3>1
    <3>2. CASE ~(last < held[s])
      <4>1. arrived[s] = 0
        BY <2>5, <3>2
      <4>2. page[s] # 0
        BY <1>8, <2>8, <2>s, <4>1
      <4>3. held[s] <= page[s]
        BY <2>2, <3>2, <4>2
      <4> QED BY <2>1, <2>8, <4>3
    <3> QED BY <3>1, <3>2
  <2> QED BY <2>9, <2>s
<1> QED BY <1>7, <1>8 DEF NoneOlder

LEMMA SynchroniseOvertaken ==
    ASSUME TypeOK, TypeOK', OvertakenInv, Synchronise \/ SyncFails
    PROVE  OvertakenInv' /\ NoneOlder
<1>r. req \in [Slots -> Request] /\ "sync" \in Slots
  BY DEF TypeOK, Slots
<1>1. ASSUME NEW at, NEW st, SyncEnds(at, st)
      PROVE  \A slot \in Slots : req'[slot] = req[slot] \/ (req'[slot].page = Nothing /\ req'[slot].last = 0)
  BY <1>1, <1>r, SyncEndsRequests, FreshRequests
<1>2. CASE SyncChanges
  <2>1. PICK page \in Versions : page = req["sync"].page
    BY <1>r, AnswerFields
  <2>2. held' = MergeIntoWindow(held, hasOlder, hasNewer, page) /\ held \in Versions
    BY <1>2, <2>1 DEF SyncChanges, TypeOK
  <2>3. \A s \in Seqs : held'[s] \in {held[s], page[s]} /\ held[s] <= held'[s]
    BY <2>2, MergeTakes, MergeGrows
  <2>4. \A s \in Seqs : held'[s] \in Versioned(s)
    BY <1>r, <2>1, <2>3 DEF Versioned
  <2>5. events' \subseteq events /\ UNCHANGED server /\ SyncEnds(cursor', status)
    BY <1>2 DEF SyncChanges
  <2>6. OvertakenInv'
    BY <1>1, <2>4, <2>5, TabOvertaken
  <2> QED BY <2>3, <2>6 DEF NoneOlder
<1>3. CASE SyncTooFarBehind
  <2>1. events' \subseteq events /\ UNCHANGED server /\ held' = held
    BY <1>3 DEF SyncTooFarBehind, timeline
  <2>2. \A slot \in Slots : req'[slot] = req[slot] \/ (req'[slot].page = Nothing /\ req'[slot].last = 0)
    BY <1>3, <1>r, FreshRequests DEF SyncTooFarBehind
  <2>3. \A s \in Seqs : held'[s] \in Versioned(s) /\ held[s] <= held'[s]
    BY <2>1, VersionedTypes DEF VersionsTyped, Versioned
  <2>4. OvertakenInv'
    BY <2>1, <2>2, <2>3, TabOvertaken
  <2> QED BY <2>3, <2>4 DEF NoneOlder
<1>4. CASE SyncLatest
  <2>1. NoneOlder /\ \A s \in Seqs : held'[s] = 0 \/ held'[s] \in Versioned(s)
    BY <1>4, <1>r, LatestOvertaken DEF SyncLatest, SyncAnswered
  <2>2. events' \subseteq events /\ UNCHANGED server /\ SyncEnds(cursor', status)
    BY <1>4 DEF SyncLatest
  <2>3. OvertakenInv'
    BY <1>1, <2>1, <2>2, TabOvertaken
  <2> QED BY <2>1, <2>3
<1>5. CASE SyncFails
  <2>1. events' \subseteq events /\ UNCHANGED server /\ held' = held
    BY <1>5 DEF SyncFails
  <2>2. \A slot \in Slots : req'[slot] = req[slot] \/ (req'[slot].page = Nothing /\ req'[slot].last = 0)
    BY <1>5, <1>r, FreshRequests DEF SyncFails
  <2>3. \A s \in Seqs : held'[s] \in Versioned(s) /\ held[s] <= held'[s]
    BY <2>1, VersionedTypes DEF VersionsTyped, Versioned
  <2>4. OvertakenInv'
    BY <2>1, <2>2, <2>3, TabOvertaken
  <2> QED BY <2>3, <2>4 DEF NoneOlder
<1> QED BY <1>2, <1>3, <1>4, <1>5 DEF Synchronise

\* Steps that leave the window alone, or only ask for something.
LEMMA StillOvertaken ==
    ASSUME TypeOK, TypeOK', OvertakenInv, UNCHANGED server, events' \subseteq events, held' = held,
           \A slot \in Slots : req'[slot] = req[slot] \/ (req'[slot].page = Nothing /\ req'[slot].last = 0)
    PROVE  OvertakenInv' /\ NoneOlder
<1>1. \A s \in Seqs : held'[s] \in Versioned(s) /\ held[s] <= held'[s]
  BY VersionedTypes DEF VersionsTyped, Versioned
<1>2. OvertakenInv'
  BY <1>1, TabOvertaken
<1> QED BY <1>1, <1>2 DEF NoneOlder

LEMMA OpenOvertaken ==
    ASSUME TypeOK, TypeOK', OvertakenInv, Open \/ OpenRoomFails
    PROVE  OvertakenInv' /\ NoneOlder
<1>r. req \in [Slots -> Request] /\ "open" \in Slots
  BY DEF TypeOK, Slots
<1>1. CASE OpenRoom
  <2>1. events' \subseteq events /\ UNCHANGED server /\ held' = Nothing
    BY <1>1 DEF OpenRoom
  <2>2. \A slot \in Slots : req'[slot] = req[slot] \/ (req'[slot].page = Nothing /\ req'[slot].last = 0)
    BY <1>1, <1>r, FreshRequests DEF OpenRoom
  <2>3. \A s \in Seqs : held'[s] = 0
    BY <2>1 DEF Nothing
  <2>4. OvertakenInv'
    BY <2>1, <2>2, <2>3, TabOvertaken
  <2> QED BY <2>3, <2>4 DEF NoneOlder
<1>2. CASE OpenRoomAnswered
  <2>1. NoneOlder /\ \A s \in Seqs : held'[s] = 0 \/ held'[s] \in Versioned(s)
    BY <1>2, <1>r, LatestOvertaken DEF OpenRoomAnswered
  <2>2. events' \subseteq events /\ UNCHANGED server
    BY <1>2 DEF OpenRoomAnswered
  <2>3. \A slot \in Slots : req'[slot] = req[slot] \/ (req'[slot].page = Nothing /\ req'[slot].last = 0)
    BY <1>2, <1>r, FreshRequests DEF OpenRoomAnswered
  <2>4. OvertakenInv'
    BY <2>1, <2>2, <2>3, TabOvertaken
  <2> QED BY <2>1, <2>4
<1>3. CASE OpenRoomFails
  <2>1. \A slot \in Slots : req'[slot] = req[slot] \/ (req'[slot].page = Nothing /\ req'[slot].last = 0)
    BY <1>3, <1>r, FreshRequests DEF OpenRoomFails
  <2>2. events' \subseteq events /\ UNCHANGED server /\ held' = held
    BY <1>3 DEF OpenRoomFails
  <2> QED BY <2>1, <2>2, StillOvertaken
<1>4. CASE ReopenRoom
  <2>1. \A slot \in Slots : req'[slot] = req[slot] \/ (req'[slot].page = Nothing /\ req'[slot].last = 0)
    <3>1. CASE SyncTimeline(req, cursor, status)
      BY <1>r, <3>1, SyncTimelineRequests, FreshRequests
    <3>2. CASE req' = req
      BY <3>2
    <3> QED BY <1>4, <3>1, <3>2 DEF ReopenRoom
  <2>2. events' \subseteq events /\ UNCHANGED server /\ held' = held
    BY <1>4 DEF ReopenRoom
  <2> QED BY <2>1, <2>2, StillOvertaken
<1> QED BY <1>1, <1>2, <1>3, <1>4 DEF Open

LEMMA NetworkOvertaken ==
    ASSUME TypeOK, TypeOK', OvertakenInv, Network
    PROVE  OvertakenInv' /\ NoneOlder
<1>r. req \in [Slots -> Request] /\ held \in Versions
  BY DEF TypeOK
<1>1. ASSUME NEW e \in events, NEW alsoLater \in BOOLEAN, Receive(e, alsoLater)
      PROVE  OvertakenInv' /\ NoneOlder
  <2>1. events' \subseteq events /\ UNCHANGED server
    BY <1>1 DEF Receive
  <2>2. e.seq \in Seqs /\ e.change \in 1..MaxChange /\ EventVersions(e) \in Versions
    <3>1. e \in Event
      BY DEF TypeOK
    <3>2. e.seq \in Seqs /\ e.change \in 1..MaxChange /\ \A c \in 1..MaxChange : c \in Changes
      BY <3>1, BoundsAssumption DEF Event, Changes
    <3> QED BY <3>2, NothingType DEF EventVersions, Versions
  <2>3. CASE ReceiveWhileLoading(e)
    <3>1. \A s \in Seqs : held'[s] \in Versioned(s) /\ held[s] <= held'[s]
      <4>1. \A s \in Seqs : held'[s] = IF s = e.seq THEN Greater(held[s], e.change) ELSE held[s]
        BY <1>r, <2>2, <2>3 DEF ReceiveWhileLoading, Versions
      <4>2. \A s \in Seqs : held[s] \in Versioned(s) /\ (s = e.seq => e.change \in Versioned(s)) /\ held[s] \in Nat
        BY <1>1, VersionedTypes DEF Versioned, VersionsTyped
      <4> QED BY <4>1, <4>2, <2>2, BoundsAssumption DEF Greater
    <3>2. req' = req
      BY <2>3 DEF ReceiveWhileLoading
    <3>3. OvertakenInv'
      BY <2>1, <3>1, <3>2, TabOvertaken
    <3> QED BY <3>1, <3>3 DEF NoneOlder
  <2>4. CASE ReceiveNews(e)
    <3>1. PICK p \in Versions : p = EventVersions(e)
      BY <2>2
    <3>2. held' = MergeIntoWindow(held, hasOlder, hasNewer, p)
      BY <2>4, <3>1 DEF ReceiveNews
    <3>3. \A s \in Seqs : p[s] = 0 \/ p[s] \in Versioned(s)
      BY <1>1, <2>2, <3>1 DEF EventVersions, Nothing, Versioned
    <3>4. \A s \in Seqs : held[s] \in Versioned(s)
      BY DEF Versioned
    <3>5. \A s \in Seqs : held'[s] \in {held[s], p[s]} /\ held[s] <= held'[s]
      BY <1>r, <3>2, MergeTakes, MergeGrows
    <3>6. \A slot \in Slots : req'[slot] = req[slot] \/ (req'[slot].page = Nothing /\ req'[slot].last = 0)
      <4>1. CASE SyncTimeline(req, cursor', status)
        BY <1>r, <4>1, SyncTimelineRequests, FreshRequests
      <4> QED BY <2>4, <4>1 DEF ReceiveNews
    <3>7. \A s \in Seqs : held'[s] = 0 \/ held'[s] \in Versioned(s)
      BY <3>3, <3>4, <3>5
    <3>8. OvertakenInv'
      BY <2>1, <3>6, <3>7, TabOvertaken
    <3> QED BY <3>5, <3>8 DEF NoneOlder
  <2>5. CASE ReceiveNothing(e)
    BY <2>1, <2>5, StillOvertaken DEF ReceiveNothing
  <2> QED BY <1>1, <2>3, <2>4, <2>5 DEF Receive
<1>2. CASE (\E e \in events : Miss(e)) \/ Disconnect \/ Subscribe
  <2>1. events' \subseteq events /\ UNCHANGED server /\ held' = held /\ req' = req
    BY <1>2 DEF Miss, Disconnect, Subscribe, timeline
  <2> QED BY <2>1, StillOvertaken
<1>3. CASE \E gone \in Gone : BatchAcked(gone)
  <2>1. events' \subseteq events /\ UNCHANGED server /\ held' = held
    BY <1>3 DEF BatchAcked, timeline
  <2>2. \A slot \in Slots : req'[slot] = req[slot] \/ (req'[slot].page = Nothing /\ req'[slot].last = 0)
    <3>1. CASE SyncTimeline(req, cursor, status)
      BY <1>r, <3>1, SyncTimelineRequests, FreshRequests
    <3> QED BY <1>3, <3>1 DEF BatchAcked
  <2> QED BY <2>1, <2>2, StillOvertaken
<1> QED BY <1>1, <1>2, <1>3 DEF Network

LEMMA HistoryOvertaken ==
    ASSUME TypeOK, TypeOK', OvertakenInv, ReadHistory
    PROVE  OvertakenInv' /\ (ReplaceWindow \/ NoneOlder)
<1>r. req \in [Slots -> Request] /\ {"older", "newer", "jump"} \subseteq Slots /\ held \in Versions
  BY DEF TypeOK, Slots
<1>1. ASSUME NEW slot \in Slots, NEW query, req' = [req EXCEPT ![slot] = Sent(query)],
             UNCHANGED server, events' = events, held' = held
      PROVE  OvertakenInv' /\ NoneOlder
  <2>1. \A t \in Slots : req'[t] = req[t] \/ (req'[t].page = Nothing /\ req'[t].last = 0)
    BY <1>1, <1>r, FreshRequests
  <2> QED BY <1>1, <2>1, StillOvertaken
<1>2. CASE LoadOlder
  <2>1. PICK s \in Seqs : req' = [req EXCEPT !["older"] = Sent([by |-> "before", arg |-> s])]
    BY <1>2 DEF LoadOlder, EndOf
  <2>2. UNCHANGED server /\ events' = events /\ held' = held
    BY <1>2 DEF LoadOlder, EndOf
  <2> QED BY <1>1, <1>r, <2>1, <2>2
<1>3. CASE LoadNewer
  <2>1. PICK s \in Seqs : req' = [req EXCEPT !["newer"] = Sent([by |-> "after", arg |-> s])]
    BY <1>3 DEF LoadNewer, EndOf
  <2>2. UNCHANGED server /\ events' = events /\ held' = held
    BY <1>3 DEF LoadNewer, EndOf
  <2> QED BY <1>1, <1>r, <2>1, <2>2
<1>4. CASE \E s \in 0..MaxSeq : JumpToMessage(s) \/ JumpToUnread(s)
  BY <1>1, <1>4, <1>r DEF JumpToMessage, JumpToUnread, timeline
<1>5. ASSUME NEW page \in Versions, NEW slot \in Slots, page = req[slot].page,
             held' = Merge(held, page), UNCHANGED server, events' = events,
             \A t \in Slots : req'[t] = req[t] \/ (req'[t].page = Nothing /\ req'[t].last = 0)
      PROVE  OvertakenInv' /\ NoneOlder
  <2>1. \A s \in Seqs : held[s] \in Versioned(s) /\ page[s] \in Versioned(s) /\ held[s] \in Nat /\ page[s] \in Nat
    BY <1>5, VersionedTypes DEF Versioned, VersionsTyped
  <2>2. \A s \in Seqs : held'[s] = Greater(held[s], page[s])
    BY <1>5 DEF Merge
  <2>3. \A s \in Seqs : held'[s] \in Versioned(s) /\ held[s] <= held'[s]
    BY <2>1, <2>2 DEF Greater
  <2>4. OvertakenInv'
    BY <1>5, <2>3, TabOvertaken
  <2> QED BY <2>3, <2>4 DEF NoneOlder
<1>6. CASE OlderLoaded
  <2>1. PICK page \in Versions : page = req["older"].page
    BY <1>r, AnswerFields
  <2>2. held' = Merge(held, page) /\ UNCHANGED server /\ events' = events
    BY <1>6, <2>1 DEF OlderLoaded
  <2>3. \A t \in Slots : req'[t] = req[t] \/ (req'[t].page = Nothing /\ req'[t].last = 0)
    BY <1>6, <1>r, FreshRequests DEF OlderLoaded
  <2> QED BY <1>5, <1>r, <2>1, <2>2, <2>3
<1>7. CASE NewerLoaded
  <2>1. PICK page \in Versions : page = req["newer"].page
    BY <1>r, AnswerFields
  <2>2. held' = Merge(held, page) /\ UNCHANGED server /\ events' = events
    BY <1>7, <2>1 DEF NewerLoaded
  <2>3. PICK closed \in [Slots -> Request] : closed = [req EXCEPT !["newer"] = Idle]
    BY <1>r, IdleType, RequestsType
  <2>4. \A t \in Slots : closed[t] = req[t] \/ (closed[t].page = Nothing /\ closed[t].last = 0)
    BY <1>r, <2>3, FreshRequests
  <2>5. req' = closed \/ SyncTimeline(closed, cursor', status)
    BY <1>7, <2>3 DEF NewerLoaded
  <2>6. \A t \in Slots : req'[t] = closed[t] \/ (req'[t].page = Nothing /\ req'[t].last = 0)
    BY <2>3, <2>5, FreshRequests DEF SyncTimeline, SyncOnce
  <2>7. \A t \in Slots : req'[t] = req[t] \/ (req'[t].page = Nothing /\ req'[t].last = 0)
    BY <2>4, <2>6
  <2> QED BY <1>5, <1>r, <2>1, <2>2, <2>7
<1>8. CASE ReplaceWindow
  <2>1. UNCHANGED server /\ events' = events /\ held' = req["jump"].page
    BY <1>8 DEF ReplaceWindow
  <2>2. \A t \in Slots : req'[t] = req[t] \/ (req'[t].page = Nothing /\ req'[t].last = 0)
    BY <1>8, <1>r, FreshRequests DEF ReplaceWindow
  <2>3. \A s \in Seqs : held'[s] \in Versioned(s)
    BY <1>r, <2>1 DEF Versioned
  <2>4. OvertakenInv'
    BY <2>1, <2>2, <2>3, TabOvertaken
  <2> QED BY <1>8, <2>4
<1>9. CASE \E slot \in {"older", "newer", "jump"} : HistoryFails(slot)
  <2>1. PICK slot \in {"older", "newer", "jump"} : HistoryFails(slot)
    BY <1>9
  <2>2. UNCHANGED server /\ events' = events /\ held' = held
    BY <2>1 DEF HistoryFails
  <2>3. \A t \in Slots : req'[t] = req[t] \/ (req'[t].page = Nothing /\ req'[t].last = 0)
    BY <1>r, <2>1, FreshRequests DEF HistoryFails
  <2> QED BY <2>2, <2>3, StillOvertaken
<1> QED BY <1>2, <1>3, <1>4, <1>6, <1>7, <1>8, <1>9 DEF ReadHistory

LEMMA InitOvertaken == ASSUME Init PROVE OvertakenInv
<1>1. rows = Nothing /\ held = Nothing /\ events = {} /\ lastChange = 0 /\ \A slot \in Slots : req[slot] = Idle
  BY DEF Init
<1>2. \A s \in Seqs : Nothing[s] = 0
  BY DEF Nothing
<1>3. \A s \in Seqs : \A v \in Versioned(s) : v = 0
  BY <1>1, <1>2, FreshRequests DEF Versioned
<1> QED BY <1>1, <1>2, <1>3, FreshRequests DEF OvertakenInv

LEMMA NextOvertaken ==
    TypeOK /\ TypeOK' /\ OvertakenInv /\ [HistoryNext]_vars
        => OvertakenInv' /\ (ReplaceWindow \/ NoneOlder \/ UNCHANGED vars)
<1>1. ASSUME TypeOK, TypeOK', OvertakenInv, HistoryNext
      PROVE  OvertakenInv' /\ (ReplaceWindow \/ NoneOlder)
  BY <1>1, WriteOvertaken, ServeOvertaken, SynchroniseOvertaken, OpenOvertaken, NetworkOvertaken,
     HistoryOvertaken DEF HistoryNext, Next
<1>2. OvertakenInv /\ UNCHANGED vars => OvertakenInv'
  BY DEF vars, OvertakenInv, Versioned
<1> QED BY <1>1, <1>2

\* The invariant of which version overtakes which: whatever the user reads and whatever
\* fails, a page on its way carries for each of its messages a version that only those
\* above its last_change_seq are newer than (ListMessages reads the rooms row first).
THEOREM OvertakenInvariant == HistorySpec => []OvertakenInv
BY InitOvertaken, NextOvertaken, HistoryTypes, PTL DEF HistorySpec

\* Pages, differences and events that overtake one another never put an older version
\* back, whatever the user reads; only replaceWindow does (history.ts:33).
THEOREM NothingElseGoesBack == HistorySpec => OnlyJumpsGoBack
<1>1. TypeOK /\ TypeOK' /\ OvertakenInv /\ [HistoryNext]_vars => [ReplaceWindow \/ NoneOlder]_vars
  BY NextOvertaken
<1> QED BY <1>1, HistoryTypes, OvertakenInvariant, PTL DEF HistorySpec, OnlyJumpsGoBack

\* A user who only pages never sees an older version again (rules/messages.ts:20).
THEOREM PagingKeepsVersions ==
    ASSUME "jump" \notin Paging, "unread" \notin Paging
    PROVE  HistorySpec => NoOlderVersion
<1> DEFINE NoJump == ~Busy("jump")
<1>s. "jump" \in Slots \ {"open", "sync", "older", "newer"} /\ Idle.stage = "idle"
  BY DEF Slots, Idle
<1>1. Init => NoJump
  BY <1>s DEF Init, Busy
<1>2. TypeOK /\ NoJump /\ [HistoryNext]_vars => NoJump'
  <2> SUFFICES ASSUME TypeOK, NoJump, [HistoryNext]_vars PROVE NoJump'
    OBVIOUS
  <2>r. req \in [Slots -> Request] /\ req["jump"].stage = "idle"
    BY DEF TypeOK, Busy
  <2>1. CASE UNCHANGED vars
    BY <2>1 DEF vars, Busy
  <2>2. CASE Next
    BY <1>s, <2>2, NextReaches DEF Busy
  <2>3. CASE ReadHistory
    <3>1. CASE LoadOlder \/ LoadNewer \/ OlderLoaded
      BY <1>s, <2>r, <3>1 DEF LoadOlder, LoadNewer, OlderLoaded, Busy, EndOf
    <3>2. CASE NewerLoaded
      BY <1>s, <2>r, <3>2 DEF NewerLoaded, SyncTimeline, SyncOnce, Busy
    <3>3. CASE \E slot \in {"older", "newer", "jump"} : HistoryFails(slot)
      BY <1>s, <2>r, <3>3 DEF HistoryFails, Busy
    <3> QED BY <2>3, <2>r, <3>1, <3>2, <3>3
            DEF ReadHistory, JumpToMessage, JumpToUnread, ReplaceWindow
  <2> QED BY <2>1, <2>2, <2>3 DEF HistoryNext
<1>3. NoJump => ~ReplaceWindow
  BY DEF ReplaceWindow, Busy
<1> QED BY <1>1, <1>2, <1>3, HistoryTypes, NothingElseGoesBack, PTL
        DEF HistorySpec, OnlyJumpsGoBack, NoOlderVersion

-----------------------------------------------------------------------------
(* No hole in the window of a user who pages back. *)

HoleFacts ==
    /\ held \in Versions /\ Genuine(held) /\ rows \in Versions /\ channel \in SUBSET Seqs
    /\ hasOlder \in BOOLEAN /\ hasNewer = FALSE /\ hasNewer \in BOOLEAN
    /\ cursor \in Nat /\ lastChange \in Nat /\ cursor <= lastChange
    /\ \A s \in Seqs : s \in Nat /\ s # 0 /\ rows[s] \in Nat /\ held[s] \in Nat
    /\ \A s \in channel : rows[s] # 0
    /\ req \in [Slots -> Request]

LEMMA HoleFactsHold == ASSUME TypeOK, WrittenInv, PagesInv PROVE HoleFacts
BY BoundsAssumption DEF TypeOK, WrittenInv, PagesInv, Numbered, NothingInvented, Versions, Changes, Seqs, HoleFacts

LEMMA VersionedBelow ==
    ASSUME TypeOK, WrittenInv, NEW s \in Seqs, NEW v \in Versioned(s)
    PROVE  v \in Nat /\ v <= rows[s]
<1>0. VersionsTyped
  BY VersionedTypes
<1>1. \/ v = rows[s] \/ v = held[s]
      \/ \E e \in events : e.seq = s /\ v = e.change
      \/ \E slot \in Slots : v = req[slot].page[s]
  BY DEF Versioned
<1>2. v \in Nat /\ rows[s] \in Nat
  BY <1>0 DEF VersionsTyped
<1>3. \A h : Genuine(h) /\ v = h[s] => v <= rows[s]
  BY <1>2 DEF Genuine
<1>4. \A e \in events : e.seq = s => e.change <= rows[s]
  BY EventFields
<1> QED BY <1>1, <1>2, <1>3, <1>4 DEF WrittenInv, Carried, NothingInvented

\* A message whose version the cursor does not reach, and that is not held, is not
\* reached by its advance either.
LEMMA AdvanceAhead ==
    ASSUME rows \in Versions, NEW h, Genuine(h), NEW from \in Changes, AdvanceCursor(from, h),
           NEW s \in Seqs, h[s] = 0, rows[s] > from
    PROVE  rows[s] > cursor'
<1>1. Advances(from, h, cursor')
  BY DEF AdvanceCursor
<1>2. rows[s] \in Nat /\ from \in Nat /\ cursor' \in Nat
  BY <1>1, BoundsAssumption DEF Advances, Versions, Changes
<1> SUFFICES ASSUME rows[s] <= cursor' PROVE FALSE
  BY <1>2
<1>3. PICK t \in Seqs : h[t] = rows[s]
  BY <1>1, <1>2 DEF Advances
<1>4. t = s
  BY <1>2, <1>3 DEF Genuine
<1> QED BY <1>2, <1>3, <1>4

\* The steps of a user who pages back: what holds of each and needs nothing of the window.
UserPages == "jump" \notin Paging /\ "unread" \notin Paging

HoleBase == /\ WrittenInv /\ PagesInv
            /\ ~Busy("newer") /\ ~Busy("jump")
            /\ OneAtATime

HoleStep == LoadOlder \/ OlderLoaded \/ HistoryFails("older")

\* Where nobody jumps the window stays closed at its newer end.
LEMMA HoleSteps ==
    ASSUME UserPages, HoleBase, ReadHistory
    PROVE  HoleStep
<1>1. ~LoadNewer /\ ~NewerLoaded /\ ~ReplaceWindow
  BY DEF HoleBase, PagesInv, LoadNewer, NewerLoaded, ReplaceWindow, Busy, EndOf
<1>2. ~HistoryFails("newer") /\ ~HistoryFails("jump")
  BY DEF HoleBase, HistoryFails
<1>3. ~\E s \in 0..MaxSeq : JumpToMessage(s) \/ JumpToUnread(s)
  BY DEF UserPages, JumpToMessage, JumpToUnread
<1> QED BY <1>1, <1>2, <1>3 DEF ReadHistory, HoleStep

LEMMA HoleStepSlots ==
    ASSUME TypeOK, HoleStep
    PROVE  /\ UNCHANGED <<server, events, conn, status, hasNewer, cursor, again>>
           /\ \A t \in Slots \ {"older"} : req'[t] = req[t]
BY DEF HoleStep, LoadOlder, OlderLoaded, HistoryFails, EndOf, TypeOK

LEMMA NextBase ==
    ASSUME NoneLost, UserPages, TypeOK, TypeOK', HoleBase, HistoryNext
    PROVE  HoleBase'
<1>1. WrittenInv'
  BY NextWritten DEF HoleBase
<1>s. {"newer", "jump"} \subseteq Slots \ {"open", "sync", "older"} /\ {"open", "sync"} \subseteq Slots \ {"older"}
  BY DEF Slots
<1>2. CASE Next
  <2>1. PagesInv'
    BY <1>2, NextPages DEF HoleBase
  <2>2. ~Busy("newer")' /\ ~Busy("jump")'
    BY <1>2, <1>s, NextReaches DEF HoleBase, Busy
  <2>3. OneAtATime'
    <3>1. CASE Write
      <4>1. UNCHANGED <<status, again, req>>
        BY <3>1, WriteGrows DEF HoleBase, WrittenInv, timeline
      <4> QED BY <4>1 DEF HoleBase, OneAtATime, Busy
    <3> QED BY <1>2, <3>1, ServeAlone, TabAlone, NetworkAlone DEF HoleBase, Next
  <2> QED BY <1>1, <2>1, <2>2, <2>3 DEF HoleBase
<1>3. CASE ReadHistory
  <2>1. /\ UNCHANGED <<server, events, conn, status, hasNewer, cursor, again>>
        /\ \A t \in Slots \ {"older"} : req'[t] = req[t]
    BY <1>3, HoleSteps, HoleStepSlots
  <2>2. cursor' <= lastChange /\ hasNewer' = FALSE
    BY <2>1 DEF HoleBase, WrittenInv, PagesInv, NothingInvented
  <2>3. PagesInv'
    BY <1>s, <2>1, <2>2, PagesFacts, TabPages DEF HoleBase
  <2>4. ~Busy("newer")' /\ ~Busy("jump")' /\ OneAtATime'
    BY <1>s, <2>1 DEF HoleBase, OneAtATime, Busy
  <2> QED BY <1>1, <2>3, <2>4 DEF HoleBase
<1> QED BY <1>2, <1>3 DEF HistoryNext

-----------------------------------------------------------------------------

HoleGaps == RowsBelow /\ PageWithin /\ MissingAhead /\ LeftOutIsNew /\ MissingIsDue /\ OlderFits

LEMMA HoleInvIs == HoleInv <=> HoleBase /\ HoleGaps
BY DEF HoleInv, HoleBase, HoleGaps

\* A write: what is new has a number above the cursor and above every page, and is due.
LEMMA WriteVersions ==
    ASSUME TypeOK, WrittenInv, Write, NEW s \in Seqs, NEW v \in Versioned(s)'
    PROVE  v \in Versioned(s) \/ lastChange < v
<1>1. /\ Grown /\ UNCHANGED <<held, req>>
      /\ \A e \in events' : e \in events \/ e.change = rows'[e.seq]
  BY WriteGrows DEF WrittenInv, timeline
<1>2. \/ v = rows'[s] \/ v = held'[s]
      \/ \E e \in events' : e.seq = s /\ v = e.change
      \/ \E slot \in Slots : v = req'[slot].page[s]
  BY DEF Versioned
<1>3. v = rows'[s] => v \in Versioned(s) \/ lastChange < v
  BY <1>1, BoundsAssumption DEF Grown, Versioned, TypeOK, Versions, Changes
<1> QED BY <1>1, <1>2, <1>3 DEF Versioned

LEMMA WriteHole ==
    ASSUME TypeOK, HoleBase, HoleGaps, Write PROVE HoleGaps'
<1>1. /\ Grown /\ events \subseteq events'
      /\ UNCHANGED <<conn, status, held, hasOlder, hasNewer, cursor, paging, again, req>>
      /\ channel \subseteq channel'
      /\ \A s \in Seqs : rows'[s] = rows[s] \/ [seq |-> s, change |-> rows'[s]] \in events'
      /\ \A s \in channel' : s \in channel \/ s > lastSeq
  BY WriteSteps DEF HoleBase, HoleGaps, WrittenInv, timeline
<1>t. /\ HoleFacts /\ channel' \in SUBSET Seqs /\ lastSeq \in Nat
      /\ \A s \in Seqs : rows'[s] \in Nat
  BY <1>1, HoleFactsHold, BoundsAssumption DEF HoleBase, Grown, Versions, Changes, TypeOK
<1>2. RowsBelow' /\ PageWithin'
  BY WritePageWithin DEF HoleBase, HoleGaps
<1>3. \A s \in channel' : \/ s \in channel /\ rows'[s] = rows[s]
                          \/ Due(s)' /\ rows'[s] > lastChange
  <2>0. TAKE s \in channel'
  <2>1. s \in Seqs /\ rows[s] <= lastChange /\ rows[s] \in Nat /\ rows'[s] \in Nat /\ lastChange \in Nat
    BY <1>t DEF HoleFacts, HoleBase, WrittenInv, Numbered
  <2>2. CASE s \in channel /\ rows'[s] = rows[s]
    BY <2>2
  <2>3. CASE s \notin channel \/ rows'[s] # rows[s]
    <3>1. rows'[s] > lastChange
      BY <1>1, <2>1, <2>3 DEF Grown
    <3>2. rows'[s] # rows[s]
      BY <2>1, <3>1
    <3>3. Due(s)'
      BY <1>1, <2>1, <3>2 DEF Due
    <3> QED BY <3>1, <3>3
  <2> QED BY <2>2, <2>3
<1>4. \A s : Due(s) /\ rows'[s] = rows[s] => Due(s)'
  BY <1>1 DEF Due
<1>5. MissingAhead'
  <2> SUFFICES ASSUME status = "ready", NEW s \in channel', Missing(s) PROVE rows'[s] > cursor
    BY <1>1 DEF MissingAhead, Missing, InWindow, Covers
  <2>1. CASE s \in channel /\ rows'[s] = rows[s]
    BY <2>1 DEF HoleGaps, MissingAhead
  <2>2. CASE rows'[s] > lastChange
    BY <1>t, <2>2 DEF HoleFacts
  <2> QED BY <1>3, <2>1, <2>2
<1>6. LeftOutIsNew'
  <2> SUFFICES ASSUME NEW slot \in {"open", "sync"}, LatestRead(slot), NEW s \in channel',
                      InPage(slot, s), req[slot].page[s] = 0, NEW v \in Versioned(s)', v # 0
               PROVE  req[slot].last < v
    BY <1>1 DEF LeftOutIsNew, LatestRead, InPage, Covers
  <2>1. s \in Seqs /\ req[slot].last <= lastChange /\ req[slot].last \in Nat /\ lastChange \in Nat
    BY <1>t, AnswerFields, BoundsAssumption DEF HoleBase, WrittenInv, Carried, Slots, Changes, HoleFacts
  <2>2. v \in Nat
    <3>1. rows'[s] \in Nat
      BY <1>t, <2>1
    <3>2. v \in Versioned(s) \/ lastChange < v
      BY <2>1, WriteVersions DEF HoleBase
    <3>3. \/ v = rows'[s] \/ v = held[s]
          \/ \E e \in events' : e.seq = s /\ v = e.change
          \/ \E t \in Slots : v = req[t].page[s]
      BY <1>1 DEF Versioned
    <3>4. \A e \in events' : e \in events \/ e.change = rows'[e.seq]
      BY WriteGrows DEF HoleBase, WrittenInv
    <3> QED BY <2>1, <3>1, <3>3, <3>4, VersionedTypes DEF VersionsTyped
  <2>3. CASE lastChange < v
    BY <2>1, <2>2, <2>3
  <2>4. CASE v \in Versioned(s) /\ s \in channel
    BY <2>4 DEF HoleGaps, LeftOutIsNew
  <2>5. CASE v \in Versioned(s) /\ s \notin channel
    <3>1. s > lastSeq
      BY <1>1, <2>5
    <3>2. rows[s] = 0
      BY <1>t, <2>1, <3>1 DEF HoleGaps, RowsBelow, HoleFacts
    <3>3. v \in Nat /\ v <= rows[s]
      BY <2>1, <2>5, VersionedBelow DEF HoleBase
    <3> QED BY <3>2, <3>3
  <2> QED BY <2>1, <2>3, <2>4, <2>5, WriteVersions DEF HoleBase
<1>7. MissingIsDue'
  <2>1. ASSUME NEW slot \in {"open", "sync"}, LeftOutIsDue(slot) PROVE LeftOutIsDue(slot)'
    BY <1>1, <1>3, <1>4, <2>1 DEF LeftOutIsDue, LatestRead, InPage, Covers
  <2>2. NothingMissed => NothingMissed'
    BY <1>1, <1>3, <1>4 DEF NothingMissed, Missing, InWindow, Covers, Found
  <2> QED BY <1>1, <2>1, <2>2 DEF HoleGaps, MissingIsDue
<1>8. OlderFits'
  <2> DEFINE answer == req["older"]
  <2> SUFFICES ASSUME Busy("older"), answer.stage = "page", NEW s \in channel',
                      s < answer.query.arg, Covers(answer.page, answer.more, FALSE, s)
               PROVE  answer.page[s] # 0
    BY <1>1 DEF HoleGaps, OlderFits, Busy, Covers
  <2>1. CASE s \in channel
    BY <2>1 DEF HoleGaps, OlderFits
  <2>2. CASE s \notin channel
    <3>1. PICK arg \in Seqs : arg = answer.query.arg /\ held[arg] # 0
      BY DEF HoleGaps, OlderFits, Held
    <3>2. rows[arg] # 0
      BY <1>t, <3>1 DEF HoleFacts, Genuine
    <3>3. arg <= lastSeq /\ s > lastSeq
      BY <1>1, <2>2, <3>2 DEF HoleGaps, RowsBelow
    <3> QED BY <1>t, <3>1, <3>3 DEF HoleFacts
  <2> QED BY <2>1, <2>2
<1> QED BY <1>2, <1>5, <1>6, <1>7, <1>8 DEF HoleGaps


\* A page of older messages, as it is answered, leaves nothing out.
LEMMA OlderAnswer ==
    ASSUME TypeOK, Numbered, NEW slot \in Slots,
           ReadRoomRow(slot) \/ ReadOneWay(slot) \/ ReadAround(slot),
           req'[slot].stage = "page", req[slot].query.by = "before"
    PROVE  /\ req'[slot].more => Held(req'[slot].page) # {}
           /\ \A s \in channel :
                s < req[slot].query.arg /\ Covers(req'[slot].page, req'[slot].more, FALSE, s)
                    => req'[slot].page[s] # 0
<1> DEFINE before == InChannel(0, req[slot].query.arg)
<1>t. /\ channel \in SUBSET Seqs /\ rows \in Versions /\ before \subseteq channel
      /\ \A s \in Seqs : s \in Nat /\ s > 0
  BY BoundsAssumption DEF TypeOK, InChannel, Seqs
<1>1. ReadOneWay(slot)
  BY DEF ReadRoomRow, ReadAround, TypeOK, Request
<1>2. PICK T \in SUBSET before : FirstRows(before, PageLimit, NewestFirst, T)
                                 /\ Answer(slot, T, T # before, FALSE)
  <2>1. ReadRows(slot, before, PageLimit, NewestFirst)
    BY <1>1 DEF ReadOneWay
  <2> QED BY <2>1 DEF ReadRows
<1>3. req'[slot].page = PageOf(T) /\ req'[slot].more = (T # before)
  BY <1>2, AnswerIs
<1>4. Held(PageOf(T)) = T
  BY <1>t DEF Held, PageOf, Numbered
<1>5. T # before => T # {}
  BY <1>2, LimitsAssumption, FS_EmptySet DEF FirstRows
<1>6. ASSUME NEW s \in channel, s < req[slot].query.arg, Covers(PageOf(T), T # before, FALSE, s)
      PROVE  PageOf(T)[s] # 0
  <2>1. s \in before
    BY <1>t, <1>6 DEF InChannel
  <2>2. CASE s \in T
    BY <1>t, <2>2 DEF PageOf, Numbered
  <2>3. CASE s \notin T
    <3>1. PICK t \in T : t <= s
      BY <1>4, <1>5, <1>6, <2>1, <2>3 DEF Covers
    <3>2. t > s
      BY <1>2, <2>1, <2>3 DEF FirstRows, NewestFirst
    <3> QED BY <1>t, <1>2, <2>1, <3>1, <3>2
  <2> QED BY <2>2, <2>3
<1> QED BY <1>3, <1>4, <1>5, <1>6

LEMMA ServeHole ==
    ASSUME TypeOK, HoleBase, HoleGaps, Serve PROVE HoleGaps'
<1>1. PICK slot \in Slots : ReadRoomRow(slot) \/ ReadOneWay(slot) \/ ReadAround(slot)
  BY DEF Serve
<1>2. /\ UNCHANGED <<rows, root, channel, lastSeq, lastChange, events, conn, status, held, hasOlder,
                     hasNewer, cursor, again>>
      /\ \A t \in Slots \ {slot} : req'[t] = req[t]
      /\ req[slot].stage \in {"sent", "room"} /\ req'[slot].stage \in {"room", "page"}
      /\ req'[slot].query = req[slot].query
      /\ req'[slot].stage = "page" => req[slot].stage = "room" /\ req'[slot].last = req[slot].last
      /\ req'[slot].page = req[slot].page \/ \E S \in SUBSET Seqs : req'[slot].page = PageOf(S)
  BY <1>1, ServeSteps DEF ReadRoomRow, server, timeline
<1>t. HoleFacts
  BY HoleFactsHold DEF HoleBase
<1>3. RowsBelow' /\ PageWithin' /\ MissingAhead'
  <2>1. PageWithin'
    BY ServePageWithin DEF HoleBase, HoleGaps
  <2> QED BY <1>2, <2>1 DEF HoleGaps, RowsBelow, MissingAhead, Missing, InWindow, Covers
<1>4. ASSUME NEW t \in {"open", "sync"}, LatestRead(t)'
      PROVE  \/ LatestRead(t) /\ req'[t] = req[t]
             \/ \A s \in channel : Covers(req'[t].page, req'[t].more, FALSE, s) => req'[t].page[s] # 0
  <2>1. CASE t # slot
    BY <1>2, <1>4, <2>1, SlotsDiffer DEF LatestRead
  <2>2. CASE t = slot
    <3>1. PICK T \in SUBSET channel : /\ FirstRows(channel, PageLimit, NewestFirst, T)
                                      /\ req'[t].page = PageOf(T)
                                      /\ req'[t].more = (T # channel)
      BY <1>1, <1>2, <1>4, <2>2, LatestAnswer DEF LatestRead
    <3>2. UpToDate(PageOf(T), T # channel, FALSE, lastChange)
      BY <1>t, <3>1, LatestPageSound DEF HoleFacts, HoleBase, WrittenInv
    <3>3. \A s \in channel : rows[s] <= lastChange /\ rows[s] # 0
      BY <1>t DEF HoleFacts, HoleBase, WrittenInv, Numbered
    <3> QED BY <3>1, <3>2, <3>3 DEF UpToDate
  <2> QED BY <2>1, <2>2
<1>5. \A s \in channel : \A v \in Versioned(s)' : v = 0 \/ v \in Versioned(s)
  <2> SUFFICES ASSUME NEW s \in channel, NEW v \in Versioned(s)', v # 0, v \notin Versioned(s) PROVE FALSE
    OBVIOUS
  <2>1. PICK t \in Slots : v = req'[t].page[s]
    BY <1>2 DEF Versioned
  <2>2. t = slot
    BY <1>2, <2>1 DEF Versioned
  <2>3. PICK S \in SUBSET Seqs : req'[slot].page = PageOf(S)
    BY <1>2, <2>1, <2>2 DEF Versioned
  <2>4. PageOf(S)[s] \in {0, rows[s]}
    BY <1>t DEF PageOf, HoleFacts
  <2> QED BY <2>1, <2>2, <2>3, <2>4 DEF Versioned
<1>6. LeftOutIsNew'
  <2> SUFFICES ASSUME NEW t \in {"open", "sync"}, LatestRead(t)', NEW s \in channel,
                      Covers(req'[t].page, req'[t].more, FALSE, s), req'[t].page[s] = 0,
                      NEW v \in Versioned(s)', v # 0
               PROVE  req'[t].last < v
    BY <1>2 DEF LeftOutIsNew, InPage, Covers
  <2>1. LatestRead(t) /\ req'[t] = req[t] /\ v \in Versioned(s)
    BY <1>4, <1>5
  <2> QED BY <2>1 DEF HoleGaps, LeftOutIsNew, InPage
<1>7. MissingIsDue'
  <2>1. ASSUME NEW t \in {"open", "sync"}, LeftOutIsDue(t) PROVE LeftOutIsDue(t)'
    <3> SUFFICES ASSUME LatestRead(t)', NEW s \in channel,
                        Covers(req'[t].page, req'[t].more, FALSE, s), req'[t].page[s] = 0
                 PROVE  held[s] # 0 \/ Due(s)
      BY <1>2 DEF LeftOutIsDue, InPage, Covers, Due
    <3>1. LatestRead(t) /\ req'[t] = req[t]
      BY <1>4
    <3> QED BY <2>1, <3>1 DEF LeftOutIsDue, InPage
  <2>2. ASSUME status = "ready", NEW s \in channel, Missing(s), Found(s) PROVE Found(s)'
    <3>1. CASE slot # "sync"
      BY <1>2, <2>2, <3>1, SlotsDiffer DEF Found
    <3>2. CASE slot = "sync" /\ req'["sync"].stage = "room"
      BY <3>2 DEF Found
    <3>3. CASE slot = "sync" /\ req'["sync"].stage = "page"
      <4>1. s \in Seqs /\ rows[s] > cursor /\ rows[s] \in Nat /\ cursor \in Nat /\ rows[s] # 0
        BY <1>t, <2>2 DEF HoleGaps, MissingAhead, HoleFacts
      <4>2. req["sync"].query.by = "changes" => req["sync"].query.arg < rows[s]
        <5>1. /\ req["sync"].query.by = "changes" => req["sync"].query.arg <= cursor
              /\ req["sync"].query.arg \in Nat
          BY <2>2, PagesFacts DEF HoleBase
        <5> QED BY <4>1, <5>1
      <4>3. req["sync"].query.by = "changes" /\ ~req'["sync"].more => req'["sync"].page[s] = rows[s]
        BY <1>1, <3>3, <4>1, <4>2, DifferenceAnswer
      <4>4. req["sync"].query.by \in {"latest", "changes"}
        BY DEF HoleBase, PagesInv, PagesSound
      <4> QED BY <1>2, <3>3, <4>1, <4>3, <4>4 DEF Found
    <3> QED BY <1>2, <3>1, <3>2, <3>3
  <2>3. NothingMissed => NothingMissed'
    BY <1>2, <2>2 DEF NothingMissed, Missing, InWindow, Covers, Due
  <2> QED BY <1>2, <2>1, <2>3 DEF HoleGaps, MissingIsDue
<1>8. OlderFits'
  <2> SUFFICES ASSUME req'["older"].stage # "idle" PROVE OlderFits'
    BY DEF OlderFits, Busy
  <2>1. /\ Busy("older") /\ "older" \in Slots
        /\ status = "ready" /\ hasOlder /\ req["older"].query.by = "before"
        /\ req["older"].query.arg \in Held(held) /\ \A t \in Held(held) : req["older"].query.arg <= t
    BY <1>2 DEF HoleGaps, OlderFits, Busy, Slots
  <2>2. req'["older"].query = req["older"].query
    BY <1>2, <2>1
  <2>3. ASSUME req'["older"].stage = "page"
        PROVE  /\ req'["older"].more => Held(req'["older"].page) # {}
               /\ \A s \in channel :
                    s < req["older"].query.arg /\ Covers(req'["older"].page, req'["older"].more, FALSE, s)
                        => req'["older"].page[s] # 0
    <3>1. CASE slot = "older"
      BY <1>1, <2>1, <2>3, <3>1, OlderAnswer DEF HoleBase, WrittenInv
    <3>2. CASE slot # "older"
      BY <1>2, <2>1, <2>3, <3>2 DEF HoleGaps, OlderFits
    <3> QED BY <3>1, <3>2
  <2> QED BY <1>2, <2>1, <2>2, <2>3 DEF OlderFits, Held, Covers
<1> QED BY <1>3, <1>6, <1>7, <1>8 DEF HoleGaps

\* What a step of the tab or the network has to establish: no latest page that stays on
\* its way loses anything, and nothing that is missing is forgotten or passed.
LEMMA TabHole ==
    ASSUME TypeOK, HoleGaps, TabStep, MissingAhead', OlderFits', conn' = "synced" => NothingMissed',
           \A slot \in {"open", "sync"} : LatestRead(slot)' => req'[slot] = req[slot],
           status' = "ready" => Wide(held', hasOlder'),
           LatestRead("sync")' =>
               \A s \in channel : InWindow(s) => Covers(held', hasOlder', hasNewer', s),
           conn' = "synced" /\ LatestRead("open")' => conn = "synced",
           conn' = "synced" /\ LatestRead("sync")' /\ ~again' => conn = "synced" /\ ~again,
           \A slot \in {"open", "sync"}, s \in channel :
               LatestRead(slot)' /\ InPage(slot, s) =>
                   /\ held'[s] = 0 \/ held'[s] \in Versioned(s)
                   /\ held[s] # 0 \/ Due(s) =>
                        held'[s] # 0 \/ [seq |-> s, change |-> rows[s]] \in events'
    PROVE  HoleGaps'
<1> USE DEF server
<1>1. /\ UNCHANGED <<rows, channel, lastSeq, root>> /\ events' \subseteq events
      /\ \A slot \in Slots : req'[slot] = req[slot] \/ req'[slot].page = Nothing
      /\ channel \in SUBSET Seqs
  BY DEF TabStep, Fresh, TypeOK
<1>2. \A slot \in {"open", "sync"} :
          LatestRead(slot)' => LatestRead(slot) /\ req'[slot] = req[slot]
  BY DEF LatestRead
<1>3. RowsBelow' /\ PageWithin'
  BY <1>1, TabPageWithin DEF TabStep, HoleGaps, RowsBelow
<1>4. LeftOutIsNew'
  <2> SUFFICES ASSUME NEW slot \in {"open", "sync"}, LatestRead(slot)', NEW s \in channel,
                      Covers(req'[slot].page, req'[slot].more, FALSE, s), req'[slot].page[s] = 0,
                      NEW v \in Versioned(s)', v # 0
               PROVE  req'[slot].last < v
    BY <1>1 DEF LeftOutIsNew, InPage, Covers
  <2>1. LatestRead(slot) /\ req'[slot] = req[slot]
    BY <1>2
  <2>2. held'[s] = 0 \/ held'[s] \in Versioned(s)
    BY <2>1 DEF InPage
  <2>3. v \in Versioned(s)
    BY <1>1, <2>2 DEF Versioned, Nothing
  <2> QED BY <2>1, <2>3 DEF HoleGaps, LeftOutIsNew, InPage
<1>5. ASSUME NEW slot \in {"open", "sync"}, LeftOutIsDue(slot) PROVE LeftOutIsDue(slot)'
  <2> SUFFICES ASSUME LatestRead(slot)', NEW s \in channel,
                      Covers(req'[slot].page, req'[slot].more, FALSE, s), req'[slot].page[s] = 0
               PROVE  held'[s] # 0 \/ [seq |-> s, change |-> rows[s]] \in events'
    BY <1>1 DEF LeftOutIsDue, InPage, Covers, Due
  <2>1. LatestRead(slot) /\ req'[slot] = req[slot]
    BY <1>2
  <2>2. InPage(slot, s) /\ (held[s] # 0 \/ Due(s))
    BY <1>5, <2>1 DEF LeftOutIsDue, InPage
  <2> QED BY <2>2
<1>6. ASSUME conn' = "synced"
      PROVE  LeftOutIsDue("open")' /\ (again' \/ LeftOutIsDue("sync")')
  <2>1. LatestRead("open")' => LeftOutIsDue("open")
    BY <1>6 DEF HoleGaps, MissingIsDue
  <2>2. LatestRead("sync")' /\ ~again' => LeftOutIsDue("sync")
    BY <1>6 DEF HoleGaps, MissingIsDue
  <2>3. \A slot \in {"open", "sync"} : ~LatestRead(slot)' => LeftOutIsDue(slot)'
    BY DEF LeftOutIsDue
  <2> QED BY <1>5, <2>1, <2>2, <2>3
<1>7. MissingIsDue'
  BY <1>6 DEF MissingIsDue
<1> QED BY <1>3, <1>4, <1>7 DEF HoleGaps

\* Once the difference is asked for, nothing is missed.
LEMMA AskedHole ==
    ASSUME req'["sync"].stage = "sent" \/ again' = TRUE
    PROVE  NothingMissed'
BY DEF NothingMissed, Found

\* The same window keeps what it misses, and the page of older messages that is on its way.
LEMMA SameWindowHole ==
    ASSUME HoleGaps, UNCHANGED <<rows, channel, status, held, hasOlder, hasNewer, cursor>>,
           req'["older"] = req["older"]
    PROVE  /\ MissingAhead' /\ OlderFits'
           /\ status' = "ready" => Wide(held', hasOlder')
           /\ \A s \in channel : InWindow(s) => Covers(held', hasOlder', hasNewer', s)
<1>1. MissingAhead'
  BY DEF HoleGaps, MissingAhead, Missing, InWindow, Covers
<1>2. OlderFits'
  BY DEF HoleGaps, OlderFits, Busy, Covers
<1> QED BY <1>1, <1>2 DEF HoleGaps, PageWithin, InWindow

\* What a window that p is merged into covers, holds and misses afterwards.
LEMMA WindowMerged ==
    ASSUME TypeOK, HoleBase, HoleGaps, status = "ready",
           UNCHANGED <<rows, channel, status, hasOlder, hasNewer>>, req'["older"] = req["older"],
           NEW p \in Versions, held' = MergeIntoWindow(held, hasOlder, hasNewer, p), Genuine(held'),
           NEW from \in Changes, AdvanceCursor(from, held'),
           \A s \in channel : Missing(s) /\ p[s] = 0 => rows[s] > from
    PROVE  /\ MissingAhead' /\ OlderFits' /\ Wide(held', hasOlder')
           /\ \A s \in channel : InWindow(s) <=> Covers(held', hasOlder', hasNewer', s)
           /\ \A s \in channel : held[s] # 0 \/ (InWindow(s) /\ p[s] # 0) => held'[s] # 0
<1>t. HoleFacts /\ \A s \in Seqs : p[s] \in Nat
  BY HoleFactsHold, BoundsAssumption DEF HoleBase, Versions, Changes
<1>1. /\ Held(held) \subseteq Held(held')
      /\ Wide(held, hasOlder) /\ Wide(held', hasOlder')
  <2>1. Wide(held, hasOlder)
    BY DEF HoleGaps, PageWithin
  <2>2. Held(held) \subseteq Held(held')
    BY <1>t, MergeHeld DEF HoleFacts
  <2> QED BY <2>1, <2>2, WideMore
<1>2. \A s \in channel : InWindow(s) <=> Covers(held', hasOlder', hasNewer', s)
  <2> TAKE s \in channel
  <2>1. ASSUME InWindow(s) PROVE Covers(held', hasOlder', hasNewer', s)
    <3>1. hasOlder => Held(held) # {}
      BY <1>1, WideHolds
    <3>2. Covers(held, hasOlder, FALSE, s)
      BY <1>t, <2>1 DEF InWindow, HoleFacts
    <3>3. Covers(held', hasOlder, FALSE, s)
      BY <1>1, <3>1, <3>2, CoversMore
    <3> QED BY <1>t, <3>3 DEF HoleFacts
  <2>2. ASSUME Covers(held', hasOlder', hasNewer', s) PROVE InWindow(s)
    BY <1>t, <2>2, MergeCovers DEF InWindow, HoleFacts
  <2> QED BY <2>1, <2>2
<1>3. \A s \in channel : held[s] # 0 \/ (InWindow(s) /\ p[s] # 0) => held'[s] # 0
  BY <1>t DEF HoleFacts, MergeIntoWindow, Greater, InWindow
<1>4. MissingAhead'
  <2> SUFFICES ASSUME NEW s \in channel, Covers(held', hasOlder', hasNewer', s), held'[s] = 0
               PROVE  rows[s] > cursor'
    BY DEF MissingAhead, Missing, InWindow, Covers
  <2>1. Missing(s) /\ p[s] = 0
    BY <1>2, <1>3 DEF Missing
  <2> QED BY <1>t, <2>1, AdvanceAhead DEF HoleFacts
<1>5. OlderFits'
  <2> DEFINE arg == req["older"].query.arg
  <2>1. ASSUME Busy("older"), NEW t \in Held(held') PROVE arg <= t
    <3>1. hasOlder /\ arg \in Held(held) /\ \A u \in Held(held) : arg <= u
      BY <2>1 DEF HoleGaps, OlderFits
    <3>2. t \in Held(held) \/ Covers(held, hasOlder, hasNewer, t)
      BY <2>1, <1>t DEF Held, MergeIntoWindow, HoleFacts
    <3>3. PICK u \in Held(held) : u <= t
      BY <3>1, <3>2, <1>t, <2>1 DEF Covers, Held, HoleFacts
    <3> QED BY <1>t, <2>1, <3>1, <3>3 DEF Held, HoleFacts
  <2>2. Busy("older") => arg \in Held(held')
    BY <1>1 DEF HoleGaps, OlderFits
  <2> QED BY <2>1, <2>2 DEF HoleGaps, OlderFits, Busy, Covers
<1> QED BY <1>1, <1>2, <1>3, <1>4, <1>5

\* A resync that is asked for with the window as it is.
LEMMA AskedAgainHole ==
    ASSUME TypeOK, HoleBase, HoleGaps, TabStep, status = "ready", SyncTimeline(req, cursor, "ready"),
           UNCHANGED <<server, events, status, held, hasOlder, hasNewer, cursor>>
    PROVE  HoleGaps'
<1>1. /\ req'["open"] = req["open"] /\ req'["older"] = req["older"]
      /\ \/ again' = TRUE /\ req'["sync"] = req["sync"]
         \/ req'["sync"] = ChangesFrom(cursor)
  BY SyncTimelineAsks DEF TypeOK, Slots
<1>2. ~LatestRead("open")' /\ (LatestRead("sync")' => again' /\ req'["sync"] = req["sync"])
  <2>1. ~Busy("open")
    BY DEF HoleBase, OneAtATime
  <2> QED BY <1>1, <2>1, NewRequests DEF LatestRead, Busy
<1>3. NothingMissed'
  BY <1>1, NewRequests, AskedHole
<1>4. /\ MissingAhead' /\ OlderFits' /\ Wide(held', hasOlder')
      /\ \A s \in channel : InWindow(s) => Covers(held', hasOlder', hasNewer', s)
  BY <1>1, SameWindowHole DEF server
<1>5. \A s \in channel : /\ held'[s] = 0 \/ held'[s] \in Versioned(s)
                         /\ held[s] # 0 \/ Due(s) =>
                              held'[s] # 0 \/ [seq |-> s, change |-> rows[s]] \in events'
  BY DEF Versioned, Due
<1>6. \A slot \in {"open", "sync"} : LatestRead(slot)' => req'[slot] = req[slot]
  BY <1>2
<1> QED BY <1>2, <1>3, <1>4, <1>5, <1>6, TabHole

\* A latest page that replaces the window: what it leaves out is ahead of it, and due.
LEMMA LatestHole ==
    ASSUME TypeOK, HoleBase, HoleGaps, NEW slot \in {"open", "sync"}, LatestRead(slot),
           held' = MergeIntoWindow(req[slot].page, req[slot].more, FALSE, Arrived(req[slot].last)),
           hasOlder' = req[slot].more, hasNewer' = FALSE, AdvanceCursor(req[slot].last, held'),
           UNCHANGED <<rows, channel>>
    PROVE  /\ MissingAhead' /\ Wide(held', hasOlder')
           /\ LeftOutIsDue(slot) =>
                 \A s \in channel : Covers(held', hasOlder', hasNewer', s) => held'[s] # 0 \/ Due(s)
<1> DEFINE answer == req[slot]
<1>1. /\ answer.page \in Versions /\ answer.last \in Changes /\ answer.more \in BOOLEAN
      /\ held' \in Versions /\ Genuine(held')
      /\ Arrived(answer.last) \in Versions /\ Genuine(Arrived(answer.last))
  BY AnswerFields, LatestWritten DEF HoleBase, Slots
<1>t. HoleFacts /\ \A s \in Seqs : answer.page[s] \in Nat
  BY <1>1, HoleFactsHold, BoundsAssumption DEF HoleBase, Versions, Changes
<1>2. Wide(held', hasOlder')
  BY LatestWide DEF HoleBase, HoleGaps
<1>3. ASSUME NEW s \in channel, Covers(held', hasOlder', FALSE, s), held'[s] = 0
      PROVE  InPage(slot, s) /\ answer.page[s] = 0 /\ rows[s] > answer.last /\ held[s] = 0
  <2>1. InPage(slot, s) /\ s \in Seqs
    BY <1>1, <1>t, <1>3, MergeCovers DEF InPage, HoleFacts
  <2>2. /\ Greater(answer.page[s], Arrived(answer.last)[s]) = 0
        /\ Arrived(answer.last)[s] = IF held[s] > answer.last THEN held[s] ELSE 0
    BY <1>3, <2>1 DEF MergeIntoWindow, InPage, Arrived
  <2>3. answer.page[s] = 0 /\ (held[s] > answer.last => held[s] = 0)
    BY <1>t, <2>1, <2>2 DEF HoleFacts, Greater
  <2>4. \A v \in Versioned(s) : v # 0 => answer.last < v
    BY <2>1, <2>3 DEF HoleGaps, LeftOutIsNew
  <2>5. rows[s] \in Versioned(s) /\ held[s] \in Versioned(s) /\ rows[s] # 0
    BY <1>t DEF Versioned, HoleFacts
  <2> QED BY <1>1, <1>t, <2>1, <2>3, <2>4, <2>5, BoundsAssumption DEF HoleFacts, Changes
<1>4. MissingAhead'
  <2> SUFFICES ASSUME NEW s \in channel, Covers(held', hasOlder', FALSE, s), held'[s] = 0
               PROVE  rows[s] > cursor'
    BY DEF MissingAhead, Missing, InWindow, Covers
  <2>1. rows[s] > answer.last
    BY <1>3
  <2> QED BY <1>1, <1>t, <2>1, AdvanceAhead DEF HoleFacts
<1>5. ASSUME LeftOutIsDue(slot), NEW s \in channel, Covers(held', hasOlder', FALSE, s), held'[s] = 0
      PROVE  Due(s)
  BY <1>3, <1>5 DEF LeftOutIsDue
<1> QED BY <1>2, <1>4, <1>5

\* A synchronisation that ends asks for the difference, or nothing is missed.
LEMMA SyncEndsHole ==
    ASSUME TypeOK, HoleBase, HoleGaps, status = "ready", Busy("sync"), SyncEnds(cursor', status),
           TabStep, UNCHANGED <<events, conn, status>>, MissingAhead', OlderFits', Wide(held', hasOlder'),
           ~again /\ conn = "synced" =>
               \A s \in channel : Covers(held', hasOlder', hasNewer', s) => held'[s] # 0 \/ Due(s)
    PROVE  HoleGaps'
<1>1. /\ req'["open"] = req["open"] /\ again' = FALSE
      /\ req'["sync"] = IF again THEN ChangesFrom(cursor') ELSE Idle
  BY SyncEndsAsks, SlotsDiffer DEF TypeOK
<1>2. ~LatestRead("open")' /\ ~LatestRead("sync")'
  <2>1. ~Busy("open")
    BY DEF HoleBase, OneAtATime
  <2> QED BY <1>1, <2>1, NewRequests DEF LatestRead, Busy
<1>3. conn' = "synced" => NothingMissed'
  <2>1. CASE again
    BY <1>1, <2>1, NewRequests, AskedHole
  <2>2. CASE ~again
    BY <2>2 DEF TabStep, server, NothingMissed, Missing, InWindow, Covers, Due
  <2> QED BY <2>1, <2>2
<1>4. \A slot \in {"open", "sync"} : ~LatestRead(slot)'
  BY <1>2
<1> QED BY <1>2, <1>3, <1>4, TabHole

LEMMA SyncChangesHole ==
    ASSUME TypeOK, HoleBase, HoleGaps, SyncChanges PROVE HoleGaps'
<1> DEFINE answer == req["sync"]
           from   == Greater(cursor, answer.last)
<1>1. /\ answer.stage = "page" /\ answer.query.by = "changes" /\ ~answer.more
      /\ held' = MergeIntoWindow(held, hasOlder, hasNewer, answer.page)
      /\ AdvanceCursor(from, held')
      /\ SyncEnds(cursor', status)
      /\ UNCHANGED <<server, events, conn, status, hasOlder, hasNewer, paging>>
  BY DEF SyncChanges, SyncAnswered
<1>2. status = "ready" /\ Busy("sync") /\ TabStep
  BY <1>1, TabSteps DEF HoleBase, OneAtATime, Busy, Synchronise
<1>t. /\ HoleFacts /\ answer.page \in Versions /\ Genuine(answer.page)
      /\ answer.last \in Nat /\ from \in Changes /\ Genuine(held')
      /\ req'["older"] = req["older"]
  <2>1. Genuine(held')
    BY <1>1, DifferenceFields, MergedWritten DEF HoleBase
  <2>2. req'["older"] = req["older"]
    BY <1>1, SyncEndsRequests DEF TypeOK, Slots
  <2> QED BY <2>1, <2>2, HoleFactsHold, DifferenceFields, BoundsAssumption DEF HoleBase, Changes
<1>3. ASSUME NEW s \in channel, Missing(s), answer.page[s] = 0 PROVE rows[s] > from
  <2>1. rows[s] > cursor /\ s \in Seqs /\ rows[s] \in Nat /\ cursor \in Nat /\ rows[s] # 0
    BY <1>2, <1>3, <1>t DEF HoleGaps, MissingAhead, HoleFacts
  <2>2. answer.query.arg < rows[s]
    BY <1>1, <1>2, <2>1, PagesFacts DEF HoleBase
  <2>3. ~(rows[s] <= answer.last)
    BY <1>1, <1>3, <2>1, <2>2 DEF HoleBase, PagesInv, DifferenceSound
  <2> QED BY <1>t, <2>1, <2>3 DEF Greater
<1>4. /\ MissingAhead' /\ OlderFits' /\ Wide(held', hasOlder')
      /\ \A s \in channel : InWindow(s) <=> Covers(held', hasOlder', hasNewer', s)
      /\ \A s \in channel : held[s] # 0 \/ (InWindow(s) /\ answer.page[s] # 0) => held'[s] # 0
  BY <1>1, <1>2, <1>3, <1>t, WindowMerged DEF server
<1>5. ASSUME ~again, conn = "synced", NEW s \in channel, Covers(held', hasOlder', hasNewer', s), held'[s] = 0
      PROVE  Due(s)
  <2>1. Missing(s) /\ answer.page[s] = 0
    BY <1>4, <1>5 DEF Missing
  <2>2. Due(s) \/ Found(s)
    BY <1>2, <1>5, <2>1 DEF HoleGaps, MissingIsDue, NothingMissed
  <2> QED BY <1>1, <2>1, <2>2 DEF Found
<1> QED BY <1>1, <1>2, <1>4, <1>5, SyncEndsHole

LEMMA SyncTooFarBehindHole ==
    ASSUME TypeOK, HoleBase, HoleGaps, SyncTooFarBehind PROVE HoleGaps'
<1>1. /\ req'["open"] = req["open"] /\ req'["sync"] = Sent(Latest) /\ req'["older"] = req["older"]
      /\ UNCHANGED <<server, events, conn, timeline, again>> /\ TabStep
      /\ Busy("sync")
  BY TabSteps, SlotsDiffer DEF SyncTooFarBehind, SyncAnswered, Busy, TypeOK, Synchronise, Slots
<1>2. status = "ready" /\ ~Busy("open")
  BY <1>1 DEF HoleBase, OneAtATime
<1>3. \A slot \in {"open", "sync"} : ~LatestRead(slot)'
  BY <1>1, <1>2, NewRequests DEF LatestRead, Busy
<1>4. NothingMissed'
  BY <1>1, NewRequests, AskedHole
<1>5. MissingAhead' /\ OlderFits' /\ Wide(held', hasOlder')
  BY <1>1, <1>2, SameWindowHole DEF server, timeline
<1> QED BY <1>1, <1>3, <1>4, <1>5, TabHole

LEMMA SyncLatestHole ==
    ASSUME TypeOK, HoleBase, HoleGaps, SyncLatest, Undisturbed PROVE HoleGaps'
<1> DEFINE answer == req["sync"]
<1>1. /\ LatestRead("sync") /\ Busy("sync")
      /\ held' = MergeIntoWindow(answer.page, answer.more, FALSE, Arrived(answer.last))
      /\ hasOlder' = answer.more /\ hasNewer' = FALSE /\ AdvanceCursor(answer.last, held')
      /\ SyncEnds(cursor', status)
      /\ UNCHANGED <<server, events, conn, status, paging>>
  BY DEF SyncLatest, SyncAnswered, Arrived, LatestRead, Busy
<1>2. status = "ready" /\ TabStep
  BY <1>1, TabSteps DEF HoleBase, OneAtATime, Synchronise
<1>3. /\ MissingAhead' /\ Wide(held', hasOlder')
      /\ LeftOutIsDue("sync") =>
            \A s \in channel : Covers(held', hasOlder', hasNewer', s) => held'[s] # 0 \/ Due(s)
  BY <1>1, LatestHole DEF server
<1>4. OlderFits'
  <2>1. req'["older"] = req["older"]
    BY <1>1, SyncEndsRequests DEF TypeOK, Slots
  <2> QED BY <2>1 DEF Undisturbed, OlderFits, Busy
<1>5. ~again /\ conn = "synced" => LeftOutIsDue("sync")
  BY DEF HoleGaps, MissingIsDue
<1> QED BY <1>1, <1>2, <1>3, <1>4, <1>5, SyncEndsHole

LEMMA OpenHole ==
    ASSUME NoneLost, TypeOK, HoleBase, HoleGaps, Open PROVE HoleGaps'
<1>t. TabStep
  BY TabSteps
<1>1. ASSUME OpenRoom PROVE HoleGaps'
  <2>1. /\ UNCHANGED <<server, events, conn, again>> /\ status' = "loading" /\ status # "ready"
        /\ req'["open"] = Sent(Latest) /\ req'["sync"] = req["sync"] /\ req'["older"] = req["older"]
    BY <1>1, SlotsDiffer DEF OpenRoom, TypeOK, Slots
  <2>2. ~Busy("older") /\ ~Busy("sync")
    BY <2>1 DEF HoleBase, OneAtATime, HoleGaps, OlderFits
  <2>3. \A slot \in {"open", "sync"} : ~LatestRead(slot)'
    BY <2>1, <2>2, NewRequests DEF LatestRead, Busy
  <2>4. NothingMissed' /\ MissingAhead' /\ OlderFits'
    BY <2>1, <2>2 DEF NothingMissed, MissingAhead, OlderFits, Busy
  <2> QED BY <1>t, <2>1, <2>3, <2>4, TabHole
<1>2. ASSUME OpenRoomAnswered PROVE HoleGaps'
  <2> DEFINE answer == req["open"]
  <2>1. /\ LatestRead("open") /\ status' = "ready"
        /\ held' = MergeIntoWindow(answer.page, answer.more, FALSE, Arrived(answer.last))
        /\ hasOlder' = answer.more /\ hasNewer' = FALSE /\ AdvanceCursor(answer.last, held')
        /\ UNCHANGED <<server, events, conn, again>>
        /\ req'["open"] = Idle /\ req'["sync"] = req["sync"] /\ req'["older"] = req["older"]
    BY <1>2, SlotsDiffer
       DEF OpenRoomAnswered, Arrived, LatestRead, TypeOK, HoleBase, PagesInv, PagesSound, Latest, Slots
  <2>2. ~Busy("sync") /\ ~Busy("older")
    BY <2>1 DEF HoleBase, HoleGaps, OlderFits, OneAtATime, Busy, LatestRead
  <2>3. \A slot \in {"open", "sync"} : ~LatestRead(slot)'
    BY <2>1, <2>2, NewRequests DEF LatestRead, Busy
  <2>4. /\ MissingAhead' /\ Wide(held', hasOlder')
        /\ LeftOutIsDue("open") =>
              \A s \in channel : Covers(held', hasOlder', hasNewer', s) => held'[s] # 0 \/ Due(s)
    BY <2>1, LatestHole DEF server
  <2>5. conn = "synced" => LeftOutIsDue("open")
    BY DEF HoleGaps, MissingIsDue
  <2>6. conn' = "synced" => NothingMissed'
    BY <2>1, <2>4, <2>5 DEF server, NothingMissed, Missing, InWindow, Covers, Due
  <2>7. OlderFits'
    BY <2>1, <2>2 DEF OlderFits, Busy
  <2> QED BY <1>t, <2>1, <2>3, <2>4, <2>6, <2>7, TabHole
<1>3. ASSUME ReopenRoom PROVE HoleGaps'
  <2>1. /\ UNCHANGED <<server, events, conn, status, held, hasOlder, hasNewer, cursor, paging>>
        /\ status = "ready" /\ SyncTimeline(req, cursor, "ready")
    BY <1>3 DEF ReopenRoom, NoneLost
  <2> QED BY <1>t, <2>1, AskedAgainHole
<1> QED BY <1>1, <1>2, <1>3 DEF Open

LEMMA ReceiveHole ==
    ASSUME TypeOK, HoleBase, HoleGaps, NEW e \in events, NEW alsoLater \in BOOLEAN, Receive(e, alsoLater)
    PROVE  HoleGaps'
<1>1. /\ UNCHANGED <<server, conn, status, hasOlder, hasNewer, paging>>
      /\ events \ {e} \subseteq events'
      /\ ReceiveWhileLoading(e) \/ ReceiveNews(e) \/ ReceiveNothing(e)
  BY DEF Receive
<1>e. /\ e.seq \in Seqs /\ e.change \in Nat /\ e.change # 0
      /\ EventVersions(e) \in Versions /\ Genuine(EventVersions(e))
      /\ EventVersions(e)[e.seq] = e.change
      /\ \A s \in Seqs : e.seq # s => rows[s] # e.change /\ EventVersions(e)[s] = 0
  BY EventFields DEF HoleBase, EventVersions, Nothing
<1>t. HoleFacts /\ TabStep
  BY HoleFactsHold, TabSteps DEF HoleBase, Network
<1>2. ASSUME NEW s \in channel, held[s] # 0 => held'[s] # 0,
             e.seq = s /\ e.change = rows[s] => held'[s] # 0, held[s] # 0 \/ Due(s)
      PROVE  held'[s] # 0 \/ [seq |-> s, change |-> rows[s]] \in events'
  BY <1>1, <1>2 DEF Due
<1>3. CASE ReceiveWhileLoading(e)
  <2>1. /\ status = "loading" /\ UNCHANGED <<cursor, again, req>>
        /\ held' = [held EXCEPT ![e.seq] = Greater(@, e.change)]
    BY <1>3 DEF ReceiveWhileLoading
  <2>2. ~LatestRead("sync")' /\ ~Busy("older")
    BY <2>1 DEF LatestRead, HoleBase, HoleGaps, OneAtATime, OlderFits, Busy
  <2>3. NothingMissed' /\ MissingAhead' /\ OlderFits'
    BY <1>1, <2>1, <2>2 DEF NothingMissed, MissingAhead, OlderFits, Busy
  <2>4. ASSUME NEW s \in channel
        PROVE  /\ held'[s] = 0 \/ held'[s] \in Versioned(s)
               /\ held[s] # 0 \/ Due(s) =>
                    held'[s] # 0 \/ [seq |-> s, change |-> rows[s]] \in events'
    <3>1. s \in Seqs /\ held'[s] = IF s = e.seq THEN Greater(held[s], e.change) ELSE held[s]
      BY <1>e, <1>t, <2>1 DEF HoleFacts, Versions
    <3>2. held'[s] = held[s] \/ (s = e.seq /\ held'[s] = e.change)
      BY <3>1 DEF Greater
    <3>3. (held[s] # 0 => held'[s] # 0) /\ (s = e.seq => held'[s] # 0)
      BY <1>e, <1>t, <3>1 DEF Greater, HoleFacts
    <3>4. held'[s] \in Versioned(s)
      BY <3>2 DEF Versioned
    <3> QED BY <1>2, <3>3, <3>4
  <2> QED BY <1>1, <1>t, <2>1, <2>2, <2>3, <2>4, TabHole
<1>4. ASSUME status = "ready", MissingAhead', OlderFits', Wide(held', hasOlder'),
             conn' = "synced" => NothingMissed',
             \A s \in channel : InWindow(s) => Covers(held', hasOlder', hasNewer', s),
             \A s \in channel : held'[s] = 0 \/ held'[s] \in Versioned(s),
             \A s \in channel : InWindow(s) /\ (held[s] # 0 \/ Due(s)) =>
                 held'[s] # 0 \/ [seq |-> s, change |-> rows[s]] \in events',
             req'["open"] = req["open"],
             LatestRead("sync")' => req'["sync"] = req["sync"] /\ (again' \/ again' = again)
      PROVE  HoleGaps'
  <2>1. ~LatestRead("open")'
    BY <1>4 DEF LatestRead, HoleBase, OneAtATime, Busy
  <2>2. LatestRead("sync") => \A s \in channel : InPage("sync", s) => InWindow(s)
    BY DEF HoleGaps, PageWithin
  <2>3. LatestRead("sync")' => LatestRead("sync")
    BY <1>4 DEF LatestRead
  <2> QED BY <1>1, <1>4, <1>t, <2>1, <2>2, <2>3, TabHole
<1>5. CASE ReceiveNews(e)
  <2>1. /\ status = "ready" /\ e.change > cursor
        /\ held' = MergeIntoWindow(held, hasOlder, hasNewer, EventVersions(e))
        /\ AdvanceCursor(AdvanceFrom(e), held')
        /\ SyncTimeline(req, cursor', "ready") \/ UNCHANGED <<again, req>>
    BY <1>5 DEF ReceiveNews, AdvanceFrom
  <2>2. /\ req'["open"] = req["open"] /\ req'["older"] = req["older"]
        /\ \/ UNCHANGED <<again, req>>
           \/ again' = TRUE /\ req'["sync"] = req["sync"]
           \/ req'["sync"] = ChangesFrom(cursor')
    BY <2>1, SyncTimelineAsks DEF TypeOK, Slots
  <2>3. ASSUME NEW s \in channel, Missing(s), EventVersions(e)[s] = 0 PROVE rows[s] > AdvanceFrom(e)
    <3>1. s \in Seqs /\ rows[s] > cursor /\ rows[s] \in Nat /\ cursor \in Nat /\ rows[s] # e.change
      BY <1>e, <1>t, <2>1, <2>3 DEF HoleGaps, MissingAhead, HoleFacts
    <3> QED BY <1>e, <3>1 DEF AdvanceFrom
  <2>4. Genuine(held') /\ AdvanceFrom(e) \in Changes
    BY <1>5, NewsWritten DEF HoleBase
  <2>5. /\ MissingAhead' /\ OlderFits' /\ Wide(held', hasOlder')
        /\ \A s \in channel : InWindow(s) <=> Covers(held', hasOlder', hasNewer', s)
        /\ \A s \in channel : held[s] # 0 \/ (InWindow(s) /\ EventVersions(e)[s] # 0) => held'[s] # 0
    BY <1>1, <1>e, <2>1, <2>2, <2>3, <2>4, WindowMerged DEF server
  <2>6. ASSUME NEW s \in channel PROVE held'[s] = 0 \/ held'[s] \in Versioned(s)
    <3>1. s \in Seqs /\ held'[s] \in {held[s], EventVersions(e)[s]}
      BY <1>t, <2>1, MergeTakes DEF HoleFacts
    <3> QED BY <1>e, <3>1 DEF Versioned
  <2>7. ASSUME NEW s \in channel, InWindow(s), held[s] # 0 \/ Due(s)
        PROVE  held'[s] # 0 \/ [seq |-> s, change |-> rows[s]] \in events'
    BY <1>2, <1>e, <2>5, <2>7
  <2>8. conn' = "synced" => NothingMissed'
    <3>1. CASE UNCHANGED <<again, req>>
      <4>1. ASSUME conn = "synced", ~again, NEW s \in channel,
                   Covers(held', hasOlder', hasNewer', s), held'[s] = 0
            PROVE  [seq |-> s, change |-> rows[s]] \in events' \/ Found(s)
        <5>1. Missing(s)
          BY <2>5, <4>1 DEF Missing
        <5>2. Due(s) \/ Found(s)
          BY <2>1, <4>1, <5>1 DEF HoleGaps, MissingIsDue, NothingMissed
        <5> QED BY <2>7, <4>1, <5>1, <5>2 DEF Missing
      <4> QED BY <1>1, <3>1, <4>1 DEF server, NothingMissed, Missing, InWindow, Covers, Due, Found
    <3>2. CASE again' = TRUE \/ req'["sync"] = ChangesFrom(cursor')
      BY <3>2, NewRequests, AskedHole
    <3> QED BY <2>2, <3>1, <3>2
  <2>9. LatestRead("sync")' => req'["sync"] = req["sync"] /\ (again' \/ again' = again)
    BY <2>2, NewRequests DEF LatestRead
  <2> QED BY <1>4, <2>1, <2>2, <2>5, <2>6, <2>7, <2>8, <2>9
<1>6. CASE ReceiveNothing(e)
  <2>1. /\ UNCHANGED <<held, cursor, again, req>>
        /\ status = "none" \/ (status = "ready" /\ e.change <= cursor)
    BY <1>6 DEF ReceiveNothing, HoleBase, OneAtATime
  <2>2. CASE status = "none"
    <3>1. ~Busy("open") /\ ~Busy("sync") /\ ~Busy("older")
      BY <2>2 DEF HoleBase, HoleGaps, OneAtATime, OlderFits
    <3>2. ~LatestRead("open")' /\ ~LatestRead("sync")'
      BY <2>1, <3>1 DEF LatestRead, Busy
    <3>3. NothingMissed' /\ MissingAhead' /\ OlderFits'
      BY <1>1, <2>1, <2>2, <3>1 DEF NothingMissed, MissingAhead, OlderFits, Busy
    <3>4. \A slot \in {"open", "sync"} : ~LatestRead(slot)'
      BY <3>2
    <3> QED BY <1>1, <1>t, <2>2, <3>2, <3>3, <3>4, TabHole
  <2>3. CASE status = "ready" /\ e.change <= cursor
    <3>1. /\ MissingAhead' /\ OlderFits' /\ Wide(held', hasOlder')
          /\ \A s \in channel : InWindow(s) => Covers(held', hasOlder', hasNewer', s)
      BY <1>1, <2>1, <2>3, SameWindowHole DEF server
    <3>2. ASSUME NEW s \in channel, InWindow(s), held[s] # 0 \/ Due(s)
          PROVE  held'[s] # 0 \/ [seq |-> s, change |-> rows[s]] \in events'
      <4>1. CASE held[s] # 0
        BY <2>1, <4>1
      <4>2. CASE held[s] = 0
        <5>1. rows[s] > cursor /\ rows[s] \in Nat /\ cursor \in Nat
          BY <1>t, <2>3, <3>2, <4>2 DEF HoleGaps, MissingAhead, Missing, HoleFacts
        <5>2. e.change # rows[s]
          BY <1>e, <2>3, <5>1
        <5> QED BY <1>1, <3>2, <4>2, <5>2 DEF Due
      <4> QED BY <4>1, <4>2
    <3>3. conn' = "synced" => NothingMissed'
      <4>1. ASSUME conn = "synced", ~again, NEW s \in channel, Missing(s)
            PROVE  [seq |-> s, change |-> rows[s]] \in events' \/ Found(s)
        <5>1. Due(s) \/ Found(s)
          BY <2>3, <4>1 DEF HoleGaps, MissingIsDue, NothingMissed
        <5> QED BY <2>1, <3>2, <4>1, <5>1 DEF Missing
      <4> QED BY <1>1, <2>1, <4>1 DEF server, NothingMissed, Missing, InWindow, Covers, Due, Found
    <3>4. \A s \in channel : held'[s] \in Versioned(s)
      BY <2>1 DEF Versioned
    <3> QED BY <1>4, <2>1, <2>3, <3>1, <3>2, <3>3, <3>4
  <2> QED BY <2>1, <2>2, <2>3
<1> QED BY <1>1, <1>3, <1>5, <1>6

LEMMA NetworkHole ==
    ASSUME NoneLost, TypeOK, HoleBase, HoleGaps, Network PROVE HoleGaps'
<1>t. TabStep
  BY TabSteps
<1>1. ASSUME conn' # "synced", UNCHANGED <<server, timeline, again, req>> PROVE HoleGaps'
  <2>1. /\ MissingAhead' /\ OlderFits' /\ (status' = "ready" => Wide(held', hasOlder'))
        /\ \A s \in channel : InWindow(s) => Covers(held', hasOlder', hasNewer', s)
    BY <1>1, SameWindowHole DEF server, timeline
  <2>2. \A slot \in Slots : req'[slot] = req[slot]
    BY <1>1
  <2>3. RowsBelow' /\ PageWithin' /\ MissingIsDue'
    <3>1. PageWithin'
      BY <1>1, <2>1, <2>2, TabPageWithin DEF HoleGaps, Slots
    <3> QED BY <1>1, <3>1 DEF server, HoleGaps, RowsBelow, MissingIsDue
  <2>4. LeftOutIsNew'
    <3>1. \A s \in channel : \A v \in Versioned(s)' : v \in Versioned(s)
      BY <1>1, <1>t DEF server, timeline, TabStep, Versioned
    <3> QED BY <1>1, <3>1 DEF server, HoleGaps, LeftOutIsNew, LatestRead, InPage, Covers
  <2> QED BY <2>1, <2>3, <2>4 DEF HoleGaps
<1>2. ASSUME (\E e \in events : Miss(e)) \/ Disconnect \/ Subscribe PROVE HoleGaps'
  <2>1. conn' # "synced" /\ UNCHANGED <<server, timeline, again, req>>
    BY <1>2 DEF Miss, Disconnect, Subscribe, Live, NoneLost
  <2> QED BY <1>1, <2>1
<1>3. ASSUME NEW gone \in Gone, BatchAcked(gone) PROVE HoleGaps'
  <2>1. UNCHANGED <<server, events, timeline>>
    BY <1>3 DEF BatchAcked
  <2>2. CASE ~gone /\ status = "ready"
    <3>1. SyncTimeline(req, cursor, "ready")
      BY <1>3, <2>2 DEF BatchAcked
    <3> QED BY <1>t, <2>1, <2>2, <3>1, AskedAgainHole DEF timeline
  <2>3. CASE gone \/ status = "loading"
    <3>1. conn' # "synced" /\ UNCHANGED <<again, req>>
      BY <1>3, <2>3 DEF BatchAcked
    <3> QED BY <1>1, <2>1, <3>1
  <2>4. CASE ~gone /\ status = "none"
    <3>1. UNCHANGED <<again, req>>
      BY <1>3, <2>4 DEF BatchAcked
    <3>2. \A slot \in {"open", "sync"} : ~LatestRead(slot)'
      BY <2>4, <3>1 DEF LatestRead, HoleBase, OneAtATime, Busy
    <3>3. status' # "ready" /\ NothingMissed' /\ MissingAhead' /\ OlderFits'
      BY <2>1, <2>4, <3>1 DEF timeline, NothingMissed, MissingAhead, HoleGaps, OlderFits, Busy
    <3> QED BY <1>t, <3>2, <3>3, TabHole
  <2> QED BY <2>2, <2>3, <2>4 DEF HoleBase, OneAtATime
<1> QED BY <1>2, <1>3, ReceiveHole DEF Network

\* The user pages back: nothing that was not missing before is missing afterwards.
LEMMA OlderHole ==
    ASSUME TypeOK, HoleBase, HoleGaps, HoleStep PROVE HoleGaps'
<1> DEFINE answer == req["older"]
<1>1. /\ UNCHANGED <<rows, root, channel, lastSeq, lastChange, events, conn, status, hasNewer, cursor, again>>
      /\ req'["open"] = req["open"] /\ req'["sync"] = req["sync"]
      /\ TabStep
  <2>1. ReadHistory
    BY DEF HoleStep, ReadHistory
  <2> QED BY <2>1, HoleStepSlots, TabSteps DEF server, Slots
<1>t. HoleFacts /\ answer.page \in Versions /\ \A s \in Seqs : answer.page[s] \in Nat
  BY HoleFactsHold, AnswerFields, BoundsAssumption DEF HoleBase, Slots, Versions, Changes
<1>2. ASSUME status = "ready", OlderFits', Wide(held', hasOlder'),
             \A s \in channel : InWindow(s) => Covers(held', hasOlder', hasNewer', s),
             \A s \in channel : /\ held'[s] = 0 \/ held'[s] \in Versioned(s)
                                /\ held[s] # 0 => held'[s] # 0
                                /\ Covers(held', hasOlder', hasNewer', s) /\ held'[s] = 0 => InWindow(s)
      PROVE  HoleGaps'
  <2>1. \A s \in channel : Missing(s)' => Missing(s)
    BY <1>1, <1>2 DEF Missing, InWindow, Covers
  <2>2. MissingAhead'
    BY <1>1, <2>1 DEF HoleGaps, MissingAhead
  <2>3. conn' = "synced" => NothingMissed'
    BY <1>1, <2>1 DEF HoleGaps, MissingIsDue, NothingMissed, Due, Found
  <2>4. \A s \in channel : held[s] # 0 \/ Due(s) =>
            held'[s] # 0 \/ [seq |-> s, change |-> rows[s]] \in events'
    BY <1>1, <1>2 DEF Due
  <2> QED BY <1>1, <1>2, <2>2, <2>3, <2>4, TabHole
<1>3. ASSUME status = "ready", OlderFits', UNCHANGED <<held, hasOlder>> PROVE HoleGaps'
  <2>1. Wide(held', hasOlder')
    BY <1>3 DEF HoleGaps, PageWithin
  <2>2. \A s \in channel : held'[s] \in Versioned(s)
    BY <1>3 DEF Versioned
  <2>3. \A s \in channel : InWindow(s) <=> Covers(held', hasOlder', hasNewer', s)
    BY <1>1, <1>3 DEF InWindow
  <2> QED BY <1>2, <1>3, <2>1, <2>2, <2>3
<1>4. CASE LoadOlder
  <2>1. PICK oldest \in Seqs :
            /\ oldest \in Held(held) /\ \A t \in Held(held) \ {oldest} : oldest < t
            /\ req' = [req EXCEPT !["older"] = Sent([by |-> "before", arg |-> oldest])]
    BY <1>4 DEF LoadOlder, EndOf
  <2>2. status = "ready" /\ hasOlder /\ UNCHANGED <<held, hasOlder>>
    BY <1>4 DEF LoadOlder, EndOf
  <2>3. /\ req'["older"].query.by = "before" /\ req'["older"].query.arg = oldest
        /\ req'["older"].stage = "sent"
    BY <1>t, <2>1 DEF HoleFacts, Slots, Sent, Idle
  <2>4. \A t \in Held(held) : oldest <= t
    BY <1>t, <2>1 DEF Held, HoleFacts
  <2>5. OlderFits'
    BY <1>1, <2>1, <2>2, <2>3, <2>4 DEF OlderFits, Held
  <2> QED BY <1>3, <2>2, <2>5
<1>5. CASE HistoryFails("older")
  <2>1. Busy("older") /\ req'["older"] = Idle /\ UNCHANGED <<held, hasOlder>>
    BY <1>5, <1>t DEF HistoryFails, HoleFacts, Slots
  <2>2. status = "ready" /\ OlderFits'
    BY <2>1, NewRequests DEF HoleGaps, OlderFits, Busy
  <2> QED BY <1>3, <2>1, <2>2
<1>6. CASE OlderLoaded
  <2>1. /\ answer.stage = "page" /\ Busy("older") /\ req'["older"] = Idle
        /\ held' = Merge(held, answer.page) /\ hasOlder' = answer.more
    BY <1>6, <1>t DEF OlderLoaded, HoleFacts, Slots, Busy
  <2>2. PICK arg \in Held(held) : arg = answer.query.arg
    BY <2>1 DEF HoleGaps, OlderFits
  <2>3. /\ status = "ready" /\ hasOlder = TRUE /\ \A t \in Held(held) : arg <= t
        /\ \A s \in channel : s < arg /\ Covers(answer.page, answer.more, FALSE, s) => answer.page[s] # 0
    BY <1>t, <2>1, <2>2 DEF HoleGaps, OlderFits, HoleFacts
  <2>4. OlderFits'
    BY <2>1, NewRequests DEF OlderFits, Busy
  <2>5. \A s \in Seqs : /\ held'[s] = Greater(held[s], answer.page[s])
                        /\ held'[s] = 0 <=> held[s] = 0 /\ answer.page[s] = 0
                        /\ held'[s] \in Versioned(s)
    <3> TAKE s \in Seqs
    <3>1. held'[s] = Greater(held[s], answer.page[s])
      BY <2>1 DEF Merge
    <3>2. held'[s] \in Versioned(s)
      BY <3>1 DEF Greater, Versioned, Slots
    <3>3. held'[s] = 0 <=> held[s] = 0 /\ answer.page[s] = 0
      BY <1>t, <3>1 DEF Greater, HoleFacts
    <3> QED BY <3>1, <3>2, <3>3
  <2>6. Held(held) \subseteq Held(held') /\ Held(held') = Held(held) \cup Held(answer.page)
    BY <2>5 DEF Held
  <2>7. Wide(held', hasOlder')
    <3>1. Wide(held, TRUE)
      BY <2>3 DEF HoleGaps, PageWithin
    <3> QED BY <2>6, <3>1 DEF Wide
  <2>8. ASSUME NEW s \in channel, InWindow(s) PROVE Covers(held', hasOlder', hasNewer', s)
    <3>1. PICK t \in Held(held) : t <= s
      BY <2>2, <2>3, <2>8 DEF InWindow, Covers
    <3> QED BY <1>1, <1>t, <2>6, <3>1 DEF Covers, HoleFacts
  <2>9. ASSUME NEW s \in channel, Covers(held', hasOlder', hasNewer', s), held'[s] = 0 PROVE InWindow(s)
    <3>1. s \in Seqs /\ s \in Nat /\ arg \in Nat /\ hasNewer = FALSE /\ answer.page[s] = 0
      BY <1>t, <2>2, <2>5, <2>9 DEF HoleFacts, Held
    <3>2. CASE arg <= s
      BY <2>2, <3>1, <3>2 DEF InWindow, Covers
    <3>3. CASE s < arg
      <4>1. ~Covers(answer.page, answer.more, FALSE, s)
        BY <2>3, <3>1, <3>3
      <4>2. answer.more /\ \A t \in Held(answer.page) : ~(t <= s)
        BY <4>1 DEF Covers
      <4>3. PICK t \in Held(held') : t <= s
        BY <2>1, <2>2, <2>6, <2>9, <4>2 DEF Covers
      <4>4. t \in Held(held) /\ t \in Nat
        BY <1>t, <2>6, <4>2, <4>3 DEF Held, HoleFacts
      <4> QED BY <2>3, <3>1, <3>3, <4>3, <4>4
    <3> QED BY <3>1, <3>2, <3>3
  <2>10. \A s \in channel : s \in Seqs
    BY <1>t DEF HoleFacts
  <2> QED BY <1>2, <2>3, <2>4, <2>5, <2>7, <2>8, <2>9, <2>10
<1> QED BY <1>4, <1>5, <1>6 DEF HoleStep

LEMMA InitHole == ASSUME Init PROVE HoleInv
<1>1. \A slot \in Slots : req[slot] = Idle
  BY DEF Init
<1>2. \A slot \in Slots : ~Busy(slot) /\ ~LatestRead(slot)
  BY <1>1, NewRequests DEF Busy, LatestRead
<1>3. OneAtATime /\ PageWithin /\ OlderFits /\ MissingAhead
  BY <1>2 DEF Init, OneAtATime, PageWithin, OlderFits, MissingAhead, Slots
<1>4. LeftOutIsNew /\ MissingIsDue
  BY <1>2 DEF Init, LeftOutIsNew, MissingIsDue, Slots
<1>5. RowsBelow
  BY DEF Init, RowsBelow, Nothing
<1>6. WrittenInv /\ PagesInv
  BY InitWritten, InitPages
<1> QED BY <1>2, <1>3, <1>4, <1>5, <1>6 DEF HoleInv, Slots

LEMMA NextHole ==
    ASSUME NoneLost, UserPages
    PROVE  TypeOK /\ TypeOK' /\ HoleInv /\ [HistoryNext]_vars /\ [Undisturbed]_vars => HoleInv'
<1> SUFFICES ASSUME TypeOK, TypeOK', HoleInv, [HistoryNext]_vars, [Undisturbed]_vars PROVE HoleInv'
  OBVIOUS
<1>b. HoleBase /\ HoleGaps
  BY HoleInvIs
<1>1. CASE UNCHANGED vars
  BY <1>1 DEF vars, HoleInv, WrittenInv, PagesInv, Numbered, Carried, NothingInvented, Genuine, PagesSound,
              DifferenceSound, UpToDate, OneAtATime, Busy, RowsBelow, PageWithin, Wide, InWindow, InPage,
              Covers, LatestRead, MissingAhead, Missing, LeftOutIsNew, LeftOutIsDue, MissingIsDue,
              NothingMissed, Versioned, Due, Found, OlderFits
<1>2. CASE HistoryNext /\ vars' # vars
  <2>1. HoleBase'
    BY <1>2, <1>b, NextBase
  <2>2. Undisturbed
    BY <1>2
  <2>3. ~SyncFails /\ ~OpenRoomFails
    BY DEF SyncFails, OpenRoomFails, NoneLost
  <2>4. HoleGaps'
    <3>1. CASE Write
      BY <1>b, <3>1, WriteHole
    <3>2. CASE Serve
      BY <1>b, <3>2, ServeHole
    <3>3. CASE Synchronise
      BY <1>b, <2>2, <3>3, SyncChangesHole, SyncTooFarBehindHole, SyncLatestHole DEF Synchronise
    <3>4. CASE Open
      BY <1>b, <3>4, OpenHole
    <3>5. CASE Network
      BY <1>b, <3>5, NetworkHole
    <3>6. CASE ReadHistory
      BY <1>b, <3>6, HoleSteps, OlderHole
    <3> QED BY <1>2, <2>3, <3>1, <3>2, <3>3, <3>4, <3>5, <3>6 DEF HistoryNext, Next
  <2> QED BY <2>1, <2>4 DEF HoleInv, HoleBase, HoleGaps
<1> QED BY <1>1, <1>2

\* The inductive invariant of the paging: where no publish is lost, no request of the
\* timeline fails and nobody jumps, a message that the window covers and that is not held
\* is ahead of the cursor, and on its way or going to be found, as long as the latest page
\* of a synchronisation does not replace the window while an older page is on its way.
THEOREM HoleInvariant ==
    ASSUME "lost" \notin Faults, "failure" \notin Faults, "jump" \notin Paging, "unread" \notin Paging
    PROVE  HistorySpec /\ [][Undisturbed]_vars => []HoleInv
<1>1. NoneLost /\ UserPages
  BY DEF NoneLost, UserPages
<1>2. TypeOK /\ TypeOK' /\ HoleInv /\ [HistoryNext]_vars /\ [Undisturbed]_vars => HoleInv'
  BY <1>1, NextHole
<1> QED BY <1>2, InitHole, HistoryTypes, PTL DEF HistorySpec

\* rules/messages.ts:49: under the same conditions there is no hole in a window at rest,
\* which the next page would skip.
THEOREM HistoryHasNoHole ==
    ASSUME "lost" \notin Faults, "failure" \notin Faults, "jump" \notin Paging, "unread" \notin Paging
    PROVE  HistorySpec /\ [][Undisturbed]_vars => []NoHole
<1>1. HoleInv => NoHole
  <2> SUFFICES ASSUME HoleInv, AtRest, NEW s \in channel, Missing(s) PROVE FALSE
    BY DEF NoHole, Missing, InWindow
  <2>1. status = "ready" /\ events = {} /\ req["sync"].stage = "idle" /\ ~again /\ conn = "synced"
    BY DEF AtRest, Quiet, HoleInv, OneAtATime, Busy
  <2>2. Due(s) \/ Found(s)
    BY <2>1 DEF HoleInv, MissingIsDue, NothingMissed
  <2> QED BY <2>1, <2>2 DEF Due, Found
<1> QED BY <1>1, HoleInvariant, PTL
=============================================================================
