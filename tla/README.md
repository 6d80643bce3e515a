# hibari in TLA+

hibari is a chat service: a Go server (`internal/`, `cmd/server`) over Postgres, Redis,
S3 and an SFU, and a Next.js client (`web/`). This directory holds TLA+ modules of its
core, the TLC runs that check them and TLAPS proofs about them. `PROJECT.json` lists
which definition models which lines, what each run checks, the hazards of the code and
the theorems.

## 1. The system

Postgres is the truth. A write commits rows there and then publishes events through
Redis Pub/Sub, at most once. Every server instance has a hub that forwards the events to
the WebSockets of its tabs. A tab starts a room from a REST page, keeps it current with
events, and repairs what it missed by asking for a difference.

| Part | State | Operations | Properties that make it correct |
|---|---|---|---|
| Message numbering (`internal/chat/message.go`, `thread.go`, `db/queries/chat`) | `rooms.last_message_seq`, `last_change_seq`; per message `seq`, `change_seq`, thread root, `in_channel` | send, reply, edit, delete, pin, react | numbers without gaps or duplicates; a number belongs to one message (ADR 0002, 0014) |
| Message pages (`message_page.go`) | none | latest, before, after, around, difference | contiguous pages; the room row is read before the messages |
| Timeline of a tab (`store/timeline.ts`, `rules/messages.ts`) | messages held, ends open or closed, cursor, running synchronisation | open, receive an event, synchronise | the cursor claims only what is shown; nothing goes back; convergence |
| History of a tab (`store/history.ts`) | loading flags | older, newer, jump | no hole; a loading flag is always cleared |
| Subscriptions of a tab (`realtime/subscriptions.ts`) | subscribed, subscribing, failed targets | reconcile, resync after the ack | after a subscription everything is fetched again (ADR 0026) |
| Connection of a tab (`realtime/connection.ts`) | generation, timers, pending acks | connect, heartbeat, back off, revalidate | one socket alive; every lost socket is noticed |
| Send queue (`store/send.ts`) | queue per room, optimistic messages | enqueue, time out, resend | order of sending, no message twice |
| Hub (`realtime/hub.go`) | clients, subscriptions, epochs per user, announced presence | register, subscribe, deliver, revalidate, resync, shut down | nobody who lost access stays subscribed; a slow connection is closed, never skipped; shutdown ends |
| Broker (`realtime/redis.go`) | references, sent and confirmed subscriptions, waiters | acquire, release, ping, resubscribe | an acknowledged subscription is in force or the clients are resynced |
| Presence (`presence/presence.go`) | a Redis field per user and instance with a TTL | sync, refresh | online exactly while connected, up to the TTL |
| Huddles (`huddle.go`, `huddle/huddle.go`) | a Postgres row and Redis hashes with deadlines | join, leave, heartbeat, sweep, end | one huddle per room and per user; an empty one ends |
| Sessions (`internal/auth`) | families of refresh tokens, one-time tokens | log in, rotate, detect reuse, log out, reset the password | a revoked family never comes back |
| Attachments (`attachment.go`, `attachment_cleanup.go`) | a row per file, an object at S3, keys still to be deleted | create, put, complete, send, delete, clean up | what a message shows can be downloaded; nothing else stays at the storage |
| Link previews, mail queue | jobs | fetch, retry | not modelled |
| Rooms, members, invitations, authorisation | rows | single-transaction updates | roles and uniqueness, enforced by constraints |

How they interact: client requests are REST calls whose answers overtake one another and
the events; subscriptions are acknowledged over the WebSocket; revocations of sessions and
of membership travel as events to every hub; the huddle writes Redis inside a Postgres
transaction. What is hard: answers applied to state that changed while they were under
way, events lost, repeated or out of order, reconnections during requests, one failing
item of a batch, authorisation read outside a lock, crashes between two stores. The
`hazards` of `PROJECT.json` give each at its line.

## 2. What is modelled

Each module stands for one component and can be read by itself; where two components
meet, the module of one contains what it needs of the other:

| Module | Component | Extends or uses |
|---|---|---|
| `RoomTimeline`, `RoomHistory` | numbering, pages, timeline, history, subscriptions of a tab | `RoomHistory` extends `RoomTimeline` |
| `SendQueue` | send queue of a tab, composed with the transaction of `SendMessage` | |
| `Connection` | connection and activity of a tab, with its session and the server's end | |
| `Hub` | connections, subscriptions and revalidation of one instance | |
| `Feed`, `Broker` | what the delivery of events promises, and the broker that keeps it | `Broker` refines `Feed` |
| `Presence` | counts of connections at the instances and at Redis | |
| `Huddle` | rows at Postgres, participations at Redis, tasks between them | |
| `AuthSessions` | refresh tokens under concurrent transactions | |
| `Attachments` | rows, objects and the cleanup | |

### RoomTimeline

One room as one tab sees it. A message is its `seq`, a version of it the `change_seq` its
row carried; bodies, senders and times are left out, because two versions differ exactly
when their `change_seq` differ. `rows[s] = 0` means that message `s` does not exist.

* *Server writes* (`SendMessage`, `SendThreadReply`, `ChangeMessage`, `DeleteThreadReply`).
  Each is one step: the update of the `rooms` row in `AllocateMessageSeq` and its siblings
  locks the row until the commit. The events go into the set `events`, to be received in
  any order, more than once, or missed. Pins, reactions, attachments and previews are
  `ChangeMessage`: they take one number for one row. Guards that depend on content or on
  authorisation are left out, which allows more writes than the code.
* *Pages* (`ReadRoomRow`, then `ReadOneWay` or `ReadAround`). `ListMessages` reads the room
  row and then the messages in a later statement, so writes fall between. The three
  statements of `messagesAround` are read as one: what the later two see more was written
  after the room row was read, like what falls between that row and the first.
* *Timeline* (`OpenRoom`, `OpenRoomAnswered`, `ReopenRoom`, `Receive`, `SyncChanges`,
  `SyncTooFarBehind`, `SyncLatest`). One action per stretch of code between two `await`s.
  `req` holds the requests under way; `again` is the flag of `syncTimeline`'s loop.
  `SyncLatest` may set the cursor back, as the code does; it is the reason why the
  properties are about what is shown and not about the cursor being the newest number.
* *Connection* (`Disconnect`, `Subscribe`, `BatchAcked`, `Miss`). `conn` also remembers what
  the client did when the batch was acknowledged: resynced (`synced`), passed over a
  loading timeline (`skipped`), or not resynced because another target was refused
  (`dropped`). The server subscribes before it acknowledges, so events may arrive
  between `Subscribe` and `BatchAcked`.
* *Faults*, per run: `lost` (a publish fails), `failure` (a REST request of the timeline
  fails), `page` (one of the history fails), `gone` (another target of the batch is refused).

`Receive` also stands for the answers of the tab's own writes, which come whatever the
connection does; `alsoLater` leaves the event to come once more.

### RoomHistory

Extends it with `history.ts`: `LoadOlder`, `LoadNewer`, `JumpToMessage`, `JumpToUnread`,
their answers and failures. One request of each kind is under way at a time. The code
allows more: a second jump before the first has answered, and a second page of one kind
after a jump has cleared the flags. These overlaps are left out (`~Busy` in the four
actions that ask), so the properties of the history say nothing of them.
`MCRoomHistory` starts from a room with a post, a reply to it and more posts, opened or after a jump to its first
message, so that the bounds are spent on the history. `OvertakenInv` at the end of the
module is what the proof needs: among all versions that the tab holds, has asked for or
will be told of, those newer than the one a page carries are above its `last_change_seq`.

### AuthSessions

The sessions of one user: the rows of `refresh_tokens` and the requests on them as
concurrent READ COMMITTED transactions. A session is a family of tokens, named by its
first token. `row` is `revoked_at` with its reason, `req` what each request has read, has
still to visit and has updated; the rows it read `FOR UPDATE` or updated are locked
(`Locked`, `Free`), and nothing is visible before its commit.

* `Refresh` and `Rotate` are the two halves of a rotation: the locked read, and the mark,
  the insert and the commit. `Reuse` is the same read that finds the token rotated.
* `Reuse`, `Logout`, `RevokeSession`, `RevokeOtherSessions` and `ResetPassword` begin one
  UPDATE each. It takes its rows from the snapshot (`OpenRows`), visits them in any order
  (`RevokeRow`: waits for the lock, then looks again whether the row is open) and commits
  (`RevokeCommit`). A row inserted meanwhile is not visited, as in Postgres: a logout that
  overlaps a rotation of the same session may update nothing, and then announces nothing.
  `ResetPassword` publishes the user and no session, also when it has updated nothing.
* `Announce` publishes after the commit: the sessions by name (`announced`), or the user,
  on which every hub closes all his connections. Of the latter `condemned` remembers the
  tokens that were issued when the UPDATE began, because those alone are over: a successor
  or a login inserted during the UPDATE stays valid (section 4). `Fail` ends a request at
  any point, with a rollback or without the publish.

Left out: passwords and one-time tokens (so also which password a login compared), the
expiry of tokens, which only refuses, and the second user, whose rows no statement
reaches. `MCAuthSessions` adds the symmetry of tokens and requests.

### Hub

The connections of one user on one instance (`conn`), what the database says he may read
(`access`, `deleted`), the events on their way to the instance and the references held at
the broker. Every step is what a goroutine does between two acquisitions of `h.mu`, or one
read of the database: `Subscribe` reads the epoch, `Authorized` is the database and the
acquired channel, `Retry` and `Added` are the two outcomes back under the lock; `Recheck`,
`Allowed`, `AllowedFails` and `Remove` are the four parts of `revalidateUser`, run by the
broker's goroutine (`DeliverAccessChange`) or by the timer (`Revalidate`). `Publish` either
puts an event on its way or loses it (`missed`). `Close` stands for everything that closes
a connection: a full queue of frames, `CloseSessions`, `Resync`. One user is enough because
epochs, subscriptions and rights are per user; the audience of an event and typing keep no
state and are left out.

### Broker and Feed

`Feed` is the abstract specification: a message published while a subscription is
acknowledged is handed on, in order and none left out, or the clients are resynced.
`Broker` has the counts (`refs`), the number of the last SUBSCRIBE of each channel (`at`)
and of the last PONG (`acked`), the callers of `Acquire` with their waiters (`holder`), and
one connection to Redis: commands on their way out, what Redis has subscribed, replies and
messages on their way in. Redis and go-redis are external: commands are processed in order,
a broken connection takes both directions along, a new one subscribes the client's list and
confirms the control channel first. `due` is a history variable, what `Feed` owes: a set of
messages, each of a channel and numbered in the order of publication; the refinement maps
`holds` to the acknowledged channels. Copies of one event on several channels (`recentIDs`),
`Sync`, which only tests call, and the wire format are left out.

### Presence

One user: per instance the count of `h.byUser` (`conns`), what `syncPresence` last
announced, the write and the refresh on their way to Redis, and the field of
`presence:{userID}`. `Change` is a connection, a disconnection or `SetActivity`; `Sync`
takes the count under the user's lock and `Write` is `syncScript`, which publishes a
changed state, or writes the field in silence when the workspaces of the user could not be
read. `Refresh` and `Renew` are the two ends of the ticker, without that lock. A call that
fails (`WriteFails`, `RenewFails`) did not run, ran and lost its reply, or timed out and is
run by Redis later (`late`, `RunLate`), over what was written since. `Expire` removes a
field that nobody renews in time; `Crash` takes an instance away with its count. `Run` is
what every script does at Redis. Typing and status texts are left out.

### Huddle

Rows of `huddles`, participations in Redis with whether their client still sends
heartbeats, and the concurrent calls of `JoinHuddle`, split at the row lock
(`LockActive`), the insert (`Start`, with its unique index and second try), the script
(`Write`) and the commit (`Commit`, `JoinFails`, `Undo`). What the code does after a commit
or a removal is a task that may be lost. `Leave` is `LeaveHuddle`, a revoked session, or
the sweep of a late participant, which may strike a client that is alive, and a join that
has not committed. A call of the script that fails may have run, or run later
(`WriteLate`): the participation then waits for the sweep, and nobody looks after the
huddle that it evicted the user from. `DoEndIfEmpty` does not see a huddle that is not
committed and gives up. `lost` has these ends next to the lost tasks, until another one of
the same huddle is done. Tracks, muting, the
screen limit, TURN credentials, ringing, views and the media server are left out.

### SendQueue

One room of one tab: `outgoing`, `queue` and `loop` of `send.ts`, every request with how
far the server is with it and whether the tab still listens, and the server's transaction
in four steps (`Lock`, `Lookup`, `Commit`, `Abort`). `Remove`, `AddMember` and `Noticed`
take the room away and give it back; `Reload` forgets the tab. The difference of
`RoomTimeline` is no part of it: it brings messages and does not confirm them.

### Connection

`started`, `status`, the retry timer, the socket, the heartbeat and the calls of
`connection.ts`; the generation is kept as whether a call is still the last one
(`current`). `link` is whether what is sent over the socket arrives, so that a connection
may die without a word (`LinkDies`). The Access Token and the session (`token`, `valid`)
decide how a call ends; `valid` is of the session in the browser's cookie, and when the
user logs in again in another tab (`LogIn`) `older` says that the tab's token and socket
are still of the revoked one. That is when `revalidate` succeeds after code 4001. `seen`, `notified`, `settling` and `frames` are `activity.ts` and
what it sends; `told` is what the hub believes of the connection. The lengths of back-off,
which depend on a count of failures, are left out: a retry comes at any time.

### Attachments

The files of one room: the status of each row (`row`, `of`), the age of its upload URL,
the objects at the storage, the messages, the room, and the batches of the cleanup on each
instance. The storage is outside the transactions: `Put`, `Head` and `DeleteObject` are
steps of their own. `Put` is the end of an upload, which may come after the URL expired,
though not as late as `attachmentRetention` (a day against a quarter of an hour). The URL
is signed for one size and type, so `Head` has no mismatch (`attachment.go:294-301`): that
branch guards against a storage that does not enforce the signature. `torn` and `again` are history variables for the two exceptions of the
properties (section 4). What `Presence` has under the same name carries the prefix `Files`
here (`FilesInit`, `FilesNext`, `FilesSpec`), so that one module can prove about both.

### Not modelled

* Unread bar, read marking, unread counts and the room list: arithmetic on the state whose
  updates `RoomTimeline` models, and one monotonic UPDATE on the server.
* Panels for threads, pins, saved messages, activity and search: reloads of lists without
  a cursor, and queries.
* Roles, invitations and creation of rooms: single transactions whose rules are checks of
  their input, enforced by constraints.
* Passwords, one-time tokens, profiles, tickets and the verification of tokens: single
  statements or pure checks; no further protocol between processes.
* Link previews, mail queue and rate limit: a job each, whose effects are `ChangeMessage`
  or nothing that another component reads.
* Media of huddles (`web/lib/chat/huddle`): the protocol of WebRTC and of the SFU, most of
  it outside the repository.
* User interface, stories, generated types and queries, and documentation: rendering and
  text. They are the larger part of the repository's lines and keep no state of the kind
  that is checked here.

## 3. The runs

| Run | Bounds | Shows |
|---|---|---|
| `timeline_safety` | 3 messages, 3 changes, one-row pages, all faults | `CursorSound`, `NothingInvented`, `NoOlderVersion`, and `CursorInv` of the proof |
| `timeline_live` | 3 and 3, no fault but disconnections | `ResyncedWhenQuiet`; `Converges`: a tab that stays connected, resynced and open shows the room |
| `history_older` | from an opened room of three messages, one a thread reply, with one more message and two more changes | `NoHole` while older pages are loaded |
| `history_all` | two-row pages, one-row differences, all paging, failing pages | `LoadingEnds`, `OnlyJumpsGoBack` |
| `auth_sessions` | three tokens, three requests, with symmetry | `OneOpen`, `NeverRevived`, `AnnouncedIsOver` |
| `hub` | two connections, one topic, two events, three epochs | `NoStaleSubscription`, `RefsBalanced`, `DrainedIsOver`, `ShutdownEnds` |
| `broker` | two channels, two callers, four SUBSCRIBEs and PINGs, two messages, one break | `RefsExact`, `AckedInForce`, and `Feeds`: it implements `Feed` |
| `presence` | two instances with two connections, four changes, two failures or crashes | `FieldExact`, `NotOffline`, `ShownFollows`, `Settles` |
| `huddle` | two users, one of them in two rooms, two callers, a limit of one, three joins, one change, one failure | `JoinedIsActive`, `OnePlace`, `WithinLimit`, `AccessToJoined`, `DesertedEnds` |
| `send` | two messages, two retries, one removal or reload, all faults | `InOrder`, `NeverConflicts`, `PendingIsQueued`, `SendingEnds` |
| `connection` | three calls, two starts, a nudge, a login, two failures, two changes | `OneWay`, `Reconnects`, `RequestsEnd`, `RevokedGivesUp`, `ActivityArrives` |
| `attachments` | two files, one message, two callers, two cleaners, one failure | `Downloadable`, `NoEmptyMessage`, `OnlyAttachedRemain` |

Why the bounds are enough. Each property fails under a mutant of the code (`mutants` in
`PROJECT.json`) within the bounds of its run, so the situations it is about do occur.

* Timeline: a difference of more than one page, a page that does not reach the end of the
  room and an event beyond a gap need two or three messages with one-row pages; overtaking
  needs one change before, one during and one after a request. `Converges` and
  `ResyncedWhenQuiet` are checked without `lost` and `failure`: a lost publish or a failed
  difference is repaired only by the next event or reconnection. `NoHole` is checked with
  differences that fit in a page: otherwise `SyncLatest` replaces the window under a page
  that is on its way, the disagreement about `history.ts:143` again (TLC finds it from
  `Opened` with two messages, four of them in the end, and one-row differences). The proof
  excludes only that step, whatever the size of differences.
  A latest page that a change overtakes needs three changes: two make the difference too
  long, the third comes after the page was read; `timeline_safety` has them.
* `AuthSessions`: three tokens are one session with two rotations, or two sessions one of
  which is rotated; three requests are a rotation, a revocation of its session and a reuse
  that waits.
* `Hub`: a subscription that is under way, one that is held, and two revalidations that
  overlap it. `Broker`: one caller that waits while another one releases, acknowledges or
  comes in by the count. A second break repeats the first: nothing but `at` and `acked`
  survives one, and both are bounded by the SUBSCRIBEs before it.
* `Presence`: two instances are what it takes for a state that neither of them has alone;
  two changes overtake one write, two more a script that was given up; one failure makes a
  write late and the other loses the next. `Huddle`: two joins race each other or one task,
  the third joins afterwards; one user moves between two huddles, and a limit of one is
  reached and left by two. `SendQueue`: a message that waits behind one that
  fails, each of which is retried. `Connection`: one call more than can count at a time.
  `Attachments`: two files of one message, deleted by two calls, and two overlapping batches.

*Fairness.* Weak, unless said otherwise; what a user does, faults and losses are never
forced.

* `RoomTimeline`: the server answers, the tab takes in answers and events (the event loop
  runs every callback), the connection is retried for ever and a batch is acknowledged.
* `Hub`: the reader of a connection ends its calls; a closed connection is unregistered,
  with strong fairness, as its reader may handle more messages before it notices.
* `Broker`: `Run` receives, Redis processes, a lost connection is replaced (the health
  check of `ReceiveTimeout`).
* `Presence`: syncs and writes end, the ticker goes on, Redis expires fields.
* `Huddle`: calls and tasks end, the sweeper runs (`RunHuddleSweeper`).
* `SendQueue`: only the timer of `sendOne`.
* `Connection`: timers fire, calls come back, a server that is reached answers, the token
  of a revoked session expires.
* `Attachments`: time passes, a `DeleteRoom` ends, the cleanup's ticker goes on.

Deadlock is checked in the timeline, history, session and hub runs, which can always go
on. The other models stop when their bounds are used up.

`Replaced` of `Broker` says whether go-redis may get a new connection while a SUBSCRIBE
fails. The run has it `FALSE`: with `TRUE` the code does not keep `AckedInForce` (below).

## 4. Where the code and its documents disagree

Found while modelling; `findings` quotes the documents. The middle column says how to see
each one: a property and the constants under which TLC finds it violated, or the exception
that the property of a run makes for it.

| Code | Shown by | What happens |
|---|---|---|
| `subscriptions.ts:253` | `LoadedWhenQuiet`, `RoomTimeline` with 2 messages | a timeline that is loading when its subscription is acknowledged is passed over |
| `subscriptions.ts:201` | `BatchWhenQuiet`, `RoomTimeline`, fault `gone` | one refused target of a batch cancels the resync of the others |
| `timeline.ts:268` | `GapFetched`, `RoomTimeline`, fault `lost` | opening a room ends beyond a gap and asks for no difference |
| `history.ts:143` | `CursorSound`, `MCRoomHistory`, `Paging = {"older"}` | an older page overtaken by an event shows an old version under a newer cursor |
| `history.ts:117` | `ReachesNewest`, `MCRoomHistory`, `JumpedSpec` | a message dropped while the window was open is missed when it closes |
| `history.ts:33` | `NoOlderVersion`, `MCRoomHistory`, `Paging = {"jump"}` | a jump puts an older version back |
| `history.ts:143` | `NoHole`, `MCRoomHistory`, `Paging = {"older", "jump"}`, or `{"older"}` with `ChangesLimit = 1` | an older page is added to the window of a later jump or of a later latest page |
| `redis.go:167` | `AckedInForce`, `Broker` with `Replaced = TRUE` | a second `Acquire` counts as confirmed while the failed one has not released |
| `hub.go:461` | `ClosedIsLeft`, `Hub` | a subscription authorised before a room's deletion is added after its event |
| `presence.go:133` | the exception `suspect` of `FieldExact` | a refresh puts an older count back, without an event |
| `huddle.go:250` | `ArchivedIsQuiet`, `Huddle` | a join that read its room before the archive starts a huddle after it |
| `huddle.go:301` | the `lost` task of `Undo`, exception of `DesertedEnds` | a join undone leaves an empty huddle that nobody ends |
| `huddle.go:927` | the `lost` task of `DoEndIfEmpty`, exception of `DesertedEnds` | the end of a huddle comes before its start has committed, and finds none |
| `huddle.go:267` | the `lost` task of `WriteLate`, exception of `DesertedEnds` | a join whose script answered with an error has moved the user, and nobody ends what he left |
| `onetimetoken.go:178` | `condemned` of `AnnouncedIsOver`; false in the form `Over` of all sessions | a password reset publishes the end of sessions that a rotation or a login under way keeps or begins |
| `room_archive.go:19` | the exception `again` of `OnlyAttachedRemain` | an upload that ends after its URL expired stays for ever |
| `send.ts:60` | not a property | a message fetched by a difference is not confirmed in `outgoing` |
| `attachment_cleanup.go:84` | the exception `torn` of `Downloadable` | a file whose object was deleted by a batch that did not commit is sent before the next batch |
| `attachments.sql:56` | the exception `again` of `OnlyAttachedRemain` | a file put again after its deletion stays for ever |

## 5. The proofs

All are for every value of the constants and, unless said otherwise here, assume only the
named assumptions of the modules. Each module's proof has one step or lemma per action.
TLC has checked the inductive invariants that are stated in the models, too: `CursorInv` in
its run; `ResyncInv`, `OvertakenInv`, `SessionInv` and `AttachmentsInv` hold when they are
added to the INVARIANTS of `RoomTimeline_live.cfg`, `MCRoomHistory_all.cfg`,
`MCAuthSessions.cfg` and `Attachments.cfg`; `HoleInv` for `Init` and the steps of
`HistoryNext` that are `Undisturbed`, with three messages, four changes, one-row pages and
differences, and pages that fail.

* `RoomTimelineProofs` about `RoomTimeline`: `TypeCorrect`; `CursorInvariant`,
  `CursorTrusted` (`CursorSound`), `OnlyWritten` (`NothingInvented`); `ResyncInvariant`,
  `ResyncedAtRest` (`ResyncedWhenQuiet`).
  `CursorSound` is not inductive: it says nothing of the answers on their way. `CursorInv`
  has three layers, each inductive with the ones before it: `WrittenInv`, what is held and
  on its way was written; `PagesInv`, what the pages and the difference on their way know;
  and `CursorSound`. The parts of the first two are `Numbered` (no number is used twice and none is ahead of the room's counter),
  `Carried` (events and pages carry versions that were written, and each page's
  `last_change_seq` was read before it), `PagesSound` (a latest page on its way is up to
  date to its `last_change_seq`) and `DifferenceSound` (a difference was asked for from the
  cursor or from below it, also when the room is opened anew meanwhile, and contains all
  that changed from there). The layers are what a user who reads the history leaves of it:
  any paging keeps `WrittenInv`, paging back keeps `PagesInv`, too, and neither keeps
  `CursorSound` (section 4).
  The resync theorems assume that no publish is lost and no request fails (`"lost"` and
  `"failure"` not in `Faults`); disconnections, slow answers, refused batches and every
  interleaving remain. `ResyncInv` says `NothingForgotten`: what the window of a resynced
  tab covers is shown, on its way, or will be in the answer of the running round, unless
  another round was asked for. Against `SyncLatest` that takes more: an event outside the
  window is dropped, so a latest page must never cover more than the window it replaces
  (`PageWithin`). That holds because a window that is open at its older end spans a whole
  page of the channel (`Wide`, a count of rows, which only grows at the newer end:
  `RowsBelow`), and the newest page of that size begins no lower. `PagesComplete` says that
  what a latest page lacks has arrived or is on its way; `OneAtATime`, that only an open
  room is synchronised, by one request.
* `RoomTimelineProofs` about `RoomHistory`: `HistoryTypes`, `NoStuckLoading` (`LoadingEnds`),
  `OnlyWrittenRead` (`NothingInvented`, from `WrittenInv`), `OvertakenInvariant`,
  `NothingElseGoesBack` (`OnlyJumpsGoBack`) and, where the user does not jump,
  `PagingKeepsVersions` (`NoOlderVersion`). Nothing is assumed about faults.
  `NoOlderVersion` itself is false with jumps (section 4), and the proof shows that
  `replaceWindow` is the only reason. `SyncLatest` drops what is at or below the page's
  `last_change_seq`; `OvertakenInv` says that nothing so dropped is newer than the page's
  version, whichever answer or event brought it.
* `HoleInvariant` and `HistoryHasNoHole` (`NoHole`) about a user who only pages back. They
  assume what the resync theorems do, that nobody jumps, and `[][Undisturbed]_vars`: the
  latest page of a synchronisation does not replace the window while an older page is on
  its way, without which the code leaves a hole (section 4). Nothing is assumed of the
  sizes of pages and differences; pages of the history may fail. `ResyncInv` is of no use
  there, as an older page may show old versions; `HoleInv` asks of a message only whether
  it is held. What is missing is due or will be found (`MissingIsDue`), as in
  `NothingForgotten`, but now the cursor must be kept from passing it, because an event at
  or below the cursor is taken for known: `MissingAhead`. Against a latest page that takes
  `LeftOutIsNew`: what the page leaves out was posted after its room row was read, so it is
  above `last_change_seq`, in whatever version it arrives. `OlderFits`: an older page
  starts at the oldest message still held and has no hole itself.
* `AuthSessionsProofs`: `SessionInvariant`, `OneValidToken`, `OverForGood`,
  `PublishedIsOver` (`AnnouncedIsOver`): `SeenIsVisited` says of a reset that what it saw it
  has still to visit, has updated, or is over, and `ToldIsOver` that a session to be
  published by name is over before. That a rotation may insert a successor rests on `LockedStaysOpen`, the
  token it found valid is valid until it commits, and that on `LocksExclude`.
* `HubProofs`: `HubSafe` (`NoStaleSubscription`), `HubRefs` (`RefsBalanced`), `HubDrained`
  (`DrainedIsOver`). `HubInv` adds `AddsWithAccess`: a call that was let in and has seen
  the present epoch adds a topic that may be read or whose check is still to begin. That is
  why the epoch is read before the database, moves before the subscriptions are collected,
  and is only forgotten when the calls of the user are over (`CallsInv`). `DrainInv` says
  that `unregistering` counts the clean-ups. `HubTypes` (`TypeOK`) follows from `HubInv`.
* `BrokerProofs`: `BrokerRefs` (`RefsExact`), from the same sets of callers counted before
  and after each step, and that only an idle caller has no channel. `BrokerAcked`
  (`AckedInForce`) and `BrokerFeeds` (the initial states and the steps of `Broker` are
  those of `Feed`, or stutter) assume `Replaced = FALSE`: otherwise the code does not keep
  `AckedInForce` (section 4). `Delivery` adds to the counts: what is on the wire is in order
  (`Wired`), Redis has subscribed the list of go-redis once it has processed what was sent
  (`ListedAtRedis`), the numbers tell an acknowledged caller from a waiting one (`Tokens`),
  and while no resync is to come the PING of each waiter (`PingsOnTheWay`) and each message
  that is owed (`Owed`) are on the wire. `BrokerTypes` (`TypeOK`) holds without that assumption:
  the references are bounded by counting the callers, and `GivenOut` says that no number is
  acknowledged, awaited or on its way that `Acquire` has not given out.
* `StoreProofs` about `Presence` and `Attachments`, the two components that keep a second
  store in step with the database without a transaction over both.
  `Presence`: `FieldIsExact` and `OnlineIsShown`. `Written` says of every instance
  that what was announced is in Redis, on its way or suspect; `Kept`, that an instance
  whose write did not fail, and was not undone by a late deletion, has a field. `PresenceTypes` (`TypeOK`); `ToldWhatIsThere`
  (`ShownFollows`) is inductive as it stands: a script compares the state before and after it in one
  step, also when it comes late; a state that changes without an event is `silent`.
  `Attachments`: `FilesTypes` (`FilesTypeOK`), `FilesCanBeDownloaded` (`Downloadable`),
  `MessagesHoldSomething` (`NoEmptyMessage`), and `EveryObjectIsKnown` (`ObjectsKnown`, the
  safety half of `OnlyAttachedRemain`: a row or a queued key names every object, so that
  some batch can clear it away). `AttachmentsInv` adds to them: `BatchesInv`, that no two
  batches lock one row and that what a batch deleted comes back only by another PUT;
  `CallsInv`, that a `CompleteAttachment` whose row is still pending has seen an object
  that is there, torn or being deleted (`Seen`), and that a `DeleteMessageAttachment`
  alone holds its message, whose files stay what it counted; `FilesInv`, that what is
  attached belongs to a message that is shown; `RoomInv`, that the keys of a deleted room
  are queued until their URLs have expired.
* `HuddleProofs`: `HuddleJoined` (`JoinedIsActive`), `HuddleOnePlace` (`OnePlace`),
  `HuddleWithinLimit` (`WithinLimit`), `HuddleAccess` (`AccessToJoined`). `IdsInv` says that
  a participation has an id of its own, which the join that has made it still knows
  (`Identity`), and that the key of a user names it. `RowsInv`: the row that a join has
  locked is starting or active and locked by no other, and a huddle whose clearing is
  scheduled has ended. `Entered`: a join holds the membership it has read, so a removal
  that has not taken effect yet comes after it and finds its participation. `HuddleTypes`
  (`TypeOK`) adds `Accounted`: the huddles begun, the calls that may still start one and the
  calls to come are together at most `MaxJoins`, and what calls and tasks name was begun.
* `ConnectionProofs`: `OneWayAlways`, from `Alone`, which says without counting that there
  is one of a current call, the retry timer and the socket. `ConnectionTypes` (`TypeOK`) from
  `OneWay` and the types of what it says nothing of.
* `SendQueueProofs`: `RetriesNeverConflict`, from the row lock: at most one transaction of
  the sender is between its lock and its end. `SendQueueTypes`, `SentInOrder` (`InOrder`)
  and `PendingAreQueued` (`PendingIsQueued`). `TabInv` relates the queue, what is shown and
  the loop, and counts retries and written rows so that the bounded types hold. `Chain`
  says of two messages that the earlier one is settled, that is written, or given up and
  with it the later one if that was already composed, or that the later one is behind it in
  the queue; `SentSettled`, that every message of a request that
  may still write has only settled ones before it; `Accounted`, that a composed message is
  being sent, written or given up.

Only model-checked: liveness (`Converges`, `ShutdownEnds`, `Settles`, `DesertedEnds`,
`SendingEnds`, `Reconnects`, `RequestsEnd`, `RevokedGivesUp`, `ActivityArrives`,
`OnlyAttachedRemain`), which is out of the prover's reach, as is the fairness of `Feeds`;
its safety part is proved. Every invariant and every action property of the runs is stated
by a theorem. The type invariants of `RoomTimeline` and `RoomHistory`, `SendQueue`,
`Presence`, `Attachments`, `Hub`, `Connection`, `Broker` and `Huddle` are proved, too, and
that of `AuthSessions` is a part of `SessionInvariant`.

## 6. What could be added

Typing and the copies of an event (`recentIDs`); the tickets' store; the lock order of
`DeleteRoom` against sends; a composition of `Broker` and `Hub` in which `Acquire` is not
one step.

## 7. Running

    tlc -workers 2 -config RoomTimeline_safety.cfg RoomTimeline
    tlc -workers 2 -config MCRoomHistory_older.cfg MCRoomHistory
    tlc -workers 2 -config MCHub.cfg MCHub
    tlc -workers 2 -config Broker.cfg Broker
    tlapm HubProofs.tla

and likewise for the other `.cfg` files and `*Proofs` modules.
