------------------------------- MODULE Huddle -------------------------------
(***************************************************************************)
(* The huddles of some rooms (internal/chat/huddle.go): a huddle is a row  *)
(* at Postgres that is active until it ends; who is in it is at Redis      *)
(* (chat/huddle/huddle.go), each participation with a deadline that its    *)
(* client's heartbeats put off.                                            *)
(*                                                                         *)
(* Joining writes to Redis while its transaction holds the huddle's row,   *)
(* and ending one looks at Redis under the same lock.  What is done after  *)
(* a commit or a removal (end an empty huddle, clear an ended one, remove  *)
(* who lost access) is a task: a failure or a crash loses it.  The media   *)
(* server, muting, tracks and TURN credentials are left out.               *)
(***************************************************************************)
EXTENDS Naturals, Sequences, FiniteSets

CONSTANTS
    Users, Rooms,
    Members,        \* who is a member of which room at first
    Callers,        \* concurrent calls of JoinHuddle
    NoUser, NoRoom,
    Limit,          \* HuddleParticipantLimit
    MaxJoins,       \* bound: calls of JoinHuddle, each of which starts at most one huddle
    MaxChanges,     \* bound: memberships ended, rooms archived or deleted
    MaxFailures     \* bound: failed or lost steps, and clients that vanish

ASSUME HuddleAssumption ==
    /\ NoUser \notin Users /\ NoRoom \notin Rooms
    /\ Members \subseteq Users \X Rooms
    /\ {Limit, MaxJoins, MaxChanges, MaxFailures} \subseteq Nat

VARIABLES
    member,     \* who is a member of which room
    archived,   \* the rooms that are archived or deleted
    huddle,     \* the rows: room and state; undone is a start rolled back
    part,       \* the participations at Redis
    current,    \* huddle_user: the participation of a user, 0 for none
    join,       \* the calls of JoinHuddle
    tasks,      \* what is still to be done
    lost,       \* tasks that were lost or found nothing to do too early, and not done since
    left        \* changes and failures left (for the bounds)

vars == <<member, archived, huddle, part, current, join, tasks, lost, left>>

Huddles == 1..MaxJoins
Ids == 1..MaxJoins
NoCall == [stage |-> "idle", user |-> NoUser, room |-> NoRoom, tries |-> 2,
           huddle |-> 0, part |-> 0, evicted |-> {}]
\* In the transaction: the membership's row is locked; and from then on the huddle's.
InTx == {"entered", "starting", "locked", "written"}
Locking == {"locked", "written"}
Tasks == [kind : {"end if empty", "clear"}, huddle : Huddles, room : {NoRoom}, user : {NoUser}]
    \cup [kind : {"end room"}, huddle : {0}, room : Rooms, user : {NoUser}]
    \cup [kind : {"remove"}, huddle : {0}, room : Rooms, user : Users]

TypeOK ==
    /\ member \subseteq Users \X Rooms /\ archived \subseteq Rooms
    /\ huddle \in Seq([room : Rooms, state : {"starting", "active", "ended", "undone"}])
    /\ part \subseteq [id : Ids, user : Users, huddle : DOMAIN huddle, alive : BOOLEAN]
    /\ current \in [Users -> {0} \cup Ids]
    /\ join \in [Callers -> [stage : {"idle", "again", "undo", "late"} \cup InTx, user : Users \cup {NoUser},
                             room : Rooms \cup {NoRoom}, tries : 1..2, huddle : {0} \cup Huddles,
                             part : {0} \cup Ids, evicted : SUBSET Huddles]]
    /\ tasks \subseteq Tasks /\ lost \subseteq Tasks

Init ==
    /\ member = Members /\ archived = {}
    /\ huddle = <<>> /\ part = {}
    /\ current = [u \in Users |-> 0]
    /\ join = [c \in Callers |-> NoCall]
    /\ tasks = {} /\ lost = {} /\ left = [joins |-> MaxJoins, changes |-> MaxChanges, failures |-> MaxFailures]

In(h) == {p \in part : p.huddle = h}
Of(u) == {p \in part : p.id = current[u]}
Active(r) == {h \in DOMAIN huddle : huddle[h].room = r /\ huddle[h].state = "active"}
Locked(h) == \E c \in Callers : join[c].stage \in Locking /\ join[c].huddle = h
Stage(c) == join[c].stage

EndIfEmpty(H) == {[kind |-> "end if empty", huddle |-> h, room |-> NoRoom, user |-> NoUser] : h \in H}
ToClear(h) == [kind |-> "clear", huddle |-> h, room |-> NoRoom, user |-> NoUser]
ToEnd(r) == [kind |-> "end room", huddle |-> 0, room |-> r, user |-> NoUser]
ToRemove(u, r) == [kind |-> "remove", huddle |-> 0, room |-> r, user |-> u]
Set(h, state) == [huddle EXCEPT ![h].state = state]

\* Only what was inserted by the transaction becomes active with its commit.
Committed(h) == IF huddle[h].state = "starting" THEN Set(h, "active") ELSE huddle
RolledBack(h) == IF huddle[h].state = "starting" THEN Set(h, "undone") ELSE huddle

Failing == left.failures > 0 /\ left' = [left EXCEPT !.failures = @ - 1]
Changing == left.changes > 0 /\ left' = [left EXCEPT !.changes = @ - 1]

\* removeLua for the participations P.
Forget(P) == [u \in Users |-> IF \E p \in P : p.id = current[u] THEN 0 ELSE current[u]]

-----------------------------------------------------------------------------
(* JoinHuddle. *)

\* The membership's row is free.
Free(u, r) == \A c \in Callers : Stage(c) \in InTx => <<join[c].user, join[c].room>> # <<u, r>>

\* The media server has taken the offer (not a state of its own: what was checked before is
\* checked again), and the transaction has read the room and locked the membership.
\* Callers are interchangeable: an idle one is taken.
Join(c, u, r) ==
    /\ Stage(c) = "idle" /\ c = CHOOSE d \in Callers : Stage(d) = "idle"
    /\ <<u, r>> \in member /\ r \notin archived /\ Free(u, r)
    /\ left.joins > 0 /\ left' = [left EXCEPT !.joins = @ - 1]
    /\ join' = [join EXCEPT ![c] = [NoCall EXCEPT !.stage = "entered", !.user = u, !.room = r, !.part = left.joins]]
    /\ UNCHANGED <<member, archived, huddle, part, current, tasks, lost>>

\* The transaction is begun again; it may be too late.
JoinAgain(c) ==
    LET u == join[c].user
        r == join[c].room
    IN  /\ Stage(c) = "again" /\ Free(u, r)
        /\ join' = [join EXCEPT ![c] = IF <<u, r>> \in member /\ r \notin archived
                                       THEN [@ EXCEPT !.stage = "entered"] ELSE NoCall]
        /\ UNCHANGED <<member, archived, huddle, part, current, tasks, lost, left>>

\* LockActiveHuddle waits for the row; when it has ended meanwhile there is none.
LockActive(c) ==
    /\ Stage(c) = "entered"
    /\ \A h \in Active(join[c].room) : ~Locked(h)
    /\ join' = [join EXCEPT ![c] =
           IF Active(join[c].room) = {} THEN [@ EXCEPT !.stage = "starting"]
           ELSE [@ EXCEPT !.stage = "locked", !.huddle = CHOOSE h \in Active(join[c].room) : TRUE]]
    /\ UNCHANGED <<member, archived, huddle, part, current, tasks, lost, left>>

\* startHuddle waits for another start in the room (both number a message of it).  One
\* active huddle to a room: after a race the transaction is done again, twice in all.
Start(c) ==
    LET r == join[c].room
    IN  /\ Stage(c) = "starting"
        /\ \A h \in DOMAIN huddle : huddle[h].room = r => huddle[h].state # "starting"
        /\ IF Active(r) # {} THEN
               /\ join' = [join EXCEPT ![c] = IF @.tries > 1 THEN [@ EXCEPT !.stage = "again", !.tries = join[c].tries - 1]
                                              ELSE NoCall]
               /\ UNCHANGED huddle
           ELSE
               /\ huddle' = Append(huddle, [room |-> r, state |-> "starting"])
               /\ join' = [join EXCEPT ![c].stage = "locked", ![c].huddle = Len(huddle) + 1]
        /\ UNCHANGED <<member, archived, part, current, tasks, lost, left>>

\* Mutant of Old: only a participation in the same huddle is left.
OldHere(h, u) == Of(u) \cap In(h)

\* What the user leaves by joining, in this huddle or another one.
Old(h, u) == Of(u)

\* Mutant of Seated: the user is taken to be in it already.
SeatedBefore(h, u) == Cardinality(In(h)) - 1

\* Who is in the huddle besides the user.
Seated(h, u) == Cardinality(In(h) \ Old(h, u))

Full(c) == Seated(join[c].huddle, join[c].user) >= Limit

\* The user leaves what he was in before and is in the huddle.
Place(c, alive) ==
    LET h == join[c].huddle
        u == join[c].user
    IN  /\ part' = (part \ Old(h, u)) \cup {[id |-> join[c].part, user |-> u, huddle |-> h, alive |-> alive]}
        /\ current' = [current EXCEPT ![u] = join[c].part]

\* The huddles that joining makes the user leave.
Evicted(c) == {q.huddle : q \in Old(join[c].huddle, join[c].user)}

\* joinScript: a full huddle changes nothing, and the call ends.
Write(c) ==
    /\ Stage(c) = "locked"
    /\ IF Full(c) THEN
           /\ huddle' = RolledBack(join[c].huddle)
           /\ join' = [join EXCEPT ![c] = NoCall]
           /\ UNCHANGED <<part, current>>
       ELSE
           /\ Place(c, TRUE)
           /\ join' = [join EXCEPT ![c].stage = "written", ![c].evicted = Evicted(c)]
           /\ UNCHANGED huddle
    /\ UNCHANGED <<member, archived, tasks, lost, left>>

\* joinScript ran, or runs only now, although the call of it failed: its caller learns
\* neither that the user is in the huddle nor what he left, and nobody looks after that.
WriteLate(c) ==
    /\ Stage(c) = "late"
    /\ join' = [join EXCEPT ![c] = NoCall]
    /\ IF Full(c) THEN UNCHANGED <<part, current, lost>>
       ELSE Place(c, FALSE) /\ lost' = lost \cup EndIfEmpty(Evicted(c) \ {join[c].huddle})
    /\ UNCHANGED <<member, archived, huddle, tasks, left>>

Commit(c) ==
    /\ Stage(c) = "written"
    /\ huddle' = Committed(join[c].huddle)
    /\ tasks' = tasks \cup EndIfEmpty(join[c].evicted)
    /\ join' = [join EXCEPT ![c] = NoCall]
    /\ UNCHANGED <<member, archived, part, current, lost, left>>

\* The transaction fails; when Redis has answered already that is to be undone, and when
\* the call of joinScript failed it may be done all the same.  The caller gets an error and
\* sends no heartbeats.
JoinFails(c) ==
    /\ Stage(c) \in InTx /\ Failing
    /\ huddle' = IF Stage(c) \in Locking THEN RolledBack(join[c].huddle) ELSE huddle
    /\ part' = {IF p.id = join[c].part THEN [p EXCEPT !.alive = FALSE] ELSE p : p \in part}
    /\ \/ /\ Stage(c) = "written"
          /\ join' = [join EXCEPT ![c].stage = "undo"]
       \/ /\ Stage(c) = "locked"
          /\ join' = [join EXCEPT ![c].stage = "late"]
       \/ /\ Stage(c) # "written"
          /\ join' = [join EXCEPT ![c] = NoCall]
    /\ UNCHANGED <<member, archived, current, tasks, lost>>

\* The participation is removed again, and nothing looks whether the huddle is empty now;
\* or that fails too, and the sweep will find it.
Undo(c) ==
    /\ Stage(c) = "undo"
    /\ join' = [join EXCEPT ![c] = NoCall]
    /\ tasks' = tasks \cup EndIfEmpty(join[c].evicted)
    /\ \/ /\ part' = {p \in part : p.id # join[c].part}
          /\ current' = Forget({p \in part : p.id = join[c].part})
          /\ lost' = lost \cup EndIfEmpty({p.huddle : p \in {q \in part : q.id = join[c].part}} \ join[c].evicted)
          /\ UNCHANGED left
       \/ /\ Failing
          /\ UNCHANGED <<part, current, lost>>
    /\ UNCHANGED <<member, archived, huddle>>

-----------------------------------------------------------------------------
(* Leaving and being removed. *)

\* Mutant of RemovePart: nobody looks after the huddle.
RemovePartOnly(p) ==
    /\ part' = part \ {p}
    /\ current' = Forget({p})
    /\ UNCHANGED <<member, archived, huddle, join, lost>>
    /\ UNCHANGED tasks

\* The participation goes, and afterHuddleRemoval is to look after its huddle.
RemovePart(p) ==
    /\ part' = part \ {p}
    /\ current' = Forget({p})
    /\ tasks' = tasks \cup EndIfEmpty({p.huddle})
    /\ UNCHANGED <<member, archived, huddle, join, lost>>

\* LeaveHuddle, or SweepHuddles for a deadline that is over because the client is gone or
\* its heartbeats are late, or RemoveRevokedHuddleSession, which does not ask whether the
\* join has committed.
Leave(p) ==
    /\ RemovePart(p)
    /\ UNCHANGED left

\* Its client has the participant's id.
Answered(p) == \A c \in Callers : join[c].part # p.id

\* The client goes without a word: no more heartbeats.
Vanish(p) ==
    /\ p.alive /\ Answered(p) /\ Failing
    /\ part' = (part \ {p}) \cup {[p EXCEPT !.alive = FALSE]}
    /\ UNCHANGED <<member, archived, huddle, current, join, tasks, lost>>

\* Mutant of RemoveMember: the membership that a join has read is not locked.
RemoveMemberUnlocked(u, r) ==
    /\ <<u, r>> \in member
    /\ member' = member \ {<<u, r>>}
    /\ tasks' = tasks \cup {ToRemove(u, r)}
    /\ UNCHANGED <<archived, huddle, part, current, join, lost>>
    /\ Changing

\* The membership ends once no join holds it.
RemoveMember(u, r) ==
    /\ <<u, r>> \in member /\ Free(u, r)
    /\ member' = member \ {<<u, r>>}
    /\ tasks' = tasks \cup {ToRemove(u, r)}
    /\ UNCHANGED <<archived, huddle, part, current, join, lost>>
    /\ Changing

\* The room's row changes once no start holds it.
Archive(r) ==
    /\ r \notin archived
    /\ \A h \in DOMAIN huddle : huddle[h].room = r => huddle[h].state # "starting"
    /\ archived' = archived \cup {r}
    /\ tasks' = tasks \cup {ToEnd(r)}
    /\ UNCHANGED <<member, huddle, part, current, join, lost>>
    /\ Changing

\* The room's rows go in one transaction that waits for the joins in it.
DeleteRoom(r) ==
    /\ r \notin archived
    /\ \A c \in Callers : Stage(c) \in InTx => join[c].room # r
    /\ archived' = archived \cup {r}
    /\ member' = member \ (Users \X {r})
    /\ huddle' = [h \in DOMAIN huddle |-> IF h \in Active(r) THEN [huddle[h] EXCEPT !.state = "ended"] ELSE huddle[h]]
    /\ tasks' = tasks \cup {ToClear(h) : h \in Active(r)}
    /\ UNCHANGED <<part, current, join, lost>>
    /\ Changing

-----------------------------------------------------------------------------
(* The tasks. *)

\* Mutant of DoEndIfEmpty: it does not wait for the row that a join has locked.
DoEndIfEmptyUnlocked(t) ==
    LET h == t.huddle
    IN  /\ t.kind = "end if empty"
        /\ IF huddle[h].state = "active" /\ In(h) = {}
           THEN huddle' = Set(h, "ended") ELSE UNCHANGED huddle
        /\ tasks' = tasks \ {t}
        /\ UNCHANGED <<member, archived, part, current, join, lost, left>>

\* endHuddleIfEmpty: one transaction that locks the row before it looks at Redis.  (The
\* Clear after it finds nobody.)  A row that is not committed is neither found nor waited
\* for, and the task ends without effect.
DoEndIfEmpty(t) ==
    LET h == t.huddle
    IN  /\ t.kind = "end if empty"
        /\ IF huddle[h].state = "starting" THEN
               /\ lost' = lost \cup {t}
               /\ UNCHANGED huddle
           ELSE
               /\ ~Locked(h)
               /\ huddle' = IF huddle[h].state = "active" /\ In(h) = {} THEN Set(h, "ended") ELSE huddle
               /\ lost' = lost \ {t}
        /\ tasks' = tasks \ {t}
        /\ UNCHANGED <<member, archived, part, current, join, left>>

\* Clear: all who are in it are put out.
DoClear(t) ==
    /\ t.kind = "clear"
    /\ tasks' = tasks \ {t}
    /\ part' = part \ In(t.huddle)
    /\ current' = Forget(In(t.huddle))
    /\ UNCHANGED <<member, archived, huddle, join, lost, left>>

\* endRoomHuddle of an archived room.
DoEndRoom(t) ==
    /\ t.kind = "end room"
    /\ \A h \in Active(t.room) : ~Locked(h)
    /\ huddle' = [h \in DOMAIN huddle |-> IF h \in Active(t.room) THEN [huddle[h] EXCEPT !.state = "ended"] ELSE huddle[h]]
    /\ tasks' = (tasks \ {t}) \cup {ToClear(h) : h \in Active(t.room)}
    /\ UNCHANGED <<member, archived, part, current, join, lost, left>>

\* removeFromHuddle: what the user is in is removed when it is in the room.
DoRemove(t) ==
    LET found == {p \in Of(t.user) : huddle[p.huddle].room = t.room
                                      /\ huddle[p.huddle].state \in {"active", "ended"}}
    IN  /\ t.kind = "remove"
        /\ part' = part \ found
        /\ current' = Forget(found)
        /\ tasks' = (tasks \ {t}) \cup EndIfEmpty({p.huddle : p \in found})
        /\ UNCHANGED <<member, archived, huddle, join, lost, left>>

\* Postgres or Redis fails, or the instance dies.
Lose(t) ==
    /\ t \in tasks /\ Failing
    /\ tasks' = tasks \ {t}
    /\ lost' = lost \cup {t}
    /\ UNCHANGED <<member, archived, huddle, part, current, join>>

Call(c) == JoinAgain(c) \/ LockActive(c) \/ Start(c) \/ Write(c) \/ WriteLate(c) \/ Commit(c) \/ Undo(c)
Task(t) == DoEndIfEmpty(t) \/ DoClear(t) \/ DoEndRoom(t) \/ DoRemove(t)

Next ==
    \/ \E c \in Callers :
        \/ \E u \in Users, r \in Rooms : Join(c, u, r)
        \/ Call(c) \/ JoinFails(c)
    \/ \E p \in part : Leave(p) \/ Vanish(p)
    \/ \E u \in Users, r \in Rooms : RemoveMember(u, r)
    \/ \E r \in Rooms : Archive(r) \/ DeleteRoom(r)
    \/ \E t \in tasks : Task(t) \/ Lose(t)

\* Calls and tasks end, and the sweeper runs every five seconds.
Fairness ==
    /\ \A c \in Callers : WF_vars(Call(c))
    /\ \A t \in Tasks : WF_vars(t \in tasks /\ Task(t))
    /\ \A i \in Ids : WF_vars(\E p \in part : p.id = i /\ ~p.alive /\ Leave(p))

Spec == Init /\ [][Next]_vars /\ Fairness

-----------------------------------------------------------------------------
To(kind, h) == {t \in tasks \cup lost : t.kind = kind /\ t.huddle = h}

\* Nobody joins a huddle that has ended: whoever is in one and sends heartbeats is in an
\* active huddle or in one being started, or is about to be put out.
JoinedIsActive ==
    \A p \in part : p.alive =>
        \/ huddle[p.huddle].state = "active"
        \/ \E c \in Callers : Stage(c) = "written" /\ join[c].part = p.id
        \/ To("clear", p.huddle) # {}

\* A user is in one huddle with one device, and his key at Redis names it: heartbeats go to
\* what the key names and removals find it there.
OnePlace ==
    \A u \in Users : {p.id : p \in {q \in part : q.user = u}} = {current[u]} \ {0}

\* Never more than the limit, counted in the script that writes.
WithinLimit == \A h \in DOMAIN huddle : Cardinality(In(h)) <= Limit

\* Whoever lost access is not in a huddle of the room, or his removal is to come (rule 8):
\* a join that was let in before has committed before the removal looks.
AccessToJoined ==
    \A p \in part : p.alive =>
        LET r == huddle[p.huddle].room
        IN  \/ <<p.user, r>> \in member
            \/ ToRemove(p.user, r) \in tasks \cup lost
            \/ To("clear", p.huddle) # {}

\* A huddle that all clients have left, with or without a word, ends or is joined: unless
\* the task that would end it was lost, or came while the huddle was not committed yet, or
\* nobody made one because a join failed that had moved the user (lost).
Deserted(h) == h \in DOMAIN huddle /\ huddle[h].state = "active" /\ \A p \in In(h) : ~p.alive
DesertedEnds == \A h \in Huddles : []<>(Deserted(h) => EndIfEmpty({h}) \cap lost # {})

\* An archived room has no huddle but one that is about to be ended.
ArchivedIsQuiet ==
    \A r \in archived : Active(r) # {} => ToEnd(r) \in tasks \cup lost
=============================================================================
