---------------------------- MODULE HuddleProofs ----------------------------
(***************************************************************************)
(* Proofs about Huddle, for every set of users, rooms and concurrent       *)
(* joins, every limit, and whatever fails or is lost.                      *)
(*                                                                         *)
(* A participation has an id of its own and a user's key names it          *)
(* (Identity); a huddle's row that a join has locked is being started or   *)
(* active and no one else's (RowsInv); a join holds the membership it has  *)
(* read (Entered).  From these the four invariants follow step by step.    *)
(***************************************************************************)
EXTENDS Huddle, FiniteSetTheorems, SequenceTheorems, TLAPS

Row == [room : Rooms, state : {"starting", "active", "ended", "undone"}]
Fresh == {"again", "entered", "starting", "locked", "late"}
Placed == {"written", "undo"}
Joining == [stage : {"idle", "again", "undo", "late"} \cup InTx, user : Users \cup {NoUser}, room : Rooms \cup {NoRoom},
            tries : Nat, huddle : Nat, part : Nat, evicted : SUBSET Nat]
Participation == [id : Nat, user : Users, huddle : Nat, alive : BOOLEAN]

Types ==
    /\ huddle \in Seq(Row)
    /\ IsFiniteSet(part) /\ part \subseteq Participation
    /\ current \in [Users -> Nat]
    /\ join \in [Callers -> Joining]
    /\ left \in [joins : Nat, changes : Nat, failures : Nat]

\* The row of a membership or of a room that a join has read is there until it ends.
Entered ==
    /\ member \subseteq Users \X Rooms
    /\ \A c \in Callers : Stage(c) \in InTx =>
        <<join[c].user, join[c].room>> \in member /\ join[c].user \in Users /\ join[c].room \in Rooms
    /\ \A c \in Callers : Stage(c) = "late" => join[c].user \in Users

\* Who is who.
Identity ==
    /\ \A p \in part : left.joins < p.id
    /\ \A p, q \in part : p.id = q.id => p = q
    /\ \A c \in Callers :
        /\ Stage(c) # "idle" => left.joins < join[c].part
        /\ Stage(c) \in Fresh => \A p \in part : p.id # join[c].part
        /\ Stage(c) \in Placed => \A p \in part :
               p.id = join[c].part => p.user = join[c].user /\ p.huddle = join[c].huddle
    /\ \A c, d \in Callers : Stage(c) # "idle" /\ Stage(d) # "idle" /\ join[c].part = join[d].part => c = d

\* The rows of huddles, and who has locked them.
ClearOf(h) == \E t \in tasks \cup lost : t.kind = "clear" /\ t.huddle = h
RowsInv ==
    /\ \A p \in part : p.huddle \in DOMAIN huddle
    /\ \A c \in Callers : Stage(c) \in Locking =>
        /\ join[c].huddle \in DOMAIN huddle
        /\ huddle[join[c].huddle].room = join[c].room
        /\ huddle[join[c].huddle].state \in {"starting", "active"}
    /\ \A c \in Callers : Stage(c) = "late" => join[c].huddle \in DOMAIN huddle
    /\ \A c, d \in Callers : Stage(c) \in Locking /\ Stage(d) \in Locking /\ join[c].huddle = join[d].huddle => c = d
    /\ \A h : ClearOf(h) => h \in DOMAIN huddle /\ huddle[h].state = "ended"

-----------------------------------------------------------------------------
(* Rows. *)

LEMMA HuddleRows ==
    ASSUME Types
    PROVE  /\ Len(huddle) \in Nat /\ DOMAIN huddle = 1..Len(huddle)
           /\ \A h \in DOMAIN huddle : huddle[h] \in Row /\ huddle[h].room \in Rooms /\ h \in Nat
<1>1. Len(huddle) \in Nat /\ DOMAIN huddle = 1..Len(huddle)
  BY LenProperties DEF Types
<1>2. \A h \in 1..Len(huddle) : huddle[h] \in Row
  BY ElementOfSeq DEF Types
<1> QED
  BY <1>1, <1>2 DEF Row

LEMMA HuddleStates ==
    ASSUME Types, NEW f, DOMAIN f = DOMAIN huddle, f = [h \in DOMAIN huddle |-> f[h]],
           \A h \in DOMAIN huddle : f[h] \in Row
    PROVE  f \in Seq(Row)
<1>1. f \in [1..Len(huddle) -> Row] /\ Len(huddle) \in Nat
  BY HuddleRows
<1> QED
  BY <1>1, IsASeq

\* The state of one huddle changes.
LEMMA SetState ==
    ASSUME Types, NEW h \in DOMAIN huddle, NEW s \in {"active", "ended", "undone"}
    PROVE  /\ Set(h, s) \in Seq(Row) /\ DOMAIN Set(h, s) = DOMAIN huddle
           /\ Set(h, s)[h].state = s /\ Set(h, s)[h].room = huddle[h].room
           /\ \A k \in DOMAIN huddle : k # h => Set(h, s)[k] = huddle[k]
<1>1. PICK f : f = Set(h, s)
  OBVIOUS
<1>2. f = [huddle EXCEPT ![h] = [huddle[h] EXCEPT !.state = s]]
  BY <1>1 DEF Set
<1>3. huddle = [k \in DOMAIN huddle |-> huddle[k]] /\ \A k \in DOMAIN huddle : huddle[k] \in Row
  BY HuddleRows DEF Types
<1>4. [huddle[h] EXCEPT !.state = s] \in Row
  BY <1>3 DEF Row
<1>5. /\ DOMAIN f = DOMAIN huddle /\ f = [k \in DOMAIN huddle |-> f[k]]
      /\ f[h] = [huddle[h] EXCEPT !.state = s] /\ \A k \in DOMAIN huddle : k # h => f[k] = huddle[k]
  BY <1>2, <1>3
<1>6. f \in Seq(Row)
  BY <1>3, <1>4, <1>5, HuddleStates
<1>7. f[h].state = s /\ f[h].room = huddle[h].room
  BY <1>3, <1>5 DEF Row
<1> QED
  BY <1>1, <1>5, <1>6, <1>7

\* What an action makes of the rows: the same rooms, and who is not starting any more.
LEMMA Ends ==
    ASSUME Types, NEW h \in DOMAIN huddle, NEW f, f \in {Committed(h), RolledBack(h)}
    PROVE  /\ f \in Seq(Row) /\ DOMAIN f = DOMAIN huddle
           /\ \A k \in DOMAIN huddle : f[k].room = huddle[k].room /\ (k # h => f[k] = huddle[k])
           /\ huddle[h].state # "starting" => f = huddle
           /\ huddle[h].state = "starting" => f[h].state = IF f = Committed(h) THEN "active" ELSE "undone"
<1>1. huddle \in Seq(Row)
  BY DEF Types
<1>2. CASE huddle[h].state # "starting"
  BY <1>1, <1>2 DEF Committed, RolledBack
<1>3. CASE huddle[h].state = "starting"
  <2>1. /\ Committed(h) = Set(h, "active") /\ RolledBack(h) = Set(h, "undone")
    BY <1>3 DEF Committed, RolledBack
  <2>2. f = Committed(h) \/ (f = RolledBack(h) /\ f # Committed(h))
    OBVIOUS
  <2> QED
    BY <1>3, <2>1, <2>2, SetState
<1> QED
  BY <1>2, <1>3

\* The active huddles of a room end.
LEMMA RoomEnds ==
    ASSUME Types, NEW r, NEW f,
           f = [h \in DOMAIN huddle |-> IF h \in Active(r) THEN [huddle[h] EXCEPT !.state = "ended"] ELSE huddle[h]]
    PROVE  /\ f \in Seq(Row) /\ DOMAIN f = DOMAIN huddle
           /\ \A k \in DOMAIN huddle : /\ f[k].room = huddle[k].room
                                       /\ k \in Active(r) => f[k].state = "ended"
                                       /\ k \notin Active(r) => f[k] = huddle[k]
<1>1. \A k \in DOMAIN huddle : huddle[k] \in Row
  BY HuddleRows
<1>2. \A k \in DOMAIN huddle : [huddle[k] EXCEPT !.state = "ended"] \in Row
  BY <1>1 DEF Row
<1>3. \A k \in DOMAIN huddle : f[k] \in Row
  BY <1>1, <1>2
<1>4. f \in Seq(Row)
  BY <1>3, HuddleStates
<1> QED
  BY <1>1, <1>4 DEF Row

\* A huddle is begun.
LEMMA Begun ==
    ASSUME Types, NEW row \in Row, NEW f, f = Append(huddle, row)
    PROVE  /\ f \in Seq(Row) /\ DOMAIN f = DOMAIN huddle \cup {Len(huddle) + 1} /\ Len(huddle) + 1 \notin DOMAIN huddle
           /\ f[Len(huddle) + 1] = row /\ Len(huddle) + 1 \in Nat
           /\ \A k \in DOMAIN huddle : f[k] = huddle[k]
<1>2. huddle \in Seq(Row)
  BY DEF Types
<1>3. /\ f \in Seq(Row) /\ Len(f) = Len(huddle) + 1
      /\ \A i \in 1..Len(huddle) : f[i] = huddle[i]
      /\ f[Len(huddle) + 1] = row
  BY <1>2, AppendProperties
<1>4. DOMAIN f = 1..Len(f) /\ DOMAIN huddle = 1..Len(huddle) /\ Len(huddle) \in Nat
  BY <1>2, <1>3, LenProperties
<1> QED
  BY <1>3, <1>4
-----------------------------------------------------------------------------
(* The types. *)

LEMMA CallTypes ==
    ASSUME Types, NEW c \in Callers
    PROVE  /\ join[c] \in Joining /\ NoCall \in Joining
           /\ join[c].user \in Users \cup {NoUser} /\ join[c].room \in Rooms \cup {NoRoom}
           /\ join[c].huddle \in Nat /\ join[c].part \in Nat /\ join[c].tries \in Nat /\ join[c].evicted \in SUBSET Nat
           /\ Stage(c) = join[c].stage
<1>1. {} \in SUBSET Nat /\ 2 \in Nat /\ 0 \in Nat
  OBVIOUS
<1>2. NoCall \in Joining
  BY <1>1 DEF NoCall, Joining, InTx
<1>3. join[c] \in Joining
  BY DEF Types
<1> QED
  BY <1>2, <1>3 DEF Joining, Stage

\* Any call that is changed in the fields that steps change.
LEMMA CallChanges ==
    ASSUME Types, NEW c \in Callers, NEW s \in {"idle", "again", "undo", "late"} \cup InTx, NEW h \in Nat, NEW n \in Nat,
           NEW E \in SUBSET Nat
    PROVE  /\ [join[c] EXCEPT !.stage = s] \in Joining
           /\ [join[c] EXCEPT !.stage = s, !.tries = n] \in Joining
           /\ [join[c] EXCEPT !.stage = s, !.huddle = h] \in Joining
           /\ [join[c] EXCEPT !.stage = s, !.evicted = E] \in Joining
           /\ \A d \in Joining : [join EXCEPT ![c] = d] \in [Callers -> Joining]
BY DEF Types, Joining

LEMMA LeftTypes ==
    ASSUME Types
    PROVE  /\ Failing => left' \in [joins : Nat, changes : Nat, failures : Nat] /\ left'.joins = left.joins
           /\ Changing => left' \in [joins : Nat, changes : Nat, failures : Nat] /\ left'.joins = left.joins
           /\ left' = left => left' \in [joins : Nat, changes : Nat, failures : Nat] /\ left'.joins = left.joins
           /\ left.joins \in Nat
<1>1. left \in [joins : Nat, changes : Nat, failures : Nat]
  BY DEF Types
<1>2. Failing => left' = [left EXCEPT !.failures = left.failures - 1] /\ left.failures - 1 \in Nat
  BY <1>1 DEF Failing
<1>3. Changing => left' = [left EXCEPT !.changes = left.changes - 1] /\ left.changes - 1 \in Nat
  BY <1>1 DEF Changing
<1> QED
  BY <1>1, <1>2, <1>3

LEMMA PartTypes ==
    ASSUME Types, NEW p \in part
    PROVE  /\ p.id \in Nat /\ p.user \in Users /\ p.huddle \in Nat /\ p.alive \in BOOLEAN
           /\ [p EXCEPT !.alive = FALSE] \in Participation
           /\ [p EXCEPT !.alive = FALSE].id = p.id /\ [p EXCEPT !.alive = FALSE].user = p.user
           /\ [p EXCEPT !.alive = FALSE].huddle = p.huddle /\ [p EXCEPT !.alive = FALSE].alive = FALSE
<1>1. p \in Participation
  BY DEF Types
<1> QED
  BY <1>1 DEF Participation

-----------------------------------------------------------------------------
(* What the steps do to participations and calls. *)

\* The participation i, if there is one, sends no more heartbeats.
Silent(p) == [p EXCEPT !.alive = FALSE]
Silenced(i) == part' = {IF p.id = i THEN Silent(p) ELSE p : p \in part} /\ current' = current
Removed(P) == P \subseteq part /\ part' = part \ P /\ current' = Forget(P)
\* The calls go on: none is new, and none has written to Redis.
Follows ==
    /\ join' \in [Callers -> Joining]
    /\ \A c \in Callers : join'[c].stage # "idle" =>
        /\ join[c].stage # "idle"
        /\ join'[c].part = join[c].part /\ join'[c].user = join[c].user /\ join'[c].room = join[c].room
        /\ join'[c].stage \in Fresh => join[c].stage \in Fresh
        /\ join'[c].stage \in Placed => join[c].stage \in Placed /\ join'[c].huddle = join[c].huddle
        /\ join'[c].stage = "late" => join[c].stage \in {"locked", "late"} /\ join'[c].huddle = join[c].huddle
    /\ left'.joins = left.joins /\ left' \in [joins : Nat, changes : Nat, failures : Nat]
Unplaced == part' = part /\ current' = current

\* One call goes on.
LEMMA FollowsAt ==
    ASSUME Types, NEW c \in Callers, NEW r \in Joining, join' = [join EXCEPT ![c] = r],
           left'.joins = left.joins, left' \in [joins : Nat, changes : Nat, failures : Nat],
           r.stage # "idle" =>
               /\ join[c].stage # "idle"
               /\ r.part = join[c].part /\ r.user = join[c].user /\ r.room = join[c].room
               /\ r.stage \in Fresh => join[c].stage \in Fresh
               /\ r.stage \in Placed => join[c].stage \in Placed /\ r.huddle = join[c].huddle
               /\ r.stage = "late" => join[c].stage \in {"locked", "late"} /\ r.huddle = join[c].huddle
    PROVE  Follows
<1>1. join'[c] = r /\ \A d \in Callers : d # c => join'[d] = join[d]
  BY DEF Types
<1>2. join' \in [Callers -> Joining]
  BY DEF Types
<1> QED
  BY <1>1, <1>2 DEF Follows

LEMMA FollowsSame ==
    ASSUME Types, join' = join, left'.joins = left.joins, left' \in [joins : Nat, changes : Nat, failures : Nat]
    PROVE  Follows
BY DEF Follows, Types

LEMMA NoCallIdle == NoCall.stage = "idle"
BY DEF NoCall

\* Calls that have not written to Redis and do not now.
LEMMA CallFollows ==
    ASSUME Types, NEW c \in Callers, JoinAgain(c) \/ LockActive(c) \/ Start(c) \/ Commit(c)
    PROVE  Follows /\ Unplaced
<1>1. left'.joins = left.joins /\ left' \in [joins : Nat, changes : Nat, failures : Nat]
  BY LeftTypes DEF JoinAgain, LockActive, Start, Commit
<1>2. NoCall \in Joining /\ NoCall.stage = "idle" /\ join[c] \in Joining
  BY CallTypes, NoCallIdle
<1>3. Unplaced
  BY DEF JoinAgain, LockActive, Start, Commit, Unplaced
<1>4. CASE JoinAgain(c)
  <2>1. PICK r : r = [join[c] EXCEPT !.stage = "entered"]
    BY Zenon
  <2>2. r \in Joining
    BY <2>1, CallChanges, Zenon DEF InTx
  <2>3. r.stage = "entered" /\ r.part = join[c].part /\ r.user = join[c].user /\ r.room = join[c].room
    BY <1>2, <2>1 DEF Joining
  <2>4. join[c].stage = "again"
    BY <1>4 DEF JoinAgain, Stage
  <2>5. join' = [join EXCEPT ![c] = r] \/ join' = [join EXCEPT ![c] = NoCall]
    BY <1>4, <2>1 DEF JoinAgain
  <2>6. CASE join' = [join EXCEPT ![c] = r]
    BY <1>1, <1>3, <2>2, <2>3, <2>4, <2>6, FollowsAt DEF Fresh, Placed
  <2>7. CASE join' = [join EXCEPT ![c] = NoCall]
    BY <1>1, <1>2, <1>3, <2>7, FollowsAt
  <2> QED
    BY <2>5, <2>6, <2>7
<1>5. CASE LockActive(c)
  <2>1. PICK h : h = CHOOSE k \in Active(join[c].room) : TRUE
    BY Zenon
  <2>2. PICK r : r = IF Active(join[c].room) = {} THEN [join[c] EXCEPT !.stage = "starting"]
                     ELSE [join[c] EXCEPT !.stage = "locked", !.huddle = h]
    BY Zenon
  <2>3. join[c].stage = "entered" /\ join' = [join EXCEPT ![c] = r]
    BY <1>5, <2>1, <2>2 DEF LockActive, Stage
  <2>4. Active(join[c].room) # {} => h \in Nat
    BY <2>1, HuddleRows DEF Active
  <2>5. r \in Joining
    BY <2>2, <2>4, CallChanges, Zenon DEF InTx
  <2>6. r.stage \in {"starting", "locked"} /\ r.part = join[c].part /\ r.user = join[c].user /\ r.room = join[c].room
    BY <1>2, <2>2 DEF Joining
  <2> QED
    BY <1>1, <1>3, <2>3, <2>5, <2>6, FollowsAt DEF Fresh, Placed
<1>6. CASE Start(c)
  <2>1. join[c].stage = "starting"
    BY <1>6 DEF Start, Stage
  <2>2. PICK r \in Joining :
            /\ join' = [join EXCEPT ![c] = r]
            /\ r.stage # "idle" => /\ r.stage \in {"again", "locked"}
                                   /\ r.part = join[c].part /\ r.user = join[c].user /\ r.room = join[c].room
    <3>1. PICK a : a = [join[c] EXCEPT !.stage = "again", !.tries = join[c].tries - 1]
      OBVIOUS
    <3>2. PICK l : l = [join[c] EXCEPT !.stage = "locked", !.huddle = Len(huddle) + 1]
      OBVIOUS
    <3>3. ASSUME join[c].tries > 1 PROVE a \in Joining
      <4>1. PICK n \in Nat : n = join[c].tries - 1
        BY <3>3, CallTypes
      <4>2. a = [join[c] EXCEPT !.stage = "again", !.tries = n]
        BY <3>1, <4>1
      <4> QED
        BY <4>2, CallChanges, Zenon DEF InTx
    <3>4. l \in Joining
      <4>1. Len(huddle) + 1 \in Nat
        BY HuddleRows
      <4> QED
        BY <3>2, <4>1, CallChanges, Zenon DEF InTx
    <3>5. /\ a.stage = "again" /\ a.part = join[c].part /\ a.user = join[c].user /\ a.room = join[c].room
          /\ l.stage = "locked" /\ l.part = join[c].part /\ l.user = join[c].user /\ l.room = join[c].room
      BY <1>2, <3>1, <3>2 DEF Joining
    <3>6. \/ join[c].tries > 1 /\ join' = [join EXCEPT ![c] = a]
          \/ join' = [join EXCEPT ![c] = NoCall]
          \/ join' = [join EXCEPT ![c] = l]
      <4>1. CASE Active(join[c].room) # {}
        <5>1. join' = [join EXCEPT ![c] = IF join[c].tries > 1 THEN a ELSE NoCall]
          BY <1>6, <3>1, <4>1 DEF Start
        <5> QED
          BY <5>1
      <4>2. CASE Active(join[c].room) = {}
        <5>1. join' = [join EXCEPT ![c].stage = "locked", ![c].huddle = Len(huddle) + 1]
          BY <1>6, <4>2 DEF Start
        <5>2. join' = [join EXCEPT ![c] = l]
          BY <3>2, <5>1 DEF Types
        <5> QED
          BY <5>2
      <4> QED
        BY <4>1, <4>2
    <3> QED
      BY <1>2, <3>3, <3>4, <3>5, <3>6
  <2> QED
    BY <1>1, <1>3, <2>1, <2>2, FollowsAt DEF Fresh, Placed
<1>7. CASE Commit(c)
  BY <1>1, <1>2, <1>3, <1>7, FollowsAt DEF Commit
<1> QED
  BY <1>4, <1>5, <1>6, <1>7

\* The transaction that fails, and what is undone after it.
LEMMA FailsFollows ==
    ASSUME Types, NEW c \in Callers, JoinFails(c)
    PROVE  Follows /\ Silenced(join[c].part)
<1>1. left'.joins = left.joins /\ left' \in [joins : Nat, changes : Nat, failures : Nat]
  BY LeftTypes DEF JoinFails
<1>2. NoCall \in Joining /\ NoCall.stage = "idle" /\ join[c] \in Joining
  BY CallTypes, NoCallIdle
<1>3. Silenced(join[c].part)
  BY DEF JoinFails, Silenced, Silent
<1>4. PICK undone : undone = [join[c] EXCEPT !.stage = "undo"]
  OBVIOUS
<1>5. PICK late : late = [join[c] EXCEPT !.stage = "late"]
  OBVIOUS
<1>6. undone \in Joining /\ late \in Joining
  BY <1>4, <1>5, CallChanges, CallTypes, Zenon
<1>7. /\ undone.stage = "undo" /\ undone.part = join[c].part /\ undone.user = join[c].user
      /\ undone.room = join[c].room /\ undone.huddle = join[c].huddle
      /\ late.stage = "late" /\ late.part = join[c].part /\ late.user = join[c].user
      /\ late.room = join[c].room /\ late.huddle = join[c].huddle
  BY <1>2, <1>4, <1>5 DEF Joining
<1>8. PICK r \in {undone, late, NoCall} :
          /\ join' = [join EXCEPT ![c] = r]
          /\ r = undone => join[c].stage = "written"
          /\ r = late => join[c].stage = "locked"
  <2>1. CASE Stage(c) = "written" /\ join' = [join EXCEPT ![c].stage = "undo"]
    BY <1>2, <1>4, <1>7, <2>1 DEF Stage
  <2>2. CASE Stage(c) = "locked" /\ join' = [join EXCEPT ![c].stage = "late"]
    BY <1>2, <1>5, <1>7, <2>2 DEF Stage
  <2>3. CASE join' = [join EXCEPT ![c] = NoCall]
    BY <1>2, <1>7, <2>3
  <2> QED
    BY <2>1, <2>2, <2>3 DEF JoinFails
<1>9. r \in Joining
  BY <1>2, <1>6
<1> QED
  BY <1>1, <1>2, <1>3, <1>7, <1>8, <1>9, FollowsAt DEF Fresh, Placed

LEMMA UndoFollows ==
    ASSUME Types, NEW c \in Callers, Undo(c)
    PROVE  /\ Follows
           /\ Unplaced \/ Removed({p \in part : p.id = join[c].part})
<1>1. left'.joins = left.joins /\ left' \in [joins : Nat, changes : Nat, failures : Nat]
  BY LeftTypes DEF Undo
<1>2. NoCall \in Joining /\ NoCall.stage = "idle"
  BY CallTypes, NoCallIdle
<1>3. Follows
  BY <1>1, <1>2, FollowsAt DEF Undo
<1>4. {p \in part : p.id # join[c].part} = part \ {p \in part : p.id = join[c].part}
  OBVIOUS
<1> QED
  BY <1>3, <1>4 DEF Undo, Unplaced, Removed

\* joinScript writes the participation, in time or late.
New(c, a) == [id |-> join[c].part, user |-> join[c].user, huddle |-> join[c].huddle, alive |-> a]
Placing(c, a) ==
    /\ Stage(c) = IF a THEN "locked" ELSE "late"
    /\ Seated(join[c].huddle, join[c].user) < Limit
    /\ part' = (part \ Of(join[c].user)) \cup {New(c, a)}
    /\ current' = [current EXCEPT ![join[c].user] = join[c].part]
    /\ \E r \in Joining :
        /\ join' = [join EXCEPT ![c] = r]
        /\ IF a THEN /\ r.stage = "written" /\ r.user = join[c].user /\ r.room = join[c].room
                     /\ r.huddle = join[c].huddle /\ r.part = join[c].part
                ELSE r.stage = "idle"
    /\ left' = left /\ huddle' = huddle

LEMMA SeatedLess ==
    ASSUME Types, NEW c, ~Full(c)
    PROVE  Seated(join[c].huddle, join[c].user) < Limit
<1>1. In(join[c].huddle) \ Old(join[c].huddle, join[c].user) \subseteq part
  BY DEF In
<1>2. Seated(join[c].huddle, join[c].user) \in Nat
  BY <1>1, FS_Subset, FS_CardinalityType DEF Seated, Types
<1> QED
  BY <1>2, HuddleAssumption DEF Full

LEMMA WritePlaces ==
    ASSUME Types, NEW c \in Callers, Write(c) \/ WriteLate(c)
    PROVE  (Follows /\ Unplaced) \/ \E a \in BOOLEAN : Placing(c, a) /\ (a <=> Write(c))
<1>1. NoCall \in Joining /\ NoCall.stage = "idle"
  BY CallTypes, NoCallIdle
<1>2. CASE Full(c)
  <2>1. join' = [join EXCEPT ![c] = NoCall] /\ left' = left /\ Unplaced
    BY <1>2 DEF Write, WriteLate, Unplaced
  <2>2. left'.joins = left.joins /\ left' \in [joins : Nat, changes : Nat, failures : Nat]
    BY <2>1, LeftTypes
  <2> QED
    BY <1>1, <2>1, <2>2, FollowsAt
<1>3. CASE ~Full(c)
  <2>1. Seated(join[c].huddle, join[c].user) < Limit
    BY <1>3, SeatedLess
  <2>2. CASE Write(c)
    <3>1. /\ Stage(c) = "locked"
          /\ part' = (part \ Old(join[c].huddle, join[c].user)) \cup {New(c, TRUE)}
          /\ current' = [current EXCEPT ![join[c].user] = join[c].part]
          /\ join' = [join EXCEPT ![c].stage = "written", ![c].evicted = Evicted(c)]
          /\ left' = left /\ huddle' = huddle
      BY <1>3, <2>2 DEF Write, Place, New
    <3>2. PICK E : E = Evicted(c)
      OBVIOUS
    <3>3. E \in SUBSET Nat
      BY <3>2, PartTypes DEF Evicted, Old, Of
    <3>4. PICK r : r = [join[c] EXCEPT !.stage = "written", !.evicted = E]
      BY Zenon
    <3>5. r \in Joining
      BY <3>3, <3>4, CallChanges, Zenon DEF InTx
    <3>6. /\ r.stage = "written" /\ r.user = join[c].user /\ r.room = join[c].room
          /\ r.huddle = join[c].huddle /\ r.part = join[c].part
      BY <3>4, CallTypes DEF Joining
    <3>7. join' = [join EXCEPT ![c] = r]
      BY <3>1, <3>2, <3>4 DEF Types
    <3>8. Placing(c, TRUE)
      BY <2>1, <3>1, <3>5, <3>6, <3>7 DEF Placing, Old
    <3> QED
      BY <2>2, <3>8
  <2>3. CASE WriteLate(c)
    <3>1. /\ Stage(c) = "late"
          /\ part' = (part \ Old(join[c].huddle, join[c].user)) \cup {New(c, FALSE)}
          /\ current' = [current EXCEPT ![join[c].user] = join[c].part]
          /\ join' = [join EXCEPT ![c] = NoCall]
          /\ left' = left /\ huddle' = huddle
      BY <1>3, <2>3 DEF WriteLate, Place, New
    <3>2. Placing(c, FALSE)
      BY <1>1, <2>1, <3>1 DEF Placing, Old
    <3>3. ~Write(c)
      BY <3>1 DEF Write
    <3> QED
      BY <3>2, <3>3
  <2> QED
    BY <2>2, <2>3
<1> QED
  BY <1>2, <1>3

\* Every step does one of five things to participations and calls.
LEMMA Kinds ==
    ASSUME Types, Identity, [Next]_vars
    PROVE  \/ Follows /\ Unplaced
           \/ Follows /\ \E i \in Nat : Silenced(i)
           \/ Follows /\ \E P : Removed(P)
           \/ \E c \in Callers : \E a \in BOOLEAN : Placing(c, a)
           \/ \E c \in Callers : \E u \in Users : \E r \in Rooms : Join(c, u, r)
<1>1. ASSUME NEW c \in Callers, Call(c)
      PROVE  \/ Follows /\ Unplaced
             \/ Follows /\ \E P : Removed(P)
             \/ \E a \in BOOLEAN : Placing(c, a)
  BY <1>1, CallFollows, WritePlaces, UndoFollows DEF Call
<1>2. ASSUME NEW c \in Callers, JoinFails(c)
      PROVE  Follows /\ \E i \in Nat : Silenced(i)
  BY <1>2, FailsFollows, CallTypes
<1>3. ASSUME NEW p \in part, Leave(p)
      PROVE  Follows /\ \E P : Removed(P)
  <2>1. Removed({p})
    BY <1>3 DEF Leave, RemovePart, Removed
  <2>2. Follows
    BY <1>3, LeftTypes, FollowsSame DEF Leave, RemovePart
  <2> QED
    BY <2>1, <2>2
<1>4. ASSUME NEW p \in part, Vanish(p)
      PROVE  Follows /\ \E i \in Nat : Silenced(i)
  <2>1. part' = (part \ {p}) \cup {Silent(p)} /\ current' = current
    BY <1>4 DEF Vanish, Silent
  <2>2. \A q \in part : q.id = p.id <=> q = p
    BY DEF Identity
  <2>3. part' = {IF q.id = p.id THEN Silent(q) ELSE q : q \in part}
    BY <2>1, <2>2
  <2>4. Follows
    BY <1>4, LeftTypes, FollowsSame DEF Vanish
  <2>5. p.id \in Nat
    BY PartTypes
  <2> QED
    BY <2>1, <2>3, <2>4, <2>5 DEF Silenced
<1>5. CASE \/ \E u \in Users, r \in Rooms : RemoveMember(u, r)
           \/ \E r \in Rooms : Archive(r) \/ DeleteRoom(r)
           \/ \E t \in tasks : DoEndIfEmpty(t) \/ DoEndRoom(t) \/ Lose(t)
           \/ UNCHANGED vars
  <2>1. join' = join /\ Unplaced /\ (Changing \/ Failing \/ left' = left)
    BY <1>5 DEF RemoveMember, Archive, DeleteRoom, DoEndIfEmpty, DoEndRoom, Lose, vars, Unplaced
  <2> QED
    BY <2>1, LeftTypes, FollowsSame
<1>6. ASSUME NEW t \in tasks, DoClear(t)
      PROVE  Follows /\ \E P : Removed(P)
  <2>1. Removed(In(t.huddle))
    BY <1>6 DEF DoClear, Removed, In
  <2>2. Follows
    BY <1>6, LeftTypes, FollowsSame DEF DoClear
  <2> QED
    BY <2>1, <2>2
<1>7. ASSUME NEW t \in tasks, DoRemove(t)
      PROVE  Follows /\ \E P : Removed(P)
  <2>1. \E P : Removed(P)
    BY <1>7 DEF DoRemove, Removed, Of
  <2>2. Follows
    BY <1>7, LeftTypes, FollowsSame DEF DoRemove
  <2> QED
    BY <2>1, <2>2
<1> QED
  BY <1>1, <1>2, <1>3, <1>4, <1>5, <1>6, <1>7 DEF Next, Task

-----------------------------------------------------------------------------
(* Identity, and one place for everybody. *)

IdsInv == Types /\ Identity /\ OnePlace

LEMMA Places ==
    ASSUME Types
    PROVE  OnePlace <=> \A u \in Users : /\ \A p \in part : p.user = u => p.id = current[u] /\ p.id # 0
                                         /\ current[u] # 0 => \E p \in part : p.user = u /\ p.id = current[u]
<1>1. ASSUME NEW u \in Users
      PROVE  {p.id : p \in {q \in part : q.user = u}} = {current[u]} \ {0} <=>
                 /\ \A p \in part : p.user = u => p.id = current[u] /\ p.id # 0
                 /\ current[u] # 0 => \E p \in part : p.user = u /\ p.id = current[u]
  OBVIOUS
<1> QED
  BY <1>1 DEF OnePlace

LEMMA SilencedParts ==
    ASSUME Types, NEW i \in Nat, Silenced(i)
    PROVE  /\ \A p \in part : \E q \in part' : q.id = p.id /\ q.user = p.user /\ q.huddle = p.huddle
           /\ \A q \in part' : \E p \in part : /\ q = IF p.id = i THEN Silent(p) ELSE p
                                               /\ q.id = p.id /\ q.user = p.user /\ q.huddle = p.huddle
                                               /\ q \in Participation /\ (q.alive => q = p /\ p.id # i)
<1>1. \A p \in part : /\ Silent(p) \in Participation /\ p \in Participation
                      /\ Silent(p).id = p.id /\ Silent(p).user = p.user /\ Silent(p).huddle = p.huddle
                      /\ ~Silent(p).alive
  BY PartTypes DEF Silent, Types
<1> QED
  BY <1>1 DEF Silenced

LEMMA SilencedIds ==
    ASSUME IdsInv, Follows, NEW i \in Nat, Silenced(i)
    PROVE  Identity' /\ OnePlace' /\ part' \subseteq Participation /\ current' \in [Users -> Nat]
<1>1. /\ \A p \in part : \E q \in part' : q.id = p.id /\ q.user = p.user /\ q.huddle = p.huddle
      /\ \A q \in part' : \E p \in part : /\ q = IF p.id = i THEN Silent(p) ELSE p
                                          /\ q.id = p.id /\ q.user = p.user /\ q.huddle = p.huddle
      /\ part' \subseteq Participation
  BY SilencedParts DEF IdsInv
<1>2. current' = current /\ current \in [Users -> Nat]
  BY DEF Silenced, IdsInv, Types
<1>3. OnePlace'
  <2>1. \A u \in Users : /\ \A p \in part : p.user = u => p.id = current[u] /\ p.id # 0
                         /\ current[u] # 0 => \E p \in part : p.user = u /\ p.id = current[u]
    BY Places DEF IdsInv
  <2>2. ASSUME NEW u \in Users
        PROVE  {p.id : p \in {q \in part' : q.user = u}} = {current'[u]} \ {0}
    BY <1>1, <1>2, <2>1
  <2> QED
    BY <2>2 DEF OnePlace
<1>4. \A p, q \in part' : p.id = q.id => p = q
  BY <1>1 DEF IdsInv, Identity
<1>5. \A q \in part' : left'.joins < q.id
  BY <1>1 DEF IdsInv, Identity, Follows
<1>6. ASSUME NEW c \in Callers
      PROVE  /\ join'[c].stage # "idle" => left'.joins < join'[c].part
             /\ join'[c].stage \in Fresh => \A q \in part' : q.id # join'[c].part
             /\ join'[c].stage \in Placed => \A q \in part' :
                    q.id = join'[c].part => q.user = join'[c].user /\ q.huddle = join'[c].huddle
  <2>1. CASE join'[c].stage = "idle"
    BY <2>1 DEF Fresh, Placed
  <2>2. CASE join'[c].stage # "idle"
    BY <1>1, <2>2 DEF IdsInv, Identity, Follows, Stage
  <2> QED
    BY <2>1, <2>2
<1>7. \A c, d \in Callers : join'[c].stage # "idle" /\ join'[d].stage # "idle" /\ join'[c].part = join'[d].part => c = d
  BY DEF IdsInv, Identity, Follows, Stage
<1> QED
  BY <1>1, <1>2, <1>3, <1>4, <1>5, <1>6, <1>7 DEF Identity, Stage

LEMMA RemovedIds ==
    ASSUME IdsInv, Follows, NEW P, Removed(P)
    PROVE  Identity' /\ OnePlace' /\ part' \subseteq Participation /\ current' \in [Users -> Nat]
<1>1. /\ part' \subseteq part /\ part' = part \ P /\ P \subseteq part
      /\ \A u \in Users : current'[u] = IF \E p \in P : p.id = current[u] THEN 0 ELSE current[u]
      /\ current' \in [Users -> Nat]
  BY DEF Removed, Forget, IdsInv, Types
<1>2. OnePlace'
  <2>1. \A u \in Users : /\ \A p \in part : p.user = u => p.id = current[u] /\ p.id # 0
                         /\ current[u] # 0 => \E p \in part : p.user = u /\ p.id = current[u]
    BY Places DEF IdsInv
  <2>2. ASSUME NEW u \in Users
        PROVE  {p.id : p \in {q \in part' : q.user = u}} = {current'[u]} \ {0}
    <3>1. CASE \E p \in P : p.id = current[u]
      <4>1. PICK p \in P : p.id = current[u]
        BY <3>1
      <4>2. \A q \in part : q.user = u => q = p
        BY <1>1, <2>1, <4>1 DEF IdsInv, Identity
      <4>3. \A q \in part' : q.user # u
        BY <1>1, <4>1, <4>2
      <4> QED
        BY <1>1, <3>1, <4>3
    <3>2. CASE ~(\E p \in P : p.id = current[u])
      BY <1>1, <2>1, <3>2
    <3> QED
      BY <3>1, <3>2
  <2> QED
    BY <2>2 DEF OnePlace
<1>3. ASSUME NEW c \in Callers
      PROVE  /\ join'[c].stage # "idle" => left'.joins < join'[c].part
             /\ join'[c].stage \in Fresh => \A q \in part' : q.id # join'[c].part
             /\ join'[c].stage \in Placed => \A q \in part' :
                    q.id = join'[c].part => q.user = join'[c].user /\ q.huddle = join'[c].huddle
  <2>1. CASE join'[c].stage = "idle"
    BY <2>1 DEF Fresh, Placed
  <2>2. CASE join'[c].stage # "idle"
    BY <1>1, <2>2 DEF IdsInv, Identity, Follows, Stage
  <2> QED
    BY <2>1, <2>2
<1>4. \A c, d \in Callers : join'[c].stage # "idle" /\ join'[d].stage # "idle" /\ join'[c].part = join'[d].part => c = d
  BY DEF IdsInv, Identity, Follows, Stage
<1>5. \A q \in part' : left'.joins < q.id
  BY <1>1 DEF IdsInv, Identity, Follows
<1>6. \A p, q \in part' : p.id = q.id => p = q
  BY <1>1 DEF IdsInv, Identity
<1>7. part' \subseteq Participation
  BY <1>1 DEF IdsInv, Types
<1> QED
  BY <1>1, <1>2, <1>3, <1>4, <1>5, <1>6, <1>7 DEF Identity, Stage
\* Who is placed: the caller's user, in the huddle that the call has locked or had.
LEMMA PlacingFields ==
    ASSUME Types, Entered, RowsInv, NEW c \in Callers, NEW a \in BOOLEAN, Placing(c, a)
    PROVE  /\ New(c, a) \in Participation /\ join[c].user \in Users /\ join[c].stage \in {"locked", "late"}
           /\ a => join[c].stage = "locked"
           /\ join[c].huddle \in DOMAIN huddle
           /\ New(c, a).id = join[c].part /\ New(c, a).user = join[c].user
           /\ New(c, a).huddle = join[c].huddle /\ New(c, a).alive = a
           /\ join' \in [Callers -> Joining]
           /\ a => /\ join'[c].stage = "written" /\ join'[c].user = join[c].user /\ join'[c].huddle = join[c].huddle
                   /\ join'[c].part = join[c].part /\ join'[c].room = join[c].room
           /\ ~a => join'[c].stage = "idle"
           /\ \A d \in Callers : d # c => join'[d] = join[d]
           /\ left' = left
<1>1. join[c].stage = (IF a THEN "locked" ELSE "late") /\ left' = left
  BY DEF Placing, Stage
<1>2. join[c].user \in Users /\ join[c].huddle \in DOMAIN huddle
  BY <1>1 DEF Entered, RowsInv, Stage, InTx, Locking
<1>3. New(c, a) \in Participation
  BY <1>2, CallTypes DEF New, Participation
<1>4. PICK r \in Joining :
        /\ join' = [join EXCEPT ![c] = r]
        /\ IF a THEN /\ r.stage = "written" /\ r.user = join[c].user /\ r.room = join[c].room
                     /\ r.huddle = join[c].huddle /\ r.part = join[c].part
                ELSE r.stage = "idle"
  BY DEF Placing
<1>5. join'[c] = r /\ (\A d \in Callers : d # c => join'[d] = join[d]) /\ join' \in [Callers -> Joining]
  BY <1>4 DEF Types
<1> QED
  BY <1>1, <1>2, <1>3, <1>4, <1>5 DEF New

\* What a user's key names is his, and all of it.
LEMMA OfUser ==
    ASSUME IdsInv, NEW u \in Users
    PROVE  \A p \in part : p \in Of(u) <=> p.user = u
<1>1. /\ \A p \in part : p.user = u => p.id = current[u] /\ p.id # 0
      /\ current[u] # 0 => \E p \in part : p.user = u /\ p.id = current[u]
  BY Places DEF IdsInv
<1>2. ASSUME NEW p \in part, p.id = current[u] PROVE p.user = u
  <2>1. left.joins < p.id /\ left.joins \in Nat /\ p.id \in Nat
    BY LeftTypes, PartTypes DEF IdsInv, Identity
  <2>2. PICK q \in part : q.user = u /\ q.id = current[u]
    BY <1>1, <1>2, <2>1
  <2> QED
    BY <1>2, <2>2 DEF IdsInv, Identity
<1> QED
  BY <1>1, <1>2 DEF Of

LEMMA PlacingIds ==
    ASSUME IdsInv, Entered, RowsInv, NEW c \in Callers, NEW a \in BOOLEAN, Placing(c, a)
    PROVE  Identity' /\ OnePlace' /\ part' \subseteq Participation /\ current' \in [Users -> Nat]
<1> DEFINE u == join[c].user
           i == join[c].part
<1>1. /\ New(c, a) \in Participation /\ u \in Users /\ join[c].stage \in {"locked", "late"}
      /\ New(c, a).id = i /\ New(c, a).user = u /\ New(c, a).huddle = join[c].huddle
      /\ a => /\ join'[c].stage = "written" /\ join'[c].user = u /\ join'[c].huddle = join[c].huddle /\ join'[c].part = i
      /\ ~a => join'[c].stage = "idle"
      /\ \A d \in Callers : d # c => join'[d] = join[d]
      /\ left' = left
  BY PlacingFields DEF IdsInv
<1>2. /\ \A p \in part : p.id # i
      /\ left.joins < i /\ left.joins \in Nat /\ i \in Nat
  BY <1>1, LeftTypes, CallTypes DEF IdsInv, Identity, Stage, Fresh
<1>3. part' = (part \ Of(u)) \cup {New(c, a)} /\ current' = [current EXCEPT ![u] = i]
  BY DEF Placing
<1>4. current' \in [Users -> Nat] /\ current'[u] = i /\ \A v \in Users : v # u => current'[v] = current[v]
  BY <1>1, <1>2, <1>3 DEF IdsInv, Types
<1>5. \A p \in part : p \in Of(u) <=> p.user = u
  BY <1>1, OfUser
<1>6. /\ \A q \in part' : q = New(c, a) \/ (q \in part /\ q.user # u)
      /\ New(c, a) \in part' /\ \A q \in part : q.user # u => q \in part'
  BY <1>3, <1>5
<1>7. OnePlace'
  <2>1. \A v \in Users : /\ \A p \in part : p.user = v => p.id = current[v] /\ p.id # 0
                         /\ current[v] # 0 => \E p \in part : p.user = v /\ p.id = current[v]
    BY Places DEF IdsInv
  <2>2. ASSUME NEW v \in Users
        PROVE  {p.id : p \in {q \in part' : q.user = v}} = {current'[v]} \ {0}
    <3>1. CASE v = u
      <4>1. {q \in part' : q.user = v} = {New(c, a)}
        BY <1>1, <1>6, <3>1
      <4>2. i # 0
        BY <1>2
      <4> QED
        BY <1>1, <1>4, <3>1, <4>1, <4>2
    <3>2. CASE v # u
      <4>1. {q \in part' : q.user = v} = {q \in part : q.user = v}
        BY <1>1, <1>6, <3>2
      <4> QED
        BY <1>4, <2>1, <3>2, <4>1
    <3> QED
      BY <3>1, <3>2
  <2> QED
    BY <2>2 DEF OnePlace
<1>8. part' \subseteq Participation
  BY <1>1, <1>6 DEF IdsInv, Types
<1>9. \A q \in part' : left'.joins < q.id
  BY <1>1, <1>2, <1>6 DEF IdsInv, Identity
<1>10. \A p, q \in part' : p.id = q.id => p = q
  BY <1>1, <1>2, <1>6 DEF IdsInv, Identity
<1>11. ASSUME NEW d \in Callers
       PROVE  /\ join'[d].stage # "idle" => left'.joins < join'[d].part
              /\ join'[d].stage \in Fresh => \A q \in part' : q.id # join'[d].part
              /\ join'[d].stage \in Placed => \A q \in part' :
                     q.id = join'[d].part => q.user = join'[d].user /\ q.huddle = join'[d].huddle
  <2>1. CASE d = c
    BY <1>1, <1>2, <1>6, <2>1 DEF Fresh, Placed
  <2>2. CASE d # c
    <3>1. join[d].stage # "idle" => join[d].part # i
      BY <1>1, <2>2 DEF IdsInv, Identity, Stage
    <3> QED
      BY <1>1, <1>6, <2>2, <3>1 DEF IdsInv, Identity, Stage, Fresh, Placed
  <2> QED
    BY <2>1, <2>2
<1>12. \A d, e \in Callers : join'[d].stage # "idle" /\ join'[e].stage # "idle" /\ join'[d].part = join'[e].part => d = e
  BY <1>1 DEF IdsInv, Identity, Stage
<1> QED
  BY <1>4, <1>7, <1>8, <1>9, <1>10, <1>11, <1>12 DEF Identity, Stage

LEMMA JoinFields ==
    ASSUME Types, NEW c \in Callers, NEW u \in Users, NEW r \in Rooms, Join(c, u, r)
    PROVE  /\ join' \in [Callers -> Joining] /\ \A d \in Callers : d # c => join'[d] = join[d]
           /\ join'[c].stage = "entered" /\ join'[c].user = u /\ join'[c].room = r /\ join'[c].part = left.joins
           /\ left.joins \in Nat /\ left'.joins \in Nat /\ left'.joins < left.joins
           /\ left' \in [joins : Nat, changes : Nat, failures : Nat]
           /\ join[c].stage = "idle" /\ <<u, r>> \in member /\ r \notin archived /\ Free(u, r)
           /\ UNCHANGED <<member, archived, huddle, part, current, tasks, lost>>
<1>1. PICK n : n = [NoCall EXCEPT !.stage = "entered", !.user = u, !.room = r, !.part = left.joins]
  OBVIOUS
<1>2. left.joins \in Nat
  BY LeftTypes
<1>3. n \in Joining
  BY <1>1, <1>2, CallTypes DEF Joining, InTx
<1>4. n.stage = "entered" /\ n.user = u /\ n.room = r /\ n.part = left.joins
  BY <1>1 DEF NoCall
<1>5. join' = [join EXCEPT ![c] = n]
  BY <1>1 DEF Join
<1>6. join'[c] = n /\ (\A d \in Callers : d # c => join'[d] = join[d]) /\ join' \in [Callers -> Joining]
  BY <1>3, <1>5 DEF Types
<1>7. left' = [left EXCEPT !.joins = left.joins - 1] /\ left.joins > 0
  BY DEF Join
<1>8. left.joins - 1 \in Nat /\ left.joins - 1 < left.joins
  BY <1>2, <1>7
<1>9. left'.joins = left.joins - 1 /\ left' \in [joins : Nat, changes : Nat, failures : Nat]
  BY <1>7, <1>8 DEF Types
<1> QED
  BY <1>2, <1>4, <1>6, <1>8, <1>9 DEF Join, Stage

LEMMA JoinIds ==
    ASSUME IdsInv, NEW c \in Callers, NEW u \in Users, NEW r \in Rooms, Join(c, u, r)
    PROVE  Identity' /\ OnePlace'
<1>1. /\ \A d \in Callers : d # c => join'[d] = join[d]
      /\ join'[c].stage = "entered" /\ join'[c].part = left.joins
      /\ left.joins \in Nat /\ left'.joins \in Nat /\ left'.joins < left.joins
      /\ part' = part /\ current' = current
  BY JoinFields DEF IdsInv
<1>2. OnePlace'
  BY <1>1 DEF IdsInv, OnePlace
<1>3. ASSUME NEW p \in part
      PROVE  p.id \in Nat /\ left.joins < p.id /\ left'.joins < p.id
  <2>1. p.id \in Nat
    BY PartTypes DEF IdsInv
  <2>2. left.joins < p.id
    BY DEF IdsInv, Identity
  <2> QED
    BY <1>1, <2>1, <2>2
<1>4. \A d \in Callers : join[d].stage # "idle" => join[d].part \in Nat /\ left.joins < join[d].part /\ left'.joins < join[d].part
  BY <1>1, CallTypes DEF IdsInv, Identity, Stage
<1>5. ASSUME NEW d \in Callers
      PROVE  /\ join'[d].stage # "idle" => left'.joins < join'[d].part
             /\ join'[d].stage \in Fresh => \A q \in part' : q.id # join'[d].part
             /\ join'[d].stage \in Placed => \A q \in part' :
                    q.id = join'[d].part => q.user = join'[d].user /\ q.huddle = join'[d].huddle
  <2>1. CASE d = c
    BY <1>1, <1>3, <2>1 DEF Placed
  <2>2. CASE d # c
    BY <1>1, <1>4, <2>2 DEF IdsInv, Identity, Stage
  <2> QED
    BY <2>1, <2>2
<1>6. \A d, e \in Callers : join'[d].stage # "idle" /\ join'[e].stage # "idle" /\ join'[d].part = join'[e].part => d = e
  <2>1. \A d \in Callers : d # c /\ join'[d].stage # "idle" => join'[d].part # join'[c].part
    BY <1>1, <1>4
  <2> QED
    BY <1>1, <2>1 DEF IdsInv, Identity, Stage
<1>7. (\A q \in part' : left'.joins < q.id) /\ \A p, q \in part' : p.id = q.id => p = q
  BY <1>1, <1>3 DEF IdsInv, Identity
<1> QED
  BY <1>2, <1>5, <1>6, <1>7 DEF Identity, Stage

-----------------------------------------------------------------------------
(* The limit. *)

LEMMA InFinite ==
    ASSUME Types, NEW S, S \subseteq part
    PROVE  IsFiniteSet(S) /\ Cardinality(S) \in Nat
BY FS_Subset, FS_CardinalityType DEF Types

\* One participation that is silenced is counted as before.
LEMMA SilencedCount ==
    ASSUME Types, Identity, WithinLimit, NEW i \in Nat, Silenced(i), NEW h \in DOMAIN huddle
    PROVE  IsFiniteSet(part') /\ Cardinality({p \in part' : p.huddle = h}) <= Limit
<1>1. /\ part' = {IF p.id = i THEN Silent(p) ELSE p : p \in part}
      /\ \A p \in part : Silent(p).huddle = p.huddle
  BY PartTypes DEF Silenced, Silent
<1>2. Cardinality(In(h)) <= Limit /\ IsFiniteSet(In(h)) /\ Cardinality(In(h)) \in Nat
  BY InFinite DEF WithinLimit, In
<1>3. CASE ~(\E p \in part : p.id = i)
  <2>1. part' = part
    BY <1>1, <1>3
  <2> QED
    BY <1>2, <2>1 DEF In, Types
<1>4. CASE \E p \in part : p.id = i
  <2>1. PICK p \in part : p.id = i
    BY <1>4
  <2>2. \A q \in part : q.id = i <=> q = p
    BY <2>1 DEF Identity
  <2>3. part' = (part \ {p}) \cup {Silent(p)}
    BY <1>1, <2>1, <2>2
  <2>4. IsFiniteSet(part')
    <3>1. IsFiniteSet(part \ {p})
      BY FS_Subset DEF Types
    <3> QED
      BY <2>3, <3>1, FS_AddElement
  <2>5. CASE p.huddle # h
    <3>1. {q \in part' : q.huddle = h} = In(h)
      BY <1>1, <2>1, <2>3, <2>5 DEF In
    <3> QED
      BY <1>2, <2>4, <3>1
  <2>6. CASE p.huddle = h
    <3>1. {q \in part' : q.huddle = h} = (In(h) \ {p}) \cup {Silent(p)} /\ p \in In(h)
      BY <1>1, <2>1, <2>3, <2>6 DEF In
    <3>2. IsFiniteSet(In(h) \ {p}) /\ Cardinality(In(h) \ {p}) = Cardinality(In(h)) - 1
      BY <1>2, <3>1, FS_RemoveElement
    <3>3. PICK S : S = In(h) \ {p}
      OBVIOUS
    <3>4. IsFiniteSet(S) /\ Cardinality(S) = Cardinality(In(h)) - 1 /\ Cardinality(S) \in Nat
      BY <3>2, <3>3, FS_CardinalityType
    <3>5. Cardinality(S \cup {Silent(p)}) <= Cardinality(S) + 1
      <4>1. CASE Silent(p) \in S
        <5>1. PICK n : n = Cardinality(S)
          OBVIOUS
        <5>2. S \cup {Silent(p)} = S
          BY <4>1
        <5>3. Cardinality(S \cup {Silent(p)}) = n
          BY <5>1, <5>2, Zenon
        <5> QED
          BY <3>4, <5>1, <5>3
      <4>2. CASE Silent(p) \notin S
        <5>1. Cardinality(S \cup {Silent(p)}) = Cardinality(S) + 1
          BY <3>4, <4>2, FS_AddElement
        <5> QED
          BY <3>4, <5>1
      <4> QED
        BY <4>1, <4>2
    <3>6. PICK n : n = Cardinality(S \cup {Silent(p)})
      OBVIOUS
    <3>7. IsFiniteSet(S \cup {Silent(p)}) /\ n \in Nat
      BY <3>4, <3>6, FS_AddElement, FS_CardinalityType
    <3>8. Limit \in Nat
      BY HuddleAssumption
    <3>9. n <= Limit
      BY <1>2, <3>4, <3>5, <3>6, <3>7, <3>8
    <3> QED
      BY <2>4, <3>1, <3>3, <3>6, <3>9
  <2> QED
    BY <2>5, <2>6
<1> QED
  BY <1>3, <1>4

LEMMA RemovedCount ==
    ASSUME Types, WithinLimit, NEW S \in SUBSET part, NEW h \in DOMAIN huddle
    PROVE  IsFiniteSet(S) /\ Cardinality({p \in S : p.huddle = h}) <= Limit
<1>1. Cardinality(In(h)) <= Limit /\ IsFiniteSet(In(h)) /\ Cardinality(In(h)) \in Nat
  BY InFinite DEF WithinLimit, In
<1>2. {p \in S : p.huddle = h} \subseteq In(h)
  BY DEF In
<1>3. Cardinality({p \in S : p.huddle = h}) <= Cardinality(In(h)) /\ Cardinality({p \in S : p.huddle = h}) \in Nat
  BY <1>1, <1>2, FS_Subset, FS_CardinalityType
<1> QED
  BY <1>1, <1>3, InFinite, HuddleAssumption

LEMMA PlacingCount ==
    ASSUME Types, Entered, RowsInv, WithinLimit, NEW c \in Callers, NEW a \in BOOLEAN, Placing(c, a),
           NEW h \in DOMAIN huddle
    PROVE  IsFiniteSet(part') /\ Cardinality({p \in part' : p.huddle = h}) <= Limit
<1> DEFINE rest == part \ Of(join[c].user)
<1>1. part' = rest \cup {New(c, a)} /\ rest \subseteq part /\ New(c, a).huddle = join[c].huddle
  BY PlacingFields DEF Placing
<1>2. IsFiniteSet(part')
  <2>1. IsFiniteSet(rest)
    BY <1>1, InFinite
  <2> QED
    BY <1>1, <2>1, FS_AddElement
<1>3. CASE h # join[c].huddle
  <2>1. {p \in part' : p.huddle = h} = {p \in rest : p.huddle = h}
    BY <1>1, <1>3
  <2> QED
    BY <1>1, <1>2, <2>1, RemovedCount
<1>4. CASE h = join[c].huddle
  <2>1. {p \in part' : p.huddle = h} = (In(h) \ Of(join[c].user)) \cup {New(c, a)}
    BY <1>1, <1>4 DEF In
  <2>2. PICK S : S = In(h) \ Of(join[c].user)
    OBVIOUS
  <2>3. IsFiniteSet(S) /\ Cardinality(S) \in Nat
    BY <2>2, InFinite DEF In
  <2>4. Cardinality(S) < Limit
    BY <1>4, <2>2 DEF Placing, Seated, Old
  <2>5. Cardinality(S \cup {New(c, a)}) \in {Cardinality(S), Cardinality(S) + 1}
    BY <2>3, FS_AddElement
  <2>6. Limit \in Nat
    BY HuddleAssumption
  <2>7. Cardinality(S \cup {New(c, a)}) <= Limit
    BY <2>3, <2>4, <2>5, <2>6
  <2> QED
    BY <1>2, <2>1, <2>2, <2>7
<1> QED
  BY <1>3, <1>4
-----------------------------------------------------------------------------
(* What the steps do to the rows. *)

\* Rows are added, keep their rooms, and once ended stay so.
Grown ==
    /\ huddle' \in Seq(Row) /\ DOMAIN huddle \subseteq DOMAIN huddle'
    /\ \A h \in DOMAIN huddle : /\ huddle'[h].room = huddle[h].room
                                /\ huddle[h].state = "ended" => huddle'[h].state = "ended"

LEMMA LockedRow ==
    ASSUME Types, RowsInv, NEW c \in Callers, Stage(c) \in Locking, NEW f,
           f \in {Committed(join[c].huddle), RolledBack(join[c].huddle)}
    PROVE  /\ join[c].huddle \in DOMAIN huddle /\ f \in Seq(Row) /\ DOMAIN f = DOMAIN huddle
           /\ \A k \in DOMAIN huddle : /\ f[k].room = huddle[k].room
                                       /\ k # join[c].huddle => f[k] = huddle[k]
                                       /\ huddle[k].state # "starting" => f[k] = huddle[k]
<1>1. join[c].huddle \in DOMAIN huddle
  BY DEF RowsInv
<1> QED
  BY <1>1, Ends

\* An empty huddle is ended.
LEMMA EmptyEnds ==
    ASSUME Types, NEW t, DoEndIfEmpty(t)
    PROVE  \/ huddle' = huddle
           \/ /\ t.huddle \in DOMAIN huddle /\ huddle' = Set(t.huddle, "ended")
              /\ huddle[t.huddle].state = "active" /\ In(t.huddle) = {} /\ ~Locked(t.huddle)
<1>1. CASE t.huddle \in DOMAIN huddle
  BY <1>1 DEF DoEndIfEmpty
<1>2. CASE t.huddle \notin DOMAIN huddle
  <2>1. huddle = [k \in DOMAIN huddle |-> huddle[k]]
    BY DEF Types
  <2>2. PICK f : f = Set(t.huddle, "ended")
    OBVIOUS
  <2>3. f = huddle
    BY <1>2, <2>1, <2>2 DEF Set
  <2> QED
    BY <2>2, <2>3 DEF DoEndIfEmpty
<1> QED
  BY <1>1, <1>2

LEMMA CallGrows ==
    ASSUME Types, Entered, RowsInv, NEW c \in Callers, Call(c) \/ JoinFails(c)
    PROVE  Grown
<1>1. CASE huddle' = huddle
  BY <1>1 DEF Grown, Types
<1>2. CASE Start(c) /\ huddle' # huddle
  <2>1. huddle' = Append(huddle, [room |-> join[c].room, state |-> "starting"])
    BY <1>2 DEF Start
  <2>2. join[c].room \in Rooms
    BY <1>2 DEF Start, Entered, InTx
  <2>3. PICK row \in Row : row = [room |-> join[c].room, state |-> "starting"]
    BY <2>2 DEF Row
  <2>4. PICK f : f = huddle'
    OBVIOUS
  <2>5. f = Append(huddle, row)
    BY <2>1, <2>3, <2>4
  <2>6. f \in Seq(Row) /\ DOMAIN f = DOMAIN huddle \cup {Len(huddle) + 1}
    BY <2>5, Begun
  <2>7. \A k \in DOMAIN huddle : f[k] = huddle[k]
    BY <2>5, Begun
  <2> QED
    BY <2>4, <2>6, <2>7 DEF Grown
<1>3. CASE Stage(c) \in Locking /\ huddle' \in {Committed(join[c].huddle), RolledBack(join[c].huddle)}
  <2>1. PICK f : f = huddle'
    OBVIOUS
  <2> QED
    BY <1>3, <2>1, LockedRow DEF Grown
<1>4. \/ huddle' = huddle
      \/ Start(c)
      \/ Stage(c) \in Locking /\ huddle' \in {Committed(join[c].huddle), RolledBack(join[c].huddle)}
  BY DEF Call, JoinAgain, LockActive, Write, WriteLate, Commit, Undo, JoinFails, Locking
<1> QED
  BY <1>1, <1>2, <1>3, <1>4

LEMMA RowsGrow ==
    ASSUME Types, Entered, RowsInv, [Next]_vars
    PROVE  Grown
<1>1. CASE huddle' = huddle
  BY <1>1 DEF Grown, Types
<1>2. ASSUME NEW c \in Callers, Call(c) \/ JoinFails(c)
      PROVE  Grown
  BY <1>2, CallGrows
<1>3. ASSUME NEW r,
             huddle' = [h \in DOMAIN huddle |-> IF h \in Active(r) THEN [huddle[h] EXCEPT !.state = "ended"] ELSE huddle[h]]
      PROVE  Grown
  <2>1. PICK f : f = huddle'
    OBVIOUS
  <2>2. /\ f \in Seq(Row) /\ DOMAIN f = DOMAIN huddle
        /\ \A k \in DOMAIN huddle : /\ f[k].room = huddle[k].room
                                    /\ k \in Active(r) => f[k].state = "ended"
                                    /\ k \notin Active(r) => f[k] = huddle[k]
    BY <1>3, <2>1, RoomEnds
  <2> QED
    BY <2>1, <2>2 DEF Grown
<1>4. ASSUME NEW t, DoEndIfEmpty(t)
      PROVE  Grown
  <2>1. CASE t.huddle \in DOMAIN huddle /\ huddle' = Set(t.huddle, "ended")
    <3>1. PICK f : f = huddle'
      OBVIOUS
    <3>2. /\ f \in Seq(Row) /\ DOMAIN f = DOMAIN huddle
          /\ f[t.huddle].state = "ended" /\ f[t.huddle].room = huddle[t.huddle].room
          /\ \A k \in DOMAIN huddle : k # t.huddle => f[k] = huddle[k]
      BY <2>1, <3>1, SetState
    <3> QED
      BY <3>1, <3>2 DEF Grown
  <2> QED
    BY <1>1, <1>4, <2>1, EmptyEnds
<1>5. \/ huddle' = huddle
      \/ \E c \in Callers : Call(c) \/ JoinFails(c)
      \/ \E r \in Rooms : DeleteRoom(r)
      \/ \E t \in tasks : DoEndIfEmpty(t) \/ DoEndRoom(t)
  BY DEF Next, vars, Task, Join, Leave, RemovePart, Vanish, RemoveMember, Archive, DoClear, DoRemove, Lose
<1>6. ASSUME NEW r, DeleteRoom(r)
      PROVE  Grown
  BY <1>3, <1>6 DEF DeleteRoom
<1>7. ASSUME NEW t, DoEndRoom(t)
      PROVE  Grown
  BY <1>3, <1>7 DEF DoEndRoom
<1> QED
  BY <1>1, <1>2, <1>4, <1>5, <1>6, <1>7

-----------------------------------------------------------------------------
(* The types, and the limit. *)

LEMMA SilencedFinite ==
    ASSUME Types, Identity, NEW i \in Nat, Silenced(i)
    PROVE  IsFiniteSet(part')
<1>1. part' = {IF p.id = i THEN Silent(p) ELSE p : p \in part}
  BY DEF Silenced
<1>2. CASE ~(\E p \in part : p.id = i)
  BY <1>1, <1>2 DEF Types
<1>3. CASE \E p \in part : p.id = i
  <2>1. PICK p \in part : p.id = i
    BY <1>3
  <2>2. \A q \in part : q.id = i <=> q = p
    BY <2>1 DEF Identity
  <2>3. part' = (part \ {p}) \cup {Silent(p)}
    BY <1>1, <2>1, <2>2
  <2>4. IsFiniteSet(part \ {p})
    BY InFinite
  <2> QED
    BY <2>3, <2>4, FS_AddElement
<1> QED
  BY <1>2, <1>3

\* Whoever is in a huddle after a step is in one that was begun before it.
LEMMA PartsStep ==
    ASSUME IdsInv, Entered, RowsInv, WithinLimit, [Next]_vars
    PROVE  /\ IsFiniteSet(part')
           /\ \A p \in part' : p.huddle \in DOMAIN huddle
           /\ \A h \in DOMAIN huddle : Cardinality({p \in part' : p.huddle = h}) <= Limit
<1>0. Types /\ Identity /\ \A p \in part : p.huddle \in DOMAIN huddle
  BY DEF IdsInv, RowsInv
<1>1. CASE part' \subseteq part
  BY <1>0, <1>1, RemovedCount, InFinite
<1>2. ASSUME NEW i \in Nat, Silenced(i)
      PROVE  /\ IsFiniteSet(part')
             /\ \A p \in part' : p.huddle \in DOMAIN huddle
             /\ \A h \in DOMAIN huddle : Cardinality({p \in part' : p.huddle = h}) <= Limit
  BY <1>0, <1>2, SilencedFinite, SilencedCount, SilencedParts
<1>3. ASSUME NEW c \in Callers, NEW a \in BOOLEAN, Placing(c, a)
      PROVE  /\ IsFiniteSet(part')
             /\ \A p \in part' : p.huddle \in DOMAIN huddle
             /\ \A h \in DOMAIN huddle : Cardinality({p \in part' : p.huddle = h}) <= Limit
  <2>1. join[c].huddle \in DOMAIN huddle
    BY <1>0, <1>3, PlacingFields
  <2>2. New(c, a).huddle = join[c].huddle /\ part' = (part \ Of(join[c].user)) \cup {New(c, a)}
    BY <1>3 DEF New, Placing
  <2> QED
    BY <1>0, <1>3, <2>1, <2>2, PlacingCount
<1> QED
  BY <1>0, <1>1, <1>2, <1>3, Kinds, JoinFields DEF Unplaced, Removed

\* Types, who is who, one place for everybody and the limit after a step.
LEMMA IdsStep ==
    ASSUME IdsInv, Entered, RowsInv, WithinLimit, [Next]_vars
    PROVE  IdsInv' /\ WithinLimit' /\ \A p \in part' : p.huddle \in DOMAIN huddle'
<1>0. Types /\ Identity
  BY DEF IdsInv
<1>1. Grown
  BY <1>0, RowsGrow
<1>2. /\ IsFiniteSet(part')
      /\ \A p \in part' : p.huddle \in DOMAIN huddle
      /\ \A h \in DOMAIN huddle : Cardinality({p \in part' : p.huddle = h}) <= Limit
  BY PartsStep
<1>3. /\ Identity' /\ OnePlace' /\ part' \subseteq Participation /\ current' \in [Users -> Nat]
      /\ join' \in [Callers -> Joining] /\ left' \in [joins : Nat, changes : Nat, failures : Nat]
  <2>1. CASE Follows /\ Unplaced
    <3>1. Removed({})
      BY <1>0, <2>1 DEF Unplaced, Removed, Forget, Types
    <3> QED
      BY <2>1, <3>1, RemovedIds DEF Follows
  <2>2. ASSUME Follows, NEW i \in Nat, Silenced(i)
        PROVE  /\ Identity' /\ OnePlace' /\ part' \subseteq Participation /\ current' \in [Users -> Nat]
               /\ join' \in [Callers -> Joining] /\ left' \in [joins : Nat, changes : Nat, failures : Nat]
    BY <2>2, SilencedIds DEF Follows
  <2>3. ASSUME Follows, NEW P, Removed(P)
        PROVE  /\ Identity' /\ OnePlace' /\ part' \subseteq Participation /\ current' \in [Users -> Nat]
               /\ join' \in [Callers -> Joining] /\ left' \in [joins : Nat, changes : Nat, failures : Nat]
    BY <2>3, RemovedIds DEF Follows
  <2>4. ASSUME NEW c \in Callers, NEW a \in BOOLEAN, Placing(c, a)
        PROVE  /\ Identity' /\ OnePlace' /\ part' \subseteq Participation /\ current' \in [Users -> Nat]
               /\ join' \in [Callers -> Joining] /\ left' \in [joins : Nat, changes : Nat, failures : Nat]
    BY <1>0, <2>4, PlacingIds, PlacingFields DEF Types
  <2>5. ASSUME NEW c \in Callers, NEW u \in Users, NEW r \in Rooms, Join(c, u, r)
        PROVE  /\ Identity' /\ OnePlace' /\ part' \subseteq Participation /\ current' \in [Users -> Nat]
               /\ join' \in [Callers -> Joining] /\ left' \in [joins : Nat, changes : Nat, failures : Nat]
    BY <1>0, <2>5, JoinIds, JoinFields DEF Types
  <2> QED
    BY <1>0, <2>1, <2>2, <2>3, <2>4, <2>5, Kinds
<1>4. Types'
  BY <1>1, <1>2, <1>3 DEF Types, Grown
<1>5. WithinLimit'
  <2>1. ASSUME NEW h \in DOMAIN huddle'
        PROVE  Cardinality({p \in part' : p.huddle = h}) <= Limit
    <3>1. CASE h \in DOMAIN huddle
      BY <1>2, <3>1
    <3>2. CASE h \notin DOMAIN huddle
      <4>1. {p \in part' : p.huddle = h} = {}
        BY <1>2, <3>2
      <4>2. Cardinality({}) = 0
        BY FS_EmptySet
      <4>3. 0 <= Limit
        BY HuddleAssumption
      <4>4. Cardinality({p \in part' : p.huddle = h}) = 0
        BY <4>1, <4>2, Zenon
      <4> QED
        BY <4>3, <4>4
    <3> QED
      BY <3>1, <3>2
  <2> QED
    BY <2>1 DEF WithinLimit, In
<1> QED
  BY <1>1, <1>2, <1>3, <1>4, <1>5 DEF IdsInv, Grown
-----------------------------------------------------------------------------
(* The calls, one step at a time. *)

\* The stages a step of a call leads to; the other calls stay as they are.
LEMMA CallStages ==
    ASSUME Types, NEW c \in Callers, Call(c) \/ JoinFails(c)
    PROVE  /\ \A d \in Callers : d # c => join'[d] = join[d]
           /\ Commit(c) \/ Undo(c) => join'[c].stage = "idle"
           /\ JoinFails(c) => join'[c].stage \in {"idle", "undo", "late"}
           /\ join'[c].stage = "late" => join[c].stage = "locked" /\ join'[c].huddle = join[c].huddle
           /\ WriteLate(c) => join[c].stage = "late" /\ join'[c].stage = "idle"
           /\ JoinAgain(c) => \/ join'[c].stage = "idle"
                              \/ join'[c].stage = "entered" /\ <<join[c].user, join[c].room>> \in member
           /\ Write(c) => \/ join'[c].stage = "idle" /\ huddle' = RolledBack(join[c].huddle)
                          \/ join'[c].stage = "written" /\ huddle' = huddle /\ Placing(c, TRUE)
<1>1. NoCall \in Joining /\ NoCall.stage = "idle" /\ join[c] \in Joining /\ join \in [Callers -> Joining]
  BY CallTypes, NoCallIdle DEF Types
<1>2. PICK undone : undone = [join[c] EXCEPT !.stage = "undo"]
  OBVIOUS
<1>3. PICK entered : entered = [join[c] EXCEPT !.stage = "entered"]
  OBVIOUS
<1>4. undone.stage = "undo" /\ entered.stage = "entered"
  BY <1>1, <1>2, <1>3 DEF Joining
<1>5. \A d \in Callers : d # c => join'[d] = join[d]
  BY <1>1 DEF Call, JoinAgain, LockActive, Start, Write, WriteLate, Commit, Undo, JoinFails
<1>6. JoinFails(c) => join'[c].stage \in {"idle", "undo", "late"}
  <2>1. PICK late : late = [join[c] EXCEPT !.stage = "late"]
    OBVIOUS
  <2>2. late.stage = "late"
    BY <1>1, <2>1 DEF Joining
  <2>3. JoinFails(c) => join'[c] \in {undone, late, NoCall}
    BY <1>1, <1>2, <2>1 DEF JoinFails
  <2> QED
    BY <1>1, <1>4, <2>2, <2>3
<1>7. ASSUME JoinAgain(c)
      PROVE  \/ join'[c].stage = "idle"
             \/ join'[c].stage = "entered" /\ <<join[c].user, join[c].room>> \in member
  <2>1. join' = [join EXCEPT ![c] = IF <<join[c].user, join[c].room>> \in member /\ join[c].room \notin archived
                                    THEN entered ELSE NoCall]
    BY <1>3, <1>7 DEF JoinAgain
  <2> QED
    BY <1>1, <1>4, <2>1
<1>8. ASSUME Write(c)
      PROVE  \/ join'[c].stage = "idle" /\ huddle' = RolledBack(join[c].huddle)
             \/ join'[c].stage = "written" /\ huddle' = huddle /\ Placing(c, TRUE)
  <2>1. CASE Full(c)
    BY <1>1, <1>8, <2>1 DEF Write
  <2>2. CASE ~Full(c)
    <3>1. join'[c].stage = "written" /\ huddle' = huddle
      BY <1>1, <1>8, <2>2 DEF Write, Joining
    <3>2. ~Follows
      BY <1>8, <3>1 DEF Follows, Write, Stage, Placed
    <3> QED
      BY <1>8, <3>1, <3>2, WritePlaces
  <2> QED
    BY <2>1, <2>2
<1>9. Commit(c) \/ Undo(c) \/ WriteLate(c) => join'[c].stage = "idle"
  BY <1>1 DEF Commit, Undo, WriteLate
<1>10. WriteLate(c) => join[c].stage = "late"
  BY DEF WriteLate, Stage
<1>11. ASSUME join'[c].stage = "late" PROVE join[c].stage = "locked" /\ join'[c].huddle = join[c].huddle
  <2>1. JoinFails(c)
    <3>1. CASE JoinAgain(c) \/ LockActive(c) \/ Start(c) \/ Commit(c) \/ Undo(c)
      <4>1. join[c].stage \in {"locked", "late"}
        BY <1>11, <3>1, CallFollows, UndoFollows DEF Follows
      <4> QED
        BY <3>1, <4>1 DEF JoinAgain, LockActive, Start, Commit, Undo, Stage
    <3> QED
      BY <1>8, <1>9, <1>11, <3>1 DEF Call
  <2>2. join[c].stage \in {"locked", "late"} /\ join'[c].huddle = join[c].huddle
    BY <1>11, <2>1, FailsFollows DEF Follows
  <2> QED
    BY <2>1, <2>2 DEF JoinFails, InTx, Stage
<1> QED
  BY <1>5, <1>6, <1>7, <1>8, <1>9, <1>10, <1>11

\* The call finds the active huddle, which nobody has locked, or is to start one.
LEMMA LockStages ==
    ASSUME Types, NEW c \in Callers, LockActive(c)
    PROVE  /\ Stage(c) = "entered" /\ huddle' = huddle
           /\ \/ join'[c].stage = "starting"
              \/ /\ join'[c].stage = "locked" /\ join'[c].huddle \in Active(join[c].room)
                 /\ ~Locked(join'[c].huddle)
<1>1. join[c] \in Joining /\ join \in [Callers -> Joining]
  BY CallTypes DEF Types
<1>2. PICK h : h = CHOOSE k \in Active(join[c].room) : TRUE
  OBVIOUS
<1>3. PICK r : r = IF Active(join[c].room) = {} THEN [join[c] EXCEPT !.stage = "starting"]
                   ELSE [join[c] EXCEPT !.stage = "locked", !.huddle = h]
  OBVIOUS
<1>4. join' = [join EXCEPT ![c] = r] /\ \A k \in Active(join[c].room) : ~Locked(k)
  BY <1>2, <1>3 DEF LockActive
<1>5. \/ r.stage = "starting"
      \/ r.stage = "locked" /\ r.huddle = h /\ h \in Active(join[c].room)
  BY <1>1, <1>2, <1>3 DEF Joining
<1> QED
  BY <1>1, <1>4, <1>5 DEF LockActive

\* The call begins a huddle, or finds that another has.
LEMMA StartStages ==
    ASSUME Types, NEW c \in Callers, Start(c)
    PROVE  /\ Stage(c) = "starting"
           /\ \/ join'[c].stage \in {"idle", "again"} /\ huddle' = huddle
              \/ /\ join'[c].stage = "locked" /\ join'[c].huddle = Len(huddle) + 1
                 /\ huddle' = Append(huddle, [room |-> join[c].room, state |-> "starting"])
<1>1. NoCall.stage = "idle" /\ join[c] \in Joining /\ join \in [Callers -> Joining]
  BY CallTypes, NoCallIdle DEF Types
<1>2. CASE Active(join[c].room) # {}
  <2>1. PICK a : a = [join[c] EXCEPT !.stage = "again", !.tries = join[c].tries - 1]
    OBVIOUS
  <2>2. a.stage = "again"
    BY <1>1, <2>1 DEF Joining
  <2>3. join' = [join EXCEPT ![c] = IF join[c].tries > 1 THEN a ELSE NoCall] /\ huddle' = huddle
    BY <1>2, <2>1 DEF Start
  <2> QED
    BY <1>1, <2>2, <2>3 DEF Start
<1>3. CASE Active(join[c].room) = {}
  <2>1. /\ join' = [join EXCEPT ![c].stage = "locked", ![c].huddle = Len(huddle) + 1]
        /\ huddle' = Append(huddle, [room |-> join[c].room, state |-> "starting"])
    BY <1>3 DEF Start
  <2>2. join'[c].stage = "locked" /\ join'[c].huddle = Len(huddle) + 1
    BY <1>1, <2>1 DEF Joining
  <2> QED
    BY <2>1, <2>2 DEF Start
<1> QED
  BY <1>2, <1>3

\* What a call keeps: who calls, for which room, and which huddle it has locked.
LEMMA CallKeeps ==
    ASSUME Types, NEW c \in Callers, Call(c) \/ JoinFails(c), join'[c].stage # "idle"
    PROVE  /\ join[c].stage # "idle" /\ join'[c].part = join[c].part
           /\ join'[c].user = join[c].user /\ join'[c].room = join[c].room
           /\ join'[c].stage = "written" => Stage(c) = "locked" /\ join'[c].huddle = join[c].huddle
<1>1. CASE Follows
  <2>1. join'[c].stage = "written" => join[c].stage \in Placed
    BY <1>1 DEF Follows, Placed
  <2>2. Write(c) => join[c].stage = "locked"
    BY DEF Write, Stage
  <2>3. join'[c].stage # "written"
    BY CallStages, LockStages, StartStages, <2>1, <2>2 DEF Call, Placed
  <2> QED
    BY <1>1, <2>3 DEF Follows
<1>2. ASSUME NEW a \in BOOLEAN, Placing(c, a)
      PROVE  /\ join[c].stage # "idle" /\ join'[c].part = join[c].part
             /\ join'[c].user = join[c].user /\ join'[c].room = join[c].room
             /\ join'[c].stage = "written" => Stage(c) = "locked" /\ join'[c].huddle = join[c].huddle
  BY <1>2 DEF Placing, Stage, Types
<1> QED
  BY <1>1, <1>2, CallFollows, FailsFollows, UndoFollows, WritePlaces DEF Call

-----------------------------------------------------------------------------
(* A join holds the membership that it has read. *)

LEMMA EnteredStep ==
    ASSUME Types, Entered, [Next]_vars
    PROVE  Entered'
<1>1. ASSUME NEW c \in Callers, Call(c) \/ JoinFails(c)
      PROVE  Entered'
  <2>1. /\ \A d \in Callers : d # c => join'[d] = join[d]
        /\ member' = member
    BY <1>1, CallStages DEF Call, JoinAgain, LockActive, Start, Write, WriteLate, Commit, Undo, JoinFails
  <2>2. CASE join'[c].stage \notin InTx \cup {"late"}
    BY <2>1, <2>2 DEF Entered, Stage
  <2>4. CASE join'[c].stage = "late"
    <3>1. join[c].stage = "locked" /\ join'[c].user = join[c].user
      BY <1>1, <2>4, CallStages, CallKeeps
    <3>2. join'[c].user \in Users
      BY <3>1 DEF Entered, Stage, InTx
    <3> QED
      BY <2>1, <2>4, <3>2 DEF Entered, Stage, InTx
  <2>3. CASE join'[c].stage \in InTx
    <3>1. join'[c].user = join[c].user /\ join'[c].room = join[c].room
      BY <1>1, <2>3, CallKeeps DEF InTx
    <3>2. CASE JoinAgain(c)
      <4>1. <<join[c].user, join[c].room>> \in member
        BY <3>2, <2>3, CallStages DEF InTx, Call
      <4>2. join[c].user \in Users /\ join[c].room \in Rooms
        BY <4>1 DEF Entered
      <4> QED
        BY <2>1, <3>1, <4>1, <4>2 DEF Entered, Stage
    <3>3. CASE ~JoinAgain(c)
      <4>1. Stage(c) \in InTx
        BY <1>1, <2>3, <3>3, CallStages DEF Call, LockActive, Start, Write, WriteLate, Commit, Undo, JoinFails, InTx
      <4> QED
        BY <2>1, <3>1, <4>1 DEF Entered, Stage
    <3> QED
      BY <3>2, <3>3
  <2> QED
    BY <2>2, <2>3, <2>4, Zenon
<1>2. ASSUME NEW c \in Callers, NEW u \in Users, NEW r \in Rooms, Join(c, u, r)
      PROVE  Entered'
  <2>1. /\ \A d \in Callers : d # c => join'[d] = join[d]
        /\ join'[c].user = u /\ join'[c].room = r /\ <<u, r>> \in member /\ member' = member
    BY <1>2, JoinFields
  <2> QED
    BY <2>1 DEF Entered, Stage
<1>3. ASSUME NEW u \in Users, NEW r \in Rooms, RemoveMember(u, r)
      PROVE  Entered'
  BY <1>3 DEF RemoveMember, Free, Entered, Stage
<1>4. ASSUME NEW r \in Rooms, DeleteRoom(r)
      PROVE  Entered'
  <2>1. join' = join /\ member' = member \ (Users \X {r}) /\ \A c \in Callers : Stage(c) \in InTx => join[c].room # r
    BY <1>4 DEF DeleteRoom
  <2> QED
    BY <2>1 DEF Entered, Stage
<1>5. CASE join' = join /\ member' = member
  BY <1>5 DEF Entered, Stage
<1>6. \/ \E c \in Callers : Call(c) \/ JoinFails(c)
      \/ \E c \in Callers : \E u \in Users : \E r \in Rooms : Join(c, u, r)
      \/ \E u \in Users, r \in Rooms : RemoveMember(u, r)
      \/ \E r \in Rooms : DeleteRoom(r)
      \/ join' = join /\ member' = member
  BY DEF Next, vars, Leave, RemovePart, Vanish, Archive, Task, DoEndIfEmpty, DoClear, DoEndRoom, DoRemove, Lose
<1> QED
  BY <1>1, <1>2, <1>3, <1>4, <1>5, <1>6
-----------------------------------------------------------------------------
(* The rows that are locked, and those to be cleared. *)

\* No call locks a row by the step, no locked row is ended, and what is to be cleared has
\* ended.
Loosened ==
    /\ \A c \in Callers : join'[c].stage \in Locking =>
        /\ join[c].stage \in Locking /\ join'[c].huddle = join[c].huddle /\ join'[c].room = join[c].room
        /\ huddle'[join[c].huddle].state \in {"starting", "active"}
    /\ \A c \in Callers : join'[c].stage = "late" =>
        /\ join[c].stage \in Locking \cup {"late"} /\ join'[c].huddle = join[c].huddle
    /\ \A t \in tasks' \cup lost' : t.kind = "clear" =>
        t \in tasks \cup lost \/ (t.huddle \in DOMAIN huddle /\ huddle'[t.huddle].state = "ended")

LEMMA LoosenedRows ==
    ASSUME RowsInv, Grown, Loosened, \A p \in part' : p.huddle \in DOMAIN huddle'
    PROVE  RowsInv'
<1>1. \A c \in Callers : join'[c].stage \in Locking =>
        /\ join'[c].huddle \in DOMAIN huddle'
        /\ huddle'[join'[c].huddle].room = join'[c].room
        /\ huddle'[join'[c].huddle].state \in {"starting", "active"}
  BY DEF Grown, Loosened, RowsInv, Stage
<1>2. \A c, d \in Callers : join'[c].stage \in Locking /\ join'[d].stage \in Locking
                            /\ join'[c].huddle = join'[d].huddle => c = d
  BY DEF Loosened, RowsInv, Stage
<1>3. ASSUME NEW t \in tasks' \cup lost', t.kind = "clear"
      PROVE  t.huddle \in DOMAIN huddle' /\ huddle'[t.huddle].state = "ended"
  <2>1. CASE t \in tasks \cup lost
    <3>1. t.huddle \in DOMAIN huddle /\ huddle[t.huddle].state = "ended"
      BY <1>3, <2>1 DEF RowsInv, ClearOf
    <3> QED
      BY <3>1 DEF Grown
  <2> QED
    BY <1>3, <2>1 DEF Grown, Loosened
<1>4. \A c \in Callers : join'[c].stage = "late" => join'[c].huddle \in DOMAIN huddle'
  BY DEF Grown, Loosened, RowsInv, Stage
<1> QED
  BY <1>1, <1>2, <1>3, <1>4 DEF RowsInv, ClearOf, Stage

\* Steps that add nothing to clear.
LEMMA NothingToClear ==
    /\ \A H : \A t \in EndIfEmpty(H) : t.kind = "end if empty"
    /\ \A u, r : ToRemove(u, r).kind = "remove" /\ ToEnd(r).kind = "end room"
    /\ \A h : ToClear(h).kind = "clear" /\ ToClear(h).huddle = h
<1>1. ASSUME NEW H, NEW t \in EndIfEmpty(H) PROVE t.kind = "end if empty"
  <2>1. PICK h \in H : t = [kind |-> "end if empty", huddle |-> h, room |-> NoRoom, user |-> NoUser]
    BY <1>1 DEF EndIfEmpty
  <2> QED
    BY <2>1
<1>2. ASSUME NEW u, NEW r PROVE ToRemove(u, r).kind = "remove" /\ ToEnd(r).kind = "end room"
  BY DEF ToRemove, ToEnd
<1>3. ASSUME NEW h PROVE ToClear(h).kind = "clear" /\ ToClear(h).huddle = h
  BY DEF ToClear
<1> QED
  BY <1>1, <1>2, <1>3

LEMMA CallLoosens ==
    ASSUME Types, Entered, RowsInv, NEW c \in Callers,
           Write(c) \/ WriteLate(c) \/ Commit(c) \/ Undo(c) \/ JoinAgain(c) \/ JoinFails(c)
    PROVE  Loosened
<1>1. \A d \in Callers : d # c => join'[d] = join[d]
  BY CallStages DEF Call
<1>2. \A t \in tasks' \cup lost' : t.kind = "clear" => t \in tasks \cup lost
  BY NothingToClear DEF Write, WriteLate, Commit, Undo, JoinAgain, JoinFails
<1>3. /\ join'[c].stage \in Locking =>
           /\ Write(c) /\ huddle' = huddle /\ join[c].stage \in Locking
           /\ join'[c].huddle = join[c].huddle /\ join'[c].room = join[c].room
  BY CallStages, CallKeeps DEF Call, Locking, Stage
<1>4. \/ huddle' = huddle
      \/ Stage(c) \in Locking /\ huddle' \in {Committed(join[c].huddle), RolledBack(join[c].huddle)}
  BY DEF Write, WriteLate, Commit, Undo, JoinAgain, JoinFails, Locking
<1>5. ASSUME NEW d \in Callers, d # c, join[d].stage \in Locking
      PROVE  huddle'[join[d].huddle].state \in {"starting", "active"}
  <2>1. join[d].huddle \in DOMAIN huddle /\ huddle[join[d].huddle].state \in {"starting", "active"}
    BY <1>5 DEF RowsInv, Stage
  <2>2. CASE Stage(c) \in Locking /\ huddle' \in {Committed(join[c].huddle), RolledBack(join[c].huddle)}
    <3>1. join[c].huddle # join[d].huddle
      BY <1>5, <2>2 DEF RowsInv, Stage
    <3>2. PICK f : f = huddle'
      OBVIOUS
    <3>3. f[join[d].huddle] = huddle[join[d].huddle]
      BY <2>1, <2>2, <3>1, <3>2, LockedRow
    <3> QED
      BY <2>1, <3>2, <3>3
  <2> QED
    BY <1>4, <2>1, <2>2
<1>6. ASSUME NEW d \in Callers, join'[d].stage = "late"
      PROVE  join[d].stage \in Locking \cup {"late"} /\ join'[d].huddle = join[d].huddle
  BY <1>1, <1>6, CallStages DEF Call, Locking
<1> QED
  <2>1. ASSUME NEW d \in Callers, join'[d].stage \in Locking
        PROVE  /\ join[d].stage \in Locking /\ join'[d].huddle = join[d].huddle /\ join'[d].room = join[d].room
               /\ huddle'[join[d].huddle].state \in {"starting", "active"}
    <3>1. CASE d = c
      BY <1>3, <2>1, <3>1 DEF RowsInv, Stage
    <3>2. CASE d # c
      BY <1>1, <1>5, <2>1, <3>2
    <3> QED
      BY <3>1, <3>2
  <2> QED
    BY <1>2, <1>6, <2>1 DEF Loosened

\* The active huddles of a room end: none is locked.
LEMMA RoomLoosens ==
    ASSUME Types, RowsInv, NEW r, join' = join,
           huddle' = [h \in DOMAIN huddle |-> IF h \in Active(r) THEN [huddle[h] EXCEPT !.state = "ended"] ELSE huddle[h]],
           \A h \in Active(r) : ~Locked(h),
           tasks' \subseteq tasks \cup {ToClear(h) : h \in Active(r)}, lost' = lost
    PROVE  Loosened
<1>1. PICK f : f = huddle'
  OBVIOUS
<1>2. /\ f \in Seq(Row) /\ DOMAIN f = DOMAIN huddle
      /\ \A k \in DOMAIN huddle : /\ f[k].room = huddle[k].room
                                  /\ k \in Active(r) => f[k].state = "ended"
                                  /\ k \notin Active(r) => f[k] = huddle[k]
  BY <1>1, RoomEnds
<1>3. ASSUME NEW c \in Callers, join[c].stage \in Locking
      PROVE  huddle'[join[c].huddle].state \in {"starting", "active"}
  <2>1. join[c].huddle \in DOMAIN huddle /\ huddle[join[c].huddle].state \in {"starting", "active"}
    BY <1>3 DEF RowsInv, Stage
  <2>2. Locked(join[c].huddle)
    BY <1>3 DEF Locked
  <2> QED
    BY <1>1, <1>2, <2>1, <2>2
<1>4. ASSUME NEW t \in tasks' \cup lost', t.kind = "clear"
      PROVE  t \in tasks \cup lost \/ (t.huddle \in DOMAIN huddle /\ huddle'[t.huddle].state = "ended")
  <2>1. CASE t \in {ToClear(h) : h \in Active(r)}
    <3>1. PICK h \in Active(r) : t.huddle = h
      BY <2>1, NothingToClear
    <3> QED
      BY <1>1, <1>2, <3>1 DEF Active
  <2> QED
    BY <2>1
<1> QED
  BY <1>3, <1>4 DEF Loosened

LEMMA EmptyLoosens ==
    ASSUME Types, RowsInv, NEW t, DoEndIfEmpty(t)
    PROVE  Loosened
<1>1. join' = join /\ \A s \in tasks' \cup lost' : s.kind = "clear" => s \in tasks \cup lost
  BY DEF DoEndIfEmpty
<1>2. ASSUME NEW c \in Callers, join[c].stage \in Locking
      PROVE  huddle'[join[c].huddle].state \in {"starting", "active"}
  <2>1. join[c].huddle \in DOMAIN huddle /\ huddle[join[c].huddle].state \in {"starting", "active"}
    BY <1>2 DEF RowsInv, Stage
  <2>2. CASE t.huddle \in DOMAIN huddle /\ huddle' = Set(t.huddle, "ended") /\ ~Locked(t.huddle)
    <3>1. join[c].huddle # t.huddle
      BY <1>2, <2>2 DEF Locked
    <3>2. PICK f : f = huddle'
      OBVIOUS
    <3>3. f[join[c].huddle] = huddle[join[c].huddle]
      BY <2>1, <2>2, <3>1, <3>2, SetState
    <3> QED
      BY <2>1, <3>2, <3>3
  <2> QED
    BY <2>1, <2>2, EmptyEnds
<1> QED
  BY <1>1, <1>2 DEF Loosened

\* The other steps that lock nothing change no row.
LEMMA OthersLoosen ==
    ASSUME RowsInv, huddle' = huddle, join' = join,
           \A t \in tasks' \cup lost' : t.kind = "clear" => t \in tasks \cup lost
    PROVE  Loosened
BY DEF Loosened, RowsInv, Stage

\* A call locks the active huddle.
LEMMA LockRows ==
    ASSUME Types, RowsInv, NEW c \in Callers, LockActive(c)
    PROVE  RowsInv'
<1>1. \A d \in Callers : d # c => join'[d] = join[d]
  BY CallStages DEF Call
<1>2. /\ huddle' = huddle /\ part' = part /\ tasks' = tasks /\ lost' = lost
      /\ Stage(c) = "entered"
  BY DEF LockActive
<1>3. \/ join'[c].stage = "starting"
      \/ /\ join'[c].stage = "locked" /\ join'[c].huddle \in Active(join[c].room)
         /\ ~Locked(join'[c].huddle)
  BY LockStages
<1>4. join'[c].room = join[c].room
  BY <1>3, CallKeeps DEF Call
<1>5. CASE join'[c].stage = "starting"
  BY <1>1, <1>2, <1>5 DEF RowsInv, ClearOf, Stage, Locking
<1>6. CASE /\ join'[c].stage = "locked" /\ join'[c].huddle \in Active(join[c].room)
           /\ ~Locked(join'[c].huddle)
  <2>1. /\ join'[c].huddle \in DOMAIN huddle /\ huddle[join'[c].huddle].room = join[c].room
        /\ huddle[join'[c].huddle].state = "active"
    BY <1>6 DEF Active
  <2>2. \A d \in Callers : d # c /\ join[d].stage \in Locking => join[d].huddle # join'[c].huddle
    BY <1>6 DEF Locked
  <2>3. \A d \in Callers : join'[d].stage \in Locking =>
            /\ join'[d].huddle \in DOMAIN huddle
            /\ huddle[join'[d].huddle].room = join'[d].room
            /\ huddle[join'[d].huddle].state \in {"starting", "active"}
    BY <1>1, <1>4, <2>1 DEF RowsInv, Stage
  <2>4. \A d, e \in Callers : join'[d].stage \in Locking /\ join'[e].stage \in Locking
                              /\ join'[d].huddle = join'[e].huddle => d = e
    BY <1>1, <2>2 DEF RowsInv, Stage
  <2>5. \A d \in Callers : join'[d].stage = "late" => join'[d].huddle \in DOMAIN huddle
    BY <1>1, <1>6 DEF RowsInv, Stage
  <2> QED
    BY <1>2, <2>3, <2>4, <2>5 DEF RowsInv, ClearOf, Stage
<1> QED
  BY <1>3, <1>5, <1>6

\* A call begins a huddle, and has locked it.
LEMMA StartRows ==
    ASSUME Types, Entered, RowsInv, NEW c \in Callers, Start(c)
    PROVE  RowsInv'
<1>1. \A d \in Callers : d # c => join'[d] = join[d]
  BY CallStages DEF Call
<1>2. part' = part /\ tasks' = tasks /\ lost' = lost /\ Stage(c) = "starting"
  BY DEF Start
<1>3. CASE join'[c].stage \in {"idle", "again"} /\ huddle' = huddle
  BY <1>1, <1>2, <1>3 DEF RowsInv, ClearOf, Stage, Locking
<1>4. CASE /\ join'[c].stage = "locked" /\ join'[c].huddle = Len(huddle) + 1
           /\ huddle' = Append(huddle, [room |-> join[c].room, state |-> "starting"])
  <2>1. join[c].room \in Rooms /\ join'[c].room = join[c].room
    BY <1>2, <1>4, CallKeeps DEF Entered, Call, InTx
  <2>2. PICK row \in Row : row = [room |-> join[c].room, state |-> "starting"]
    BY <2>1 DEF Row
  <2>3. PICK f : f = huddle'
    OBVIOUS
  <2>4. PICK n : n = Len(huddle) + 1
    OBVIOUS
  <2>5. f = Append(huddle, row)
    BY <1>4, <2>2, <2>3
  <2>6. /\ DOMAIN f = DOMAIN huddle \cup {n} /\ n \notin DOMAIN huddle
        /\ f[n] = row /\ \A k \in DOMAIN huddle : f[k] = huddle[k]
    BY <2>4, <2>5, Begun
  <2>7. f[n].room = join'[c].room /\ f[n].state = "starting" /\ join'[c].huddle = n
    BY <1>4, <2>1, <2>2, <2>4, <2>6
  <2>8. \A d \in Callers : join'[d].stage \in Locking =>
            /\ join'[d].huddle \in DOMAIN f
            /\ f[join'[d].huddle].room = join'[d].room
            /\ f[join'[d].huddle].state \in {"starting", "active"}
    BY <1>1, <2>6, <2>7 DEF RowsInv, Stage
  <2>9. \A d, e \in Callers : join'[d].stage \in Locking /\ join'[e].stage \in Locking
                              /\ join'[d].huddle = join'[e].huddle => d = e
    BY <1>1, <2>6, <2>7 DEF RowsInv, Stage
  <2>10. \A p \in part' : p.huddle \in DOMAIN f
    BY <1>2, <2>6 DEF RowsInv
  <2>11. \A h : (\E t \in tasks' \cup lost' : t.kind = "clear" /\ t.huddle = h) => h \in DOMAIN f /\ f[h].state = "ended"
    BY <1>2, <2>6 DEF RowsInv, ClearOf
  <2>12. \A d \in Callers : join'[d].stage = "late" => join'[d].huddle \in DOMAIN f
    BY <1>1, <1>4, <2>6 DEF RowsInv, Stage
  <2> QED
    BY <2>3, <2>8, <2>9, <2>10, <2>11, <2>12 DEF RowsInv, ClearOf, Stage
<1> QED
  BY <1>3, <1>4, StartStages

LEMMA RowsStep ==
    ASSUME Types, Entered, RowsInv, [Next]_vars, \A p \in part' : p.huddle \in DOMAIN huddle'
    PROVE  RowsInv'
<1>1. Grown
  BY RowsGrow
<1>2. ASSUME NEW c \in Callers, Call(c) \/ JoinFails(c)
      PROVE  RowsInv'
  BY <1>1, <1>2, CallLoosens, LoosenedRows, LockRows, StartRows DEF Call
<1>3. ASSUME NEW c \in Callers, NEW u \in Users, NEW r \in Rooms, Join(c, u, r)
      PROVE  Loosened
  <2>1. /\ \A d \in Callers : d # c => join'[d] = join[d]
        /\ join'[c].stage = "entered" /\ huddle' = huddle /\ tasks' = tasks /\ lost' = lost
    BY <1>3, JoinFields
  <2> QED
    BY <2>1 DEF Loosened, RowsInv, Stage, Locking
<1>4. ASSUME NEW r \in Rooms, DeleteRoom(r)
      PROVE  Loosened
  <2>1. \A h \in Active(r) : ~Locked(h)
    BY <1>4 DEF DeleteRoom, Active, Locked, RowsInv, Stage, Locking, InTx
  <2> QED
    BY <1>4, <2>1, RoomLoosens DEF DeleteRoom
<1>5. ASSUME NEW t \in tasks, DoEndRoom(t)
      PROVE  Loosened
  BY <1>5, RoomLoosens DEF DoEndRoom
<1>6. ASSUME NEW t \in tasks, DoEndIfEmpty(t)
      PROVE  Loosened
  BY <1>6, EmptyLoosens
<1>7. CASE \/ \E p \in part : Leave(p) \/ Vanish(p)
           \/ \E u \in Users, r \in Rooms : RemoveMember(u, r)
           \/ \E r \in Rooms : Archive(r)
           \/ \E t \in tasks : DoClear(t) \/ DoRemove(t) \/ Lose(t)
           \/ UNCHANGED vars
  <2>1. huddle' = huddle /\ join' = join
    BY <1>7 DEF Leave, RemovePart, Vanish, RemoveMember, Archive, DoClear, DoRemove, Lose, vars
  <2>2. \A t \in tasks' \cup lost' : t.kind = "clear" => t \in tasks \cup lost
    <3>1. ASSUME NEW H, tasks' \subseteq tasks \cup EndIfEmpty(H), lost' = lost
          PROVE  \A t \in tasks' \cup lost' : t.kind = "clear" => t \in tasks \cup lost
      <4>1. \A t \in EndIfEmpty(H) : t.kind # "clear"
        BY NothingToClear
      <4> QED
        BY <3>1, <4>1
    <3>2. ASSUME NEW p \in part, Leave(p) PROVE \E H : tasks' \subseteq tasks \cup EndIfEmpty(H) /\ lost' = lost
      BY <3>2 DEF Leave, RemovePart
    <3>3. ASSUME NEW t \in tasks, DoRemove(t) PROVE \E H : tasks' \subseteq tasks \cup EndIfEmpty(H) /\ lost' = lost
      BY <3>3 DEF DoRemove
    <3>4. ASSUME NEW n, n.kind # "clear", tasks' \subseteq tasks \cup {n}, lost' = lost
          PROVE  \A t \in tasks' \cup lost' : t.kind = "clear" => t \in tasks \cup lost
      BY <3>4
    <3>5. ASSUME NEW u, NEW r, RemoveMember(u, r) \/ Archive(r)
          PROVE  \E n : n.kind # "clear" /\ tasks' \subseteq tasks \cup {n} /\ lost' = lost
      <4>1. CASE RemoveMember(u, r)
        <5>1. ToRemove(u, r).kind # "clear" /\ tasks' = tasks \cup {ToRemove(u, r)} /\ lost' = lost
          BY <4>1, NothingToClear DEF RemoveMember
        <5> QED
          BY <5>1
      <4>2. CASE Archive(r)
        <5>1. ToEnd(r).kind # "clear" /\ tasks' = tasks \cup {ToEnd(r)} /\ lost' = lost
          BY <4>2, NothingToClear DEF Archive
        <5> QED
          BY <5>1
      <4> QED
        BY <3>5, <4>1, <4>2
    <3>6. CASE (\E p \in part : Vanish(p)) \/ (\E t \in tasks : DoClear(t) \/ Lose(t)) \/ UNCHANGED vars
      BY <3>6 DEF Vanish, DoClear, Lose, vars
    <3> QED
      BY <1>7, <3>1, <3>2, <3>3, <3>4, <3>5, <3>6
  <2> QED
    BY <1>1, <2>1, <2>2, OthersLoosen, LoosenedRows
<1>8. CASE Loosened
  BY <1>1, <1>8, LoosenedRows
<1> QED
  BY <1>2, <1>3, <1>4, <1>5, <1>6, <1>7, <1>8 DEF Next, Task
-----------------------------------------------------------------------------
(* Who is in a huddle that goes on, and has access to it. *)

HuddleInv == IdsInv /\ WithinLimit /\ Entered /\ RowsInv /\ JoinedIsActive /\ AccessToJoined

\* The call that has put the participation there has still to commit.
Writing(p) == \E c \in Callers : Stage(c) = "written" /\ join[c].part = p.id

LEMMA Joined ==
    /\ JoinedIsActive <=> \A p \in part : p.alive =>
           huddle[p.huddle].state = "active" \/ Writing(p) \/ ClearOf(p.huddle)
    /\ AccessToJoined <=> \A p \in part : p.alive =>
           \/ <<p.user, huddle[p.huddle].room>> \in member
           \/ ToRemove(p.user, huddle[p.huddle].room) \in tasks \cup lost
           \/ ClearOf(p.huddle)
<1>1. \A h : To("clear", h) # {} <=> ClearOf(h)
  BY DEF To, ClearOf
<1>2. JoinedIsActive <=> \A p \in part : p.alive =>
           huddle[p.huddle].state = "active" \/ Writing(p) \/ ClearOf(p.huddle)
  BY <1>1 DEF JoinedIsActive, Writing
<1>3. AccessToJoined <=> \A p \in part : p.alive =>
           \/ <<p.user, huddle[p.huddle].room>> \in member
           \/ ToRemove(p.user, huddle[p.huddle].room) \in tasks \cup lost
           \/ ClearOf(p.huddle)
  BY <1>1 DEF AccessToJoined
<1> QED
  BY <1>2, <1>3

\* Nobody comes in, and whoever stays is in a huddle that stays active or is put out.
Stays ==
    /\ \A p \in part' : p.alive => p \in part
    /\ \A p \in part' : p.alive /\ huddle[p.huddle].state = "active" =>
           huddle'[p.huddle].state = "active" \/ ClearOf(p.huddle)'
    /\ \A p \in part' : p.alive /\ Writing(p) => Writing(p)' \/ huddle'[p.huddle].state = "active"
    /\ \A p \in part' : p.alive /\ ClearOf(p.huddle) => ClearOf(p.huddle)'
\* No membership ends, and no removal is done.
Admits ==
    /\ member \subseteq member'
    /\ \A u \in Users, r \in Rooms : ToRemove(u, r) \in tasks \cup lost => ToRemove(u, r) \in tasks' \cup lost'

LEMMA StaysJoined ==
    ASSUME JoinedIsActive, Stays
    PROVE  JoinedIsActive'
<1>1. \A p \in part' : p.alive => huddle'[p.huddle].state = "active" \/ Writing(p)' \/ ClearOf(p.huddle)'
  BY Joined DEF Stays
<1>2. \A h : To("clear", h)' # {} <=> ClearOf(h)'
  BY DEF To, ClearOf
<1> QED
  BY <1>1, <1>2 DEF JoinedIsActive, Writing

LEMMA AdmitsJoined ==
    ASSUME Grown, \A p \in part' : p.huddle \in DOMAIN huddle,
           \A p \in part' : p.alive =>
               \/ <<p.user, huddle[p.huddle].room>> \in member'
               \/ ToRemove(p.user, huddle[p.huddle].room) \in tasks' \cup lost'
               \/ ClearOf(p.huddle)'
    PROVE  AccessToJoined'
<1>1. \A h : To("clear", h)' # {} <=> ClearOf(h)'
  BY DEF To, ClearOf
<1>2. \A p \in part' : huddle'[p.huddle].room = huddle[p.huddle].room
  BY DEF Grown
<1>3. \A u, r : (ToRemove(u, r) \in tasks \cup lost)' <=> ToRemove(u, r) \in tasks' \cup lost'
  BY DEF ToRemove
<1> QED
  BY <1>1, <1>2, <1>3 DEF AccessToJoined, ToRemove

LEMMA StaysAdmitted ==
    ASSUME HuddleInv, Grown, \A p \in part' : p.huddle \in DOMAIN huddle, Stays, Admits
    PROVE  JoinedIsActive' /\ AccessToJoined'
<1>1. JoinedIsActive'
  BY StaysJoined DEF HuddleInv
<1>2. \A p \in part' : p.alive => p \in part /\ p.user \in Users /\ huddle[p.huddle].room \in Rooms
  BY PartTypes, HuddleRows DEF HuddleInv, IdsInv, Stays
<1>3. \A p \in part' : p.alive =>
               \/ <<p.user, huddle[p.huddle].room>> \in member'
               \/ ToRemove(p.user, huddle[p.huddle].room) \in tasks' \cup lost'
               \/ ClearOf(p.huddle)'
  BY <1>2, Joined DEF HuddleInv, Stays, Admits
<1>4. AccessToJoined'
  BY <1>3, AdmitsJoined
<1> QED
  BY <1>1, <1>4

\* What is to be done is still to be done or has been lost.
TasksKept == \A t \in tasks \cup lost : t.kind \in {"clear", "remove"} => t \in tasks' \cup lost'

LEMMA KeepsTasks ==
    ASSUME TasksKept
    PROVE  /\ \A h : ClearOf(h) => ClearOf(h)'
           /\ \A u, r : ToRemove(u, r) \in tasks \cup lost => ToRemove(u, r) \in tasks' \cup lost'
<1>1. \A h : ClearOf(h) => ClearOf(h)'
  BY DEF TasksKept, ClearOf
<1>2. \A u, r : ToRemove(u, r) \in tasks \cup lost => ToRemove(u, r) \in tasks' \cup lost'
  BY NothingToClear DEF TasksKept
<1> QED
  BY <1>1, <1>2

\* A step of a call that does not write to Redis, or too late: nobody sends heartbeats then.
LEMMA CallStays ==
    ASSUME HuddleInv, NEW c \in Callers, Call(c) \/ JoinFails(c), ~Placing(c, TRUE)
    PROVE  Stays /\ Admits
<1>0. Types /\ Entered /\ RowsInv /\ Identity
  BY DEF HuddleInv, IdsInv
<1>1. /\ TasksKept /\ member' = member
  BY <1>0, NothingToClear DEF TasksKept, Call, JoinAgain, LockActive, Start, Write, WriteLate, Commit, Undo, JoinFails
<1>2. \A p \in part' : p.alive => p \in part /\ (JoinFails(c) => p.id # join[c].part)
  <2>1. CASE JoinFails(c)
    BY <1>0, <2>1, FailsFollows, SilencedParts, CallTypes
  <2>2. CASE ~JoinFails(c) /\ ~Placing(c, FALSE)
    BY <1>0, <2>2, CallFollows, WritePlaces, UndoFollows DEF Call, Unplaced, Removed
  <2>3. CASE ~JoinFails(c) /\ Placing(c, FALSE)
    <3>1. ~New(c, FALSE).alive /\ \A p \in part' : p = New(c, FALSE) \/ p \in part
      BY <1>0, <2>3, PlacingFields DEF Placing
    <3> QED
      BY <2>3, <3>1
  <2> QED
    BY <2>1, <2>2, <2>3
<1>3. \A h \in DOMAIN huddle : huddle[h].state = "active" => huddle'[h].state = "active"
  <2>1. CASE Start(c)
    <3>1. CASE huddle' = huddle
      BY <3>1
    <3>2. CASE huddle' = Append(huddle, [room |-> join[c].room, state |-> "starting"])
      <4>1. join[c].room \in Rooms
        BY <1>0, <2>1 DEF Start, Entered, InTx
      <4>2. PICK row \in Row : row = [room |-> join[c].room, state |-> "starting"]
        BY <4>1 DEF Row
      <4>3. PICK f : f = huddle'
        OBVIOUS
      <4>4. f = Append(huddle, row)
        BY <3>2, <4>2, <4>3
      <4>5. \A k \in DOMAIN huddle : f[k] = huddle[k]
        BY <1>0, <4>4, Begun
      <4> QED
        BY <4>3, <4>5
    <3> QED
      BY <1>0, <2>1, <3>1, <3>2, StartStages
  <2>2. CASE Stage(c) \in Locking /\ huddle' \in {Committed(join[c].huddle), RolledBack(join[c].huddle)}
    <3>1. PICK f : f = huddle'
      OBVIOUS
    <3>2. \A k \in DOMAIN huddle : huddle[k].state # "starting" => f[k] = huddle[k]
      BY <1>0, <2>2, <3>1, LockedRow
    <3> QED
      BY <3>1, <3>2
  <2>3. \/ Start(c) \/ huddle' = huddle
        \/ Stage(c) \in Locking /\ huddle' \in {Committed(join[c].huddle), RolledBack(join[c].huddle)}
    BY DEF Call, JoinAgain, LockActive, Write, WriteLate, Commit, Undo, JoinFails, Locking
  <2> QED
    BY <2>1, <2>2, <2>3
<1>4. ASSUME NEW p \in part', p.alive, Writing(p)
      PROVE  Writing(p)' \/ huddle'[p.huddle].state = "active"
  <2>1. PICK d \in Callers : Stage(d) = "written" /\ join[d].part = p.id
    BY <1>4 DEF Writing
  <2>2. CASE d # c
    <3>1. join'[d] = join[d]
      BY <1>0, <2>2, CallStages
    <3> QED
      BY <2>1, <3>1 DEF Writing, Stage
  <2>3. CASE d = c /\ Commit(c)
    <3>1. p \in part /\ p.huddle = join[c].huddle
      BY <1>0, <1>2, <1>4, <2>1, <2>3 DEF Identity, Placed
    <3>2. join[c].huddle \in DOMAIN huddle /\ huddle[join[c].huddle].state \in {"starting", "active"}
      BY <1>0, <2>1, <2>3 DEF RowsInv, Locking
    <3>3. PICK f : f = huddle'
      OBVIOUS
    <3>4. f = Committed(join[c].huddle)
      BY <2>3, <3>3 DEF Commit
    <3>5. huddle[join[c].huddle].state = "starting" => f[join[c].huddle].state = "active"
      BY <1>0, <3>2, <3>4, Ends
    <3>6. huddle[join[c].huddle].state # "starting" => f = huddle
      BY <3>4 DEF Committed
    <3> QED
      BY <3>1, <3>2, <3>3, <3>5, <3>6
  <2>4. CASE d = c /\ ~Commit(c)
    <3>1. JoinFails(c)
      BY <1>0, <2>1, <2>4, CallStages DEF Stage, Call, JoinAgain, LockActive, Start, Write, WriteLate, Undo
    <3> QED
      BY <1>2, <1>4, <2>1, <2>4, <3>1
  <2> QED
    BY <2>2, <2>3, <2>4
<1>5. \A p \in part' : p.alive => p.huddle \in DOMAIN huddle
  BY <1>0, <1>2 DEF RowsInv
<1>6. Stays
  BY <1>1, <1>2, <1>3, <1>4, <1>5, KeepsTasks DEF Stays
<1> QED
  BY <1>1, <1>6, KeepsTasks DEF Admits

\* The participation that joinScript writes.
LEMMA PlacingJoined ==
    ASSUME HuddleInv, Grown, \A p \in part' : p.huddle \in DOMAIN huddle,
           NEW c \in Callers, Write(c), Placing(c, TRUE)
    PROVE  JoinedIsActive' /\ AccessToJoined'
<1>0. Types /\ Entered /\ RowsInv
  BY DEF HuddleInv, IdsInv
<1>1. /\ New(c, TRUE).id = join[c].part /\ New(c, TRUE).user = join[c].user /\ New(c, TRUE).huddle = join[c].huddle
      /\ join'[c].stage = "written" /\ join'[c].part = join[c].part
      /\ \A d \in Callers : d # c => join'[d] = join[d]
      /\ Stage(c) = "locked" /\ join[c].stage = "locked"
  BY <1>0, PlacingFields DEF Stage
<1>2. huddle' = huddle /\ tasks' = tasks /\ lost' = lost /\ member' = member
  BY DEF Placing, Write
<1>3. \A p \in part' : p = New(c, TRUE) \/ p \in part
  BY DEF Placing
<1>4. TasksKept
  BY <1>2 DEF TasksKept
<1>5. \A p : Writing(p) => Writing(p)'
  <2>1. ASSUME NEW p, NEW d \in Callers, Stage(d) = "written", join[d].part = p.id
        PROVE  join'[d].stage = "written" /\ join'[d].part = p.id
    BY <1>1, <2>1 DEF Stage
  <2> QED
    BY <2>1 DEF Writing, Stage
<1>6. ASSUME NEW n, n = New(c, TRUE) PROVE Writing(n)'
  BY <1>1, <1>6 DEF Writing, Stage
<1>7. \A p \in part' : p.alive => huddle'[p.huddle].state = "active" \/ Writing(p)' \/ ClearOf(p.huddle)'
  BY <1>2, <1>3, <1>4, <1>5, <1>6, KeepsTasks, Joined DEF HuddleInv
<1>8. \A h : To("clear", h)' # {} <=> ClearOf(h)'
  BY DEF To, ClearOf
<1>9. JoinedIsActive'
  BY <1>7, <1>8 DEF JoinedIsActive, Writing
<1>10. <<New(c, TRUE).user, huddle[New(c, TRUE).huddle].room>> \in member
  <2>1. <<join[c].user, join[c].room>> \in member
    BY <1>0, <1>1 DEF Entered, InTx
  <2>2. huddle[join[c].huddle].room = join[c].room
    BY <1>0, <1>1 DEF RowsInv, Locking
  <2> QED
    BY <1>1, <2>1, <2>2
<1>11. \A p \in part' : p.alive =>
               \/ <<p.user, huddle[p.huddle].room>> \in member'
               \/ ToRemove(p.user, huddle[p.huddle].room) \in tasks' \cup lost'
               \/ ClearOf(p.huddle)'
  BY <1>2, <1>3, <1>4, <1>10, KeepsTasks, Joined DEF HuddleInv
<1>12. AccessToJoined'
  BY <1>11, AdmitsJoined
<1> QED
  BY <1>9, <1>12
\* A participation is removed, or falls silent; a new call; a task is lost, or a room archived.
LEMMA PlainStays ==
    ASSUME HuddleInv, Grown,
           \/ \E p \in part : Leave(p) \/ Vanish(p)
           \/ \E c \in Callers : \E u \in Users : \E r \in Rooms : Join(c, u, r)
           \/ \E r \in Rooms : Archive(r)
           \/ \E t \in tasks : Lose(t)
           \/ UNCHANGED vars
    PROVE  Stays /\ Admits
<1>0. Types /\ Identity
  BY DEF HuddleInv, IdsInv
<1>1. huddle' = huddle /\ member' = member
  BY DEF Leave, RemovePart, Vanish, Join, Archive, Lose, vars
<1>2. TasksKept
  BY DEF TasksKept, Leave, RemovePart, Vanish, Join, Archive, Lose, vars
<1>3. \A p \in part' : p.alive => p \in part
  <2>1. CASE \E p \in part : Vanish(p)
    BY <1>0, <2>1, PartTypes DEF Vanish
  <2>2. CASE part' \subseteq part
    BY <2>2
  <2> QED
    BY <2>1, <2>2 DEF Leave, RemovePart, Join, Archive, Lose, vars
<1>4. \A d \in Callers : Stage(d) = "written" => join'[d] = join[d]
  <2>1. ASSUME NEW c \in Callers, NEW u \in Users, NEW r \in Rooms, Join(c, u, r)
        PROVE  \A d \in Callers : Stage(d) = "written" => join'[d] = join[d]
    BY <1>0, <2>1, JoinFields DEF Stage
  <2> QED
    BY <2>1 DEF Leave, RemovePart, Vanish, Archive, Lose, vars
<1>5. \A p : Writing(p) => Writing(p)'
  BY <1>4 DEF Writing, Stage
<1> QED
  BY <1>1, <1>2, <1>3, <1>5, KeepsTasks DEF Stays, Admits

\* An empty huddle ends; an ended one is cleared.
LEMMA EndStays ==
    ASSUME HuddleInv, Grown, NEW t \in tasks, DoEndIfEmpty(t) \/ DoClear(t)
    PROVE  Stays /\ Admits
<1>0. Types
  BY DEF HuddleInv, IdsInv
<1>1. /\ member' = member /\ join' = join /\ part' \subseteq part /\ tasks' = tasks \ {t}
      /\ (t.kind = "clear" /\ lost' = lost) \/ (t.kind = "end if empty" /\ lost \ {t} \subseteq lost')
      /\ DoClear(t) => part' = part \ In(t.huddle) /\ huddle' = huddle /\ t.kind = "clear"
      /\ DoEndIfEmpty(t) => part' = part /\ t.kind = "end if empty"
  BY DEF DoEndIfEmpty, DoClear
<1>2. ASSUME NEW p \in part', huddle[p.huddle].state = "active"
      PROVE  huddle'[p.huddle].state = "active"
  <2>1. CASE huddle' = huddle
    BY <1>2, <2>1
  <2>2. CASE /\ DoEndIfEmpty(t) /\ t.huddle \in DOMAIN huddle /\ huddle' = Set(t.huddle, "ended")
             /\ In(t.huddle) = {}
    <3>1. p.huddle # t.huddle /\ p.huddle \in DOMAIN huddle
      BY <1>1, <2>2 DEF In, HuddleInv, RowsInv
    <3>2. PICK f : f = huddle'
      OBVIOUS
    <3>3. f[p.huddle] = huddle[p.huddle]
      BY <1>0, <2>2, <3>1, <3>2, SetState
    <3> QED
      BY <1>2, <3>2, <3>3
  <2> QED
    BY <1>0, <1>1, <2>1, <2>2, EmptyEnds
<1>3. ASSUME NEW p \in part', ClearOf(p.huddle)
      PROVE  ClearOf(p.huddle)'
  <2>1. PICK s \in tasks \cup lost : s.kind = "clear" /\ s.huddle = p.huddle
    BY <1>3 DEF ClearOf
  <2>2. s # t
    BY <1>1, <2>1 DEF In
  <2> QED
    BY <1>1, <2>1, <2>2 DEF ClearOf
<1>4. \A u, r : ToRemove(u, r) \in tasks \cup lost => ToRemove(u, r) \in tasks' \cup lost'
  BY <1>1, NothingToClear
<1>5. \A p : Writing(p) => Writing(p)'
  BY <1>1 DEF Writing, Stage
<1> QED
  BY <1>1, <1>2, <1>3, <1>4, <1>5 DEF Stays, Admits

\* The active huddles of a room end, and all who are in them are to be put out.
LEMMA RoomStays ==
    ASSUME HuddleInv, Grown, NEW r, \/ DeleteRoom(r)
                                    \/ \E t \in tasks : DoEndRoom(t) /\ t.room = r
    PROVE  /\ Stays
           /\ \A h \in Active(r) : ClearOf(h)'
           /\ \A h : ClearOf(h) => ClearOf(h)'
           /\ \A u, s : ToRemove(u, s) \in tasks \cup lost => ToRemove(u, s) \in tasks' \cup lost'
<1>0. Types
  BY DEF HuddleInv, IdsInv
<1>1. /\ join' = join /\ part' = part
      /\ huddle' = [h \in DOMAIN huddle |-> IF h \in Active(r) THEN [huddle[h] EXCEPT !.state = "ended"] ELSE huddle[h]]
      /\ {ToClear(h) : h \in Active(r)} \subseteq tasks'
  BY DEF DeleteRoom, DoEndRoom
<1>2. TasksKept
  BY DEF TasksKept, DeleteRoom, DoEndRoom
<1>3. \A h \in Active(r) : ClearOf(h)'
  BY <1>1, NothingToClear DEF ClearOf
<1>4. \A p \in part : huddle[p.huddle].state = "active" => huddle'[p.huddle].state = "active" \/ ClearOf(p.huddle)'
  <2>1. PICK f : f = huddle'
    OBVIOUS
  <2>2. \A k \in DOMAIN huddle : k \notin Active(r) => f[k] = huddle[k]
    BY <1>0, <1>1, <2>1, RoomEnds
  <2>3. \A p \in part : p.huddle \in DOMAIN huddle
    BY DEF HuddleInv, RowsInv
  <2> QED
    BY <1>3, <2>1, <2>2, <2>3
<1>5. \A p : Writing(p) => Writing(p)'
  BY <1>1 DEF Writing, Stage
<1>6. /\ \A h : ClearOf(h) => ClearOf(h)'
      /\ \A u, s : ToRemove(u, s) \in tasks \cup lost => ToRemove(u, s) \in tasks' \cup lost'
  BY <1>2, KeepsTasks
<1> QED
  BY <1>1, <1>3, <1>4, <1>5, <1>6 DEF Stays

\* A room is deleted: those who are in its huddles are to be put out.
LEMMA DeletedJoined ==
    ASSUME HuddleInv, Grown, \A p \in part' : p.huddle \in DOMAIN huddle, NEW r \in Rooms, DeleteRoom(r)
    PROVE  JoinedIsActive' /\ AccessToJoined'
<1>0. Types /\ RowsInv /\ Identity
  BY DEF HuddleInv, IdsInv
<1>1. /\ Stays
      /\ \A h \in Active(r) : ClearOf(h)'
      /\ \A h : ClearOf(h) => ClearOf(h)'
      /\ \A u, s : ToRemove(u, s) \in tasks \cup lost => ToRemove(u, s) \in tasks' \cup lost'
  BY RoomStays
<1>2. JoinedIsActive'
  BY <1>1, StaysJoined DEF HuddleInv
<1>3. part' = part /\ member' = member \ (Users \X {r}) /\ \A c \in Callers : Stage(c) \in InTx => join[c].room # r
  BY DEF DeleteRoom
<1>4. ASSUME NEW p \in part, p.alive, huddle[p.huddle].room = r
      PROVE  ClearOf(p.huddle)'
  <2>1. p.huddle \in DOMAIN huddle
    BY <1>0 DEF RowsInv
  <2>2. CASE huddle[p.huddle].state = "active"
    BY <1>1, <1>4, <2>1, <2>2 DEF Active
  <2>3. ~Writing(p)
    <3>1. ASSUME NEW c \in Callers, Stage(c) = "written", join[c].part = p.id PROVE FALSE
      <4>1. p.huddle = join[c].huddle
        BY <1>0, <3>1 DEF Identity, Placed
      <4>2. join[c].room = r
        BY <1>0, <1>4, <3>1, <4>1 DEF RowsInv, Locking
      <4> QED
        BY <1>3, <3>1, <4>2 DEF InTx
    <3> QED
      BY <3>1 DEF Writing
  <2> QED
    BY <1>1, <1>4, <2>2, <2>3, Joined DEF HuddleInv
<1>5. \A p \in part' : p.alive =>
               \/ <<p.user, huddle[p.huddle].room>> \in member'
               \/ ToRemove(p.user, huddle[p.huddle].room) \in tasks' \cup lost'
               \/ ClearOf(p.huddle)'
  <2>1. ASSUME NEW p \in part, p.alive, huddle[p.huddle].room # r
        PROVE  \/ <<p.user, huddle[p.huddle].room>> \in member'
               \/ ToRemove(p.user, huddle[p.huddle].room) \in tasks' \cup lost'
               \/ ClearOf(p.huddle)'
    BY <1>1, <1>3, <2>1, Joined DEF HuddleInv
  <2> QED
    BY <1>3, <1>4, <2>1
<1>6. AccessToJoined'
  BY <1>5, AdmitsJoined
<1> QED
  BY <1>2, <1>6

\* A membership ends: the user's removal from the room's huddle is to come.
LEMMA MemberJoined ==
    ASSUME HuddleInv, Grown, \A p \in part' : p.huddle \in DOMAIN huddle,
           NEW u \in Users, NEW r \in Rooms, RemoveMember(u, r)
    PROVE  JoinedIsActive' /\ AccessToJoined'
<1>1. /\ part' = part /\ huddle' = huddle /\ join' = join /\ member' = member \ {<<u, r>>}
      /\ ToRemove(u, r) \in tasks' \cup lost'
  BY DEF RemoveMember
<1>2. TasksKept
  BY DEF TasksKept, RemoveMember
<1>3. \A p : Writing(p) => Writing(p)'
  BY <1>1 DEF Writing, Stage
<1>4. Stays
  BY <1>1, <1>2, <1>3, KeepsTasks DEF Stays
<1>5. JoinedIsActive'
  BY <1>4, StaysJoined DEF HuddleInv
<1>6. ASSUME NEW p \in part, p.alive
      PROVE  \/ <<p.user, huddle[p.huddle].room>> \in member'
             \/ ToRemove(p.user, huddle[p.huddle].room) \in tasks' \cup lost'
             \/ ClearOf(p.huddle)'
  <2>1. CASE <<p.user, huddle[p.huddle].room>> = <<u, r>>
    <3>1. p.user = u /\ huddle[p.huddle].room = r
      BY <2>1
    <3> QED
      BY <1>1, <3>1
  <2>2. CASE <<p.user, huddle[p.huddle].room>> # <<u, r>>
    BY <1>1, <1>2, <1>6, <2>2, KeepsTasks, Joined DEF HuddleInv
  <2> QED
    BY <2>1, <2>2
<1>7. AccessToJoined'
  BY <1>1, <1>6, AdmitsJoined
<1> QED
  BY <1>5, <1>7

\* The removal finds the user, wherever he is in the room, unless he has been let in again.
LEMMA RemoveJoined ==
    ASSUME HuddleInv, Grown, \A p \in part' : p.huddle \in DOMAIN huddle, NEW t \in tasks, DoRemove(t)
    PROVE  JoinedIsActive' /\ AccessToJoined'
<1>0. Types /\ Entered /\ RowsInv /\ Identity /\ IdsInv
  BY DEF HuddleInv, IdsInv
<1> DEFINE found == {p \in Of(t.user) : huddle[p.huddle].room = t.room
                                        /\ huddle[p.huddle].state \in {"active", "ended"}}
<1>1. /\ part' = part \ found /\ huddle' = huddle /\ join' = join /\ member' = member /\ lost' = lost
      /\ t.kind = "remove" /\ tasks \ {t} \subseteq tasks'
  BY DEF DoRemove
<1>2. \A h : ClearOf(h) => ClearOf(h)'
  BY <1>1 DEF ClearOf
<1>3. \A p : Writing(p) => Writing(p)'
  BY <1>1 DEF Writing, Stage
<1>4. Stays
  BY <1>1, <1>2, <1>3 DEF Stays
<1>5. JoinedIsActive'
  BY <1>4, StaysJoined DEF HuddleInv
<1>6. ASSUME NEW p \in part', p.alive, ToRemove(p.user, huddle[p.huddle].room) = t
      PROVE  <<p.user, huddle[p.huddle].room>> \in member
  <2>1. p \in part /\ p.user \in Users /\ t.user = p.user /\ t.room = huddle[p.huddle].room
    BY <1>0, <1>1, <1>6, PartTypes DEF ToRemove
  <2>2. p \in Of(t.user)
    BY <1>0, <2>1, OfUser
  <2>3. huddle[p.huddle].state \notin {"active", "ended"}
    BY <1>1, <2>1, <2>2
  <2>4. ~ClearOf(p.huddle)
    BY <1>0, <2>3 DEF RowsInv
  <2>5. PICK c \in Callers : Stage(c) = "written" /\ join[c].part = p.id
    BY <1>6, <2>1, <2>3, <2>4, Joined DEF HuddleInv, Writing
  <2>6. p.user = join[c].user /\ p.huddle = join[c].huddle
    BY <1>0, <2>1, <2>5 DEF Identity, Placed
  <2>7. <<join[c].user, join[c].room>> \in member /\ huddle[join[c].huddle].room = join[c].room
    BY <1>0, <2>5 DEF Entered, RowsInv, InTx, Locking
  <2> QED
    BY <2>6, <2>7
<1>7. \A p \in part' : p.alive =>
               \/ <<p.user, huddle[p.huddle].room>> \in member'
               \/ ToRemove(p.user, huddle[p.huddle].room) \in tasks' \cup lost'
               \/ ClearOf(p.huddle)'
  BY <1>1, <1>2, <1>6, Joined DEF HuddleInv
<1>8. AccessToJoined'
  BY <1>7, AdmitsJoined
<1> QED
  BY <1>5, <1>8

-----------------------------------------------------------------------------
(* The invariant and the theorems. *)

LEMMA HuddleInit == Init => HuddleInv
<1> SUFFICES ASSUME Init PROVE HuddleInv
  OBVIOUS
<1>1. NoCall \in Joining /\ NoCall.stage = "idle"
  <2>1. {} \in SUBSET Nat /\ 2 \in Nat /\ 0 \in Nat
    OBVIOUS
  <2> QED
    BY <2>1 DEF NoCall, Joining, InTx
<1>2. Types
  <2>1. huddle \in Seq(Row) /\ IsFiniteSet(part) /\ part \subseteq Participation
    BY FS_EmptySet DEF Init
  <2>2. join \in [Callers -> Joining] /\ current \in [Users -> Nat]
    BY <1>1 DEF Init
  <2>3. left \in [joins : Nat, changes : Nat, failures : Nat]
    BY HuddleAssumption DEF Init
  <2> QED
    BY <2>1, <2>2, <2>3 DEF Types
<1>3. \A c \in Callers : join[c].stage = "idle"
  BY <1>1 DEF Init
<1>4. Identity
  BY <1>3 DEF Init, Identity, Stage, Fresh, Placed
<1>5. OnePlace
  BY DEF Init, OnePlace
<1>6. WithinLimit
  BY DEF Init, WithinLimit
<1>7. Entered
  BY <1>3, HuddleAssumption DEF Init, Entered, Stage, InTx
<1>8. RowsInv
  BY <1>3 DEF Init, RowsInv, ClearOf, Stage, Locking
<1>9. JoinedIsActive /\ AccessToJoined
  BY DEF Init, JoinedIsActive, AccessToJoined
<1> QED
  BY <1>2, <1>4, <1>5, <1>6, <1>7, <1>8, <1>9 DEF HuddleInv, IdsInv

LEMMA HuddleStep ==
    ASSUME HuddleInv, [Next]_vars
    PROVE  HuddleInv'
<1>0. Types /\ Entered /\ RowsInv /\ IdsInv /\ WithinLimit
  BY DEF HuddleInv, IdsInv
<1>1. Grown
  BY <1>0, RowsGrow
<1>2. IdsInv' /\ WithinLimit' /\ \A p \in part' : p.huddle \in DOMAIN huddle'
  BY <1>0, IdsStep
<1>3. \A p \in part' : p.huddle \in DOMAIN huddle
  BY <1>0, PartsStep
<1>4. Entered' /\ RowsInv'
  BY <1>0, <1>2, EnteredStep, RowsStep
<1>5. ASSUME NEW c \in Callers, Call(c) \/ JoinFails(c)
      PROVE  JoinedIsActive' /\ AccessToJoined'
  <2>1. CASE ~Placing(c, TRUE)
    BY <1>1, <1>3, <1>5, <2>1, CallStays, StaysAdmitted
  <2>2. CASE Placing(c, TRUE)
    <3>1. Write(c)
      BY <1>5, <2>2, <1>0, PlacingFields, CallStages DEF Call, Placing, JoinAgain, LockActive, Start, Commit, Undo
    <3> QED
      BY <1>1, <1>3, <2>2, <3>1, PlacingJoined
  <2> QED
    BY <2>1, <2>2
<1>6. CASE \/ \E p \in part : Leave(p) \/ Vanish(p)
           \/ \E c \in Callers : \E u \in Users : \E r \in Rooms : Join(c, u, r)
           \/ \E r \in Rooms : Archive(r)
           \/ \E t \in tasks : Lose(t)
           \/ UNCHANGED vars
  <2>1. JoinedIsActive' /\ AccessToJoined'
    BY <1>1, <1>3, <1>6, PlainStays, StaysAdmitted
  <2> QED
    BY <1>2, <1>4, <2>1 DEF HuddleInv
<1>7. ASSUME NEW u \in Users, NEW r \in Rooms, RemoveMember(u, r)
      PROVE  JoinedIsActive' /\ AccessToJoined'
  BY <1>1, <1>3, <1>7, MemberJoined
<1>8. ASSUME NEW r \in Rooms, DeleteRoom(r)
      PROVE  JoinedIsActive' /\ AccessToJoined'
  BY <1>1, <1>3, <1>8, DeletedJoined
<1>9. ASSUME NEW t \in tasks, Task(t)
      PROVE  JoinedIsActive' /\ AccessToJoined'
  <2>1. CASE DoEndIfEmpty(t) \/ DoClear(t)
    BY <1>1, <1>3, <2>1, EndStays, StaysAdmitted
  <2>2. CASE DoEndRoom(t)
    <3>1. Stays /\ \A u, s : ToRemove(u, s) \in tasks \cup lost => ToRemove(u, s) \in tasks' \cup lost'
      BY <1>1, <2>2, RoomStays
    <3>2. member' = member
      BY <2>2 DEF DoEndRoom
    <3>3. Admits
      BY <3>1, <3>2 DEF Admits
    <3> QED
      BY <1>1, <1>3, <3>1, <3>3, StaysAdmitted
  <2>3. CASE DoRemove(t)
    BY <1>1, <1>3, <2>3, RemoveJoined
  <2> QED
    BY <1>9, <2>1, <2>2, <2>3 DEF Task
<1>10. CASE JoinedIsActive' /\ AccessToJoined'
  BY <1>2, <1>4, <1>10 DEF HuddleInv
<1> QED
  BY <1>5, <1>6, <1>7, <1>8, <1>9, <1>10 DEF Next

LEMMA HuddleAlways == Spec => []HuddleInv
<1>1. HuddleInv /\ [Next]_vars => HuddleInv'
  BY HuddleStep
<1> QED
  BY <1>1, HuddleInit, PTL DEF Spec

\* Whoever is in a huddle and sends heartbeats is in one that is active, or is being started
\* by the join that put him there, or is about to be put out: the row is locked while
\* joinScript writes and while an empty huddle is ended (huddle.go, endHuddleIfEmpty).
THEOREM HuddleJoined == Spec => []JoinedIsActive
<1>1. HuddleInv => JoinedIsActive
  BY DEF HuddleInv
<1> QED
  BY <1>1, HuddleAlways, PTL

\* A user is in one huddle, which is the one his key at Redis names: joinScript and
\* removeLua change the hash and the key together, whatever fails between them.
THEOREM HuddleOnePlace == Spec => []OnePlace
<1>1. HuddleInv => OnePlace
  BY DEF HuddleInv, IdsInv
<1> QED
  BY <1>1, HuddleAlways, PTL

\* No huddle has more participants than the limit, whoever joins at the same time, moves
\* from another huddle or is replaced by his own new device.
THEOREM HuddleWithinLimit == Spec => []WithinLimit
<1>1. HuddleInv => WithinLimit
  BY DEF HuddleInv
<1> QED
  BY <1>1, HuddleAlways, PTL

\* Whoever lost access to a room is not in its huddle, or his removal is to come: a join
\* holds the membership it has read, so that the removal finds what the join wrote.
THEOREM HuddleAccess == Spec => []AccessToJoined
<1>1. HuddleInv => AccessToJoined
  BY DEF HuddleInv
<1> QED
  BY <1>1, HuddleAlways, PTL
-----------------------------------------------------------------------------
(* The types: each call of JoinHuddle starts one huddle and makes one participation. *)

\* The participations of the calls that may still start a huddle.
ToStart == {"again", "entered", "starting"}
Awaited == {join[c].part : c \in {d \in Callers : Stage(d) \in ToStart}}

\* What the fields of a call and the tasks may name when H are the huddles begun.
CallWithin(call, H) ==
    /\ call.tries \in 1..2 /\ call.part <= MaxJoins
    /\ call.huddle \in {0} \cup H /\ call.evicted \subseteq H
    /\ call.stage \in {"locked", "written", "undo"} => call.huddle # 0
TasksOn(H) == [kind : {"end if empty", "clear"}, huddle : H, room : {NoRoom}, user : {NoUser}]
    \cup [kind : {"end room"}, huddle : {0}, room : Rooms, user : {NoUser}]
    \cup [kind : {"remove"}, huddle : {0}, room : Rooms, user : Users]

Accounted ==
    /\ Len(huddle) + Cardinality(Awaited) + left.joins <= MaxJoins
    /\ archived \subseteq Rooms
    /\ \A c \in Callers : CallWithin(join[c], DOMAIN huddle)
    /\ \A p \in part : p.id <= MaxJoins
    /\ \A u \in Users : current[u] <= MaxJoins
    /\ tasks \cup lost \subseteq TasksOn(DOMAIN huddle)

LEMMA AwaitedFinite ==
    ASSUME HuddleInv, Accounted
    PROVE  /\ Awaited \subseteq 1..MaxJoins /\ IsFiniteSet(Awaited) /\ Cardinality(Awaited) \in Nat
           /\ Len(huddle) \in Nat /\ left.joins \in Nat /\ MaxJoins \in Nat
           /\ left.joins <= MaxJoins /\ Len(huddle) <= MaxJoins /\ left.joins \notin Awaited
<1>1. Types /\ Identity /\ MaxJoins \in Nat /\ left.joins \in Nat /\ Len(huddle) \in Nat
  BY HuddleAssumption, LeftTypes, HuddleRows DEF HuddleInv, IdsInv
<1>2. ASSUME NEW c \in Callers, Stage(c) \in ToStart
      PROVE  join[c].part \in 1..MaxJoins /\ left.joins < join[c].part
  <2>1. join[c].part \in Nat /\ left.joins < join[c].part
    BY <1>1, <1>2, CallTypes DEF Identity, ToStart
  <2>2. join[c].part <= MaxJoins
    BY DEF Accounted, CallWithin
  <2> QED
    BY <1>1, <2>1, <2>2
<1>3. Awaited \subseteq 1..MaxJoins
  BY <1>2 DEF Awaited
<1>4. IsFiniteSet(Awaited) /\ Cardinality(Awaited) \in Nat
  <2>1. IsFiniteSet(1..MaxJoins)
    BY <1>1, FS_Interval
  <2> QED
    BY <1>3, <2>1, FS_Subset, FS_CardinalityType
<1>5. left.joins \notin Awaited
  BY <1>1, <1>2 DEF Awaited
<1> QED
  BY <1>1, <1>3, <1>4, <1>5 DEF Accounted

\* The rows are as many after a step, unless a call has started a huddle.
LEMMA RowsCount ==
    ASSUME Types, Entered, RowsInv, [Next]_vars
    PROVE  \/ Len(huddle') = Len(huddle) /\ DOMAIN huddle' = DOMAIN huddle
           \/ \E c \in Callers : /\ Start(c) /\ Len(huddle') = Len(huddle) + 1 /\ join'[c].stage = "locked"
                                 /\ DOMAIN huddle' = DOMAIN huddle \cup {Len(huddle) + 1}
<1>0. Len(huddle) \in Nat /\ DOMAIN huddle = 1..Len(huddle)
  BY HuddleRows
<1>1. ASSUME NEW f, f \in Seq(Row), DOMAIN f = DOMAIN huddle PROVE Len(f) = Len(huddle)
  <2>1. Len(f) \in Nat /\ DOMAIN f = 1..Len(f)
    BY <1>1, LenProperties
  <2> QED
    BY <1>0, <1>1, <2>1
<1>2. CASE DOMAIN huddle' = DOMAIN huddle
  <2>1. huddle' \in Seq(Row)
    BY RowsGrow DEF Grown
  <2> QED
    BY <1>1, <1>2, <2>1
<1>3. ASSUME NEW c \in Callers, Call(c) \/ JoinFails(c), DOMAIN huddle' # DOMAIN huddle
      PROVE  /\ Start(c) /\ Len(huddle') = Len(huddle) + 1 /\ join'[c].stage = "locked"
             /\ DOMAIN huddle' = DOMAIN huddle \cup {Len(huddle) + 1}
  <2>1. CASE Start(c)
    <3>1. /\ join'[c].stage = "locked"
          /\ huddle' = Append(huddle, [room |-> join[c].room, state |-> "starting"])
      BY <1>3, <2>1, StartStages
    <3>2. join[c].room \in Rooms
      BY <2>1 DEF Start, Entered, InTx
    <3>3. PICK row \in Row : row = [room |-> join[c].room, state |-> "starting"]
      BY <3>2 DEF Row
    <3>4. PICK f : f = huddle'
      OBVIOUS
    <3>5. DOMAIN f = DOMAIN huddle \cup {Len(huddle) + 1}
      BY <3>1, <3>3, <3>4, Begun
    <3>6. Len(f) = Len(huddle) + 1
      BY <3>1, <3>3, <3>4, AppendProperties DEF Types
    <3> QED
      BY <2>1, <3>1, <3>4, <3>5, <3>6
  <2>2. CASE Stage(c) \in Locking /\ huddle' \in {Committed(join[c].huddle), RolledBack(join[c].huddle)}
    <3>1. PICK f : f = huddle'
      OBVIOUS
    <3> QED
      BY <1>3, <2>2, <3>1, LockedRow
  <2>3. \/ huddle' = huddle
        \/ Start(c)
        \/ Stage(c) \in Locking /\ huddle' \in {Committed(join[c].huddle), RolledBack(join[c].huddle)}
    BY <1>3 DEF Call, JoinAgain, LockActive, Write, WriteLate, Commit, Undo, JoinFails, Locking
  <2> QED
    BY <1>3, <2>1, <2>2, <2>3
<1>4. ASSUME NEW r,
             huddle' = [h \in DOMAIN huddle |-> IF h \in Active(r) THEN [huddle[h] EXCEPT !.state = "ended"] ELSE huddle[h]]
      PROVE  DOMAIN huddle' = DOMAIN huddle
  BY <1>4
<1>5. ASSUME NEW t, DoEndIfEmpty(t) PROVE DOMAIN huddle' = DOMAIN huddle
  <2>1. PICK f : f = huddle'
    OBVIOUS
  <2>2. f = huddle \/ (t.huddle \in DOMAIN huddle /\ f = Set(t.huddle, "ended"))
    BY <1>5, <2>1, EmptyEnds
  <2>3. DOMAIN f = DOMAIN huddle
    BY <2>2, SetState
  <2> QED
    BY <2>1, <2>3
<1>6. \/ huddle' = huddle
      \/ \E c \in Callers : Call(c) \/ JoinFails(c)
      \/ \E r \in Rooms : DeleteRoom(r)
      \/ \E t \in tasks : DoEndIfEmpty(t) \/ DoEndRoom(t)
  <2>1. CASE \/ \E c \in Callers : \E u \in Users, r \in Rooms : Join(c, u, r)
             \/ \E p \in part : Leave(p) \/ Vanish(p)
             \/ \E u \in Users, r \in Rooms : RemoveMember(u, r)
             \/ \E r \in Rooms : Archive(r)
             \/ \E t \in tasks : DoClear(t) \/ DoRemove(t) \/ Lose(t)
             \/ UNCHANGED vars
    <3>1. CASE \E c \in Callers : \E u \in Users, r \in Rooms : Join(c, u, r)
      BY <3>1, Zenon DEF Join
    <3>2. CASE \/ \E p \in part : Leave(p) \/ Vanish(p)
               \/ \E u \in Users, r \in Rooms : RemoveMember(u, r)
               \/ \E r \in Rooms : Archive(r)
               \/ UNCHANGED vars
      BY <3>2 DEF vars, Leave, RemovePart, Vanish, RemoveMember, Archive
    <3>3. CASE \E t \in tasks : DoClear(t) \/ DoRemove(t) \/ Lose(t)
      BY <3>3, Zenon DEF DoClear, DoRemove, Lose
    <3> QED
      BY <2>1, <3>1, <3>2, <3>3
  <2> QED
    BY <2>1 DEF Next, Task
<1>7. ASSUME NEW r, DeleteRoom(r) PROVE DOMAIN huddle' = DOMAIN huddle
  BY <1>4, <1>7 DEF DeleteRoom
<1>8. ASSUME NEW t, DoEndRoom(t) PROVE DOMAIN huddle' = DOMAIN huddle
  <2>1. huddle' = [h \in DOMAIN huddle |-> IF h \in Active(t.room) THEN [huddle[h] EXCEPT !.state = "ended"] ELSE huddle[h]]
    BY <1>8, Zenon DEF DoEndRoom
  <2> QED
    BY <1>4, <2>1
<1> QED
  BY <1>2, <1>3, <1>5, <1>6, <1>7, <1>8

\* A call that may start a huddle after a step could before it; the one that has, cannot.
LEMMA AwaitedStep ==
    ASSUME HuddleInv, Accounted, [Next]_vars
    PROVE  Len(huddle') + Cardinality(Awaited') + left'.joins <= MaxJoins
<1>0. Types /\ Identity /\ Entered /\ RowsInv
  BY DEF HuddleInv, IdsInv
<1>1. /\ IsFiniteSet(Awaited) /\ Cardinality(Awaited) \in Nat /\ Len(huddle) \in Nat /\ left.joins \in Nat
      /\ left.joins \notin Awaited /\ MaxJoins \in Nat
      /\ Len(huddle) + Cardinality(Awaited) + left.joins <= MaxJoins
  BY AwaitedFinite DEF Accounted
<1>2. ASSUME NEW S, S \subseteq Awaited
      PROVE  IsFiniteSet(S) /\ Cardinality(S) \in Nat /\ Cardinality(S) <= Cardinality(Awaited)
  BY <1>1, <1>2, FS_Subset, FS_CardinalityType
<1>3. ASSUME NEW c \in Callers, NEW u \in Users, NEW r \in Rooms, Join(c, u, r)
      PROVE  Len(huddle') + Cardinality(Awaited') + left'.joins <= MaxJoins
  <2>1. /\ \A d \in Callers : d # c => join'[d] = join[d]
        /\ join'[c].part = left.joins /\ left'.joins \in Nat /\ left'.joins < left.joins /\ huddle' = huddle
    BY <1>0, <1>3, JoinFields
  <2>2. Awaited' \subseteq Awaited \cup {left.joins}
    BY <2>1 DEF Awaited, Stage
  <2>3. IsFiniteSet(Awaited \cup {left.joins}) /\ Cardinality(Awaited \cup {left.joins}) = Cardinality(Awaited) + 1
    BY <1>1, FS_AddElement
  <2>4. Cardinality(Awaited') <= Cardinality(Awaited) + 1 /\ Cardinality(Awaited') \in Nat
    BY <2>2, <2>3, FS_Subset, FS_CardinalityType
  <2>5. Len(huddle') = Len(huddle) /\ left'.joins \in Nat /\ left'.joins <= left.joins - 1
    BY <1>1, <2>1
  <2>6. /\ Cardinality(Awaited) \in Nat /\ Len(huddle) \in Nat /\ left.joins \in Nat /\ MaxJoins \in Nat
        /\ Len(huddle) + Cardinality(Awaited) + left.joins <= MaxJoins
    BY <1>1
  <2>7. ASSUME NEW l \in Nat, NEW n \in Nat, NEW m \in Nat, NEW j \in Nat, NEW k \in Nat, NEW i \in Nat,
               l + n + j <= m, k <= n + 1, i <= j - 1
        PROVE  l + k + i <= m
    BY <2>7
  <2> QED
    BY <2>4, <2>5, <2>6, <2>7
<1>4. ASSUME NEW c \in Callers, Call(c) \/ JoinFails(c)
      PROVE  /\ left'.joins = left.joins /\ \A d \in Callers : d # c => join'[d] = join[d]
             /\ join'[c].stage \in ToStart => join[c].stage \in ToStart /\ join'[c].part = join[c].part
  <2>1. left'.joins = left.joins
    <3>1. Follows \/ \E a \in BOOLEAN : Placing(c, a)
      BY <1>0, <1>4, CallFollows, WritePlaces, UndoFollows, FailsFollows DEF Call
    <3>2. CASE Follows
      BY <3>2 DEF Follows
    <3>3. CASE \E a \in BOOLEAN : Placing(c, a)
      BY <3>3, Zenon DEF Placing
    <3> QED
      BY <3>1, <3>2, <3>3
  <2>2. \A d \in Callers : d # c => join'[d] = join[d]
    BY <1>0, <1>4, CallStages
  <2>3. ASSUME join'[c].stage \in ToStart PROVE join[c].stage \in ToStart /\ join'[c].part = join[c].part
    <3>1. join'[c].part = join[c].part
      BY <1>0, <1>4, <2>3, CallKeeps DEF ToStart
    <3>2. JoinAgain(c) \/ LockActive(c) \/ Start(c)
      BY <1>0, <1>4, <2>3, CallStages DEF Call, ToStart
    <3> QED
      BY <3>1, <3>2 DEF JoinAgain, LockActive, Start, Stage, ToStart
  <2> QED
    BY <2>1, <2>2, <2>3
<1>5. ASSUME NEW c \in Callers, Start(c), Len(huddle') = Len(huddle) + 1, join'[c].stage = "locked"
      PROVE  Len(huddle') + Cardinality(Awaited') + left'.joins <= MaxJoins
  <2>1. join[c].stage = "starting"
    BY <1>5 DEF Start, Stage
  <2>2. \A d \in Callers : d # c /\ join[d].stage \in ToStart => join[d].part # join[c].part
    BY <1>0, <2>1 DEF Identity, Stage, ToStart
  <2>3. Call(c)
    BY <1>5 DEF Call
  <2>4. left'.joins = left.joins /\ \A d \in Callers : d # c => join'[d] = join[d]
    BY <1>4, <2>3
  <2>5. Awaited' \subseteq Awaited \ {join[c].part}
    BY <1>5, <2>2, <2>4 DEF Awaited, Stage, ToStart
  <2>6. join[c].part \in Awaited
    BY <2>1 DEF Awaited, Stage, ToStart
  <2>7. IsFiniteSet(Awaited \ {join[c].part}) /\ Cardinality(Awaited \ {join[c].part}) = Cardinality(Awaited) - 1
    BY <1>1, <2>6, FS_RemoveElement
  <2>8. Cardinality(Awaited') <= Cardinality(Awaited) - 1 /\ Cardinality(Awaited') \in Nat
    BY <2>5, <2>7, FS_Subset, FS_CardinalityType
  <2> QED
    BY <1>1, <1>5, <2>4, <2>8
<1>6. ASSUME Awaited' \subseteq Awaited, left'.joins = left.joins, Len(huddle') = Len(huddle)
      PROVE  Len(huddle') + Cardinality(Awaited') + left'.joins <= MaxJoins
  BY <1>1, <1>2, <1>6
<1>7. ASSUME NEW c \in Callers, Call(c) \/ JoinFails(c), Len(huddle') = Len(huddle)
      PROVE  Len(huddle') + Cardinality(Awaited') + left'.joins <= MaxJoins
  <2>1. Awaited' \subseteq Awaited
    BY <1>4, <1>7 DEF Awaited, Stage
  <2> QED
    BY <1>4, <1>6, <1>7, <2>1
<1>8. CASE join' = join /\ left'.joins = left.joins /\ Len(huddle') = Len(huddle)
  BY <1>6, <1>8 DEF Awaited, Stage
<1>9. \/ \E c \in Callers : Call(c) \/ JoinFails(c)
      \/ \E c \in Callers : \E u \in Users : \E r \in Rooms : Join(c, u, r)
      \/ join' = join /\ left'.joins = left.joins
  <2>1. CASE \/ \E p \in part : Leave(p) \/ Vanish(p)
             \/ \E u \in Users, r \in Rooms : RemoveMember(u, r)
             \/ \E r \in Rooms : Archive(r) \/ DeleteRoom(r)
             \/ \E t \in tasks : Task(t) \/ Lose(t)
             \/ UNCHANGED vars
    <3>1. CASE \/ \E p \in part : Leave(p) \/ Vanish(p)
               \/ \E u \in Users, r \in Rooms : RemoveMember(u, r)
               \/ \E r \in Rooms : Archive(r) \/ DeleteRoom(r)
               \/ UNCHANGED vars
      <4>1. join' = join /\ (Changing \/ Failing \/ left' = left)
        BY <3>1 DEF Leave, RemovePart, Vanish, RemoveMember, Archive, DeleteRoom, vars
      <4> QED
        BY <1>0, <4>1, LeftTypes
    <3>2. ASSUME NEW t \in tasks, Task(t) \/ Lose(t)
          PROVE  join' = join /\ left'.joins = left.joins
      <4>1. join' = join /\ (Failing \/ left' = left)
        BY <3>2, Zenon DEF Task, DoEndIfEmpty, DoClear, DoEndRoom, DoRemove, Lose
      <4> QED
        BY <1>0, <4>1, LeftTypes
    <3> QED
      BY <2>1, <3>1, <3>2
  <2> QED
    BY <2>1 DEF Next
<1>10. ASSUME NEW c \in Callers, Start(c), join'[c].stage = "locked", Len(huddle') = Len(huddle) + 1
       PROVE  Len(huddle') + Cardinality(Awaited') + left'.joins <= MaxJoins
  BY <1>5, <1>10
<1> QED
  BY <1>0, <1>3, <1>7, <1>8, <1>9, <1>10, RowsCount

\* A call may name what was begun later, too.
LEMMA WithinWider ==
    ASSUME NEW H, NEW K, H \subseteq K, NEW call, CallWithin(call, H)
    PROVE  CallWithin(call, K)
BY DEF CallWithin

\* The calls that a step can make of one.
LEMMA WithinChanged ==
    ASSUME Types, NEW c \in Callers, NEW H, H \subseteq Nat \ {0}, CallWithin(join[c], H)
    PROVE  /\ CallWithin(NoCall, H)
           /\ \A s : (s \in {"locked", "written", "undo"} => join[c].huddle # 0) =>
                  CallWithin([join[c] EXCEPT !.stage = s], H)
           /\ \A n \in 1..2 : CallWithin([join[c] EXCEPT !.stage = "again", !.tries = n], H)
           /\ \A h \in H : CallWithin([join[c] EXCEPT !.stage = "locked", !.huddle = h], H)
           /\ \A E \in SUBSET H : join[c].huddle # 0 =>
                  CallWithin([join[c] EXCEPT !.stage = "written", !.evicted = E], H)
<1>0. MaxJoins \in Nat
  BY HuddleAssumption
<1>1. join[c] \in Joining
  BY CallTypes
<1>2. CallWithin(NoCall, H)
  BY <1>0 DEF NoCall, CallWithin
<1>3. ASSUME NEW s, s \in {"locked", "written", "undo"} => join[c].huddle # 0
      PROVE  CallWithin([join[c] EXCEPT !.stage = s], H)
  BY <1>1, <1>3 DEF Joining, CallWithin
<1>4. ASSUME NEW n \in 1..2
      PROVE  CallWithin([join[c] EXCEPT !.stage = "again", !.tries = n], H)
  BY <1>1 DEF Joining, CallWithin
<1>5. ASSUME NEW h \in H
      PROVE  CallWithin([join[c] EXCEPT !.stage = "locked", !.huddle = h], H)
  BY <1>1 DEF Joining, CallWithin
<1>6. ASSUME NEW E \in SUBSET H, join[c].huddle # 0
      PROVE  CallWithin([join[c] EXCEPT !.stage = "written", !.evicted = E], H)
  BY <1>1, <1>6 DEF Joining, CallWithin
<1> QED
  BY <1>2, <1>3, <1>4, <1>5, <1>6, Zenon

LEMMA CallsWithin ==
    ASSUME HuddleInv, Accounted, NEW c \in Callers, Call(c) \/ JoinFails(c)
    PROVE  CallWithin(join'[c], DOMAIN huddle')
<1>0. Types /\ RowsInv /\ Entered /\ [Next]_vars /\ join \in [Callers -> Joining]
  BY DEF HuddleInv, IdsInv, Types, Next
<1>1. /\ DOMAIN huddle \subseteq DOMAIN huddle' /\ DOMAIN huddle \subseteq Nat \ {0} /\ Len(huddle) \in Nat
  BY <1>0, HuddleRows, RowsGrow DEF Grown
<1>2. CallWithin(join[c], DOMAIN huddle)
  BY DEF Accounted
<1>3. \A r : join' = [join EXCEPT ![c] = r] => join'[c] = r
  BY <1>0
<1>4. ASSUME NEW r, join' = [join EXCEPT ![c] = r], CallWithin(r, DOMAIN huddle)
      PROVE  CallWithin(join'[c], DOMAIN huddle')
  BY <1>1, <1>3, <1>4, WithinWider, Zenon
<1>5. CallWithin(NoCall, DOMAIN huddle)
  BY <1>0, <1>1, <1>2, WithinChanged, Zenon
<1>6. CASE JoinAgain(c)
  <2>1. CallWithin([join[c] EXCEPT !.stage = "entered"], DOMAIN huddle)
    BY <1>0, <1>1, <1>2, WithinChanged, Zenon
  <2>2. \/ join' = [join EXCEPT ![c] = NoCall]
        \/ join' = [join EXCEPT ![c] = [join[c] EXCEPT !.stage = "entered"]]
    BY <1>6, Zenon DEF JoinAgain
  <2> QED
    BY <1>4, <1>5, <2>1, <2>2
<1>7. CASE LockActive(c)
  <2>1. CASE Active(join[c].room) = {}
    <3>1. join' = [join EXCEPT ![c] = [join[c] EXCEPT !.stage = "starting"]]
      BY <1>7, <2>1 DEF LockActive
    <3>2. CallWithin([join[c] EXCEPT !.stage = "starting"], DOMAIN huddle)
      BY <1>0, <1>1, <1>2, WithinChanged, Zenon
    <3> QED
      BY <1>4, <3>1, <3>2, Zenon
  <2>2. CASE Active(join[c].room) # {}
    <3>1. PICK h \in Active(join[c].room) : h = CHOOSE k \in Active(join[c].room) : TRUE
      BY <2>2
    <3>2. join' = [join EXCEPT ![c] = [join[c] EXCEPT !.stage = "locked", !.huddle = h]]
      BY <1>7, <2>2, <3>1, Zenon DEF LockActive
    <3>3. h \in DOMAIN huddle
      BY DEF Active
    <3>4. CallWithin([join[c] EXCEPT !.stage = "locked", !.huddle = h], DOMAIN huddle)
      BY <1>0, <1>1, <1>2, <3>3, WithinChanged, Zenon
    <3> QED
      BY <1>4, <3>2, <3>4, Zenon
  <2> QED
    BY <2>1, <2>2
<1>8. CASE Start(c)
  <2>1. CASE Active(join[c].room) # {}
    <3>1. \/ join[c].tries > 1 /\ join' = [join EXCEPT ![c] = [join[c] EXCEPT !.stage = "again", !.tries = join[c].tries - 1]]
          \/ join' = [join EXCEPT ![c] = NoCall]
      <4>1. join' = [join EXCEPT ![c] = IF join[c].tries > 1 THEN [join[c] EXCEPT !.stage = "again", !.tries = join[c].tries - 1]
                                        ELSE NoCall]
        BY <1>8, <2>1 DEF Start
      <4> QED
        BY <4>1, Zenon
    <3>2. join[c].tries > 1 => join[c].tries - 1 \in 1..2
      BY <1>2 DEF CallWithin
    <3>3. join[c].tries > 1 =>
              CallWithin([join[c] EXCEPT !.stage = "again", !.tries = join[c].tries - 1], DOMAIN huddle)
      BY <1>0, <1>1, <1>2, <3>2, WithinChanged, Zenon
    <3> QED
      BY <1>4, <1>5, <3>1, <3>3
  <2>2. CASE Active(join[c].room) = {}
    <3>1. /\ join' = [join EXCEPT ![c].stage = "locked", ![c].huddle = Len(huddle) + 1]
          /\ huddle' = Append(huddle, [room |-> join[c].room, state |-> "starting"])
      BY <1>8, <2>2 DEF Start
    <3>2. join' = [join EXCEPT ![c] = [join[c] EXCEPT !.stage = "locked", !.huddle = Len(huddle) + 1]]
      BY <1>0, <3>1, Zenon
    <3>3. DOMAIN huddle' = DOMAIN huddle \cup {Len(huddle) + 1}
      <4>1. join[c].room \in Rooms
        BY <1>0, <1>8, Zenon DEF Start, Entered, InTx
      <4>2. PICK row \in Row : row = [room |-> join[c].room, state |-> "starting"]
        BY <4>1, Zenon DEF Row
      <4>3. PICK f : f = huddle'
        OBVIOUS
      <4> QED
        BY <1>0, <3>1, <4>2, <4>3, Begun, Zenon
    <3>4. CallWithin([join[c] EXCEPT !.stage = "locked", !.huddle = Len(huddle) + 1], DOMAIN huddle')
      <4>1. PICK H : H = DOMAIN huddle'
        OBVIOUS
      <4>2. H \subseteq Nat \ {0} /\ Len(huddle) + 1 \in H /\ CallWithin(join[c], H)
        BY <1>1, <1>2, <3>3, <4>1, WithinWider
      <4>3. CallWithin([join[c] EXCEPT !.stage = "locked", !.huddle = Len(huddle) + 1], H)
        BY <1>0, <4>2, WithinChanged, Zenon
      <4> QED
        BY <4>1, <4>3
    <3> QED
      BY <1>3, <3>2, <3>4, Zenon
  <2> QED
    BY <2>1, <2>2
<1>9. CASE Write(c)
  <2>1. CASE Full(c)
    <3>1. join' = [join EXCEPT ![c] = NoCall]
      BY <1>9, <2>1 DEF Write
    <3> QED
      BY <1>4, <1>5, <3>1, Zenon
  <2>2. CASE ~Full(c)
    <3>1. PICK E : E = Evicted(c)
      BY Zenon
    <3>2. E \in SUBSET DOMAIN huddle
      BY <1>0, <3>1 DEF Evicted, Old, Of, RowsInv
    <3>3. join' = [join EXCEPT ![c].stage = "written", ![c].evicted = E]
      BY <1>9, <2>2, <3>1 DEF Write
    <3>4. join' = [join EXCEPT ![c] = [join[c] EXCEPT !.stage = "written", !.evicted = E]]
      BY <1>0, <3>3, Zenon
    <3>5. join[c].huddle # 0
      BY <1>0, <1>1, <1>9 DEF Write, RowsInv, Locking
    <3>6. CallWithin([join[c] EXCEPT !.stage = "written", !.evicted = E], DOMAIN huddle)
      BY <1>0, <1>1, <1>2, <3>2, <3>5, WithinChanged, Zenon
    <3> QED
      BY <1>4, <3>4, <3>6, Zenon
  <2> QED
    BY <2>1, <2>2
<1>10. CASE Commit(c) \/ Undo(c) \/ WriteLate(c)
  <2>1. join' = [join EXCEPT ![c] = NoCall]
    BY <1>10 DEF Commit, Undo, WriteLate
  <2> QED
    BY <1>4, <1>5, <2>1, Zenon
<1>11. CASE JoinFails(c)
  <2>1. \/ join' = [join EXCEPT ![c] = NoCall]
        \/ Stage(c) = "written" /\ join' = [join EXCEPT ![c] = [join[c] EXCEPT !.stage = "undo"]]
        \/ join' = [join EXCEPT ![c] = [join[c] EXCEPT !.stage = "late"]]
    BY <1>11, Zenon DEF JoinFails
  <2>2. Stage(c) = "written" => CallWithin([join[c] EXCEPT !.stage = "undo"], DOMAIN huddle)
    <3>1. Stage(c) = "written" => join[c].huddle # 0
      BY <1>2 DEF CallWithin, Stage
    <3> QED
      BY <1>0, <1>1, <1>2, <3>1, WithinChanged, Zenon
  <2>3. CallWithin([join[c] EXCEPT !.stage = "late"], DOMAIN huddle)
    BY <1>0, <1>1, <1>2, WithinChanged, Zenon
  <2> QED
    BY <1>4, <1>5, <2>1, <2>2, <2>3
<1> QED
  BY <1>6, <1>7, <1>8, <1>9, <1>10, <1>11 DEF Call

\* No id is made but by a call of JoinHuddle.
LEMMA IdsWithin ==
    ASSUME HuddleInv, Accounted, [Next]_vars
    PROVE  (\A p \in part' : p.id <= MaxJoins) /\ \A u \in Users : current'[u] <= MaxJoins
<1>0. Types /\ Identity /\ Entered /\ RowsInv /\ 0 <= MaxJoins /\ current \in [Users -> Nat]
  BY HuddleAssumption DEF HuddleInv, IdsInv, Types
<1>1. (\A p \in part : p.id <= MaxJoins) /\ \A u \in Users : current[u] <= MaxJoins
  BY DEF Accounted
<1>2. CASE Unplaced
  BY <1>1, <1>2 DEF Unplaced
<1>3. ASSUME NEW i \in Nat, Silenced(i)
      PROVE  (\A p \in part' : p.id <= MaxJoins) /\ \A u \in Users : current'[u] <= MaxJoins
  <2>1. \A q \in part' : \E p \in part : q.id = p.id
    BY <1>0, <1>3, SilencedParts
  <2>2. current' = current
    BY <1>3 DEF Silenced
  <2> QED
    BY <1>1, <2>1, <2>2
<1>4. ASSUME NEW P, Removed(P)
      PROVE  (\A p \in part' : p.id <= MaxJoins) /\ \A u \in Users : current'[u] <= MaxJoins
  <2>1. part' \subseteq part
    BY <1>4 DEF Removed
  <2>2. \A u \in Users : current'[u] \in {0, current[u]}
    BY <1>4 DEF Removed, Forget
  <2> QED
    BY <1>0, <1>1, <2>1, <2>2
<1>5. ASSUME NEW c \in Callers, NEW a \in BOOLEAN, Placing(c, a)
      PROVE  (\A p \in part' : p.id <= MaxJoins) /\ \A u \in Users : current'[u] <= MaxJoins
  <2>1. join[c].part <= MaxJoins
    BY DEF Accounted, CallWithin
  <2>2. New(c, a).id = join[c].part
    BY <1>0, <1>5, PlacingFields
  <2>3. part' \subseteq part \cup {New(c, a)} /\ current' = [current EXCEPT ![join[c].user] = join[c].part]
    BY <1>5 DEF Placing
  <2>4. \A u \in Users : current'[u] \in {join[c].part, current[u]}
    BY <1>0, <2>3
  <2> QED
    BY <1>1, <2>1, <2>2, <2>3, <2>4
<1>6. ASSUME NEW c \in Callers, NEW u \in Users, NEW r \in Rooms, Join(c, u, r)
      PROVE  Unplaced
  BY <1>0, <1>6, JoinFields DEF Unplaced
<1> QED
  BY <1>0, <1>2, <1>3, <1>4, <1>5, <1>6, Kinds

\* The tasks about huddles that are there.
LEMMA TasksMade ==
    ASSUME NEW H
    PROVE  /\ \A K \in SUBSET H : EndIfEmpty(K) \subseteq TasksOn(H) /\ TasksOn(K) \subseteq TasksOn(H)
           /\ \A h \in H : ToClear(h) \in TasksOn(H)
           /\ \A r \in Rooms : ToEnd(r) \in TasksOn(H)
           /\ \A u \in Users, r \in Rooms : ToRemove(u, r) \in TasksOn(H)
<1>1. ASSUME NEW K \in SUBSET H
      PROVE  EndIfEmpty(K) \subseteq TasksOn(H)
  <2>1. ASSUME NEW h \in H
        PROVE  [kind |-> "end if empty", huddle |-> h, room |-> NoRoom, user |-> NoUser] \in TasksOn(H)
    BY DEF TasksOn
  <2> QED
    BY <2>1, Zenon DEF EndIfEmpty
<1>2. ASSUME NEW K \in SUBSET H
      PROVE  TasksOn(K) \subseteq TasksOn(H)
  BY Zenon DEF TasksOn
<1>3. \A h \in H : ToClear(h) \in TasksOn(H)
  BY DEF ToClear, TasksOn
<1>4. \A r \in Rooms : ToEnd(r) \in TasksOn(H)
  BY DEF ToEnd, TasksOn
<1>5. \A u \in Users, r \in Rooms : ToRemove(u, r) \in TasksOn(H)
  BY DEF ToRemove, TasksOn
<1> QED
  BY <1>1, <1>2, <1>3, <1>4, <1>5

\* No step makes a task about a huddle that was never begun.
LEMMA TasksStep ==
    ASSUME HuddleInv, Accounted, [Next]_vars
    PROVE  tasks' \cup lost' \subseteq TasksOn(DOMAIN huddle')
<1>0. Types /\ RowsInv /\ Entered
  BY DEF HuddleInv, IdsInv
<1>1. DOMAIN huddle \subseteq DOMAIN huddle'
  BY <1>0, RowsGrow DEF Grown
<1>2. PICK T : T = TasksOn(DOMAIN huddle)
  OBVIOUS
<1>3. /\ tasks \cup lost \subseteq T
      /\ \A K \in SUBSET DOMAIN huddle : EndIfEmpty(K) \subseteq T
      /\ \A h \in DOMAIN huddle : ToClear(h) \in T
      /\ \A r \in Rooms : ToEnd(r) \in T
      /\ \A u \in Users, r \in Rooms : ToRemove(u, r) \in T
  BY <1>2, TasksMade DEF Accounted
<1>4. ASSUME NEW c \in Callers, Call(c) \/ JoinFails(c)
      PROVE  tasks' \cup lost' \subseteq T
  <2>1. join[c].evicted \subseteq DOMAIN huddle
    BY DEF Accounted, CallWithin
  <2>2. EndIfEmpty(join[c].evicted) \subseteq T
    BY <1>3, <2>1
  <2>3. PICK H : H = {p.huddle : p \in {q \in part : q.id = join[c].part}} \ join[c].evicted
    OBVIOUS
  <2>4. PICK E : E = Evicted(c) \ {join[c].huddle}
    OBVIOUS
  <2>5. H \in SUBSET DOMAIN huddle /\ E \in SUBSET DOMAIN huddle
    BY <1>0, <2>3, <2>4 DEF Evicted, Old, Of, RowsInv
  <2>6. EndIfEmpty(H) \subseteq T /\ EndIfEmpty(E) \subseteq T
    BY <1>3, <2>5
  <2>7. /\ tasks' \in {tasks, tasks \cup EndIfEmpty(join[c].evicted)}
        /\ lost' \in {lost, lost \cup EndIfEmpty(H), lost \cup EndIfEmpty(E)}
    BY <1>4, <2>3, <2>4 DEF Call, JoinAgain, LockActive, Start, Write, WriteLate, Commit, Undo, JoinFails
  <2> QED
    BY <1>3, <2>2, <2>6, <2>7
<1>5. ASSUME NEW p \in part, Leave(p) \/ Vanish(p)
      PROVE  tasks' \cup lost' \subseteq T
  <2>1. EndIfEmpty({p.huddle}) \subseteq T
    <3>1. {p.huddle} \in SUBSET DOMAIN huddle
      BY <1>0 DEF RowsInv
    <3> QED
      BY <1>3, <3>1
  <2>2. tasks' \in {tasks, tasks \cup EndIfEmpty({p.huddle})} /\ lost' = lost
    BY <1>5 DEF Leave, RemovePart, Vanish
  <2> QED
    BY <1>3, <2>1, <2>2
<1>6. ASSUME NEW u \in Users, NEW r \in Rooms, RemoveMember(u, r)
      PROVE  tasks' \cup lost' \subseteq T
  <2>1. tasks' = tasks \cup {ToRemove(u, r)} /\ lost' = lost
    BY <1>6 DEF RemoveMember
  <2> QED
    BY <1>3, <2>1
<1>7. ASSUME NEW r \in Rooms, Archive(r) \/ DeleteRoom(r)
      PROVE  tasks' \cup lost' \subseteq T
  <2>1. tasks' \in {tasks \cup {ToEnd(r)}, tasks \cup {ToClear(h) : h \in Active(r)}} /\ lost' = lost
    BY <1>7 DEF Archive, DeleteRoom
  <2>2. {ToClear(h) : h \in Active(r)} \subseteq T
    BY <1>3 DEF Active
  <2> QED
    BY <1>3, <2>1, <2>2
<1>8. ASSUME NEW t \in tasks, Task(t) \/ Lose(t)
      PROVE  tasks' \cup lost' \subseteq T
  <2>1. CASE DoEndIfEmpty(t) \/ DoClear(t) \/ Lose(t)
    <3>1. tasks' \cup lost' \subseteq tasks \cup lost
      BY <2>1, Zenon DEF DoEndIfEmpty, DoClear, Lose
    <3> QED
      BY <1>3, <3>1
  <2>2. CASE DoEndRoom(t)
    <3>1. tasks' = (tasks \ {t}) \cup {ToClear(h) : h \in Active(t.room)} /\ lost' = lost
      BY <2>2, Zenon DEF DoEndRoom
    <3>2. {ToClear(h) : h \in Active(t.room)} \subseteq T
      BY <1>3 DEF Active
    <3> QED
      BY <1>3, <3>1, <3>2
  <2>3. CASE DoRemove(t)
    <3>1. PICK found : /\ found \subseteq part
                       /\ tasks' = (tasks \ {t}) \cup EndIfEmpty({p.huddle : p \in found}) /\ lost' = lost
      BY <2>3 DEF DoRemove, Of
    <3>2. {p.huddle : p \in found} \in SUBSET DOMAIN huddle
      BY <1>0, <3>1 DEF RowsInv
    <3> QED
      BY <1>3, <3>1, <3>2
  <2> QED
    BY <1>8, <2>1, <2>2, <2>3 DEF Task
<1>9. ASSUME \/ \E c \in Callers : \E u \in Users, r \in Rooms : Join(c, u, r)
             \/ UNCHANGED vars
      PROVE  tasks' \cup lost' \subseteq T
  <2>1. tasks' = tasks /\ lost' = lost
    BY <1>9, Zenon DEF Join, vars
  <2> QED
    BY <1>3, <2>1
<1>10. tasks' \cup lost' \subseteq T
  BY <1>4, <1>5, <1>6, <1>7, <1>8, <1>9 DEF Next
<1>11. T \subseteq TasksOn(DOMAIN huddle')
  BY <1>1, <1>2, TasksMade
<1> QED
  BY <1>10, <1>11

LEMMA AccountedStep ==
    ASSUME HuddleInv, Accounted, [Next]_vars
    PROVE  Accounted'
<1>0. Types /\ RowsInv /\ Entered
  BY DEF HuddleInv, IdsInv
<1>1. archived' \subseteq Rooms
  <2>1. archived \subseteq Rooms
    BY DEF Accounted
  <2>2. CASE \/ \E c \in Callers : Call(c) \/ JoinFails(c)
             \/ \E c \in Callers : \E u \in Users, r \in Rooms : Join(c, u, r)
             \/ \E p \in part : Leave(p) \/ Vanish(p)
             \/ \E u \in Users, r \in Rooms : RemoveMember(u, r)
             \/ \E t \in tasks : Task(t) \/ Lose(t)
             \/ UNCHANGED vars
    <3>1. archived' = archived
      BY <2>2, Zenon DEF Call, JoinAgain, LockActive, Start, Write, WriteLate, Commit, Undo, JoinFails, Join, Leave, RemovePart,
                  Vanish, RemoveMember, Task, DoEndIfEmpty, DoClear, DoEndRoom, DoRemove, Lose, vars
    <3> QED
      BY <2>1, <3>1
  <2>3. ASSUME NEW r \in Rooms, Archive(r) \/ DeleteRoom(r)
        PROVE  archived' \subseteq Rooms
    <3>1. archived' = archived \cup {r}
      BY <2>3 DEF Archive, DeleteRoom
    <3> QED
      BY <2>1, <3>1
  <2> QED
    BY <2>2, <2>3 DEF Next
<1>2. ASSUME NEW d \in Callers
      PROVE  CallWithin(join'[d], DOMAIN huddle')
  <2>1. DOMAIN huddle \subseteq DOMAIN huddle' /\ CallWithin(join[d], DOMAIN huddle)
    BY <1>0, RowsGrow DEF Grown, Accounted
  <2>2. CASE join'[d] = join[d]
    BY <2>1, <2>2, WithinWider
  <2>3. ASSUME NEW c \in Callers, Call(c) \/ JoinFails(c)
        PROVE  CallWithin(join'[d], DOMAIN huddle')
    <3>1. CASE d = c
      BY <2>3, <3>1, CallsWithin
    <3>2. CASE d # c
      BY <1>0, <2>2, <2>3, <3>2, CallStages
    <3> QED
      BY <3>1, <3>2
  <2>4. ASSUME NEW c \in Callers, NEW u \in Users, NEW r \in Rooms, Join(c, u, r)
        PROVE  CallWithin(join'[d], DOMAIN huddle')
    <3>1. CASE d # c
      BY <1>0, <2>2, <2>4, <3>1, JoinFields
    <3>2. CASE d = c
      <4>1. PICK n : n = [NoCall EXCEPT !.stage = "entered", !.user = u, !.room = r, !.part = left.joins]
        BY Zenon
      <4>2. join'[c] = n
        BY <1>0, <2>4, <4>1 DEF Join, Types
      <4>3. n.tries = 2 /\ n.huddle = 0 /\ n.evicted = {} /\ n.stage = "entered" /\ n.part = left.joins
        BY <4>1 DEF NoCall
      <4>4. left.joins <= MaxJoins
        BY AwaitedFinite
      <4>5. CallWithin(n, DOMAIN huddle')
        BY <4>3, <4>4 DEF CallWithin
      <4> QED
        BY <3>2, <4>2, <4>5
    <3> QED
      BY <3>1, <3>2
  <2>5. CASE \/ \E p \in part : Leave(p) \/ Vanish(p)
             \/ \E u \in Users, r \in Rooms : RemoveMember(u, r)
             \/ \E r \in Rooms : Archive(r) \/ DeleteRoom(r)
             \/ \E t \in tasks : Task(t) \/ Lose(t)
             \/ UNCHANGED vars
    <3>1. join' = join
      BY <2>5, Zenon DEF Leave, RemovePart, Vanish, RemoveMember, Archive, DeleteRoom, Task, DoEndIfEmpty, DoClear,
                  DoEndRoom, DoRemove, Lose, vars
    <3> QED
      BY <2>2, <3>1
  <2> QED
    BY <2>3, <2>4, <2>5 DEF Next
<1>3. Len(huddle') + Cardinality(Awaited') + left'.joins <= MaxJoins
  BY AwaitedStep
<1>4. (\A p \in part' : p.id <= MaxJoins) /\ \A u \in Users : current'[u] <= MaxJoins
  BY IdsWithin
<1>5. tasks' \cup lost' \subseteq TasksOn(DOMAIN huddle')
  BY TasksStep
<1> QED
  BY <1>1, <1>2, <1>3, <1>4, <1>5 DEF Accounted

LEMMA AccountedInit == Init => Accounted
<1> SUFFICES ASSUME Init PROVE Accounted
  OBVIOUS
<1>1. MaxJoins \in Nat
  BY HuddleAssumption
<1>2. /\ huddle = <<>> /\ part = {} /\ current = [u \in Users |-> 0] /\ join = [c \in Callers |-> NoCall]
      /\ archived = {} /\ tasks = {} /\ lost = {} /\ left.joins = MaxJoins
  BY DEF Init
<1>3. Awaited = {}
  BY <1>2 DEF Awaited, Stage, ToStart, NoCall
<1>4. Len(huddle) + Cardinality(Awaited) + left.joins <= MaxJoins
  <2>1. Cardinality({}) = 0 /\ Len(<<>>) = 0
    BY FS_EmptySet
  <2>2. Len(huddle) = 0 /\ Cardinality(Awaited) = 0
    BY <1>2, <1>3, <2>1
  <2> QED
    BY <1>1, <1>2, <2>2
<1>5. ASSUME NEW c \in Callers
      PROVE  CallWithin(join[c], DOMAIN huddle)
  <2>1. join[c] = NoCall
    BY <1>2
  <2>2. CallWithin(NoCall, DOMAIN huddle)
    BY <1>1 DEF NoCall, CallWithin
  <2> QED
    BY <2>1, <2>2
<1> QED
  BY <1>1, <1>2, <1>4, <1>5 DEF Accounted

\* The types of the module, the bound on what is begun with them.
LEMMA HuddleTyped ==
    ASSUME HuddleInv, Accounted
    PROVE  TypeOK
<1>0. Types /\ Identity /\ RowsInv /\ Entered /\ MaxJoins \in Nat /\ left.joins \in Nat
  BY HuddleAssumption, LeftTypes DEF HuddleInv, IdsInv
<1>1. DOMAIN huddle \subseteq Huddles
  <2>1. DOMAIN huddle = 1..Len(huddle) /\ Len(huddle) \in Nat /\ Len(huddle) <= MaxJoins
    BY <1>0, HuddleRows, AwaitedFinite
  <2> QED
    BY <1>0, <2>1 DEF Huddles
<1>2. part \subseteq [id : Ids, user : Users, huddle : DOMAIN huddle, alive : BOOLEAN]
  <2> SUFFICES ASSUME NEW p \in part
               PROVE  p \in [id : Ids, user : Users, huddle : DOMAIN huddle, alive : BOOLEAN]
    OBVIOUS
  <2>1. p \in Participation
    BY <1>0 DEF Types
  <2>2. p.id \in Ids
    <3>1. p.id \in Nat /\ left.joins < p.id /\ p.id <= MaxJoins
      BY <1>0, <2>1 DEF Participation, Identity, Accounted
    <3> QED
      BY <1>0, <3>1 DEF Ids
  <2>3. p.huddle \in DOMAIN huddle
    BY <1>0 DEF RowsInv
  <2> QED
    BY <2>1, <2>2, <2>3 DEF Participation
<1>3. current \in [Users -> {0} \cup Ids]
  <2>1. current \in [Users -> Nat] /\ \A u \in Users : current[u] <= MaxJoins
    BY <1>0 DEF Types, Accounted
  <2>2. \A u \in Users : current[u] \in {0} \cup Ids
    BY <1>0, <2>1 DEF Ids
  <2> QED
    BY <2>1, <2>2
<1>4. join \in [Callers -> [stage : {"idle", "again", "undo", "late"} \cup InTx, user : Users \cup {NoUser},
                             room : Rooms \cup {NoRoom}, tries : 1..2, huddle : {0} \cup Huddles,
                             part : {0} \cup Ids, evicted : SUBSET Huddles]]
  <2>1. join \in [Callers -> Joining]
    BY <1>0 DEF Types
  <2>2. ASSUME NEW c \in Callers
        PROVE  join[c] \in [stage : {"idle", "again", "undo", "late"} \cup InTx, user : Users \cup {NoUser},
                            room : Rooms \cup {NoRoom}, tries : 1..2, huddle : {0} \cup Huddles,
                            part : {0} \cup Ids, evicted : SUBSET Huddles]
    <3>1. join[c] \in Joining
      BY <2>1
    <3>2. CallWithin(join[c], DOMAIN huddle)
      BY DEF Accounted
    <3>3. join[c].tries \in 1..2 /\ join[c].huddle \in {0} \cup Huddles /\ join[c].evicted \in SUBSET Huddles
      BY <1>1, <3>2 DEF CallWithin
    <3>4. join[c].part \in {0} \cup Ids
      BY <1>0, <3>1, <3>2 DEF Joining, CallWithin, Ids
    <3> QED
      BY <3>1, <3>3, <3>4 DEF Joining
  <2> QED
    BY <2>1, <2>2
<1>5. tasks \cup lost \subseteq Tasks
  <2>1. TasksOn(DOMAIN huddle) \subseteq Tasks
    BY <1>1, Zenon DEF TasksOn, Tasks
  <2> QED
    BY <2>1 DEF Accounted
<1>6. /\ member \subseteq Users \X Rooms /\ archived \subseteq Rooms
      /\ huddle \in Seq([room : Rooms, state : {"starting", "active", "ended", "undone"}])
  BY <1>0 DEF Entered, Accounted, Types, Row
<1> QED
  BY <1>2, <1>3, <1>4, <1>5, <1>6 DEF TypeOK

\* The rows, the participations at Redis, the calls of JoinHuddle and the tasks stay in their
\* types: a call, however often its transaction is done again, starts at most one huddle and
\* makes at most one participation, and no task names a huddle that was never begun.
THEOREM HuddleTypes == Spec => []TypeOK
<1>1. Init => HuddleInv /\ Accounted
  BY HuddleInit, AccountedInit
<1>2. HuddleInv /\ Accounted /\ [Next]_vars => HuddleInv' /\ Accounted'
  BY HuddleStep, AccountedStep
<1>3. HuddleInv /\ Accounted => TypeOK
  BY HuddleTyped
<1> QED
  BY <1>1, <1>2, <1>3, PTL DEF Spec
=============================================================================
