-------------------------- MODULE ConnectionProofs --------------------------
(***************************************************************************)
(* Proofs about Connection, for every number of calls under way and every  *)
(* bound on what goes wrong.                                               *)
(***************************************************************************)
EXTENDS Connection, FiniteSetTheorems, TLAPS

\* What OneWay needs of the types: the rest of TypeOK says nothing of the attempts.
Types ==
    /\ started \in BOOLEAN
    /\ status \in {"closed", "connecting", "open", "reconnecting"}
    /\ calls \in [Calls -> Call]
    /\ timer \in BOOLEAN
    /\ socket \in {"none", "connecting", "open"}
    /\ heart \in {"off", "interval", "waiting"}

\* Whatever will bring the connection up, without counting.
Alone ==
    /\ \A k, l \in Current : k = l
    /\ Current # {} => ~timer /\ socket = "none" /\ started
    /\ timer => socket = "none" /\ started
    /\ socket # "none" => started
    /\ started => Current # {} \/ timer \/ socket # "none"

Shown ==
    /\ (status = "open") = (socket = "open") /\ (status = "open") = (heart # "off")
    /\ (status = "closed") = ~started
    /\ pending # {} => status = "open"

Inv == Types /\ Alone /\ Shown

\* Counting is the same as having just one.
LEMMA Counted == Inv => OneWay
<1> SUFFICES ASSUME Inv PROVE OneWay
    OBVIOUS
<1>1. IsFiniteSet(Current) /\ Cardinality(Current) \in Nat
    BY CallsAssumption, FS_Subset, FS_CardinalityType DEF Current
<1>2. Current = {} \/ \E k : Current = {k}
    BY DEF Inv, Alone
<1>3. CASE Current = {}
    <2>1. Cardinality(Current) = 0
        BY <1>3, FS_EmptySet
    <2> QED BY <2>1, <1>3 DEF Inv, Types, Alone, Shown, OneWay
<1>4. ASSUME NEW k, Current = {k} PROVE OneWay
    <2>1. Cardinality(Current) = 1
        BY <1>4, FS_Singleton
    <2>2. ~timer /\ socket = "none" /\ started
        BY <1>4 DEF Inv, Alone
    <2> QED BY <2>1, <2>2 DEF Inv, Shown, OneWay
<1> QED BY <1>2, <1>3, <1>4

-----------------------------------------------------------------------------
(* What a step does to the calls. *)

LEMMA BeginOne ==
    ASSUME Types, NEW op \in {"ticket", "revalidate"}, Begin(op)
    PROVE  /\ calls' \in [Calls -> Call]
           /\ \A k, l \in Current' : k = l
           /\ Current' # {}
<1>1. PICK k \in Calls : calls' = [Superseded EXCEPT ![k] = [op |-> op, current |-> TRUE]]
    BY DEF Begin
<1>2. Superseded \in [Calls -> Call] /\ \A l \in Calls : ~Superseded[l].current
    <2>1. \A l \in Calls : calls[l] \in Call
        BY DEF Types
    <2>2. \A l \in Calls : [calls[l] EXCEPT !.current = FALSE] \in Call /\ ~[calls[l] EXCEPT !.current = FALSE].current
        BY <2>1 DEF Call
    <2> QED BY <2>2 DEF Superseded
<1>3. [op |-> op, current |-> TRUE] \in Call
    BY DEF Call
<1>4. Current' = {k}
    BY <1>1, <1>2 DEF Current
<1> QED BY <1>1, <1>2, <1>3, <1>4

LEMMA SupersededNone ==
    ASSUME Types, calls' = Superseded
    PROVE  calls' \in [Calls -> Call] /\ Current' = {}
<1>1. \A l \in Calls : calls[l] \in Call
    BY DEF Types
<1>2. \A l \in Calls : [calls[l] EXCEPT !.current = FALSE] \in Call /\ ~[calls[l] EXCEPT !.current = FALSE].current
    BY <1>1 DEF Call
<1> QED BY <1>2 DEF Superseded, Current

LEMMA EndedOne ==
    ASSUME Types, NEW k \in Calls, Ended(k)
    PROVE  calls' \in [Calls -> Call] /\ Current' = Current \ {k}
<1>1. Over \in Call /\ ~Over.current
    BY DEF Over, Call
<1> QED BY <1>1 DEF Types, Ended, Current

LEMMA CallsKept ==
    ASSUME Types, UNCHANGED calls
    PROVE  calls' \in [Calls -> Call] /\ Current' = Current
BY DEF Types, Current

-----------------------------------------------------------------------------
(* Inv is inductive. *)

LEMMA InitInv == Init => Inv
<1> SUFFICES ASSUME Init PROVE Inv
    OBVIOUS
<1>1. Over \in Call /\ ~Over.current
    BY DEF Over, Call
<1>2. Current = {}
    BY <1>1 DEF Init, Current
<1> QED BY <1>1, <1>2 DEF Init, Inv, Types, Alone, Shown

\* The end of a socket starts the retry timer or the check of the session.
LEMMA CloseStep ==
    ASSUME Inv, NEW revoked \in BOOLEAN, HandleClose(revoked), socket # "none"
    PROVE  Inv'
<1>1. Current = {} /\ ~timer /\ started
    BY DEF Inv, Alone
<1>2. CASE revoked
    <2>1. /\ calls' \in [Calls -> Call]
          /\ \A k, l \in Current' : k = l
          /\ Current' # {}
        BY <1>2, BeginOne DEF Inv, HandleClose
    <2> QED BY <1>1, <1>2, <2>1 DEF Inv, Types, Alone, Shown, HandleClose, DropSocket
<1>3. CASE ~revoked
    <2>1. calls' \in [Calls -> Call] /\ Current' = Current
        BY <1>3, CallsKept DEF Inv, HandleClose
    <2> QED BY <1>1, <1>3, <2>1 DEF Inv, Types, Alone, Shown, HandleClose, DropSocket
<1> QED BY <1>2, <1>3

LEMMA HaltStep ==
    ASSUME Inv, Halt
    PROVE  Inv'
<1>1. calls' \in [Calls -> Call] /\ Current' = {}
    BY SupersededNone DEF Inv, Halt
<1> QED BY <1>1 DEF Inv, Types, Alone, Shown, Halt, DropSocket

\* The screen, the user and the timers.
LEMMA UserStep ==
    ASSUME Inv, Start \/ Stop \/ RetryTimer \/ Nudge
    PROVE  Inv'
<1>1. ASSUME Attempt, socket = "none", UNCHANGED <<socket, heart, pending>>, started'
      PROVE  Inv'
    <2>1. /\ calls' \in [Calls -> Call]
          /\ \A k, l \in Current' : k = l
          /\ Current' # {}
        BY <1>1, BeginOne DEF Inv, Attempt
    <2>2. CASE started' = TRUE
        BY <1>1, <2>1, <2>2 DEF Inv, Types, Alone, Shown, Attempt
    <2> QED BY <1>1, <2>1, <2>2 DEF Inv, Types, Alone, Shown, Attempt
<1>2. CASE Start
    <2>1. socket = "none"
        BY <1>2 DEF Start, Inv, Alone
    <2> QED BY <1>1, <1>2, <2>1 DEF Start
<1>3. CASE Stop
    <2>1. CASE started
        BY <1>3, <2>1, HaltStep DEF Stop
    <2>2. CASE ~started
        <3>1. UNCHANGED <<started, calls, timer, socket, heart, pending, status>>
            BY <1>3, <2>2 DEF Stop
        <3>2. calls' \in [Calls -> Call] /\ Current' = Current
            BY <3>1, CallsKept DEF Inv
        <3> QED BY <3>1, <3>2 DEF Inv, Types, Alone, Shown
    <2> QED BY <2>1, <2>2
<1>4. CASE RetryTimer
    <2>1. socket = "none" /\ started
        BY <1>4 DEF RetryTimer, Inv, Alone
    <2> QED BY <1>1, <1>4, <2>1 DEF RetryTimer
<1>5. CASE Nudge
    BY <1>1, <1>5 DEF Nudge
<1> QED BY <1>2, <1>3, <1>4, <1>5

\* The result of a call counts only as long as no later attempt was begun.
LEMMA CallStep ==
    ASSUME Inv, NEW k \in Calls, Issued(k) \/ Refused(k) \/ Unreachable(k) \/ Revalidated(k)
    PROVE  Inv'
<1>1. CASE Refused(k) /\ calls[k].current
    BY <1>1, HaltStep DEF Refused
<1>2. CASE Ended(k)
    <2>1. calls' \in [Calls -> Call] /\ Current' = Current \ {k}
        BY <1>2, EndedOne DEF Inv
    <2>2. CASE calls[k].current
        <3>1. Current = {k} /\ Current' = {}
            BY <2>1, <2>2 DEF Inv, Alone, Current
        <3>2. ~timer /\ socket = "none" /\ started
            BY <3>1 DEF Inv, Alone
        <3>3. CASE Issued(k)
            BY <2>1, <2>2, <3>1, <3>2, <3>3 DEF Inv, Types, Alone, Shown, Issued, activity
        <3>4. CASE Unreachable(k) \/ Revalidated(k)
            BY <2>1, <2>2, <3>1, <3>2, <3>4 DEF Inv, Types, Alone, Shown, Unreachable, Revalidated, Retrying
        <3> QED BY <1>1, <2>2, <3>3, <3>4
    <2>3. CASE ~calls[k].current
        <3>1. Current' = Current
            BY <2>1, <2>3 DEF Current
        <3>2. UNCHANGED <<started, status, timer, socket, heart, pending>>
            BY <2>3 DEF Issued, Refused, Unreachable, Revalidated, Retrying
        <3> QED BY <2>1, <3>1, <3>2 DEF Inv, Types, Alone, Shown
    <2> QED BY <2>2, <2>3
<1> QED BY <1>1, <1>2 DEF Issued, Refused, Unreachable, Revalidated

\* The socket and the heartbeat.
LEMMA SocketStep ==
    ASSUME Inv,
           \/ Opened \/ NotUpgraded \/ ClosedRevoked \/ Closed \/ LinkDies \/ Ping \/ NoPong
           \/ \E r \in Requests : Ask(r)
           \/ \E r \in Requests \cup {"ping"} : Ack(r)
    PROVE  Inv'
<1>1. CASE NotUpgraded \/ ClosedRevoked \/ Closed
    BY <1>1, CloseStep DEF NotUpgraded, ClosedRevoked, Closed
<1>2. CASE NoPong
    <2>1. socket # "none"
        BY <1>2 DEF NoPong, Inv, Shown
    <2> QED BY <1>2, <2>1, CloseStep DEF NoPong
<1>3. ASSUME UNCHANGED calls, Opened \/ LinkDies \/ Ping \/ (\E r \in Requests : Ask(r))
                              \/ (\E r \in Requests \cup {"ping"} : Ack(r))
      PROVE  Inv'
    <2>1. calls' \in [Calls -> Call] /\ Current' = Current
        BY <1>3, CallsKept DEF Inv
    <2>2. CASE Opened
        BY <2>1, <2>2 DEF Inv, Types, Alone, Shown, Opened
    <2>3. CASE LinkDies
        BY <2>1, <2>3 DEF Inv, Types, Alone, Shown, LinkDies
    <2>4. CASE Ping
        BY <2>1, <2>4 DEF Inv, Types, Alone, Shown, Ping
    <2>5. ASSUME NEW r \in Requests, Ask(r) PROVE Inv'
        BY <2>1, <2>5 DEF Inv, Types, Alone, Shown, Ask
    <2>6. ASSUME NEW r \in Requests \cup {"ping"}, Ack(r) PROVE Inv'
        BY <2>1, <2>6 DEF Inv, Types, Alone, Shown, Ack
    <2> QED BY <1>3, <2>2, <2>3, <2>4, <2>5, <2>6
<1> QED BY <1>1, <1>2, <1>3 DEF Opened, LinkDies, Ping, Ask, Ack

LEMMA NextInv == Inv /\ [Next]_vars => Inv'
<1> SUFFICES ASSUME Inv, [Next]_vars PROVE Inv'
    OBVIOUS
<1>1. ASSUME UNCHANGED <<started, status, calls, timer, socket, heart, pending>>
      PROVE  Inv'
    <2>1. calls' \in [Calls -> Call] /\ Current' = Current
        BY <1>1, CallsKept DEF Inv
    <2> QED BY <1>1, <2>1 DEF Inv, Types, Alone, Shown
<1>2. CASE Look \/ Update \/ Settle \/ Hear \/ Revoke \/ LogIn \/ Expire
    BY <1>1, <1>2 DEF Look, Update, Settle, Hear, Revoke, LogIn, Expire
<1>3. CASE UNCHANGED vars
    BY <1>1, <1>3 DEF vars
<1> QED BY <1>2, <1>3, UserStep, CallStep, SocketStep DEF Next

\* The tab never waits for nothing and never has two sockets, timers or attempts that count.
THEOREM OneWayAlways == Spec => []OneWay
<1>1. Spec => []Inv
    BY InitInv, NextInv, PTL DEF Spec
<1> QED BY <1>1, Counted, PTL
-----------------------------------------------------------------------------
(* The types of what OneWay says nothing of. *)

OtherTypes ==
    /\ link \in BOOLEAN
    /\ pending \subseteq Requests \cup {"ping"}
    /\ valid \in BOOLEAN
    /\ token \in BOOLEAN
    /\ older \subseteq {"token", "socket"}

ActivityTypes ==
    /\ seen \in BOOLEAN
    /\ watching \in BOOLEAN
    /\ notified \in BOOLEAN
    /\ settling \in BOOLEAN
    /\ frames \in Seq(BOOLEAN)
    /\ told \in BOOLEAN

Bounds == {"start", "nudge", "login", "failure", "change"}

\* The ways frames are put together.
LEMMA FrameTypes ==
    ASSUME NEW S
    PROVE  /\ <<>> \in Seq(S)
           /\ \A x \in S : <<x>> \in Seq(S)
           /\ \A s \in Seq(S), x \in S : Append(s, x) \in Seq(S)
           /\ \A s \in Seq(S) : s # <<>> => Head(s) \in S /\ Tail(s) \in Seq(S)
OBVIOUS

LEMMA SpendKeeps ==
    ASSUME budget \in [Bounds -> Nat], NEW what \in Bounds, Spend(what)
    PROVE  budget' \in [Bounds -> Nat]
BY DEF Spend, Bounds

LEMMA InitTypes == Init => TypeOK
<1> SUFFICES ASSUME Init PROVE TypeOK
    OBVIOUS
<1>1. Types
    BY InitInv DEF Inv
<1>2. budget \in [Bounds -> Nat]
    BY BoundsAssumption DEF Init, Bounds
<1>3. frames \in Seq(BOOLEAN)
    BY FrameTypes DEF Init
<1>4. OtherTypes
    BY DEF Init, OtherTypes
<1>5. ActivityTypes
    BY <1>3, Zenon DEF Init, ActivityTypes
<1> QED BY <1>1, <1>2, <1>4, <1>5, Zenon DEF Types, OtherTypes, ActivityTypes, TypeOK, Bounds

LEMMA BudgetStep ==
    ASSUME budget \in [Bounds -> Nat], [Next]_vars
    PROVE  budget' \in [Bounds -> Nat]
<1>1. (\E what \in Bounds : Spend(what)) \/ UNCHANGED budget
    <2>1. CASE Start \/ Stop \/ RetryTimer \/ Nudge
        BY <2>1 DEF Start, Stop, RetryTimer, Nudge, Bounds
    <2>2. ASSUME NEW k \in Calls, Issued(k) \/ Refused(k) \/ Unreachable(k) \/ Revalidated(k)
          PROVE  (\E what \in Bounds : Spend(what)) \/ UNCHANGED budget
        BY <2>2 DEF Issued, Refused, Unreachable, Revalidated, Bounds
    <2>3. CASE Opened \/ NotUpgraded \/ ClosedRevoked \/ Closed \/ LinkDies \/ Ping \/ NoPong
        BY <2>3 DEF Opened, NotUpgraded, ClosedRevoked, Closed, LinkDies, Ping, NoPong, Bounds
    <2>4. ASSUME NEW r, Ask(r) \/ Ack(r) PROVE UNCHANGED budget
        BY <2>4 DEF Ask, Ack
    <2>5. CASE Look \/ Update \/ Settle \/ Hear \/ Revoke \/ LogIn \/ Expire
        BY <2>5 DEF Look, Update, Settle, Hear, Revoke, LogIn, Expire, Bounds
    <2>6. CASE UNCHANGED vars
        BY <2>6 DEF vars
    <2> QED BY <2>1, <2>2, <2>3, <2>4, <2>5, <2>6 DEF Next
<1> QED BY <1>1, SpendKeeps

\* What the end of a socket and the end of the attempts leave.
LEMMA EndTypes ==
    ASSUME OtherTypes, ActivityTypes, UNCHANGED <<valid, older, seen>>,
           settling' \in BOOLEAN, watching' \in BOOLEAN,
           \/ (\E revoked \in BOOLEAN : HandleClose(revoked))
           \/ Halt /\ UNCHANGED token
    PROVE  OtherTypes' /\ ActivityTypes'
<1>1. token' \in BOOLEAN
    BY DEF HandleClose, OtherTypes
<1>2. pending' = {} /\ frames' = <<>> /\ notified' = FALSE /\ UNCHANGED <<link, told>>
    BY DEF HandleClose, Halt, DropSocket
<1>3. frames' \in Seq(BOOLEAN)
    BY <1>2, FrameTypes
<1>4. OtherTypes'
    BY <1>1, <1>2 DEF OtherTypes
<1>5. ActivityTypes'
    BY <1>2, <1>3, Zenon DEF ActivityTypes
<1> QED BY <1>4, <1>5

LEMMA OtherStep ==
    ASSUME OtherTypes, ActivityTypes, [Next]_vars
    PROVE  OtherTypes' /\ ActivityTypes'
<1>1. CASE Start \/ RetryTimer \/ Nudge
    BY <1>1 DEF Start, RetryTimer, Nudge, Attempt, activity, OtherTypes, ActivityTypes
<1>2. CASE Stop
    <2>1. CASE started
        BY <1>2, <2>1, EndTypes DEF Stop
    <2>2. CASE ~started
        BY <1>2, <2>2 DEF Stop, OtherTypes, ActivityTypes
    <2> QED BY <2>1, <2>2
<1>3. ASSUME NEW k \in Calls, Issued(k) PROVE OtherTypes' /\ ActivityTypes'
    <2>1. link' \in BOOLEAN /\ token' \in BOOLEAN /\ older' \subseteq {"token", "socket"}
        BY <1>3 DEF Issued, OtherTypes
    <2>2. UNCHANGED <<pending, valid, seen, watching, notified, settling, frames, told>>
        BY <1>3 DEF Issued, activity
    <2> QED BY <2>1, <2>2 DEF OtherTypes, ActivityTypes
<1>4. ASSUME NEW k \in Calls, Refused(k) PROVE OtherTypes' /\ ActivityTypes'
    <2>1. CASE calls[k].current
        BY <1>4, <2>1, EndTypes DEF Refused, ActivityTypes
    <2>2. CASE ~calls[k].current
        BY <1>4, <2>2 DEF Refused, OtherTypes, ActivityTypes
    <2> QED BY <2>1, <2>2
<1>5. ASSUME NEW k \in Calls, Unreachable(k) \/ Revalidated(k) PROVE OtherTypes' /\ ActivityTypes'
    <2>1. notified' \in BOOLEAN /\ token' \in BOOLEAN /\ older' \subseteq {"token", "socket"}
        BY <1>5 DEF Unreachable, Revalidated, Retrying, OtherTypes, ActivityTypes
    <2>2. UNCHANGED <<link, pending, valid, seen, watching, settling, frames, told>>
        BY <1>5 DEF Unreachable, Revalidated
    <2> QED BY <2>1, <2>2 DEF OtherTypes, ActivityTypes
<1>6. CASE Opened
    <2>1. frames' = <<seen>> /\ notified' = seen /\ told' = FALSE
        BY <1>6 DEF Opened, Announce
    <2>2. UNCHANGED <<link, pending, valid, token, older, seen, watching, settling>>
        BY <1>6 DEF Opened
    <2>3. frames' \in Seq(BOOLEAN)
        BY <2>1, FrameTypes, Zenon DEF ActivityTypes
    <2>4. OtherTypes'
        BY <2>2 DEF OtherTypes
    <2>5. ActivityTypes'
        BY <2>1, <2>2, <2>3, Zenon DEF ActivityTypes
    <2> QED BY <2>4, <2>5
<1>7. CASE NotUpgraded \/ ClosedRevoked \/ Closed \/ NoPong
    <2>1. \E revoked \in BOOLEAN : HandleClose(revoked)
        BY <1>7 DEF NotUpgraded, ClosedRevoked, Closed, NoPong
    <2>2. UNCHANGED <<valid, older, seen, watching, settling>>
        BY <2>1 DEF HandleClose
    <2> QED BY <2>1, <2>2, EndTypes DEF ActivityTypes
<1>8. CASE LinkDies \/ Ping
    BY <1>8 DEF LinkDies, Ping, activity, OtherTypes, ActivityTypes
<1>9. ASSUME NEW r \in Requests \cup {"ping"}, (r \in Requests /\ Ask(r)) \/ Ack(r)
      PROVE  OtherTypes' /\ ActivityTypes'
    BY <1>9 DEF Ask, Ack, activity, OtherTypes, ActivityTypes
<1>10. CASE Look \/ Update
    BY <1>10 DEF Look, Update, OtherTypes, ActivityTypes
<1>11. CASE Settle
    <2>1. settling' = FALSE /\ notified' = seen
        BY <1>11 DEF Settle
    <2>2. UNCHANGED <<link, pending, valid, token, older, seen, watching, told>>
        BY <1>11 DEF Settle
    <2>3. frames' = Append(frames, seen) \/ frames' = frames
        BY <1>11 DEF Settle
    <2>4. frames' \in Seq(BOOLEAN)
        BY <2>3, FrameTypes, Zenon DEF ActivityTypes
    <2>5. OtherTypes'
        BY <2>2 DEF OtherTypes
    <2>6. ActivityTypes'
        BY <2>1, <2>2, <2>4, Zenon DEF ActivityTypes
    <2> QED BY <2>5, <2>6
<1>12. CASE Hear
    <2>1. told' \in BOOLEAN /\ frames' \in Seq(BOOLEAN)
        BY <1>12, FrameTypes, Zenon DEF Hear, ActivityTypes
    <2>2. UNCHANGED <<link, pending, valid, token, older, seen, watching, notified, settling>>
        BY <1>12 DEF Hear
    <2> QED BY <2>1, <2>2 DEF OtherTypes, ActivityTypes
<1>13. CASE Revoke \/ LogIn \/ Expire
    BY <1>13 DEF Revoke, LogIn, Expire, activity, OtherTypes, ActivityTypes
<1>14. CASE UNCHANGED vars
    BY <1>14 DEF vars, OtherTypes, ActivityTypes
<1> QED BY <1>1, <1>2, <1>3, <1>4, <1>5, <1>6, <1>7, <1>8, <1>9, <1>10, <1>11, <1>12, <1>13, <1>14 DEF Next

\* The callbacks of connection.ts and activity.ts leave every field of the tab in its type;
\* in particular only requests that were asked for, and the ping of the heartbeat, wait for
\* an ack, whatever ends the socket in between.
THEOREM ConnectionTypes == Spec => []TypeOK
<1>1. Init => TypeOK /\ Inv
    BY InitTypes, InitInv
<1>2. TypeOK /\ Inv /\ [Next]_vars => TypeOK' /\ Inv'
    <2> SUFFICES ASSUME TypeOK, Inv, [Next]_vars PROVE TypeOK' /\ Inv'
        OBVIOUS
    <2>1. Inv' /\ Types'
        BY NextInv DEF Inv
    <2>2. OtherTypes' /\ ActivityTypes'
        BY OtherStep DEF TypeOK, OtherTypes, ActivityTypes
    <2>3. budget' \in [Bounds -> Nat]
        BY BudgetStep DEF TypeOK, Bounds
    <2> QED BY <2>1, <2>2, <2>3 DEF TypeOK, Types, OtherTypes, ActivityTypes, Bounds
<1> QED BY <1>1, <1>2, PTL DEF Spec
=============================================================================
