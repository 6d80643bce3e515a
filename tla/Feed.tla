-------------------------------- MODULE Feed --------------------------------
(***************************************************************************)
(* What the delivery of events promises to an instance (docs/adr/0016 and  *)
(* the comments of internal/chat/realtime/redis.go): a message that is     *)
(* published while a subscription to its channel is acknowledged reaches   *)
(* the hub, in the order of publication and none left out, or the          *)
(* instance is told that messages may be lost and makes every client       *)
(* synchronise again.                                                      *)
(***************************************************************************)
EXTENDS Naturals

CONSTANTS
    Channels,
    Holders,    \* the clients that acquire a channel, one at a time
    NoChannel,
    Numbers     \* the messages, numbered in the order of their publication

VARIABLES
    holds,      \* the channel whose subscription each holder has been acknowledged
    due         \* the messages published to acknowledged channels and not yet handed on

vars == <<holds, due>>

Held(ch) == \E h \in Holders : holds[h] = ch

Init == holds = [h \in Holders |-> NoChannel] /\ due = {}

Hold(h, ch) ==
    /\ holds[h] = NoChannel
    /\ holds' = [holds EXCEPT ![h] = ch]
    /\ UNCHANGED due

\* Messages for a channel that nobody holds any more are owed to nobody.
Drop(h) ==
    LET OthersHold(m) == \E g \in Holders \ {h} : holds[g] = m.channel
    IN  /\ holds[h] # NoChannel
        /\ holds' = [holds EXCEPT ![h] = NoChannel]
        /\ due' = {m \in due : OthersHold(m)}

Publish(ch) ==
    /\ Held(ch)
    /\ \E n \in Numbers :
        /\ \A m \in due : m.n < n
        /\ due' = due \cup {[channel |-> ch, n |-> n]}
    /\ UNCHANGED holds

\* The message that was published first is handed on.
Deliver ==
    /\ \E m \in due :
        /\ \A o \in due \ {m} : m.n < o.n
        /\ due' = due \ {m}
    /\ UNCHANGED holds

Resync ==
    /\ due # {}
    /\ due' = {}
    /\ UNCHANGED holds

Next ==
    \/ \E h \in Holders : Drop(h) \/ \E ch \in Channels : Hold(h, ch)
    \/ \E ch \in Channels : Publish(ch)
    \/ Deliver
    \/ Resync

Spec == Init /\ [][Next]_vars /\ WF_vars(Deliver \/ Resync)
=============================================================================
