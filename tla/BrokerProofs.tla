---------------------------- MODULE BrokerProofs ----------------------------
(***************************************************************************)
(* Proofs about Broker, for every set of channels and callers.             *)
(***************************************************************************)
EXTENDS Broker, FiniteSetTheorems, SequenceTheorems, TLAPS

Types ==
    /\ refs \in [Channels -> Nat] /\ at \in [Channels -> Nat]
    /\ seq \in Nat
    /\ holder \in [Holders -> [stage : Stages, channel : Channels \cup {NoChannel}, token : Nat]]
    /\ listed \subseteq Channels /\ closed \in BOOLEAN

Of(ch) == {h \in Holders : holder[h].channel = ch}

\* Only an idle caller has no channel.
Callers == \A h \in Holders : (holder[h].stage = "idle") = (holder[h].channel = NoChannel)

Inv == Types /\ Callers /\ RefsExact

LEMMA OfFinite ==
    \A ch : IsFiniteSet(Of(ch)) /\ Cardinality(Of(ch)) \in Nat
BY BrokerAssumption, FS_Subset, FS_CardinalityType DEF Of

LEMMA OneMore ==
    ASSUME NEW S, IsFiniteSet(S), NEW h
    PROVE  /\ h \notin S => Cardinality(S \cup {h}) = Cardinality(S) + 1
           /\ h \in S => Cardinality(S \ {h}) = Cardinality(S) - 1 /\ Cardinality(S) > 0
<1>1. h \in S => Cardinality(S) # 0
    BY FS_EmptySet
<1> QED BY <1>1, FS_AddElement, FS_RemoveElement, FS_CardinalityType

LEMMA Exact ==
    RefsExact <=> \A ch \in Channels : /\ refs[ch] = Cardinality(Of(ch))
                                       /\ ~closed => (refs[ch] > 0 <=> ch \in listed)
BY DEF RefsExact, Of

\* The callers of one channel, and its references, change by one.
LEMMA TakenStep ==
    ASSUME Types, Callers, RefsExact, NEW h \in Holders, NEW ch \in Channels, Is(h, "idle"),
           NEW s \in Stages \ {"idle"},
           holder' = [holder EXCEPT ![h] = [Idle EXCEPT !.stage = s, !.channel = ch]],
           refs' = [refs EXCEPT ![ch] = refs[ch] + 1], closed' = closed,
           listed' = IF refs[ch] = 0 THEN listed \cup {ch} ELSE listed
    PROVE  Callers' /\ RefsExact' /\ refs' \in [Channels -> Nat]
           /\ holder' \in [Holders -> [stage : Stages, channel : Channels \cup {NoChannel}, token : Nat]]
           /\ listed' \subseteq Channels
<1>1. /\ holder' \in [Holders -> [stage : Stages, channel : Channels \cup {NoChannel}, token : Nat]]
      /\ refs' \in [Channels -> Nat] /\ listed' \subseteq Channels
    <2>1. [Idle EXCEPT !.stage = s, !.channel = ch] \in [stage : Stages, channel : Channels \cup {NoChannel}, token : Nat]
        BY DEF Idle
    <2> QED BY <2>1 DEF Types
<1>2. Callers'
    BY BrokerAssumption DEF Callers, Types, Idle
<1>3. holder[h].channel = NoChannel
    BY DEF Callers, Is
<1>4. Of(ch)' = Of(ch) \cup {h} /\ h \notin Of(ch)
    BY <1>3, BrokerAssumption DEF Of, Types, Idle
<1>5. \A c \in Channels \ {ch} : Of(c)' = Of(c)
    BY <1>3, BrokerAssumption DEF Of, Types, Idle
<1>6. Cardinality(Of(ch)') = Cardinality(Of(ch)) + 1
    BY <1>4, OfFinite, OneMore
<1>7. \A c \in Channels : /\ refs'[c] = Cardinality(Of(c)')
                          /\ ~closed' => (refs'[c] > 0 <=> c \in listed')
    BY <1>5, <1>6, Exact DEF Types
<1>8. RefsExact'
    BY <1>7 DEF RefsExact, Of
<1> QED BY <1>1, <1>2, <1>8

LEMMA GivenStep ==
    ASSUME Types, Callers, RefsExact, NEW h \in Holders, ~Is(h, "idle"),
           holder' = [holder EXCEPT ![h] = Idle],
           refs' = [refs EXCEPT ![holder[h].channel] = refs[holder[h].channel] - 1], closed' = closed,
           listed' = IF refs[holder[h].channel] = 1 THEN listed \ {holder[h].channel} ELSE listed
    PROVE  /\ Callers' /\ RefsExact' /\ refs' \in [Channels -> Nat]
           /\ holder' \in [Holders -> [stage : Stages, channel : Channels \cup {NoChannel}, token : Nat]]
           /\ listed' \subseteq Channels /\ holder[h].channel \in Channels
<1>1. PICK ch \in Channels : ch = holder[h].channel
    BY DEF Callers, Is, Types
<1>2. holder' \in [Holders -> [stage : Stages, channel : Channels \cup {NoChannel}, token : Nat]]
      /\ listed' \subseteq Channels
    BY DEF Types, Idle, Stages
<1>3. Callers'
    BY DEF Callers, Types, Idle
<1>4. Of(ch)' = Of(ch) \ {h} /\ h \in Of(ch)
    BY <1>1, BrokerAssumption DEF Of, Types, Idle
<1>5. \A c \in Channels \ {ch} : Of(c)' = Of(c)
    BY <1>1, BrokerAssumption DEF Of, Types, Idle
<1>6. Cardinality(Of(ch)') = Cardinality(Of(ch)) - 1 /\ Cardinality(Of(ch)) > 0
    BY <1>4, OfFinite, OneMore
<1>7. refs[ch] = Cardinality(Of(ch)) /\ Cardinality(Of(ch)) \in Nat
    BY <1>1, Exact, OfFinite
<1>8. refs' \in [Channels -> Nat]
    BY <1>1, <1>6, <1>7 DEF Types
<1>9. \A c \in Channels : /\ refs'[c] = Cardinality(Of(c)')
                          /\ ~closed' => (refs'[c] > 0 <=> c \in listed')
    <2>1. ASSUME NEW c \in Channels, c # ch
          PROVE  refs'[c] = refs[c] /\ (c \in listed' <=> c \in listed)
        BY <1>1, <2>1 DEF Types
    <2>2. refs'[ch] = refs[ch] - 1 /\ (ch \in listed' <=> ch \in listed /\ refs[ch] # 1)
        BY <1>1 DEF Types
    <2>3. ~closed => (refs[ch] > 0 <=> ch \in listed)
        BY <1>1, Exact
    <2>4. ASSUME NEW c \in Channels, c # ch
          PROVE  refs[c] = Cardinality(Of(c)') /\ (~closed => (refs[c] > 0 <=> c \in listed))
        BY <1>5, <2>4, Exact
    <2> QED BY <1>1, <1>6, <1>7, <2>1, <2>2, <2>3, <2>4
<1>10. RefsExact'
    BY <1>9 DEF RefsExact, Of
<1> QED BY <1>1, <1>2, <1>3, <1>8, <1>10

\* The callers stay what they are, but for the stage of those that hold or wait.
LEMMA StageStep ==
    ASSUME Types, Callers, RefsExact, UNCHANGED <<refs, listed>>, closed => closed',
           holder' \in [Holders -> [stage : Stages, channel : Channels \cup {NoChannel}, token : Nat]],
           \A h \in Holders : /\ holder'[h].channel = holder[h].channel
                              /\ holder'[h].stage = "idle" <=> holder[h].stage = "idle"
    PROVE  Callers' /\ RefsExact'
<1>1. \A ch \in Channels : Of(ch)' = Of(ch)
    BY DEF Of
<1>2. \A ch \in Channels : /\ refs'[ch] = Cardinality(Of(ch)')
                           /\ ~closed' => (refs'[ch] > 0 <=> ch \in listed')
    BY <1>1, Exact
<1>3. RefsExact'
    BY <1>2 DEF RefsExact, Of
<1> QED BY <1>3 DEF Callers

\* Run, Close and the steps of Acquire that follow the SUBSCRIBE only change stages.
LEMMA StagesOf ==
    ASSUME Types,
           \/ \E h \in Holders : Confirm(h) \/ GiveUp(h)
           \/ Run \/ Close
    PROVE  /\ holder' \in [Holders -> [stage : Stages, channel : Channels \cup {NoChannel}, token : Nat]]
           /\ \A h \in Holders : /\ holder'[h].channel = holder[h].channel
                                 /\ holder'[h].stage = "idle" <=> holder[h].stage = "idle"
           /\ UNCHANGED <<refs, at, listed>> /\ (closed => closed') /\ closed' \in BOOLEAN /\ seq' \in Nat /\ seq <= seq'
<1>0. /\ holder \in [Holders -> [stage : Stages, channel : Channels \cup {NoChannel}, token : Nat]]
      /\ seq \in Nat /\ closed \in BOOLEAN
      /\ {"waiting", "failed", "held"} \subseteq Stages \ {"idle"}
    BY DEF Types, Stages
<1>1. ASSUME NEW h \in Holders, NEW s \in Stages, NEW n \in Nat
      PROVE  [holder[h] EXCEPT !.stage = s, !.token = n]
                 \in [stage : Stages, channel : Channels \cup {NoChannel}, token : Nat]
    BY <1>0
<1>2. ASSUME NEW h \in Holders, Confirm(h) PROVE
           /\ holder' \in [Holders -> [stage : Stages, channel : Channels \cup {NoChannel}, token : Nat]]
           /\ \A g \in Holders : /\ holder'[g].channel = holder[g].channel
                                 /\ holder'[g].stage = "idle" <=> holder[g].stage = "idle"
           /\ UNCHANGED <<refs, at, listed, closed>> /\ seq' \in Nat /\ seq <= seq'
    <2>1. CASE at[holder[h].channel] <= acked
        <3>1. holder' = [holder EXCEPT ![h] = [holder[h] EXCEPT !.stage = "held"]] /\ seq' = seq
            BY <1>0, <1>2, <2>1 DEF Confirm
        <3>2. [holder[h] EXCEPT !.stage = "held"]
                 \in [stage : Stages, channel : Channels \cup {NoChannel}, token : Nat]
            BY <1>0
        <3>3. holder[h].stage # "idle" /\ UNCHANGED <<refs, at, listed, closed>>
            BY <1>2 DEF Confirm, Is
        <3> QED BY <1>0, <3>1, <3>2, <3>3
    <2>2. CASE ~(at[holder[h].channel] <= acked)
        <3>1. holder' = [holder EXCEPT ![h] = [holder[h] EXCEPT !.stage = "waiting", !.token = seq + 1]] /\ seq' = seq + 1
            BY <1>2, <2>2 DEF Confirm
        <3>2. [holder[h] EXCEPT !.stage = "waiting", !.token = seq + 1]
                 \in [stage : Stages, channel : Channels \cup {NoChannel}, token : Nat]
            <4>1. seq + 1 \in Nat
                BY <1>0
            <4> QED BY <1>0, <4>1
        <3>3. holder[h].stage # "idle" /\ UNCHANGED <<refs, at, listed, closed>>
            BY <1>2 DEF Confirm, Is
        <3> QED BY <1>0, <3>1, <3>2, <3>3
    <2> QED BY <2>1, <2>2
<1>3. ASSUME NEW h \in Holders, GiveUp(h) PROVE
           /\ holder' \in [Holders -> [stage : Stages, channel : Channels \cup {NoChannel}, token : Nat]]
           /\ \A g \in Holders : /\ holder'[g].channel = holder[g].channel
                                 /\ holder'[g].stage = "idle" <=> holder[g].stage = "idle"
           /\ UNCHANGED <<refs, at, listed, closed, seq>>
    <2>1. [holder[h] EXCEPT !.stage = "failed", !.token = 0]
             \in [stage : Stages, channel : Channels \cup {NoChannel}, token : Nat]
        BY <1>0, <1>1 DEF Stages
    <2> QED BY <1>0, <1>3, <2>1 DEF GiveUp
<1>5. CASE Pong
    <2>1. UNCHANGED <<refs, at, listed, closed, seq>>
        BY <1>5 DEF Pong
    <2> DEFINE W == {h \in Holders : Is(h, "waiting") /\ holder[h].token <= acked'}
    <2>2. holder' = [h \in Holders |-> IF h \in W THEN [holder[h] EXCEPT !.stage = "held", !.token = 0] ELSE holder[h]]
        BY <1>5 DEF Pong
    <2>3. \A h \in Holders : [holder[h] EXCEPT !.stage = "held", !.token = 0]
                              \in [stage : Stages, channel : Channels \cup {NoChannel}, token : Nat]
        BY <1>0
    <2>4. \A h \in W : holder[h].stage = "waiting"
        BY DEF Is
    <2> HIDE DEF W
    <2>5. holder' \in [Holders -> [stage : Stages, channel : Channels \cup {NoChannel}, token : Nat]]
        BY <1>0, <2>1, <2>2, <2>3
    <2>6. ASSUME NEW g \in Holders
          PROVE  /\ holder'[g].channel = holder[g].channel
                 /\ holder'[g].stage = "idle" <=> holder[g].stage = "idle"
        BY <1>0, <2>1, <2>2, <2>4
    <2>7. UNCHANGED <<refs, at, listed>> /\ seq' \in Nat /\ seq <= seq'
        <3>1. seq \in Nat /\ seq' = seq
            BY <1>0, <2>1
        <3> QED BY <2>1, <3>1
    <2>8. closed' \in BOOLEAN /\ (closed => closed')
        <3>1. closed \in BOOLEAN
            BY <1>0
        <3> QED BY <2>1, <3>1
    <2> QED BY <2>5, <2>6, <2>7, <2>8
<1>6. CASE Message
    BY <1>0, <1>6 DEF Message
<1>7. CASE Resubscribed \/ Close
    <2> DEFINE W == {h \in Holders : Is(h, "waiting")}
    <2>1. holder' = [h \in Holders |-> IF h \in W THEN [holder[h] EXCEPT !.stage = "failed", !.token = 0] ELSE holder[h]]
        BY <1>7 DEF Resubscribed, Close, FailWaiters
    <2>2. UNCHANGED <<refs, at, listed, seq>> /\ (closed' = closed \/ closed' = TRUE)
        BY <1>7 DEF Resubscribed, Close
    <2>3. \A h \in Holders : [holder[h] EXCEPT !.stage = "failed", !.token = 0]
                              \in [stage : Stages, channel : Channels \cup {NoChannel}, token : Nat]
        BY <1>0
    <2>4. \A h \in W : holder[h].stage = "waiting"
        BY DEF Is
    <2> HIDE DEF W
    <2>5. holder' \in [Holders -> [stage : Stages, channel : Channels \cup {NoChannel}, token : Nat]]
        BY <1>0, <2>1, <2>2, <2>3
    <2>6. ASSUME NEW g \in Holders
          PROVE  /\ holder'[g].channel = holder[g].channel
                 /\ holder'[g].stage = "idle" <=> holder[g].stage = "idle"
        BY <1>0, <2>1, <2>2, <2>4
    <2>7. UNCHANGED <<refs, at, listed>> /\ seq' \in Nat /\ seq <= seq'
        <3>1. seq \in Nat /\ seq' = seq
            BY <1>0, <2>2
        <3> QED BY <2>2, <3>1
    <2>8. closed' \in BOOLEAN /\ (closed => closed')
        <3>1. closed \in BOOLEAN
            BY <1>0
        <3>2. CASE closed' = closed
            BY <3>1, <3>2
        <3>3. CASE closed' = TRUE
            BY <3>3
        <3> QED BY <2>2, <3>2, <3>3
    <2> QED BY <2>5, <2>6, <2>7, <2>8
<1> QED BY <1>0, <1>2, <1>3, <1>5, <1>6, <1>7 DEF Run

LEMMA InitInv == Init => Inv
<1> SUFFICES ASSUME Init PROVE Inv
    OBVIOUS
<1>1. Types
    <2>1. Idle \in [stage : Stages, channel : Channels \cup {NoChannel}, token : Nat]
        BY DEF Idle, Stages
    <2>2. refs = [ch \in Channels |-> 0] /\ at = refs /\ seq = 0 /\ listed = {} /\ closed = FALSE
          /\ holder = [h \in Holders |-> Idle]
        BY DEF Init
    <2> QED BY <2>1, <2>2 DEF Types
<1>2. Callers
    BY DEF Init, Callers, Idle
<1>3. \A ch \in Channels : Of(ch) = {}
    BY BrokerAssumption DEF Init, Of, Idle
<1>4. \A ch \in Channels : /\ refs[ch] = Cardinality(Of(ch))
                           /\ ~closed => (refs[ch] > 0 <=> ch \in listed)
    <2>1. \A ch \in Channels : refs[ch] = 0 /\ ch \notin listed
        BY DEF Init
    <2>2. \A ch \in Channels : Cardinality(Of(ch)) = 0
        BY <1>3, FS_EmptySet
    <2> QED BY <2>1, <2>2
<1> QED BY <1>1, <1>2, <1>4, Exact DEF Inv

LEMMA TypesStep ==
    ASSUME Types, [Next]_vars
    PROVE  at' \in [Channels -> Nat] /\ seq' \in Nat /\ seq <= seq' /\ closed' \in BOOLEAN
<1>1. CASE (\E h \in Holders : Confirm(h) \/ GiveUp(h)) \/ Run \/ Close
    <2>1. at' = at
        BY <1>1, StagesOf
    <2> QED BY <1>1, <2>1, StagesOf DEF Types
<1>2. ASSUME NEW h \in Holders, NEW ch \in Channels, Acquire(h, ch)
      PROVE  at' \in [Channels -> Nat] /\ seq' \in Nat /\ seq <= seq' /\ closed' \in BOOLEAN
    BY <1>2 DEF Acquire, Types
<1>3. ASSUME NEW h \in Holders, Release(h)
      PROVE  at' \in [Channels -> Nat] /\ seq' \in Nat /\ seq <= seq' /\ closed' \in BOOLEAN
    BY <1>3 DEF Release, Types
<1>4. CASE UNCHANGED <<at, seq, closed>>
    BY <1>4 DEF Types
<1>5. ASSUME NEW ch \in Channels, (\E h \in Holders : SubscribeFails(h, ch)) \/ Publish(ch)
      PROVE  UNCHANGED <<at, seq, closed>>
    BY <1>5 DEF SubscribeFails, Publish
<1>6. CASE Process \/ Break \/ Reconnect \/ UNCHANGED vars
    BY <1>4, <1>6 DEF Process, Break, Reconnect, vars
<1> QED BY <1>1, <1>2, <1>3, <1>4, <1>5, <1>6 DEF Next

LEMMA RefsStep == Inv /\ [Next]_vars => Inv'
<1> SUFFICES ASSUME Inv, [Next]_vars PROVE Inv'
    OBVIOUS
<1> USE DEF Inv
<1>0. at' \in [Channels -> Nat] /\ seq' \in Nat /\ closed' \in BOOLEAN
    BY TypesStep
<1>1. CASE (\E h \in Holders : Confirm(h) \/ GiveUp(h)) \/ Run \/ Close
    <2>1. /\ holder' \in [Holders -> [stage : Stages, channel : Channels \cup {NoChannel}, token : Nat]]
          /\ \A h \in Holders : /\ holder'[h].channel = holder[h].channel
                                /\ holder'[h].stage = "idle" <=> holder[h].stage = "idle"
          /\ UNCHANGED <<refs, listed>> /\ (closed => closed')
        BY <1>1, StagesOf
    <2>2. Callers' /\ RefsExact'
        BY <2>1, StageStep
    <2> QED BY <1>0, <2>1, <2>2 DEF Types
<1>2. ASSUME NEW h \in Holders, NEW ch \in Channels, Acquire(h, ch) \/ SubscribeFails(h, ch)
      PROVE  Inv'
    <2>1. PICK s \in {"confirming", "failed"} :
              holder' = [holder EXCEPT ![h] = [Idle EXCEPT !.stage = s, !.channel = ch]]
        BY <1>2 DEF Acquire, SubscribeFails
    <2>2. Is(h, "idle") /\ closed' = closed
        BY <1>2 DEF Acquire, SubscribeFails
    <2>3. refs' = [refs EXCEPT ![ch] = refs[ch] + 1]
        BY <1>2 DEF Acquire, SubscribeFails
    <2>4. listed' = IF refs[ch] = 0 THEN listed \cup {ch} ELSE listed
        BY <1>2 DEF Acquire, SubscribeFails
    <2>5. s \in Stages \ {"idle"}
        BY DEF Stages
    <2>6. Callers' /\ RefsExact' /\ refs' \in [Channels -> Nat] /\ listed' \subseteq Channels
          /\ holder' \in [Holders -> [stage : Stages, channel : Channels \cup {NoChannel}, token : Nat]]
        BY <2>1, <2>2, <2>3, <2>4, <2>5, TakenStep
    <2> QED BY <1>0, <2>6 DEF Types
<1>3. ASSUME NEW h \in Holders, Release(h)
      PROVE  Inv'
    <2>1. /\ holder' = [holder EXCEPT ![h] = Idle] /\ ~Is(h, "idle") /\ closed' = closed
          /\ refs' = [refs EXCEPT ![holder[h].channel] = refs[holder[h].channel] - 1]
          /\ listed' = IF refs[holder[h].channel] = 1 THEN listed \ {holder[h].channel} ELSE listed
        BY <1>3 DEF Release, Is
    <2>2. Callers' /\ RefsExact' /\ refs' \in [Channels -> Nat] /\ listed' \subseteq Channels
          /\ holder' \in [Holders -> [stage : Stages, channel : Channels \cup {NoChannel}, token : Nat]]
        BY <2>1, GivenStep
    <2> QED BY <1>0, <2>2 DEF Types
<1>4. CASE UNCHANGED <<refs, holder, listed, closed>>
    <2>1. Types'
        BY <1>0, <1>4 DEF Types
    <2>2. Callers' /\ RefsExact'
        BY <1>4 DEF Callers, RefsExact
    <2> QED BY <2>1, <2>2
<1>5. CASE Process \/ Break \/ Reconnect \/ (\E ch \in Channels : Publish(ch)) \/ UNCHANGED vars
    BY <1>4, <1>5 DEF Process, Break, Reconnect, Publish, vars
<1> QED BY <1>1, <1>2, <1>3, <1>5 DEF Next

LEMMA InvAlways == Spec => []Inv
BY InitInv, RefsStep, PTL DEF Spec

\* References follow the callers, and go-redis the references, through any interleaving of
\* the first Acquire and the last Release, failed SUBSCRIBEs included.
THEOREM BrokerRefs == Spec => []RefsExact
BY InvAlways, PTL DEF Inv

-----------------------------------------------------------------------------
(* Commands and replies on the connection. *)

Sorted(q, kinds) ==
    \A i, j \in 1..Len(q) : i < j /\ q[i].kind \in kinds /\ q[j].kind \in kinds => q[i].n < q[j].n
Within(q, kinds, low, high) ==
    \A i \in 1..Len(q) : q[i].kind \in kinds => low < q[i].n /\ q[i].n <= high
Has(q, kind, n) == \E i \in 1..Len(q) : q[i].kind = kind /\ q[i].n = n
Clear(q) == \A i \in 1..Len(q) : q[i].kind # "control"

\* Redis has what n subscribed to ch, or will have once it has processed q.
Undoes(c, ch) == c.kind = "unsubscribe" /\ c.channel = ch
Ends(subscribed, q, ch, n) ==
    \/ ch \in subscribed /\ \A j \in 1..Len(q) : ~Undoes(q[j], ch)
    \/ \E i \in 1..Len(q) : /\ q[i].kind = "subscribe" /\ q[i].channel = ch /\ q[i].n = n
                            /\ \A j \in 1..Len(q) : i < j => ~Undoes(q[j], ch)

LEMMA Appended ==
    ASSUME NEW q \in Seq(Item), NEW c \in Item, NEW s, s = Append(q, c)
    PROVE  /\ s \in Seq(Item) /\ Len(q) \in Nat /\ Len(s) = Len(q) + 1
           /\ \A i \in 1..Len(q) : s[i] = q[i] /\ i \in 1..Len(s) /\ i < Len(s) /\ s[i] \in Item
           /\ s[Len(s)] = c /\ Len(s) \in 1..Len(s)
           /\ \A i \in 1..Len(s) : i \in 1..Len(q) \/ i = Len(s)
<1>1. /\ s \in Seq(Item) /\ Len(s) = Len(q) + 1
      /\ \A i \in 1..Len(q) : s[i] = q[i]
      /\ s[Len(q) + 1] = c
  BY AppendProperties
<1>2. Len(q) \in Nat
  BY LenProperties
<1>3. \A i \in 1..Len(q) : s[i] \in Item
  BY <1>1, ElementOfSeq
<1> QED
  BY <1>1, <1>2, <1>3

LEMMA Tailed ==
    ASSUME NEW q \in Seq(Item), q # <<>>, NEW s, s = Tail(q)
    PROVE  /\ s \in Seq(Item) /\ Len(q) \in Nat /\ Len(s) = Len(q) - 1
           /\ \A i \in 1..Len(s) : s[i] = q[i + 1] /\ i + 1 \in 1..Len(q) /\ i + 1 \in 2..Len(q)
           /\ \A i \in 1..Len(q) : i # 1 => i - 1 \in 1..Len(s) /\ s[i - 1] = q[i]
           /\ 1 \in 1..Len(q) /\ Head(q) = q[1] /\ q[1] \in Item
<1>1. Len(q) \in Nat \ {0}
  BY EmptySeq
<1>2. /\ s \in Seq(Item) /\ Len(s) = Len(q) - 1
      /\ \A i \in 1..Len(s) : s[i] = q[i + 1]
  BY HeadTailProperties
<1>3. 1 \in 1..Len(q)
  BY <1>1
<1>4. q[1] \in Item
  BY <1>3, ElementOfSeq
<1>5. \A i \in 1..Len(s) : i + 1 \in 1..Len(q) /\ i + 1 \in 2..Len(q)
  BY <1>1, <1>2
<1>6. ASSUME NEW i \in 1..Len(q), i # 1 PROVE i - 1 \in 1..Len(s) /\ s[i - 1] = q[i]
  <2>1. i - 1 \in 1..Len(s) /\ (i - 1) + 1 = i
    BY <1>1, <1>2, <1>6
  <2> QED
    BY <1>2, <2>1
<1> QED
  BY <1>1, <1>2, <1>3, <1>4, <1>5, <1>6

LEMMA SortedTail ==
    ASSUME NEW q \in Seq(Item), q # <<>>, NEW kinds, Sorted(q, kinds)
    PROVE  /\ Sorted(Tail(q), kinds)
           /\ q[1].kind \in kinds => \A i \in 1..Len(Tail(q)) :
                  Tail(q)[i].kind \in kinds => q[1].n < Tail(q)[i].n
<1>1. PICK s : s = Tail(q)
  OBVIOUS
<1>2. /\ Len(q) \in Nat /\ 1 \in 1..Len(q) /\ Len(s) = Len(q) - 1
      /\ \A i \in 1..Len(s) : s[i] = q[i + 1] /\ i + 1 \in 1..Len(q)
  BY <1>1, Tailed
<1>3. \A i \in 1..Len(s) : 1 < i + 1
  BY <1>2
<1>4. \A i, j \in 1..Len(s) : i < j => i + 1 < j + 1
  BY <1>2
<1> QED
  BY <1>1, <1>2, <1>3, <1>4 DEF Sorted

LEMMA WithinTail ==
    ASSUME NEW q \in Seq(Item), q # <<>>, NEW kinds, NEW low, NEW high, Within(q, kinds, low, high)
    PROVE  Within(Tail(q), kinds, low, high)
<1>1. PICK s : s = Tail(q)
  OBVIOUS
<1>2. \A i \in 1..Len(s) : s[i] = q[i + 1] /\ i + 1 \in 1..Len(q)
  BY <1>1, Tailed
<1> QED
  BY <1>1, <1>2 DEF Within

LEMMA SortedAppend ==
    ASSUME NEW q \in Seq(Item), NEW c \in Item, NEW kinds, Sorted(q, kinds),
           c.kind \in kinds => \A i \in 1..Len(q) : q[i].kind \in kinds => q[i].n < c.n
    PROVE  Sorted(Append(q, c), kinds)
<1>1. PICK s : s = Append(q, c)
  OBVIOUS
<1>2. /\ Len(q) \in Nat /\ Len(s) = Len(q) + 1
      /\ \A i \in 1..Len(q) : s[i] = q[i]
      /\ s[Len(s)] = c
      /\ \A i \in 1..Len(s) : i \in 1..Len(q) \/ i = Len(s)
  BY <1>1, Appended
<1>3. ASSUME NEW i \in 1..Len(s), NEW j \in 1..Len(s), i < j, s[i].kind \in kinds, s[j].kind \in kinds
      PROVE  s[i].n < s[j].n
  <2>1. i \in 1..Len(q)
    BY <1>2, <1>3
  <2> QED
    BY <1>2, <1>3, <2>1 DEF Sorted
<1> QED
  BY <1>1, <1>3 DEF Sorted

LEMMA WithinAppend ==
    ASSUME NEW q \in Seq(Item), NEW c \in Item, NEW kinds, NEW low, NEW high \in Nat, NEW higher \in Nat,
           Within(q, kinds, low, high), high <= higher,
           c.kind \in kinds => low < c.n /\ c.n <= higher
    PROVE  Within(Append(q, c), kinds, low, higher)
<1>1. PICK s : s = Append(q, c)
  OBVIOUS
<1>2. /\ \A i \in 1..Len(q) : s[i] = q[i] /\ s[i] \in Item
      /\ s[Len(s)] = c
      /\ \A i \in 1..Len(s) : i \in 1..Len(q) \/ i = Len(s)
  BY <1>1, Appended
<1>3. \A i \in 1..Len(q) : q[i].n \in Nat
  BY <1>2 DEF Item
<1>4. ASSUME NEW i \in 1..Len(s), s[i].kind \in kinds PROVE low < s[i].n /\ s[i].n <= higher
  <2>1. CASE i \in 1..Len(q)
    BY <1>2, <1>3, <1>4, <2>1 DEF Within
  <2>2. CASE i = Len(s)
    BY <1>2, <1>4, <2>2
  <2> QED
    BY <1>2, <2>1, <2>2
<1> QED
  BY <1>1, <1>4 DEF Within

LEMMA WithinMore ==
    ASSUME NEW q \in Seq(Item), NEW kinds, NEW low, NEW high \in Nat, NEW higher \in Nat,
           Within(q, kinds, low, high), high <= higher
    PROVE  Within(q, kinds, low, higher)
<1>1. \A i \in 1..Len(q) : q[i] \in Item
  BY ElementOfSeq
<1>2. \A i \in 1..Len(q) : q[i].n \in Nat
  BY <1>1 DEF Item
<1> QED
  BY <1>2 DEF Within

LEMMA HasAppend ==
    ASSUME NEW q \in Seq(Item), NEW c \in Item
    PROVE  /\ \A kind, n : Has(q, kind, n) => Has(Append(q, c), kind, n)
           /\ Has(Append(q, c), c.kind, c.n)
           /\ c.kind # "control" => (Clear(Append(q, c)) <=> Clear(q))
<1>1. PICK s : s = Append(q, c)
  OBVIOUS
<1>2. /\ \A i \in 1..Len(q) : s[i] = q[i] /\ i \in 1..Len(s)
      /\ s[Len(s)] = c /\ Len(s) \in 1..Len(s)
      /\ \A i \in 1..Len(s) : i \in 1..Len(q) \/ i = Len(s)
  BY <1>1, Appended
<1>3. \A kind, n : Has(q, kind, n) => Has(s, kind, n)
  BY <1>2 DEF Has
<1>4. Has(s, c.kind, c.n)
  BY <1>2 DEF Has
<1>5. c.kind # "control" => (Clear(s) <=> Clear(q))
  BY <1>2 DEF Clear
<1> QED
  BY <1>1, <1>3, <1>4, <1>5

LEMMA HasTail ==
    ASSUME NEW q \in Seq(Item), q # <<>>
    PROVE  \A kind, n : Has(q, kind, n) => Has(Tail(q), kind, n) \/ (q[1].kind = kind /\ q[1].n = n)
<1>1. PICK s : s = Tail(q)
  OBVIOUS
<1>2. \A i \in 1..Len(q) : i # 1 => i - 1 \in 1..Len(s) /\ s[i - 1] = q[i]
  BY <1>1, Tailed
<1> QED
  BY <1>1, <1>2 DEF Has

LEMMA EndsAppend ==
    ASSUME NEW q \in Seq(Item), NEW c \in Item, NEW subscribed
    PROVE  /\ \A ch, n : Ends(subscribed, q, ch, n) /\ ~Undoes(c, ch) => Ends(subscribed, Append(q, c), ch, n)
           /\ c.kind = "subscribe" => Ends(subscribed, Append(q, c), c.channel, c.n)
<1>1. PICK s : s = Append(q, c)
  OBVIOUS
<1>2. /\ Len(s) \in Nat
      /\ \A i \in 1..Len(q) : s[i] = q[i] /\ i \in 1..Len(s)
      /\ s[Len(s)] = c /\ Len(s) \in 1..Len(s)
      /\ \A i \in 1..Len(s) : i \in 1..Len(q) \/ i = Len(s)
  BY <1>1, Appended
<1>3. ASSUME NEW ch, NEW n, Ends(subscribed, q, ch, n), ~Undoes(c, ch)
      PROVE  Ends(subscribed, s, ch, n)
  BY <1>2, <1>3 DEF Ends
<1>4. \A j \in 1..Len(s) : ~(Len(s) < j)
  BY <1>2
<1>5. c.kind = "subscribe" => Ends(subscribed, s, c.channel, c.n)
  BY <1>2, <1>4 DEF Ends
<1> QED
  BY <1>1, <1>3, <1>5

\* Redis processes the first command.
Takes(subscribed, c) ==
    CASE c.kind = "subscribe" -> subscribed \cup {c.channel}
      [] c.kind = "unsubscribe" -> subscribed \ {c.channel}
      [] OTHER -> subscribed

LEMMA EndsTail ==
    ASSUME NEW q \in Seq(Item), q # <<>>, NEW subscribed, NEW ch, NEW n, Ends(subscribed, q, ch, n)
    PROVE  Ends(Takes(subscribed, q[1]), Tail(q), ch, n)
<1>1. PICK s : s = Tail(q)
  OBVIOUS
<1>2. /\ Len(q) \in Nat /\ 1 \in 1..Len(q) /\ Len(s) = Len(q) - 1
      /\ \A i \in 1..Len(s) : s[i] = q[i + 1] /\ i + 1 \in 1..Len(q)
      /\ \A i \in 1..Len(q) : i # 1 => i - 1 \in 1..Len(s) /\ s[i - 1] = q[i]
  BY <1>1, Tailed
<1>3. PICK after : after = Takes(subscribed, q[1])
  OBVIOUS
<1>4. /\ ch \in subscribed /\ ~Undoes(q[1], ch) => ch \in after
      /\ q[1].kind = "subscribe" /\ q[1].channel = ch => ch \in after
  BY <1>3 DEF Takes, Undoes
<1>5. CASE ch \in subscribed /\ \A j \in 1..Len(q) : ~Undoes(q[j], ch)
  BY <1>1, <1>2, <1>3, <1>4, <1>5 DEF Ends
<1>6. CASE \E i \in 1..Len(q) : /\ q[i].kind = "subscribe" /\ q[i].channel = ch /\ q[i].n = n
                                /\ \A j \in 1..Len(q) : i < j => ~Undoes(q[j], ch)
  <2>1. PICK i \in 1..Len(q) : /\ q[i].kind = "subscribe" /\ q[i].channel = ch /\ q[i].n = n
                               /\ \A j \in 1..Len(q) : i < j => ~Undoes(q[j], ch)
    BY <1>6
  <2>2. ASSUME NEW j \in 1..Len(s), i - 1 < j PROVE ~Undoes(s[j], ch)
    <3>1. i < j + 1
      BY <1>2, <2>2
    <3> QED
      BY <1>2, <2>1, <3>1
  <2>3. CASE i = 1
    <3>1. \A j \in 1..Len(s) : 0 < j
      OBVIOUS
    <3>2. \A j \in 1..Len(s) : ~Undoes(s[j], ch)
      BY <2>2, <2>3, <3>1
    <3> QED
      BY <1>1, <1>3, <1>4, <2>1, <2>3, <3>2 DEF Ends
  <2>4. CASE i # 1
    <3>1. i - 1 \in 1..Len(s) /\ s[i - 1] = q[i]
      BY <1>2, <2>4
    <3> QED
      BY <1>1, <1>3, <2>1, <2>2, <3>1 DEF Ends
  <2> QED
    BY <2>3, <2>4
<1> QED
  BY <1>5, <1>6 DEF Ends

-----------------------------------------------------------------------------
(* The connection. *)

Wire == [up : BOOLEAN, subscribed : SUBSET (Channels \cup {NoChannel}), out : Seq(Item), in : Seq(Item)]
Numbered == {"subscribe", "ping"}

\* What is on its way is in the order of its numbers, and none of it was passed: a is the
\* highest number acknowledged, s the highest given out, m the number of messages.
Before(in, out) ==
    \A i \in 1..Len(in) : \A j \in 1..Len(out) :
        in[i].kind = "pong" /\ out[j].kind \in Numbered => in[i].n < out[j].n
OutFine(out, a, s) == Sorted(out, Numbered) /\ Within(out, Numbered, a, s)
InFine(in, a, s, m) ==
    /\ \A i \in 2..Len(in) : in[i].kind # "control"
    /\ Sorted(in, {"pong"}) /\ Within(in, {"pong"}, a, s)
    /\ Sorted(in, {"message"}) /\ Within(in, {"message"}, 0, m)
Orderly(l, a, s, m) ==
    /\ l \in Wire
    /\ l.up \/ l = Down
    /\ OutFine(l.out, a, s)
    /\ InFine(l.in, a, s, m)
    /\ Before(l.in, l.out)

LEMMA WireFields ==
    ASSUME NEW l \in Wire
    PROVE  /\ l.up \in BOOLEAN /\ l.subscribed \subseteq Channels \cup {NoChannel} /\ l.out \in Seq(Item) /\ l.in \in Seq(Item)
           /\ \A q \in Seq(Item) : /\ [l EXCEPT !.out = q] \in Wire /\ [l EXCEPT !.in = q] \in Wire
                                   /\ [l EXCEPT !.out = q].out = q /\ [l EXCEPT !.out = q].in = l.in
                                   /\ [l EXCEPT !.in = q].in = q /\ [l EXCEPT !.in = q].out = l.out
                                   /\ [l EXCEPT !.in = q].up = l.up /\ [l EXCEPT !.out = q].up = l.up
                                   /\ [l EXCEPT !.in = q].subscribed = l.subscribed
                                   /\ [l EXCEPT !.out = q].subscribed = l.subscribed
BY DEF Wire

LEMMA InItem ==
    ASSUME NEW q \in Seq(Item), NEW i \in 1..Len(q)
    PROVE  q[i] \in Item /\ q[i].n \in Nat /\ q[i].channel \in Channels \cup {NoChannel}
<1>1. q[i] \in Item
  BY ElementOfSeq
<1> QED
  BY <1>1 DEF Item

LEMMA OrderlyDown ==
    ASSUME NEW a, NEW s, NEW m
    PROVE  Orderly(Down, a, s, m)
<1>1. <<>> \in Seq(Item) /\ Len(<<>>) = 0
  BY EmptySeq
<1>2. Down \in Wire
  BY <1>1 DEF Down, Wire
<1>3. Down.out = <<>> /\ Down.in = <<>>
  BY DEF Down
<1>4. \A i \in 1..Len(<<>>) : FALSE
  BY <1>1
<1>5. \A i \in 2..Len(<<>>) : FALSE
  BY <1>1
<1> QED
  BY <1>2, <1>3, <1>4, <1>5 DEF Orderly, OutFine, InFine, Before, Sorted, Within

LEMMA FreshFields ==
    ASSUME listed \subseteq Channels
    PROVE  /\ Fresh \in Wire /\ Fresh.up /\ Fresh.subscribed = listed
           /\ Fresh.out = <<>> /\ Fresh.in = <<Control>> /\ Len(Fresh.out) = 0 /\ Len(Fresh.in) = 1
           /\ Fresh.in[1] = Control /\ \A i \in 1..Len(Fresh.in) : Fresh.in[i].kind = "control"
<1>1. <<>> \in Seq(Item) /\ Len(<<>>) = 0
  BY EmptySeq
<1>2. Control \in Item
  BY DEF Control, Item
<1>3. <<Control>> \in Seq(Item)
  BY <1>2
<1>4. Len(<<Control>>) = 1 /\ <<Control>>[1] = Control
  OBVIOUS
<1>5. Fresh = [up |-> TRUE, subscribed |-> listed, out |-> <<>>, in |-> <<Control>>]
  BY DEF Fresh
<1>6. Fresh \in Wire
  BY <1>1, <1>3, <1>5 DEF Wire
<1>7. Control.kind = "control"
  BY DEF Control
<1> QED
  BY <1>1, <1>4, <1>5, <1>6, <1>7

LEMMA OrderlyFresh ==
    ASSUME listed \subseteq Channels, NEW a, NEW s, NEW m
    PROVE  Orderly(Fresh, a, s, m)
<1>1. /\ Fresh \in Wire /\ Fresh.up
      /\ Len(Fresh.out) = 0 /\ Len(Fresh.in) = 1
      /\ \A i \in 1..Len(Fresh.in) : Fresh.in[i].kind = "control"
  BY FreshFields
<1>2. \A i \in 1..Len(Fresh.out) : FALSE
  BY <1>1
<1>3. \A i \in 2..Len(Fresh.in) : FALSE
  BY <1>1
<1> QED
  BY <1>1, <1>2, <1>3 DEF Orderly, OutFine, InFine, Before, Sorted, Within

LEMMA BeforeAppendOut ==
    ASSUME NEW in \in Seq(Item), NEW out \in Seq(Item), Before(in, out), NEW c \in Item,
           c.kind \in Numbered => \A i \in 1..Len(in) : in[i].kind = "pong" => in[i].n < c.n
    PROVE  Before(in, Append(out, c))
<1>1. PICK s : s = Append(out, c)
  OBVIOUS
<1>2. /\ \A i \in 1..Len(out) : s[i] = out[i]
      /\ s[Len(s)] = c
      /\ \A i \in 1..Len(s) : i \in 1..Len(out) \/ i = Len(s)
  BY <1>1, Appended
<1>3. ASSUME NEW i \in 1..Len(in), NEW j \in 1..Len(s), in[i].kind = "pong", s[j].kind \in Numbered
      PROVE  in[i].n < s[j].n
  <2>1. CASE j \in 1..Len(out)
    BY <1>2, <1>3, <2>1 DEF Before
  <2>2. CASE j = Len(s)
    BY <1>2, <1>3, <2>2
  <2> QED
    BY <1>2, <2>1, <2>2
<1> QED
  BY <1>1, <1>3 DEF Before

LEMMA BeforeAppendIn ==
    ASSUME NEW in \in Seq(Item), NEW out, Before(in, out), NEW c \in Item,
           c.kind = "pong" => \A j \in 1..Len(out) : out[j].kind \in Numbered => c.n < out[j].n
    PROVE  Before(Append(in, c), out)
<1>1. PICK s : s = Append(in, c)
  OBVIOUS
<1>2. /\ \A i \in 1..Len(in) : s[i] = in[i]
      /\ s[Len(s)] = c
      /\ \A i \in 1..Len(s) : i \in 1..Len(in) \/ i = Len(s)
  BY <1>1, Appended
<1>3. ASSUME NEW i \in 1..Len(s), NEW j \in 1..Len(out), s[i].kind = "pong", out[j].kind \in Numbered
      PROVE  s[i].n < out[j].n
  <2>1. CASE i \in 1..Len(in)
    BY <1>2, <1>3, <2>1 DEF Before
  <2>2. CASE i = Len(s)
    BY <1>2, <1>3, <2>2
  <2> QED
    BY <1>2, <2>1, <2>2
<1> QED
  BY <1>1, <1>3 DEF Before

LEMMA BeforeTail ==
    ASSUME NEW in \in Seq(Item), NEW out \in Seq(Item), Before(in, out)
    PROVE  /\ in # <<>> => Before(Tail(in), out)
           /\ out # <<>> => Before(in, Tail(out))
<1>1. in # <<>> => \A i \in 1..Len(Tail(in)) : Tail(in)[i] = in[i + 1] /\ i + 1 \in 1..Len(in)
  BY Tailed
<1>2. out # <<>> => \A i \in 1..Len(Tail(out)) : Tail(out)[i] = out[i + 1] /\ i + 1 \in 1..Len(out)
  BY Tailed
<1> QED
  BY <1>1, <1>2 DEF Before

LEMMA PastControl ==
    ASSUME NEW q \in Seq(Item), \A i \in 2..Len(q) : q[i].kind # "control"
    PROVE  /\ \A c \in Item : c.kind # "control" => \A i \in 2..Len(Append(q, c)) : Append(q, c)[i].kind # "control"
           /\ q # <<>> => /\ \A i \in 1..Len(Tail(q)) : Tail(q)[i].kind # "control"
                          /\ Clear(Tail(q))
<1>1. ASSUME NEW c \in Item, c.kind # "control"
      PROVE  \A i \in 2..Len(Append(q, c)) : Append(q, c)[i].kind # "control"
  <2>1. PICK s : s = Append(q, c)
    OBVIOUS
  <2>2. /\ Len(q) \in Nat /\ Len(s) = Len(q) + 1
        /\ \A i \in 1..Len(q) : s[i] = q[i]
        /\ s[Len(s)] = c
    BY <2>1, Appended
  <2>3. \A i \in 2..Len(s) : (i \in 1..Len(q) /\ i \in 2..Len(q)) \/ i = Len(s)
    BY <2>2
  <2> QED
    BY <1>1, <2>1, <2>2, <2>3
<1>2. ASSUME q # <<>> PROVE \A i \in 1..Len(Tail(q)) : Tail(q)[i].kind # "control"
  BY <1>2, Tailed
<1> QED
  BY <1>1, <1>2 DEF Clear

\* A command is sent.
LEMMA OrderlySend ==
    ASSUME NEW a \in Nat, NEW s \in Nat, NEW m \in Nat, NEW t \in Nat, NEW l, Orderly(l, a, s, m), l.up,
           NEW c \in Item, a <= s,
           (c.kind \notin Numbered /\ t = s) \/ (c.n = s + 1 /\ t = s + 1)
    PROVE  Orderly([l EXCEPT !.out = Append(l.out, c)], a, t, m)
<1>1. /\ l \in Wire /\ l.out \in Seq(Item) /\ l.in \in Seq(Item)
  BY WireFields DEF Orderly
<1>2. PICK out \in Seq(Item) : out = Append(l.out, c)
  BY <1>1, Appended
<1>3. PICK k : k = [l EXCEPT !.out = out]
  OBVIOUS
<1>4. k \in Wire /\ k.out = out /\ k.in = l.in /\ k.up
  BY <1>1, <1>3, WireFields
<1>5. s <= t
  OBVIOUS
<1>6. \A i \in 1..Len(l.out) : l.out[i].kind \in Numbered => l.out[i].n <= s
  BY DEF Orderly, OutFine, Within
<1>7. \A i \in 1..Len(l.in) : l.in[i].kind = "pong" => l.in[i].n <= s
  BY DEF Orderly, InFine, Within
<1>8. OutFine(out, a, t)
  <2>1. \A i \in 1..Len(l.out) : l.out[i].n \in Nat
    BY <1>1, InItem
  <2>2. c.kind \in Numbered => \A i \in 1..Len(l.out) : l.out[i].kind \in Numbered => l.out[i].n < c.n
    BY <1>6, <2>1
  <2>3. Sorted(out, Numbered)
    BY <1>1, <1>2, <2>2, SortedAppend DEF Orderly, OutFine
  <2>4. c.kind \in Numbered => a < c.n /\ c.n <= t
    OBVIOUS
  <2>5. Within(out, Numbered, a, t)
    BY <1>1, <1>2, <1>5, <2>4, WithinAppend DEF Orderly, OutFine
  <2> QED
    BY <2>3, <2>5 DEF OutFine
<1>9. InFine(l.in, a, t, m)
  BY <1>1, <1>5, WithinMore DEF Orderly, InFine
<1>10. Before(l.in, out)
  <2>1. \A i \in 1..Len(l.in) : l.in[i].n \in Nat
    BY <1>1, InItem
  <2>2. c.kind \in Numbered => \A i \in 1..Len(l.in) : l.in[i].kind = "pong" => l.in[i].n < c.n
    BY <1>7, <2>1
  <2> QED
    BY <1>1, <1>2, <2>2, BeforeAppendOut DEF Orderly
<1> QED
  BY <1>2, <1>3, <1>4, <1>8, <1>9, <1>10 DEF Orderly

\* A reply or a message arrives, as the last one.
LEMMA InFineAppend ==
    ASSUME NEW a \in Nat, NEW s \in Nat, NEW m \in Nat, NEW u \in Nat, NEW in \in Seq(Item),
           InFine(in, a, s, m), m <= u, NEW c \in Item,
           \/ /\ c.kind = "pong" /\ a < c.n /\ c.n <= s
              /\ \A i \in 1..Len(in) : in[i].kind = "pong" => in[i].n < c.n
           \/ c.kind = "message" /\ c.n = m + 1 /\ c.n <= u
    PROVE  InFine(Append(in, c), a, s, u)
<1>1. \A i \in 2..Len(Append(in, c)) : Append(in, c)[i].kind # "control"
  BY PastControl DEF InFine
<1>2. \A i \in 1..Len(in) : in[i].n \in Nat
  BY InItem
<1>3. \A i \in 1..Len(in) : in[i].kind = "message" => in[i].n <= m
  BY DEF InFine, Within
<1>4. c.kind \in {"message"} => \A i \in 1..Len(in) : in[i].kind \in {"message"} => in[i].n < c.n
  BY <1>2, <1>3
<1>5. Sorted(Append(in, c), {"message"})
  BY <1>4, SortedAppend DEF InFine
<1>6. c.kind \in {"pong"} => \A i \in 1..Len(in) : in[i].kind \in {"pong"} => in[i].n < c.n
  OBVIOUS
<1>7. Sorted(Append(in, c), {"pong"})
  BY <1>6, SortedAppend DEF InFine
<1>8. Within(Append(in, c), {"pong"}, a, s)
  BY WithinAppend DEF InFine
<1>9. Within(Append(in, c), {"message"}, 0, u)
  <2>1. c.kind \in {"message"} => 0 < c.n /\ c.n <= u
    OBVIOUS
  <2> QED
    BY <2>1, WithinAppend DEF InFine
<1> QED
  BY <1>1, <1>5, <1>7, <1>8, <1>9 DEF InFine

\* Redis processes the first command.
Answer(l) ==
    [l EXCEPT !.out = Tail(l.out),
              !.subscribed = Takes(l.subscribed, l.out[1]),
              !.in = IF l.out[1].kind = "ping" THEN Append(l.in, [l.out[1] EXCEPT !.kind = "pong"]) ELSE l.in]

LEMMA AnswerFields ==
    ASSUME NEW l \in Wire, l.out # <<>>
    PROVE  /\ Answer(l) \in Wire /\ Answer(l).up = l.up
           /\ Answer(l).out = Tail(l.out) /\ Answer(l).subscribed = Takes(l.subscribed, l.out[1])
           /\ l.out[1] \in Item /\ [l.out[1] EXCEPT !.kind = "pong"] \in Item
           /\ [l.out[1] EXCEPT !.kind = "pong"].kind = "pong" /\ [l.out[1] EXCEPT !.kind = "pong"].n = l.out[1].n
           /\ Answer(l).in = IF l.out[1].kind = "ping" THEN Append(l.in, [l.out[1] EXCEPT !.kind = "pong"]) ELSE l.in
<1>1. l.out \in Seq(Item) /\ l.in \in Seq(Item) /\ l.subscribed \subseteq Channels \cup {NoChannel}
  BY DEF Wire
<1>2. l.out[1] \in Item /\ Tail(l.out) \in Seq(Item)
  BY <1>1, Tailed
<1>3. [l.out[1] EXCEPT !.kind = "pong"] \in Item
  BY <1>2 DEF Item
<1>4. Append(l.in, [l.out[1] EXCEPT !.kind = "pong"]) \in Seq(Item)
  BY <1>1, <1>3, AppendProperties
<1>5. Takes(l.subscribed, l.out[1]) \subseteq Channels \cup {NoChannel}
  BY <1>1, <1>2 DEF Takes, Item
<1>6. Answer(l) \in Wire
  BY <1>1, <1>2, <1>4, <1>5 DEF Answer, Wire
<1>7. /\ [l.out[1] EXCEPT !.kind = "pong"].kind = "pong" /\ [l.out[1] EXCEPT !.kind = "pong"].n = l.out[1].n
  BY <1>2 DEF Item
<1>8. /\ Answer(l).up = l.up
      /\ Answer(l).out = Tail(l.out) /\ Answer(l).subscribed = Takes(l.subscribed, l.out[1])
      /\ Answer(l).in = IF l.out[1].kind = "ping" THEN Append(l.in, [l.out[1] EXCEPT !.kind = "pong"]) ELSE l.in
  BY DEF Answer, Wire
<1> QED
  BY <1>2, <1>3, <1>6, <1>7, <1>8

LEMMA OrderlyAnswer ==
    ASSUME NEW a \in Nat, NEW s \in Nat, NEW m \in Nat, NEW l, Orderly(l, a, s, m), l.out # <<>>
    PROVE  Orderly(Answer(l), a, s, m)
<1>1. l \in Wire /\ l.out \in Seq(Item) /\ l.in \in Seq(Item)
  BY WireFields DEF Orderly
<1>2. l.up
  BY DEF Orderly, Down
<1>3. PICK k : k = Answer(l)
  OBVIOUS
<1>4. PICK c \in Item : c = [l.out[1] EXCEPT !.kind = "pong"] /\ c.kind = "pong" /\ c.n = l.out[1].n
  BY <1>1, AnswerFields
<1>5. /\ k \in Wire /\ k.up /\ k.out = Tail(l.out)
      /\ k.in = IF l.out[1].kind = "ping" THEN Append(l.in, c) ELSE l.in
  BY <1>1, <1>2, <1>3, <1>4, AnswerFields
<1>6. OutFine(k.out, a, s)
  BY <1>1, <1>5, SortedTail, WithinTail DEF Orderly, OutFine
<1>7. Before(l.in, k.out)
  BY <1>1, <1>5, BeforeTail DEF Orderly
<1>8. CASE l.out[1].kind # "ping"
  BY <1>3, <1>5, <1>6, <1>7, <1>8 DEF Orderly
<1>9. CASE l.out[1].kind = "ping"
  <2>1. l.out[1].kind \in Numbered /\ 1 \in 1..Len(l.out)
    BY <1>1, <1>9, Tailed DEF Numbered
  <2>2. a < c.n /\ c.n <= s
    BY <1>4, <2>1 DEF Orderly, OutFine, Within
  <2>3. \A i \in 1..Len(l.in) : l.in[i].kind = "pong" => l.in[i].n < c.n
    BY <1>4, <2>1 DEF Orderly, Before
  <2>4. \A j \in 1..Len(k.out) : k.out[j].kind \in Numbered => c.n < k.out[j].n
    BY <1>1, <1>4, <1>5, <2>1, SortedTail DEF Orderly, OutFine
  <2>5. InFine(Append(l.in, c), a, s, m)
    <3>1. InFine(l.in, a, s, m) /\ m <= m
      BY DEF Orderly
    <3> QED
      BY <1>1, <1>4, <2>2, <2>3, <3>1, InFineAppend
  <2>6. Before(Append(l.in, c), k.out)
    BY <1>1, <1>7, <2>4, BeforeAppendIn
  <2> QED
    BY <1>3, <1>5, <1>6, <1>9, <2>5, <2>6 DEF Orderly
<1> QED
  BY <1>8, <1>9

\* A message is published to a channel that Redis has subscribed.
LEMMA OrderlyArrival ==
    ASSUME NEW a \in Nat, NEW s \in Nat, NEW m \in Nat, NEW l, Orderly(l, a, s, m), l.up,
           NEW c \in Item, c.kind = "message", c.n = m + 1
    PROVE  Orderly([l EXCEPT !.in = Append(l.in, c)], a, s, m + 1)
<1>1. l \in Wire /\ l.out \in Seq(Item) /\ l.in \in Seq(Item)
  BY WireFields DEF Orderly
<1>2. PICK in \in Seq(Item) : in = Append(l.in, c)
  BY <1>1, Appended
<1>3. PICK k : k = [l EXCEPT !.in = in]
  OBVIOUS
<1>4. k \in Wire /\ k.out = l.out /\ k.in = in /\ k.up
  BY <1>1, <1>3, WireFields
<1>5. InFine(in, a, s, m + 1)
  <2>1. InFine(l.in, a, s, m) /\ m + 1 \in Nat /\ m <= m + 1 /\ c.n <= m + 1
    BY DEF Orderly
  <2> QED
    BY <1>1, <1>2, <2>1, InFineAppend
<1>6. Before(in, l.out)
  BY <1>1, <1>2, BeforeAppendIn DEF Orderly
<1> QED
  BY <1>2, <1>3, <1>4, <1>5, <1>6 DEF Orderly

LEMMA OrderlyMore ==
    ASSUME NEW a \in Nat, NEW s \in Nat, NEW m \in Nat, NEW l, Orderly(l, a, s, m)
    PROVE  Orderly(l, a, s, m + 1)
<1>1. l.in \in Seq(Item)
  BY WireFields DEF Orderly
<1>2. Within(l.in, {"message"}, 0, m + 1)
  BY <1>1, WithinMore DEF Orderly, InFine
<1> QED
  BY <1>2 DEF Orderly, InFine

\* Run takes in the first reply, and acknowledges up to its number if it is a PONG.
LEMMA OrderlyReceived ==
    ASSUME NEW a \in Nat, NEW s \in Nat, NEW m \in Nat, NEW l, Orderly(l, a, s, m), l.in # <<>>, NEW b \in Nat,
           IF l.in[1].kind = "pong" THEN b = l.in[1].n ELSE b = a
    PROVE  /\ Orderly([l EXCEPT !.in = Tail(l.in)], b, s, m) /\ l.up
           /\ \A i \in 1..Len(Tail(l.in)) : Tail(l.in)[i].kind # "control"
<1>1. l \in Wire /\ l.out \in Seq(Item) /\ l.in \in Seq(Item)
  BY WireFields DEF Orderly
<1>2. l.up
  BY DEF Orderly, Down
<1>3. PICK in \in Seq(Item) : in = Tail(l.in)
  BY <1>1, Tailed
<1>4. PICK k : k = [l EXCEPT !.in = in]
  OBVIOUS
<1>5. k \in Wire /\ k.out = l.out /\ k.in = in /\ k.up
  BY <1>1, <1>2, <1>4, WireFields
<1>6. 1 \in 1..Len(l.in)
  BY <1>1, Tailed
<1>7. /\ Within(in, {"pong"}, a, s) /\ Within(in, {"message"}, 0, m)
      /\ Sorted(in, {"pong"}) /\ Sorted(in, {"message"})
  BY <1>1, <1>3, SortedTail, WithinTail DEF Orderly, InFine
<1>8. Before(in, l.out)
  BY <1>1, <1>3, BeforeTail DEF Orderly
<1>9. \A i \in 1..Len(in) : in[i].kind # "control"
  BY <1>1, <1>3, PastControl DEF Orderly, InFine
<1>10. Within(in, {"pong"}, b, s)
  <2>1. CASE l.in[1].kind = "pong"
    <3>1. \A i \in 1..Len(in) : in[i].kind \in {"pong"} => l.in[1].n < in[i].n
      BY <1>1, <1>3, <2>1, SortedTail DEF Orderly, InFine
    <3> QED
      BY <1>7, <2>1, <3>1 DEF Within
  <2>2. CASE l.in[1].kind # "pong"
    BY <1>7, <2>2
  <2> QED
    BY <2>1, <2>2
<1>11. OutFine(l.out, b, s)
  <2>1. CASE l.in[1].kind = "pong"
    <3>1. \A j \in 1..Len(l.out) : l.out[j].kind \in Numbered => l.in[1].n < l.out[j].n
      BY <1>6, <2>1 DEF Orderly, Before
    <3> QED
      BY <2>1, <3>1 DEF Orderly, OutFine, Within
  <2>2. CASE l.in[1].kind # "pong"
    BY <2>2 DEF Orderly
  <2> QED
    BY <2>1, <2>2
<1>12. \A i \in 2..Len(in) : in[i].kind # "control"
  BY <1>9
<1> QED
  BY <1>2, <1>3, <1>4, <1>5, <1>7, <1>8, <1>9, <1>10, <1>11, <1>12 DEF Orderly, InFine

-----------------------------------------------------------------------------
(* The invariant. *)

Counts ==
    /\ count \in [messages : Nat, breaks : Nat]
    /\ acked \in Nat /\ acked <= seq
    /\ \A ch \in Channels : at[ch] <= seq
Wired == Orderly(link, acked, seq, count.messages) /\ (closed => ~link.up)

\* Redis has subscribed the list, or will have once it has processed what was sent.
ListedAtRedis == link.up => \A ch \in listed : Ends(link.subscribed, link.out, ch, at[ch])

\* Who was acknowledged and who waits, by the numbers.
Tokens ==
    /\ \A h \in Holders :
        /\ Is(h, "held") => at[holder[h].channel] <= acked
        /\ Is(h, "waiting") => /\ at[holder[h].channel] < holder[h].token
                               /\ acked < holder[h].token /\ holder[h].token <= seq
    /\ \A g, h \in Holders :
        Is(g, "waiting") /\ Is(h, "waiting") /\ holder[g].token = holder[h].token => g = h

\* No resync is to come: what was sent is still on its way.
Steady == link.up /\ Clear(link.in)

PingsOnTheWay == Steady => \A h \in Holders : Is(h, "waiting") =>
    Has(link.in, "pong", holder[h].token) \/ Has(link.out, "ping", holder[h].token)

Owed ==
    /\ due \subseteq [channel : Channels, n : Nat]
    /\ \A m \in due : m.n <= count.messages /\ Acknowledged(m.channel)
    /\ \A m, o \in due : m.n = o.n => m = o
    /\ Steady => \A m \in due : Has(link.in, "message", m.n)

Delivery == Counts /\ Wired /\ ListedAtRedis /\ Tokens /\ PingsOnTheWay /\ Owed

LEMMA InitDelivery == Init => Delivery
<1> SUFFICES ASSUME Init PROVE Delivery
  OBVIOUS
<1>1. <<>> \in Seq(Item) /\ Len(<<>>) = 0
  BY EmptySeq
<1>2. link = [up |-> TRUE, subscribed |-> {}, out |-> <<>>, in |-> <<>>]
  BY DEF Init, Fresh
<1>3. /\ link.up /\ link.out = <<>> /\ link.in = <<>> /\ link \in Wire
  BY <1>1, <1>2 DEF Wire
<1>4. /\ \A i \in 1..Len(<<>>) : FALSE
      /\ \A i \in 2..Len(<<>>) : FALSE
  BY <1>1
<1>5. Orderly(link, acked, seq, count.messages)
  BY <1>3, <1>4 DEF Orderly, OutFine, InFine, Before, Sorted, Within
<1>6. Counts
  BY DEF Init, Counts
<1>7. Wired
  BY <1>5 DEF Wired, Init
<1>8. ListedAtRedis
  BY DEF ListedAtRedis, Init
<1>9. \A h \in Holders : holder[h].stage = "idle"
  BY DEF Init, Idle
<1>10. Tokens /\ PingsOnTheWay
  BY <1>9 DEF Tokens, PingsOnTheWay, Is
<1>11. Owed
  BY DEF Owed, Init
<1> QED
  BY <1>6, <1>7, <1>8, <1>10, <1>11 DEF Delivery

\* A channel that is acknowledged is in force at Redis, or a resync is to come.
LEMMA Acked ==
    ASSUME Inv, Delivery, NEW h \in Holders, Is(h, "held")
    PROVE  /\ holder[h].channel \in Channels
           /\ Steady => holder[h].channel \in link.subscribed
<1>1. PICK ch \in Channels : ch = holder[h].channel
  BY DEF Inv, Types, Callers, Is
<1>2. ASSUME Steady PROVE ch \in link.subscribed
  <2>1. ~closed /\ link.up
    BY <1>2 DEF Delivery, Wired, Steady
  <2>2. h \in Of(ch)
    BY <1>1 DEF Of
  <2>3. Cardinality(Of(ch)) # 0
    BY <2>2, OfFinite, FS_EmptySet
  <2>4. ch \in listed
    BY <2>1, <2>3, OfFinite, Exact DEF Inv
  <2>5. Ends(link.subscribed, link.out, ch, at[ch])
    BY <2>1, <2>4 DEF Delivery, ListedAtRedis
  <2>6. at[ch] <= acked /\ at[ch] \in Nat /\ acked \in Nat
    BY <1>1 DEF Delivery, Tokens, Counts, Inv, Types
  <2>7. link.out \in Seq(Item)
    BY WireFields DEF Delivery, Wired, Orderly
  <2>8. \A i \in 1..Len(link.out) : link.out[i].kind = "subscribe" => acked < link.out[i].n
    BY DEF Delivery, Wired, Orderly, OutFine, Within, Numbered
  <2>9. \A i \in 1..Len(link.out) : link.out[i].n \in Nat
    BY <2>7, InItem
  <2>10. \A i \in 1..Len(link.out) : ~(link.out[i].kind = "subscribe" /\ link.out[i].n = at[ch])
    BY <2>6, <2>8, <2>9
  <2> QED
    BY <2>5, <2>10 DEF Ends
<1> QED
  BY <1>1, <1>2

-----------------------------------------------------------------------------
(* What a step keeps. *)

\* Nobody holds or waits who did not before.
Stays == \A h \in Holders : holder'[h].stage \in {"held", "waiting"} => holder'[h] = holder[h]

LEMMA TokensKept ==
    ASSUME Inv, Counts, Tokens, Stays, acked' = acked, seq' \in Nat, seq <= seq', at' \in [Channels -> Nat],
           \A h \in Holders : holder'[h].stage \in {"held", "waiting"} =>
               at'[holder[h].channel] <= at[holder[h].channel]
    PROVE  Tokens'
<1>1. \A h \in Holders : holder[h].token \in Nat /\ holder[h].channel \in Channels \cup {NoChannel}
  BY DEF Inv, Types
<1>2. \A h \in Holders : holder[h].stage # "idle" => holder[h].channel \in Channels
  BY <1>1 DEF Inv, Callers
<1>3. seq \in Nat /\ acked \in Nat
  BY DEF Inv, Types, Counts
<1>4. ASSUME NEW h \in Holders, holder'[h].stage = "held"
      PROVE  at'[holder'[h].channel] <= acked'
  <2>1. holder'[h] = holder[h] /\ holder[h].stage = "held" /\ at[holder[h].channel] <= acked
    BY <1>4 DEF Stays, Tokens, Is
  <2>2. holder[h].channel \in Channels
    BY <1>2, <2>1
  <2>3. at[holder[h].channel] \in Nat /\ at'[holder[h].channel] \in Nat
    BY <2>2 DEF Inv, Types
  <2>4. at'[holder[h].channel] <= at[holder[h].channel]
    BY <1>4
  <2> QED
    BY <1>3, <2>1, <2>3, <2>4
<1>5. ASSUME NEW h \in Holders, holder'[h].stage = "waiting"
      PROVE  at'[holder'[h].channel] < holder'[h].token /\ acked' < holder'[h].token /\ holder'[h].token <= seq'
  <2>1. /\ holder'[h] = holder[h] /\ holder[h].stage = "waiting" /\ at[holder[h].channel] < holder[h].token
        /\ acked < holder[h].token /\ holder[h].token <= seq
    BY <1>5 DEF Stays, Tokens, Is
  <2>2. holder[h].channel \in Channels
    BY <1>2, <2>1
  <2>3. at[holder[h].channel] \in Nat /\ at'[holder[h].channel] \in Nat
    BY <2>2 DEF Inv, Types
  <2>4. at'[holder[h].channel] <= at[holder[h].channel]
    BY <1>5
  <2> QED
    BY <1>1, <1>3, <2>1, <2>3, <2>4
<1>6. ASSUME NEW g \in Holders, NEW h \in Holders, holder'[g].stage = "waiting", holder'[h].stage = "waiting",
             holder'[g].token = holder'[h].token
      PROVE  g = h
  BY <1>6 DEF Stays, Tokens, Is
<1> QED
  BY <1>4, <1>5, <1>6 DEF Tokens, Is

LEMMA PingsKept ==
    ASSUME PingsOnTheWay, Stays, Steady' => Steady,
           \A n : Has(link.in, "pong", n) \/ Has(link.out, "ping", n) =>
                  Has(link'.in, "pong", n) \/ Has(link'.out, "ping", n)
    PROVE  PingsOnTheWay'
<1>1. ASSUME Steady', NEW h \in Holders, holder'[h].stage = "waiting"
      PROVE  Has(link'.in, "pong", holder'[h].token) \/ Has(link'.out, "ping", holder'[h].token)
  <2>1. holder'[h] = holder[h] /\ Is(h, "waiting")
    BY <1>1 DEF Stays, Is
  <2>2. Has(link.in, "pong", holder[h].token) \/ Has(link.out, "ping", holder[h].token)
    BY <1>1, <2>1 DEF PingsOnTheWay
  <2> QED
    BY <2>1, <2>2
<1> QED
  BY <1>1 DEF PingsOnTheWay, Is

LEMMA OwedKept ==
    ASSUME Counts, Owed, due' \subseteq due, count'.messages \in Nat, count.messages <= count'.messages,
           \A m \in due' : Acknowledged(m.channel)', Steady' => Steady,
           Steady' => \A m \in due' : Has(link.in, "message", m.n) => Has(link'.in, "message", m.n)
    PROVE  Owed'
<1>1. due' \subseteq [channel : Channels, n : Nat]
  BY DEF Owed
<1>2. ASSUME NEW m \in due' PROVE m.n <= count'.messages
  <2>1. m.n \in Nat /\ m.n <= count.messages /\ count.messages \in Nat
    BY <1>2 DEF Owed, Counts
  <2> QED
    BY <2>1
<1>3. \A m, o \in due' : m.n = o.n => m = o
  BY DEF Owed
<1>4. Steady' => \A m \in due' : Has(link'.in, "message", m.n)
  BY DEF Owed
<1> QED
  BY <1>1, <1>2, <1>3, <1>4 DEF Owed

-----------------------------------------------------------------------------
(* The steps. *)

LEMMA LinkTypes ==
    ASSUME Inv, Delivery
    PROVE  /\ link \in Wire /\ link.out \in Seq(Item) /\ link.in \in Seq(Item) /\ link.up \in BOOLEAN
           /\ seq \in Nat /\ acked \in Nat /\ count.messages \in Nat /\ at \in [Channels -> Nat] /\ listed \subseteq Channels
<1>1. link \in Wire
  BY DEF Delivery, Wired, Orderly
<1> QED
  BY <1>1, WireFields DEF Delivery, Counts, Inv, Types

\* The invariant when the connection and the numbers stay as they are.
LEMMA Quiet ==
    ASSUME Inv, Delivery, Stays, UNCHANGED <<at, seq, acked, listed, closed, link, count, due>>,
           \A h \in Holders : Is(h, "held") => holder'[h] = holder[h]
    PROVE  Delivery'
<1>1. /\ seq \in Nat /\ seq' = seq /\ seq <= seq' /\ at' = at /\ at \in [Channels -> Nat]
      /\ count.messages \in Nat /\ count'.messages = count.messages /\ due' = due
  BY LinkTypes
<1>2. Counts' /\ Wired' /\ ListedAtRedis'
  BY DEF Delivery, Counts, Wired, ListedAtRedis
<1>3. \A ch \in Channels : at[ch] <= at[ch]
  BY <1>1
<1>4. \A h \in Holders : holder'[h].stage \in {"held", "waiting"} => holder[h].channel \in Channels
  BY DEF Stays, Inv, Callers, Types
<1>5. Tokens'
  BY <1>1, <1>3, <1>4, TokensKept DEF Delivery
<1>6. Steady' <=> Steady
  BY DEF Steady
<1>7. PingsOnTheWay'
  BY <1>6, PingsKept DEF Delivery
<1>8. \A m \in due : Acknowledged(m.channel)'
  BY DEF Delivery, Owed, Acknowledged, Is
<1>9. Owed'
  BY <1>1, <1>6, <1>8, OwedKept DEF Delivery
<1> QED
  BY <1>2, <1>5, <1>7, <1>9 DEF Delivery

\* A command that is sent: what it leaves of the invariant to show.
LEMMA Sent ==
    ASSUME Inv, Delivery, link.up, NEW c \in Item, link' = [link EXCEPT !.out = Append(link.out, c)],
           acked' = acked, count' = count, closed' = closed, seq' \in Nat,
           (c.kind \notin Numbered /\ seq' = seq) \/ (c.n = seq + 1 /\ seq' = seq + 1)
    PROVE  /\ Wired' /\ seq <= seq' /\ acked' <= seq'
           /\ Steady' <=> Steady
           /\ link'.in = link.in /\ link'.subscribed = link.subscribed /\ link'.out = Append(link.out, c)
           /\ \A n : Has(link.in, "pong", n) \/ Has(link.out, "ping", n) =>
                     Has(link'.in, "pong", n) \/ Has(link'.out, "ping", n)
<1>1. /\ link \in Wire /\ link.out \in Seq(Item) /\ link.in \in Seq(Item)
      /\ seq \in Nat /\ acked \in Nat /\ count.messages \in Nat /\ acked <= seq
  BY LinkTypes DEF Delivery, Counts
<1>2. seq <= seq' /\ acked' <= seq'
  BY <1>1
<1>3. Orderly(link, acked, seq, count.messages)
  BY DEF Delivery, Wired
<1>4. Orderly([link EXCEPT !.out = Append(link.out, c)], acked, seq', count.messages)
  BY <1>1, <1>3, OrderlySend
<1>5. /\ link'.in = link.in /\ link'.subscribed = link.subscribed /\ link'.out = Append(link.out, c)
      /\ link'.up = link.up
  BY <1>1, WireFields, AppendProperties
<1>6. Wired'
  BY <1>4, <1>5 DEF Wired, Delivery
<1>7. Steady' <=> Steady
  BY <1>5 DEF Steady
<1>8. \A n : Has(link.out, "ping", n) => Has(link'.out, "ping", n)
  BY <1>1, <1>5, HasAppend
<1> QED
  BY <1>2, <1>5, <1>6, <1>7, <1>8

\* The connection is lost or another one is up: nothing is on its way but a resync.
LEMMA Unsteady ==
    ASSUME Inv, Delivery, link' \in {Down, Fresh}, listed' \subseteq Channels,
           link' = Fresh => listed' = listed /\ ~closed',
           seq' = seq, acked' = acked, at' = at, count' \in [messages : Nat, breaks : Nat], count'.messages = count.messages
    PROVE  Counts' /\ Wired' /\ ListedAtRedis' /\ ~Steady' /\ PingsOnTheWay'
<1>1. Counts'
  BY DEF Delivery, Counts
<1>2. CASE link' = Down
  <2>1. Wired' /\ ~link'.up
    BY <1>2, OrderlyDown DEF Wired, Down
  <2> QED
    BY <1>1, <2>1 DEF ListedAtRedis, Steady, PingsOnTheWay
<1>3. CASE link' = Fresh
  <2>1. /\ Fresh.up /\ Fresh.subscribed = listed /\ Fresh.out = <<>> /\ Len(Fresh.out) = 0
        /\ Fresh.in[1].kind = "control" /\ Len(Fresh.in) = 1
    BY <1>3, FreshFields
  <2>2. Wired'
    <3>1. Orderly(Fresh, acked, seq, count.messages)
      BY <1>3, OrderlyFresh
    <3> QED
      BY <1>3, <3>1 DEF Wired
  <2>3. \A j \in 1..Len(Fresh.out) : FALSE
    BY <2>1
  <2>4. ListedAtRedis'
    BY <1>3, <2>1, <2>3 DEF ListedAtRedis, Ends
  <2>5. ~Steady'
    <3>1. 1 \in 1..Len(Fresh.in)
      BY <2>1
    <3> QED
      BY <1>3, <2>1, <3>1 DEF Steady, Clear
  <2> QED
    BY <1>1, <2>2, <2>4, <2>5 DEF PingsOnTheWay
<1> QED
  BY <1>2, <1>3

LEMMA AcquireDelivery ==
    ASSUME Inv, Delivery, NEW h \in Holders, NEW ch \in Channels, Acquire(h, ch)
    PROVE  Delivery'
<1>1. holder' = [holder EXCEPT ![h] = [Idle EXCEPT !.stage = "confirming", !.channel = ch]]
  BY DEF Acquire
<1>2. holder'[h].stage = "confirming" /\ \A g \in Holders : g # h => holder'[g] = holder[g]
  BY <1>1 DEF Idle, Inv, Types
<1>3. holder[h].stage = "idle"
  BY DEF Acquire, Is
<1>4. Stays /\ \A g \in Holders : Is(g, "held") => holder'[g] = holder[g]
  BY <1>2, <1>3 DEF Stays, Is
<1>5. CASE refs[ch] # 0
  <2>1. UNCHANGED <<at, seq, acked, listed, closed, link, count, due>>
    BY <1>5 DEF Acquire
  <2> QED
    BY <1>4, <2>1, Quiet
<1>6. CASE refs[ch] = 0
  <2>1. /\ seq \in Nat /\ acked \in Nat /\ count.messages \in Nat /\ at \in [Channels -> Nat]
    BY LinkTypes
  <2>2. PICK c : c = [kind |-> "subscribe", n |-> seq + 1, channel |-> ch]
    OBVIOUS
  <2>3. c \in Item /\ c.n = seq + 1 /\ c.kind = "subscribe" /\ c.channel = ch
    BY <2>1, <2>2 DEF Item
  <2>4. /\ link.up /\ seq' = seq + 1 /\ at' = [at EXCEPT ![ch] = seq + 1] /\ listed' = listed \cup {ch}
        /\ link' = [link EXCEPT !.out = Append(link.out, c)]
        /\ acked' = acked /\ count' = count /\ closed' = closed /\ due' = due
    BY <1>6, <2>2 DEF Acquire, Send
  <2>5. /\ Wired' /\ seq <= seq' /\ acked' <= seq'
        /\ Steady' <=> Steady
        /\ link'.in = link.in /\ link'.subscribed = link.subscribed /\ link'.out = Append(link.out, c)
        /\ \A n : Has(link.in, "pong", n) \/ Has(link.out, "ping", n) =>
                  Has(link'.in, "pong", n) \/ Has(link'.out, "ping", n)
    <3>1. c.n = seq + 1 /\ seq' = seq + 1 /\ seq' \in Nat
      BY <2>1, <2>3, <2>4
    <3> QED
      BY <2>3, <2>4, <3>1, Sent
  <2>6. Counts'
    BY <2>1, <2>4 DEF Delivery, Counts
  <2>7. ListedAtRedis'
    <3>1. link.out \in Seq(Item)
      BY LinkTypes
    <3>2. Ends(link.subscribed, Append(link.out, c), ch, seq + 1)
      BY <2>3, <3>1, EndsAppend
    <3>3. \A d \in listed : Ends(link.subscribed, link.out, d, at[d])
      BY <2>4 DEF Delivery, ListedAtRedis
    <3>4. \A d : ~Undoes(c, d)
      BY <2>3 DEF Undoes
    <3>5. \A d \in listed : Ends(link.subscribed, Append(link.out, c), d, at[d])
      BY <2>3, <3>1, <3>3, <3>4, EndsAppend
    <3>6. at'[ch] = seq + 1 /\ \A d \in listed : d # ch => at'[d] = at[d]
      BY <2>1, <2>4, LinkTypes
    <3> QED
      BY <2>4, <2>5, <3>2, <3>5, <3>6 DEF ListedAtRedis
  <2>8. Tokens'
    <3>1. refs[ch] = Cardinality(Of(ch))
      BY Exact DEF Inv
    <3>2. Of(ch) = {}
      BY <1>6, <3>1, OfFinite, FS_EmptySet
    <3>3. ASSUME NEW g \in Holders, holder'[g].stage \in {"held", "waiting"}
          PROVE  at'[holder[g].channel] <= at[holder[g].channel]
      <4>1. holder[g].channel # ch
        BY <3>2 DEF Of
      <4>2. holder[g].channel \in Channels
        BY <1>4, <3>3 DEF Stays, Inv, Callers, Types
      <4> QED
        BY <2>1, <2>4, <4>1, <4>2
    <3>4. at' \in [Channels -> Nat] /\ seq' \in Nat
      BY <2>1, <2>4
    <3> QED
      BY <1>4, <2>4, <2>5, <3>3, <3>4, TokensKept DEF Delivery
  <2>9. PingsOnTheWay'
    BY <1>4, <2>5, PingsKept DEF Delivery
  <2>10. Owed'
    <3>1. \A m \in due' : Acknowledged(m.channel)'
      BY <1>4, <2>4 DEF Delivery, Owed, Acknowledged, Is
    <3>2. count.messages <= count'.messages /\ count'.messages \in Nat /\ due' \subseteq due
      BY <2>1, <2>4
    <3> QED
      BY <2>5, <3>1, <3>2, OwedKept DEF Delivery
  <2> QED
    BY <2>5, <2>6, <2>7, <2>8, <2>9, <2>10 DEF Delivery
<1> QED
  BY <1>5, <1>6

LEMMA ConfirmDelivery ==
    ASSUME Inv, Delivery, NEW h \in Holders, Confirm(h)
    PROVE  Delivery'
<1>0. /\ seq \in Nat /\ acked \in Nat /\ count.messages \in Nat /\ at \in [Channels -> Nat]
      /\ holder[h].stage = "confirming" /\ holder[h].channel \in Channels
  BY LinkTypes DEF Confirm, Is, Inv, Types, Callers
<1>1. CASE at[holder[h].channel] <= acked
  <2>1. /\ holder' = [holder EXCEPT ![h].stage = "held"]
        /\ UNCHANGED <<at, seq, acked, listed, closed, link, count, due>>
    BY <1>1 DEF Confirm
  <2>2. /\ holder'[h].stage = "held" /\ holder'[h].channel = holder[h].channel
        /\ \A g \in Holders : g # h => holder'[g] = holder[g]
    BY <2>1 DEF Inv, Types
  <2>3. Counts' /\ Wired' /\ ListedAtRedis' /\ (Steady' <=> Steady)
    BY <2>1 DEF Delivery, Counts, Wired, ListedAtRedis, Steady
  <2>4. Tokens'
    <3>1. \A g \in Holders : holder'[g].stage = "held" => at'[holder'[g].channel] <= acked'
      BY <1>1, <2>1, <2>2 DEF Delivery, Tokens, Is
    <3>2. \A g \in Holders : holder'[g].stage = "waiting" => g # h /\ holder'[g] = holder[g]
      BY <2>2
    <3> QED
      BY <2>1, <3>1, <3>2 DEF Delivery, Tokens, Is
  <2>5. PingsOnTheWay'
    BY <2>1, <2>2, <2>3 DEF Delivery, PingsOnTheWay, Is
  <2>6. Owed'
    <3>1. \A g \in Holders : Is(g, "held") => holder'[g] = holder[g]
      BY <1>0, <2>2 DEF Is
    <3>2. \A m \in due' : Acknowledged(m.channel)'
      BY <2>1, <3>1 DEF Delivery, Owed, Acknowledged, Is
    <3> QED
      BY <2>1, <2>3, <3>2 DEF Delivery, Owed
  <2> QED
    BY <2>3, <2>4, <2>5, <2>6 DEF Delivery
<1>2. CASE ~(at[holder[h].channel] <= acked)
  <2>1. PICK c : c = [kind |-> "ping", n |-> seq + 1, channel |-> NoChannel]
    OBVIOUS
  <2>2. c \in Item /\ c.n = seq + 1 /\ c.kind = "ping"
    BY <1>0, <2>1 DEF Item
  <2>3. /\ link.up /\ seq' = seq + 1 /\ at' = at /\ listed' = listed
        /\ holder' = [holder EXCEPT ![h] = [holder[h] EXCEPT !.stage = "waiting", !.token = seq + 1]]
        /\ link' = [link EXCEPT !.out = Append(link.out, c)]
        /\ acked' = acked /\ count' = count /\ closed' = closed /\ due' = due
    BY <1>2, <2>1 DEF Confirm, Send
  <2>4. /\ holder'[h].stage = "waiting" /\ holder'[h].channel = holder[h].channel /\ holder'[h].token = seq + 1
        /\ \A g \in Holders : g # h => holder'[g] = holder[g]
    BY <2>3 DEF Inv, Types
  <2>5. /\ Wired' /\ seq <= seq' /\ acked' <= seq'
        /\ Steady' <=> Steady
        /\ link'.in = link.in /\ link'.subscribed = link.subscribed /\ link'.out = Append(link.out, c)
        /\ \A n : Has(link.in, "pong", n) \/ Has(link.out, "ping", n) =>
                  Has(link'.in, "pong", n) \/ Has(link'.out, "ping", n)
    BY <1>0, <2>2, <2>3, Sent
  <2>6. Counts'
    BY <1>0, <2>3 DEF Delivery, Counts
  <2>7. ListedAtRedis'
    <3>1. link.out \in Seq(Item)
      BY LinkTypes
    <3>2. \A d : ~Undoes(c, d)
      BY <2>2 DEF Undoes
    <3> QED
      BY <2>2, <2>3, <2>5, <3>1, <3>2, EndsAppend DEF Delivery, ListedAtRedis
  <2>8. Tokens'
    <3>1. \A g \in Holders : holder'[g].stage = "held" => g # h /\ holder'[g] = holder[g]
      BY <2>4
    <3>2. \A g \in Holders : g # h /\ holder'[g].stage = "waiting" =>
              /\ at[holder[g].channel] < holder[g].token
              /\ acked < holder[g].token /\ holder[g].token <= seq
      BY <2>4 DEF Delivery, Tokens, Is
    <3>3. \A g \in Holders : holder[g].token \in Nat
      BY DEF Inv, Types
    <3>4. at[holder[h].channel] < seq + 1 /\ acked < seq + 1
      BY <1>0 DEF Delivery, Counts
    <3>5. ASSUME NEW g \in Holders, holder'[g].stage = "waiting"
          PROVE  at'[holder'[g].channel] < holder'[g].token /\ acked' < holder'[g].token /\ holder'[g].token <= seq'
      <4>1. CASE g = h
        BY <1>0, <2>3, <2>4, <3>4, <4>1
      <4>2. CASE g # h
        BY <1>0, <2>3, <2>4, <3>2, <3>3, <3>5, <4>2
      <4> QED
        BY <4>1, <4>2
    <3>6. \A g \in Holders : g # h /\ holder'[g].stage = "waiting" => holder[g].token # seq + 1
      BY <1>0, <3>2, <3>3
    <3>7. ASSUME NEW f \in Holders, NEW g \in Holders, holder'[f].stage = "waiting", holder'[g].stage = "waiting",
                 holder'[f].token = holder'[g].token
          PROVE  f = g
      BY <2>4, <3>6, <3>7 DEF Delivery, Tokens, Is
    <3>8. \A g \in Holders : holder'[g].stage = "held" => at'[holder'[g].channel] <= acked'
      BY <2>3, <3>1 DEF Delivery, Tokens, Is
    <3> QED
      BY <3>5, <3>7, <3>8 DEF Tokens, Is
  <2>9. PingsOnTheWay'
    <3>1. Has(link'.out, "ping", seq + 1)
      BY <2>2, <2>5, HasAppend, LinkTypes
    <3>2. ASSUME Steady', NEW g \in Holders, holder'[g].stage = "waiting", g # h
          PROVE  Has(link'.in, "pong", holder'[g].token) \/ Has(link'.out, "ping", holder'[g].token)
      BY <2>4, <2>5, <3>2 DEF Delivery, PingsOnTheWay, Is
    <3> QED
      BY <2>4, <3>1, <3>2 DEF PingsOnTheWay, Is
  <2>10. Owed'
    <3>1. \A g \in Holders : Is(g, "held") => holder'[g] = holder[g]
      BY <1>0, <2>4 DEF Is
    <3>2. \A m \in due : Acknowledged(m.channel)
      BY DEF Delivery, Owed
    <3>3. ASSUME NEW m \in due PROVE Acknowledged(m.channel)'
      <4>1. PICK g \in Holders : holder[g].stage = "held" /\ holder[g].channel = m.channel
        BY <3>2 DEF Acknowledged, Is
      <4> QED
        BY <3>1, <4>1 DEF Acknowledged, Is
    <3>4. due' = due /\ count' = count
      BY <2>3
    <3> QED
      BY <2>5, <3>3, <3>4 DEF Delivery, Owed
  <2> QED
    BY <2>5, <2>6, <2>7, <2>8, <2>9, <2>10 DEF Delivery
<1> QED
  BY <1>1, <1>2

\* One caller becomes idle or fails that did not wait any more.
LEMMA GiveUpDelivery ==
    ASSUME Inv, Delivery, NEW h \in Holders, GiveUp(h)
    PROVE  Delivery'
<1>1. /\ holder' = [holder EXCEPT ![h] = [holder[h] EXCEPT !.stage = "failed", !.token = 0]]
      /\ holder[h].stage \in {"confirming", "waiting"}
      /\ UNCHANGED <<at, seq, acked, listed, closed, link, count, due>>
  BY DEF GiveUp
<1>2. holder'[h].stage = "failed" /\ \A g \in Holders : g # h => holder'[g] = holder[g]
  BY <1>1 DEF Inv, Types
<1>3. Stays /\ \A g \in Holders : Is(g, "held") => holder'[g] = holder[g]
  BY <1>1, <1>2 DEF Stays, Is
<1> QED
  BY <1>1, <1>3, Quiet

LEMMA SubscribeFailsDelivery ==
    ASSUME Inv, Delivery, Replaced = FALSE, NEW h \in Holders, NEW ch \in Channels, SubscribeFails(h, ch)
    PROVE  Delivery'
<1>1. /\ holder' = [holder EXCEPT ![h] = [Idle EXCEPT !.stage = "failed", !.channel = ch]]
      /\ holder[h].stage = "idle" /\ link' = Down /\ listed' = listed \cup {ch}
      /\ at' = at /\ seq' = seq /\ acked' = acked /\ due' = due
      /\ count' = [count EXCEPT !.breaks = IF link.up THEN count.breaks + 1 ELSE count.breaks]
  BY DEF SubscribeFails, Is
<1>2. count' \in [messages : Nat, breaks : Nat] /\ count'.messages = count.messages /\ count.messages \in Nat
  BY <1>1 DEF Delivery, Counts
<1>3. holder'[h].stage = "failed" /\ \A g \in Holders : g # h => holder'[g] = holder[g]
  BY <1>1 DEF Inv, Types, Idle
<1>4. Stays /\ \A g \in Holders : Is(g, "held") => holder'[g] = holder[g]
  BY <1>1, <1>3 DEF Stays, Is
<1>5. listed' \subseteq Channels /\ link' # Fresh
  BY <1>1, LinkTypes DEF Down, Fresh
<1>6. Counts' /\ Wired' /\ ListedAtRedis' /\ ~Steady' /\ PingsOnTheWay'
  BY <1>1, <1>2, <1>5, Unsteady
<1>7. Tokens'
  <2>1. seq \in Nat /\ at \in [Channels -> Nat]
    BY LinkTypes
  <2>2. \A g \in Holders : holder'[g].stage \in {"held", "waiting"} => at'[holder[g].channel] <= at[holder[g].channel]
    <3>1. \A d \in Channels : at[d] <= at[d]
      BY <2>1
    <3>2. \A g \in Holders : holder'[g].stage \in {"held", "waiting"} => holder[g].channel \in Channels
      BY <1>4 DEF Stays, Inv, Callers, Types
    <3> QED
      BY <1>1, <3>1, <3>2
  <2>3. seq' \in Nat /\ seq <= seq' /\ at' \in [Channels -> Nat]
    BY <1>1, <2>1
  <2> QED
    BY <1>1, <1>4, <2>2, <2>3, TokensKept DEF Delivery
<1>8. Owed'
  <2>1. \A m \in due' : Acknowledged(m.channel)'
    BY <1>1, <1>4 DEF Delivery, Owed, Acknowledged, Is
  <2>2. due' \subseteq due /\ count'.messages \in Nat /\ count.messages <= count'.messages
    BY <1>1, <1>2
  <2> QED
    BY <1>6, <2>1, <2>2, OwedKept DEF Delivery
<1> QED
  BY <1>6, <1>7, <1>8 DEF Delivery

LEMMA ReleaseDelivery ==
    ASSUME Inv, Delivery, NEW h \in Holders, Release(h)
    PROVE  Delivery'
<1> DEFINE ch == holder[h].channel
<1>0. /\ seq \in Nat /\ acked \in Nat /\ count.messages \in Nat /\ at \in [Channels -> Nat] /\ link.out \in Seq(Item)
      /\ listed \subseteq Channels
  BY LinkTypes
<1>1. /\ holder' = [holder EXCEPT ![h] = Idle] /\ ch \in Channels
      /\ seq' = seq /\ acked' = acked /\ count' = count /\ closed' = closed
  BY DEF Release, Inv, Types, Callers
<1>2. holder'[h].stage = "idle" /\ \A g \in Holders : g # h => holder'[g] = holder[g]
  BY <1>1 DEF Inv, Types, Idle
<1>3. Stays
  BY <1>2 DEF Stays
<1>4. /\ due' \subseteq due
      /\ \A m \in due' : \E g \in Holders \ {h} : Is(g, "held") /\ holder[g].channel = m.channel
  BY DEF Release
<1>5. \A m \in due' : Acknowledged(m.channel)'
  BY <1>2, <1>4 DEF Acknowledged, Is
<1>6. count'.messages \in Nat /\ count.messages <= count'.messages /\ seq' \in Nat /\ seq <= seq'
  BY <1>0, <1>1
<1>7. \A g \in Holders : holder'[g].stage \in {"held", "waiting"} => holder[g].channel \in Channels
  BY <1>3 DEF Stays, Inv, Callers, Types
<1>8. \A d \in Channels : at[d] <= at[d] /\ 0 <= at[d]
  BY <1>0
<1>9. CASE refs[ch] # 1
  <2>1. UNCHANGED <<at, listed, link>>
    BY <1>9 DEF Release
  <2>2. Counts' /\ Wired' /\ ListedAtRedis' /\ (Steady' <=> Steady)
    BY <1>1, <2>1 DEF Delivery, Counts, Wired, ListedAtRedis, Steady
  <2>3. Tokens'
    <3>1. \A g \in Holders : holder'[g].stage \in {"held", "waiting"} => at'[holder[g].channel] <= at[holder[g].channel]
      BY <1>7, <1>8, <2>1
    <3>2. at' \in [Channels -> Nat]
      BY <1>0, <2>1
    <3> QED
      BY <1>1, <1>3, <1>6, <3>1, <3>2, TokensKept DEF Delivery
  <2>4. PingsOnTheWay'
    BY <1>3, <2>1, <2>2, PingsKept DEF Delivery
  <2>5. Owed'
    BY <1>4, <1>5, <1>6, <2>1, <2>2, OwedKept DEF Delivery
  <2> QED
    BY <2>2, <2>3, <2>4, <2>5 DEF Delivery
<1>10. CASE refs[ch] = 1
  <2>1. at' = [at EXCEPT ![ch] = 0] /\ listed' = listed \ {ch}
    BY <1>10 DEF Release
  <2>2. at' \in [Channels -> Nat] /\ \A d \in Channels : at'[d] <= at[d] /\ (d # ch => at'[d] = at[d])
    BY <1>0, <1>1, <1>8, <2>1
  <2>3. Counts'
    <3>1. \A d \in Channels : at[d] \in Nat /\ at'[d] \in Nat /\ at'[d] <= at[d] /\ at[d] <= seq
      BY <1>0, <2>2 DEF Delivery, Counts
    <3>2. \A d \in Channels : at'[d] <= seq
      BY <1>0, <3>1
    <3> QED
      BY <1>1, <3>2 DEF Delivery, Counts
  <2>4. Tokens'
    <3>1. \A g \in Holders : holder'[g].stage \in {"held", "waiting"} => at'[holder[g].channel] <= at[holder[g].channel]
      BY <1>7, <2>2
    <3> QED
      BY <1>1, <1>3, <1>6, <2>2, <3>1, TokensKept DEF Delivery
  <2>5. CASE link.up
    <3>1. PICK c : c = [kind |-> "unsubscribe", n |-> 0, channel |-> ch]
      OBVIOUS
    <3>2. c \in Item /\ c.kind = "unsubscribe" /\ c.channel = ch /\ c.kind \notin Numbered
      BY <1>1, <3>1 DEF Item, Numbered
    <3>3. ~closed
      BY <2>5 DEF Delivery, Wired
    <3>4. link' = [link EXCEPT !.out = Append(link.out, c)]
      BY <1>10, <2>5, <3>1, <3>3 DEF Release, Send
    <3>5. /\ Wired' /\ (Steady' <=> Steady)
          /\ link'.in = link.in /\ link'.subscribed = link.subscribed /\ link'.out = Append(link.out, c)
          /\ \A n : Has(link.in, "pong", n) \/ Has(link.out, "ping", n) =>
                    Has(link'.in, "pong", n) \/ Has(link'.out, "ping", n)
      BY <1>1, <1>6, <2>5, <3>2, <3>4, Sent
    <3>6. ListedAtRedis'
      <4>1. \A d \in listed : d # ch => ~Undoes(c, d)
        BY <3>2 DEF Undoes
      <4>2. \A d \in listed : Ends(link.subscribed, link.out, d, at[d])
        BY <2>5 DEF Delivery, ListedAtRedis
      <4>3. \A d \in listed : d # ch => Ends(link.subscribed, Append(link.out, c), d, at[d])
        BY <1>0, <3>2, <4>1, <4>2, EndsAppend
      <4>4. \A d \in listed' : d \in listed /\ d # ch /\ at'[d] = at[d]
        BY <1>0, <2>1, <2>2
      <4> QED
        BY <3>5, <4>3, <4>4 DEF ListedAtRedis
    <3>7. PingsOnTheWay'
      BY <1>3, <3>5, PingsKept DEF Delivery
    <3>8. Owed'
      BY <1>4, <1>5, <1>6, <3>5, OwedKept DEF Delivery
    <3> QED
      BY <2>3, <2>4, <3>5, <3>6, <3>7, <3>8 DEF Delivery
  <2>6. CASE ~link.up
    <3>1. link' = link
      BY <1>10, <2>6 DEF Release
    <3>2. Wired' /\ ListedAtRedis' /\ ~Steady'
      BY <1>1, <2>6, <3>1 DEF Delivery, Wired, ListedAtRedis, Steady
    <3>3. PingsOnTheWay'
      BY <3>2 DEF PingsOnTheWay
    <3>4. Owed'
      BY <1>4, <1>5, <1>6, <3>2, OwedKept DEF Delivery
    <3> QED
      BY <2>3, <2>4, <3>2, <3>3, <3>4 DEF Delivery
  <2> QED
    BY <2>5, <2>6
<1> QED
  BY <1>9, <1>10

LEMMA ProcessDelivery ==
    ASSUME Inv, Delivery, Process
    PROVE  Delivery'
<1>1. /\ link \in Wire /\ link.out \in Seq(Item) /\ link.in \in Seq(Item)
      /\ seq \in Nat /\ acked \in Nat /\ count.messages \in Nat
  BY LinkTypes
<1>2. link.out # <<>> /\ UNCHANGED <<refs, at, seq, acked, holder, listed, count, due, closed>>
  BY DEF Process
<1>3. Head(link.out) = link.out[1]
  BY <1>1, <1>2, Tailed
<1>4. link' = Answer(link)
  BY <1>3 DEF Process, Answer, Takes
<1>5. PICK c \in Item : c = [link.out[1] EXCEPT !.kind = "pong"] /\ c.kind = "pong" /\ c.n = link.out[1].n
  BY <1>1, <1>2, AnswerFields
<1>6. /\ link'.up = link.up /\ link'.out = Tail(link.out) /\ link'.subscribed = Takes(link.subscribed, link.out[1])
      /\ link'.in = IF link.out[1].kind = "ping" THEN Append(link.in, c) ELSE link.in
  BY <1>1, <1>2, <1>4, <1>5, AnswerFields
<1>7. Wired'
  <2>1. Orderly(Answer(link), acked, seq, count.messages)
    BY <1>1, <1>2, OrderlyAnswer DEF Delivery, Wired
  <2> QED
    BY <1>2, <1>4, <1>6, <2>1 DEF Delivery, Wired
<1>8. Steady' <=> Steady
  <2>1. Clear(Append(link.in, c)) <=> Clear(link.in)
    BY <1>1, <1>5, HasAppend
  <2> QED
    BY <1>6, <2>1 DEF Steady
<1>9. \A kind, n : Has(link.in, kind, n) => Has(link'.in, kind, n)
  BY <1>1, <1>5, <1>6, HasAppend
<1>10. ListedAtRedis'
  <2>1. ASSUME NEW ch \in listed, link.up
        PROVE  Ends(link'.subscribed, link'.out, ch, at[ch])
    <3>1. Ends(link.subscribed, link.out, ch, at[ch])
      BY <2>1 DEF Delivery, ListedAtRedis
    <3>2. Ends(Takes(link.subscribed, link.out[1]), Tail(link.out), ch, at[ch])
      BY <1>1, <1>2, <3>1, EndsTail
    <3> QED
      BY <1>6, <3>2
  <2> QED
    BY <1>2, <1>6, <2>1 DEF ListedAtRedis
<1>11. PingsOnTheWay'
  <2>1. \A n : Has(link.out, "ping", n) => Has(link'.out, "ping", n) \/ (link.out[1].kind = "ping" /\ c.n = n)
    BY <1>1, <1>2, <1>5, <1>6, HasTail
  <2>2. link.out[1].kind = "ping" => Has(link'.in, "pong", c.n)
    BY <1>1, <1>5, <1>6, HasAppend
  <2>3. Stays
    BY <1>2 DEF Stays
  <2>4. \A n : Has(link.in, "pong", n) \/ Has(link.out, "ping", n) =>
               Has(link'.in, "pong", n) \/ Has(link'.out, "ping", n)
    BY <1>9, <2>1, <2>2
  <2> QED
    BY <1>8, <2>3, <2>4, PingsKept DEF Delivery
<1>12. Counts' /\ Tokens'
  BY <1>2 DEF Delivery, Counts, Tokens, Is
<1>13. Owed'
  <2>1. \A m \in due' : Acknowledged(m.channel)'
    BY <1>2 DEF Delivery, Owed, Acknowledged, Is
  <2>2. count'.messages \in Nat /\ count.messages <= count'.messages /\ due' \subseteq due
    BY <1>1, <1>2
  <2> QED
    BY <1>8, <1>9, <2>1, <2>2, OwedKept DEF Delivery
<1> QED
  BY <1>7, <1>10, <1>11, <1>12, <1>13 DEF Delivery

LEMMA PublishDelivery ==
    ASSUME Inv, Delivery, NEW ch \in Channels, Publish(ch)
    PROVE  Delivery'
<1> DEFINE n == count.messages + 1
<1>1. /\ link \in Wire /\ link.out \in Seq(Item) /\ link.in \in Seq(Item) /\ link.up \in BOOLEAN
      /\ seq \in Nat /\ acked \in Nat /\ count.messages \in Nat /\ n \in Nat
  BY LinkTypes
<1>2. /\ count' = [count EXCEPT !.messages = n]
      /\ due' = IF Acknowledged(ch) /\ ~closed THEN due \cup {[channel |-> ch, n |-> n]} ELSE due
      /\ UNCHANGED <<refs, at, seq, acked, holder, listed, closed>>
  BY DEF Publish
<1>3. count' \in [messages : Nat, breaks : Nat] /\ count'.messages = n
  BY <1>1, <1>2 DEF Delivery, Counts
<1>4. PICK c : c = [kind |-> "message", n |-> n, channel |-> ch]
  OBVIOUS
<1>5. c \in Item /\ c.kind = "message" /\ c.n = n
  BY <1>1, <1>4 DEF Item
<1>6. link' = IF ch \in link.subscribed THEN [link EXCEPT !.in = Append(link.in, c)] ELSE link
  BY <1>4 DEF Publish
<1>7. Append(link.in, c) \in Seq(Item)
  BY <1>1, <1>5, AppendProperties
<1>8. /\ link'.up = link.up /\ link'.out = link.out /\ link'.subscribed = link.subscribed
      /\ link'.in = IF ch \in link.subscribed THEN Append(link.in, c) ELSE link.in
  BY <1>1, <1>6, <1>7, WireFields
<1>9. Wired'
  <2>1. Orderly(link, acked, seq, count.messages)
    BY DEF Delivery, Wired
  <2>2. ch \in link.subscribed => link.up
    BY <2>1 DEF Orderly, Down
  <2>3. Orderly(link', acked, seq, n)
    BY <1>1, <1>5, <1>6, <2>1, <2>2, OrderlyArrival, OrderlyMore
  <2> QED
    BY <1>2, <1>3, <1>8, <2>3 DEF Delivery, Wired
<1>10. Steady' <=> Steady
  <2>1. Clear(Append(link.in, c)) <=> Clear(link.in)
    BY <1>1, <1>5, HasAppend
  <2> QED
    BY <1>8, <2>1 DEF Steady
<1>11. \A kind, k : Has(link.in, kind, k) => Has(link'.in, kind, k)
  BY <1>1, <1>5, <1>8, HasAppend
<1>12. Counts' /\ ListedAtRedis' /\ Tokens'
  BY <1>2, <1>3, <1>8 DEF Delivery, Counts, ListedAtRedis, Tokens, Is
<1>13. PingsOnTheWay'
  BY <1>2, <1>8, <1>10, <1>11 DEF Delivery, PingsOnTheWay, Is
<1>14. Owed'
  <2>1. \A d : Acknowledged(d)' <=> Acknowledged(d)
    BY <1>2 DEF Acknowledged, Is
  <2>2. \A m \in due : m.n \in Nat /\ m.n <= count.messages
    BY DEF Delivery, Owed
  <2>3. \A m \in due : m.n <= n /\ m.n # n
    BY <1>1, <2>2
  <2>4. PICK o : o = [channel |-> ch, n |-> n]
    OBVIOUS
  <2>5. o.channel = ch /\ o.n = n /\ o \in [channel : Channels, n : Nat] /\ n <= n
    BY <1>1, <2>4
  <2>6. due' = due \/ (due' = due \cup {o} /\ Acknowledged(ch))
    BY <1>2, <2>4
  <2>7. due' \subseteq [channel : Channels, n : Nat]
    BY <2>5, <2>6 DEF Delivery, Owed
  <2>8. \A m \in due' : m.n <= n /\ Acknowledged(m.channel)
    BY <2>3, <2>5, <2>6 DEF Delivery, Owed
  <2>9. \A m, p \in due' : m.n = p.n => m = p
    BY <2>3, <2>5, <2>6 DEF Delivery, Owed
  <2>10. ASSUME Steady, NEW m \in due' PROVE Has(link'.in, "message", m.n)
    <3>1. CASE m \in due
      BY <1>11, <2>10, <3>1 DEF Delivery, Owed
    <3>2. CASE m \notin due
      <4>1. m = o /\ Acknowledged(ch)
        BY <2>6, <3>2
      <4>2. ch \in link.subscribed
        BY <2>10, <4>1, Acked DEF Acknowledged
      <4> QED
        BY <1>1, <1>5, <1>8, <2>5, <4>1, <4>2, HasAppend
    <3> QED
      BY <3>1, <3>2
  <2> QED
    BY <1>3, <1>10, <2>1, <2>7, <2>8, <2>9, <2>10 DEF Owed
<1> QED
  BY <1>9, <1>12, <1>13, <1>14 DEF Delivery

LEMMA BreakDelivery ==
    ASSUME Inv, Delivery, Break \/ Reconnect
    PROVE  Delivery'
<1>1. /\ link' \in {Down, Fresh} /\ (link' = Fresh => ~closed) /\ (link' = Fresh \/ link' = Down)
      /\ UNCHANGED <<refs, at, seq, acked, holder, listed, due, closed>>
  BY DEF Break, Reconnect, Down, Fresh
<1>2. count' \in [messages : Nat, breaks : Nat] /\ count'.messages = count.messages /\ count.messages \in Nat
  BY DEF Break, Reconnect, Delivery, Counts
<1>3. Counts' /\ Wired' /\ ListedAtRedis' /\ ~Steady' /\ PingsOnTheWay'
  BY <1>1, <1>2, LinkTypes, Unsteady
<1>4. Tokens'
  BY <1>1 DEF Delivery, Tokens, Is
<1>5. Owed'
  BY <1>1, <1>2, <1>3 DEF Delivery, Owed, Acknowledged, Is
<1> QED
  BY <1>3, <1>4, <1>5 DEF Delivery

\* Run takes in the first reply.
LEMMA Arrived ==
    ASSUME Inv, Delivery, NEW kind, Received(kind)
    PROVE  /\ link.in # <<>> /\ Head(link.in) = link.in[1] /\ link.in[1].kind = kind /\ link.in[1].n \in Nat
           /\ 1 \in 1..Len(link.in)
           /\ link'.up = link.up /\ link'.out = link.out /\ link'.subscribed = link.subscribed
           /\ link' = [link EXCEPT !.in = Tail(link.in)] /\ link'.in = Tail(link.in)
           /\ Steady' /\ (kind # "control" => Steady)
           /\ \A k, n : Has(link.in, k, n) => Has(link'.in, k, n) \/ (k = kind /\ n = link.in[1].n)
<1>1. /\ link \in Wire /\ link.out \in Seq(Item) /\ link.in \in Seq(Item)
      /\ seq \in Nat /\ acked \in Nat /\ count.messages \in Nat
  BY LinkTypes
<1>2. link.in # <<>> /\ link' = [link EXCEPT !.in = Tail(link.in)]
  BY DEF Received
<1>3. /\ Head(link.in) = link.in[1] /\ 1 \in 1..Len(link.in) /\ Tail(link.in) \in Seq(Item)
  BY <1>1, <1>2, Tailed
<1>4. link.in[1].kind = kind /\ link.in[1].n \in Nat
  BY <1>1, <1>3, InItem DEF Received
<1>5. /\ link'.up = link.up /\ link'.out = link.out /\ link'.subscribed = link.subscribed
      /\ link'.in = Tail(link.in)
  BY <1>1, <1>2, <1>3, WireFields
<1>6. Orderly(link, acked, seq, count.messages)
  BY DEF Delivery, Wired
<1>7. link.up
  BY <1>2, <1>6 DEF Orderly, Down
<1>8. \A i \in 2..Len(link.in) : link.in[i].kind # "control"
  BY <1>6 DEF Orderly, InFine
<1>9. Steady'
  BY <1>1, <1>2, <1>5, <1>7, <1>8, PastControl DEF Steady
<1>10. kind # "control" => Steady
  <2>1. \A i \in 1..Len(link.in) : i = 1 \/ i \in 2..Len(link.in)
    BY <1>1, LenProperties
  <2> QED
    BY <1>4, <1>7, <1>8, <2>1 DEF Steady, Clear
<1>11. \A k, n : Has(link.in, k, n) => Has(Tail(link.in), k, n) \/ (link.in[1].kind = k /\ link.in[1].n = n)
  BY <1>1, <1>2, HasTail
<1> QED
  BY <1>2, <1>3, <1>4, <1>5, <1>9, <1>10, <1>11

\* Replies that are taken in without an acknowledgement.
LEMMA TakenIn ==
    ASSUME Inv, Delivery, NEW kind, kind # "pong", Received(kind),
           UNCHANGED <<refs, at, seq, acked, listed, count, closed>>
    PROVE  Counts' /\ Wired' /\ ListedAtRedis'
<1>1. /\ link.in # <<>> /\ link.in[1].kind = kind /\ link' = [link EXCEPT !.in = Tail(link.in)]
      /\ link'.up = link.up /\ link'.out = link.out /\ link'.subscribed = link.subscribed
  BY Arrived
<1>2. Orderly(link', acked, seq, count.messages)
  BY <1>1, LinkTypes, OrderlyReceived DEF Delivery, Wired
<1> QED
  BY <1>1, <1>2 DEF Delivery, Counts, Wired, ListedAtRedis

\* A PONG acknowledges one caller at most: the numbers of those that wait are all on their way.
LEMMA PongOne ==
    ASSUME Inv, Delivery, Pong
    PROVE  /\ acked' = link.in[1].n /\ acked' \in Nat /\ acked <= acked' /\ acked' <= seq
           /\ \A h \in Holders : Is(h, "waiting") => holder[h].token \in Nat /\ acked' <= holder[h].token
<1>1. /\ link.in # <<>> /\ Head(link.in) = link.in[1] /\ link.in[1].kind = "pong" /\ link.in[1].n \in Nat
      /\ 1 \in 1..Len(link.in) /\ Steady
      /\ \A k, n : Has(link.in, k, n) => Has(Tail(link.in), k, n) \/ (k = "pong" /\ n = link.in[1].n)
  <2>1. Received("pong") /\ "pong" # "control"
    BY DEF Pong
  <2> QED
    BY <2>1, Arrived
<1>2. /\ link.out \in Seq(Item) /\ link.in \in Seq(Item) /\ acked \in Nat /\ seq \in Nat
  BY LinkTypes
<1>3. Orderly(link, acked, seq, count.messages)
  BY DEF Delivery, Wired
<1>4. acked < link.in[1].n /\ link.in[1].n <= seq
  BY <1>1, <1>3 DEF Orderly, InFine, Within
<1>5. acked' = link.in[1].n
  BY <1>1, <1>2, <1>4 DEF Pong
<1>6. ASSUME NEW h \in Holders, Is(h, "waiting")
      PROVE  link.in[1].n <= holder[h].token
  <2>1. holder[h].token \in Nat
    BY DEF Inv, Types
  <2>2. Has(link.in, "pong", holder[h].token) \/ Has(link.out, "ping", holder[h].token)
    BY <1>1, <1>6 DEF Delivery, PingsOnTheWay
  <2>3. CASE Has(link.in, "pong", holder[h].token)
    <3>1. Has(Tail(link.in), "pong", holder[h].token) \/ holder[h].token = link.in[1].n
      BY <1>1, <2>3
    <3>2. \A i \in 1..Len(Tail(link.in)) : Tail(link.in)[i].kind = "pong" => link.in[1].n < Tail(link.in)[i].n
      BY <1>1, <1>2, <1>3, SortedTail DEF Orderly, InFine
    <3> QED
      BY <1>1, <2>1, <3>1, <3>2 DEF Has
  <2>4. CASE Has(link.out, "ping", holder[h].token)
    BY <1>1, <1>3, <2>1, <2>4 DEF Has, Orderly, Before, Numbered
  <2> QED
    BY <2>2, <2>3, <2>4
<1> QED
  BY <1>1, <1>2, <1>4, <1>5, <1>6 DEF Inv, Types

LEMMA PongDelivery ==
    ASSUME Inv, Delivery, Pong
    PROVE  Delivery'
<1>1. /\ link.in # <<>> /\ Head(link.in) = link.in[1] /\ link.in[1].kind = "pong" /\ link.in[1].n \in Nat
      /\ link'.up = link.up /\ link'.out = link.out /\ link'.subscribed = link.subscribed
      /\ link' = [link EXCEPT !.in = Tail(link.in)] /\ link'.in = Tail(link.in)
      /\ Steady' /\ Steady
      /\ \A k, n : Has(link.in, k, n) => Has(link'.in, k, n) \/ (k = "pong" /\ n = link.in[1].n)
  <2>1. Received("pong") /\ "pong" # "control"
    BY DEF Pong
  <2> QED
    BY <2>1, Arrived
<1>2. /\ link.out \in Seq(Item) /\ link.in \in Seq(Item) /\ acked \in Nat /\ seq \in Nat /\ count.messages \in Nat
      /\ at \in [Channels -> Nat]
  BY LinkTypes
<1>3. acked' = link.in[1].n /\ acked' \in Nat /\ acked <= acked' /\ acked' <= seq
  BY PongOne
<1>4. UNCHANGED <<refs, at, seq, listed, count, due, closed>>
  BY DEF Pong
<1>5. Orderly(link', acked', seq, count.messages)
  BY <1>1, <1>2, <1>3, OrderlyReceived DEF Delivery, Wired
<1>6. Counts' /\ Wired' /\ ListedAtRedis'
  BY <1>1, <1>3, <1>4, <1>5 DEF Delivery, Counts, Wired, ListedAtRedis
<1>7. ASSUME NEW h \in Holders
      PROVE  IF Is(h, "waiting") /\ holder[h].token <= acked'
             THEN holder'[h].stage = "held" /\ holder'[h].channel = holder[h].channel
             ELSE holder'[h] = holder[h]
  <2>1. holder'[h] = IF Is(h, "waiting") /\ holder[h].token <= acked'
                     THEN [holder[h] EXCEPT !.stage = "held", !.token = 0] ELSE holder[h]
    BY DEF Pong
  <2>2. holder[h] \in [stage : Stages, channel : Channels \cup {NoChannel}, token : Nat]
    BY DEF Inv, Types
  <2> QED
    BY <2>1, <2>2
<1>8. \A h \in Holders : Is(h, "held") => holder'[h] = holder[h]
  BY <1>7 DEF Is
<1>9. Tokens'
  <2>1. ASSUME NEW h \in Holders, holder'[h].stage = "held" PROVE at'[holder'[h].channel] <= acked'
    <3>1. holder'[h].channel = holder[h].channel /\ holder[h].channel \in Channels
      BY <1>7, <2>1 DEF Is, Inv, Types, Callers
    <3>2. at[holder[h].channel] \in Nat /\ holder[h].token \in Nat
      BY <1>2, <3>1 DEF Inv, Types
    <3>3. CASE Is(h, "waiting") /\ holder[h].token <= acked'
      BY <1>3, <1>4, <3>1, <3>2, <3>3 DEF Delivery, Tokens
    <3>4. CASE ~(Is(h, "waiting") /\ holder[h].token <= acked')
      <4>1. Is(h, "held")
        BY <1>7, <2>1, <3>4 DEF Is
      <4>2. at[holder[h].channel] <= acked
        BY <4>1 DEF Delivery, Tokens
      <4> QED
        BY <1>2, <1>3, <1>4, <3>1, <3>2, <4>2
    <3> QED
      BY <3>3, <3>4
  <2>2. ASSUME NEW h \in Holders, holder'[h].stage = "waiting"
        PROVE  holder'[h] = holder[h] /\ Is(h, "waiting") /\ acked' < holder[h].token
    <3>1. holder'[h] = holder[h] /\ Is(h, "waiting") /\ ~(holder[h].token <= acked')
      BY <1>7, <2>2 DEF Is
    <3>2. holder[h].token \in Nat
      BY DEF Inv, Types
    <3> QED
      BY <1>3, <3>1, <3>2
  <2> QED
    BY <1>4, <2>1, <2>2 DEF Delivery, Tokens, Is
<1>10. PingsOnTheWay'
  <2>1. ASSUME NEW h \in Holders, holder'[h].stage = "waiting"
        PROVE  Has(link'.in, "pong", holder'[h].token) \/ Has(link'.out, "ping", holder'[h].token)
    <3>1. holder'[h] = holder[h] /\ Is(h, "waiting") /\ ~(holder[h].token <= acked')
      BY <1>7, <2>1 DEF Is
    <3>2. Has(link.in, "pong", holder[h].token) \/ Has(link.out, "ping", holder[h].token)
      BY <1>1, <3>1 DEF Delivery, PingsOnTheWay
    <3>3. holder[h].token # link.in[1].n
      BY <1>3, <3>1
    <3> QED
      BY <1>1, <3>1, <3>2, <3>3
  <2> QED
    BY <2>1 DEF PingsOnTheWay, Is
<1>11. Owed'
  <2>1. ASSUME NEW m \in due PROVE Acknowledged(m.channel)'
    <3>1. PICK g \in Holders : Is(g, "held") /\ holder[g].channel = m.channel
      BY DEF Delivery, Owed, Acknowledged
    <3> QED
      BY <1>8, <3>1 DEF Acknowledged, Is
  <2>2. count'.messages \in Nat /\ count.messages <= count'.messages /\ due' \subseteq due
    BY <1>2, <1>4
  <2>3. \A m \in due' : Has(link.in, "message", m.n) => Has(link'.in, "message", m.n)
    BY <1>1
  <2> QED
    BY <1>1, <1>4, <2>1, <2>2, <2>3, OwedKept DEF Delivery
<1> QED
  BY <1>6, <1>9, <1>10, <1>11 DEF Delivery

LEMMA MessageDelivery ==
    ASSUME Inv, Delivery, Message
    PROVE  Delivery'
<1>1. /\ Head(link.in) = link.in[1] /\ Steady /\ link'.out = link.out
      /\ \A k, n : Has(link.in, k, n) => Has(link'.in, k, n) \/ (k = "message" /\ n = link.in[1].n)
  BY Arrived DEF Message
<1>2. /\ due' = {m \in due : m.n # Head(link.in).n}
      /\ UNCHANGED <<refs, at, seq, acked, holder, listed, count, closed>>
  BY DEF Message
<1>3. Counts' /\ Wired' /\ ListedAtRedis'
  BY <1>2, TakenIn DEF Message
<1>4. Tokens'
  BY <1>2 DEF Delivery, Tokens, Is
<1>5. Stays
  BY <1>2 DEF Stays
<1>6. PingsOnTheWay'
  <2>1. \A n : Has(link.in, "pong", n) \/ Has(link.out, "ping", n) =>
               Has(link'.in, "pong", n) \/ Has(link'.out, "ping", n)
    BY <1>1
  <2> QED
    BY <1>1, <1>5, <2>1, PingsKept DEF Delivery
<1>7. Owed'
  <2>1. due' \subseteq due /\ \A m \in due' : m.n # link.in[1].n
    BY <1>1, <1>2
  <2>2. \A m \in due' : Acknowledged(m.channel)'
    BY <1>2, <2>1 DEF Delivery, Owed, Acknowledged, Is
  <2>3. count'.messages \in Nat /\ count.messages <= count'.messages
    BY <1>2, LinkTypes
  <2>4. \A m \in due' : Has(link.in, "message", m.n) => Has(link'.in, "message", m.n)
    BY <1>1, <2>1
  <2> QED
    BY <1>1, <2>1, <2>2, <2>3, <2>4, OwedKept DEF Delivery
<1> QED
  BY <1>3, <1>4, <1>6, <1>7 DEF Delivery

\* Nobody waits any more, and nothing is owed.
LEMMA FailedWaiters ==
    ASSUME Inv, Delivery, holder' = FailWaiters, due' = {}, UNCHANGED <<at, seq, acked, count>>
    PROVE  Tokens' /\ PingsOnTheWay' /\ Owed'
<1>1. ASSUME NEW h \in Holders PROVE holder'[h].stage # "waiting" /\ (holder'[h].stage = "held" => holder'[h] = holder[h])
  <2>1. holder'[h] = IF Is(h, "waiting") THEN [holder[h] EXCEPT !.stage = "failed", !.token = 0] ELSE holder[h]
    BY DEF FailWaiters
  <2>2. holder[h] \in [stage : Stages, channel : Channels \cup {NoChannel}, token : Nat]
    BY DEF Inv, Types
  <2> QED
    BY <2>1, <2>2 DEF Is
<1>2. Tokens' /\ PingsOnTheWay'
  BY <1>1 DEF Delivery, Tokens, PingsOnTheWay, Is
<1>3. Owed'
  BY DEF Owed
<1> QED
  BY <1>2, <1>3

LEMMA ResubscribedDelivery ==
    ASSUME Inv, Delivery, Resubscribed
    PROVE  Delivery'
<1>1. Counts' /\ Wired' /\ ListedAtRedis'
  BY TakenIn DEF Resubscribed
<1>2. Tokens' /\ PingsOnTheWay' /\ Owed'
  BY FailedWaiters DEF Resubscribed
<1> QED
  BY <1>1, <1>2 DEF Delivery

LEMMA CloseDelivery ==
    ASSUME Inv, Delivery, Close
    PROVE  Delivery'
<1>1. link' = Down /\ link' # Fresh /\ UNCHANGED <<refs, at, seq, acked, listed, count>>
  BY DEF Close, Down, Fresh
<1>2. listed' \subseteq Channels /\ count' \in [messages : Nat, breaks : Nat] /\ count'.messages = count.messages
  BY <1>1, LinkTypes DEF Delivery, Counts
<1>3. Counts' /\ Wired' /\ ListedAtRedis'
  BY <1>1, <1>2, Unsteady
<1>4. Tokens' /\ PingsOnTheWay' /\ Owed'
  BY <1>1, FailedWaiters DEF Close
<1> QED
  BY <1>3, <1>4 DEF Delivery

-----------------------------------------------------------------------------

LEMMA DeliveryStep ==
    ASSUME Replaced = FALSE, Inv, Delivery, [Next]_vars
    PROVE  Delivery'
<1>1. ASSUME NEW h \in Holders, Confirm(h) \/ GiveUp(h) \/ Release(h)
      PROVE  Delivery'
  BY <1>1, ConfirmDelivery, GiveUpDelivery, ReleaseDelivery
<1>2. ASSUME NEW h \in Holders, NEW ch \in Channels, Acquire(h, ch) \/ SubscribeFails(h, ch)
      PROVE  Delivery'
  BY <1>2, AcquireDelivery, SubscribeFailsDelivery
<1>3. ASSUME NEW ch \in Channels, Publish(ch)
      PROVE  Delivery'
  BY <1>3, PublishDelivery
<1>4. CASE Process \/ Break \/ Reconnect
  BY <1>4, ProcessDelivery, BreakDelivery
<1>5. CASE Run \/ Close
  BY <1>5, PongDelivery, MessageDelivery, ResubscribedDelivery, CloseDelivery DEF Run
<1>6. CASE UNCHANGED vars
  BY <1>6 DEF vars, Delivery, Counts, Wired, ListedAtRedis, Tokens, Steady, PingsOnTheWay, Owed, Acknowledged, Is
<1> QED
  BY <1>1, <1>2, <1>3, <1>4, <1>5, <1>6 DEF Next

LEMMA DeliveryAlways ==
    ASSUME Replaced = FALSE
    PROVE  Spec => [](Inv /\ Delivery)
<1>1. Init => Inv /\ Delivery
  BY InitInv, InitDelivery
<1>2. Inv /\ Delivery /\ [Next]_vars => (Inv /\ Delivery)'
  BY RefsStep, DeliveryStep
<1> QED
  BY <1>1, <1>2, PTL DEF Spec

\* What Acquire reported holds at Redis through any order of acquires, releases, lost
\* connections and replies, or the resync that repairs it is on its way; the code's writes that
\* fail must leave the connection down (Replaced = FALSE) for it.
THEOREM BrokerAcked ==
    ASSUME Replaced = FALSE
    PROVE  Spec => []AckedInForce
<1>1. Inv /\ Delivery => AckedInForce
  <2> SUFFICES ASSUME Inv, Delivery, NEW h \in Holders, Is(h, "held")
               PROVE  \/ holder[h].channel \in link.subscribed
                      \/ ~link.up
                      \/ \E i \in DOMAIN link.in : link.in[i].kind = "control"
    BY DEF AckedInForce
  <2>1. DOMAIN link.in = 1..Len(link.in)
    BY LinkTypes, LenProperties
  <2>2. Steady => holder[h].channel \in link.subscribed
    BY Acked
  <2> QED
    BY <2>1, <2>2 DEF Steady, Clear
<1> QED
  BY <1>1, DeliveryAlways, PTL

-----------------------------------------------------------------------------
(* The promise of Feed. *)

Holds == [h \in Holders |-> IF Is(h, "held") THEN holder[h].channel ELSE NoChannel]

LEMMA HoldsOf ==
    ASSUME Inv, NEW h \in Holders
    PROVE  /\ Holds[h] = (IF Is(h, "held") THEN holder[h].channel ELSE NoChannel)
           /\ Is(h, "held") <=> Holds[h] # NoChannel
           /\ \A ch \in Channels : Holds[h] = ch <=> Is(h, "held") /\ holder[h].channel = ch
<1>1. Holds[h] = (IF Is(h, "held") THEN holder[h].channel ELSE NoChannel)
  BY DEF Holds
<1>2. Is(h, "held") => holder[h].channel # NoChannel
  BY DEF Inv, Callers, Is
<1> QED
  BY <1>1, <1>2, BrokerAssumption

\* Nobody begins or ceases to hold.
LEMMA HoldsKept ==
    ASSUME Inv, \A h \in Holders : /\ holder'[h].stage = "held" <=> holder[h].stage = "held"
                                   /\ holder[h].stage = "held" => holder'[h].channel = holder[h].channel
    PROVE  Holds' = Holds
BY DEF Holds, Is

\* One caller is acknowledged.
LEMMA HoldsMore ==
    ASSUME Inv, NEW h \in Holders, ~Is(h, "held"), holder'[h].stage = "held",
           holder'[h].channel = holder[h].channel, holder[h].channel \in Channels, due' = due,
           \A g \in Holders : g # h => holder'[g] = holder[g]
    PROVE  F!Next
<1>1. Holds[h] = NoChannel /\ Holds' = [Holds EXCEPT ![h] = holder[h].channel]
  BY DEF Holds, Is
<1>2. PICK ch \in Channels : ch = holder[h].channel
  OBVIOUS
<1>3. F!Hold(h, ch)
  BY <1>1, <1>2 DEF F!Hold, Holds
<1> QED
  BY <1>3 DEF F!Next

LEMMA ConfirmFeed ==
    ASSUME Inv, NEW h \in Holders, Confirm(h)
    PROVE  F!Next \/ (Holds' = Holds /\ due' = due)
<1>1. due' = due /\ holder[h].stage = "confirming" /\ holder[h].channel \in Channels
  BY DEF Confirm, Is, Inv, Types, Callers
<1>2. CASE at[holder[h].channel] <= acked
  <2>1. holder' = [holder EXCEPT ![h].stage = "held"]
    BY <1>2 DEF Confirm
  <2>2. /\ holder'[h].stage = "held" /\ holder'[h].channel = holder[h].channel
        /\ \A g \in Holders : g # h => holder'[g] = holder[g]
    BY <2>1 DEF Inv, Types
  <2>3. ~Is(h, "held")
    BY <1>1 DEF Is
  <2> QED
    BY <1>1, <2>2, <2>3, HoldsMore
<1>3. CASE ~(at[holder[h].channel] <= acked)
  <2>1. holder' = [holder EXCEPT ![h] = [holder[h] EXCEPT !.stage = "waiting", !.token = seq + 1]]
    BY <1>3 DEF Confirm
  <2>2. holder'[h].stage = "waiting" /\ \A g \in Holders : g # h => holder'[g] = holder[g]
    BY <2>1 DEF Inv, Types
  <2> QED
    BY <1>1, <2>2, HoldsKept
<1> QED
  BY <1>2, <1>3

LEMMA StagesFeed ==
    ASSUME Inv, NEW h \in Holders, \/ GiveUp(h)
                                   \/ \E ch \in Channels : Acquire(h, ch) \/ SubscribeFails(h, ch)
    PROVE  Holds' = Holds /\ due' = due
<1>1. /\ due' = due /\ holder[h].stage # "held" /\ holder'[h].stage # "held"
      /\ \A g \in Holders : g # h => holder'[g] = holder[g]
  <2>1. CASE GiveUp(h)
    BY <2>1 DEF GiveUp, Inv, Types
  <2>2. ASSUME NEW ch \in Channels, Acquire(h, ch)
        PROVE  /\ due' = due /\ holder[h].stage # "held" /\ holder'[h].stage # "held"
               /\ \A g \in Holders : g # h => holder'[g] = holder[g]
    BY <2>2 DEF Acquire, Idle, Is, Inv, Types
  <2>3. ASSUME NEW ch \in Channels, SubscribeFails(h, ch)
        PROVE  /\ due' = due /\ holder[h].stage # "held" /\ holder'[h].stage # "held"
               /\ \A g \in Holders : g # h => holder'[g] = holder[g]
    BY <2>3 DEF SubscribeFails, Idle, Is, Inv, Types
  <2> QED
    BY <2>1, <2>2, <2>3
<1> QED
  BY <1>1, HoldsKept

LEMMA ReleaseFeed ==
    ASSUME Inv, Delivery, NEW h \in Holders, Release(h)
    PROVE  F!Next \/ (Holds' = Holds /\ due' = due)
<1>1. /\ holder[h].stage \in {"held", "failed"} /\ holder' = [holder EXCEPT ![h] = Idle]
      /\ due' = {m \in due : \E g \in Holders \ {h} : Is(g, "held") /\ holder[g].channel = m.channel}
  BY DEF Release
<1>2. holder'[h].stage = "idle" /\ \A g \in Holders : g # h => holder'[g] = holder[g]
  BY <1>1 DEF Inv, Types, Idle
<1>3. \A m \in due : m.channel \in Channels
  BY DEF Delivery, Owed
<1>4. CASE holder[h].stage = "held"
  <2>1. Holds[h] # NoChannel
    BY <1>4, HoldsOf DEF Is
  <2>2. Holds' = [Holds EXCEPT ![h] = NoChannel]
    BY <1>2 DEF Holds, Is
  <2>3. \A m \in due : \A g \in Holders : Holds[g] = m.channel <=> Is(g, "held") /\ holder[g].channel = m.channel
    BY <1>3, HoldsOf
  <2>4. due' = {m \in due : \E g \in Holders \ {h} : Holds[g] = m.channel}
    BY <1>1, <2>3
  <2>5. F!Drop(h)
    BY <2>1, <2>2, <2>4 DEF F!Drop, Holds
  <2> QED
    BY <2>5 DEF F!Next
<1>5. CASE holder[h].stage = "failed"
  <2>1. Holds' = Holds
    BY <1>2, <1>5, HoldsKept
  <2>2. ASSUME NEW m \in due
        PROVE  \E g \in Holders \ {h} : Is(g, "held") /\ holder[g].channel = m.channel
    BY <1>5 DEF Delivery, Owed, Acknowledged, Is
  <2> QED
    BY <1>1, <2>1, <2>2
<1> QED
  BY <1>1, <1>4, <1>5

LEMMA PublishFeed ==
    ASSUME Inv, Delivery, NEW ch \in Channels, Publish(ch)
    PROVE  F!Next \/ (Holds' = Holds /\ due' = due)
<1>1. holder' = holder /\ count.messages \in Nat /\ MaxMessages \in Nat
  BY LinkTypes, BrokerAssumption DEF Publish
<1>2. PICK n : n = count.messages + 1
  OBVIOUS
<1>3. /\ n <= MaxMessages
      /\ due' = IF Acknowledged(ch) /\ ~closed THEN due \cup {[channel |-> ch, n |-> n]} ELSE due
  BY <1>2 DEF Publish
<1>4. Holds' = Holds
  BY <1>1, HoldsKept
<1>5. CASE Acknowledged(ch) /\ ~closed
  <2>1. \E h \in Holders : Holds[h] = ch
    BY <1>5, HoldsOf DEF Acknowledged
  <2>2. n \in 1..MaxMessages
    BY <1>1, <1>2, <1>3
  <2>3. \A m \in due : m.n \in Nat /\ m.n <= count.messages
    BY DEF Delivery, Owed
  <2>4. \A m \in due : m.n < n
    BY <1>1, <1>2, <2>3
  <2>5. F!Publish(ch)
    BY <1>3, <1>4, <1>5, <2>1, <2>2, <2>4 DEF F!Publish, F!Held, Holds
  <2> QED
    BY <2>5 DEF F!Next
<1>6. CASE ~(Acknowledged(ch) /\ ~closed)
  BY <1>3, <1>4, <1>6
<1> QED
  BY <1>5, <1>6

LEMMA PongFeed ==
    ASSUME Inv, Delivery, Pong
    PROVE  F!Next \/ (Holds' = Holds /\ due' = due)
<1>1. due' = due
  BY DEF Pong
<1>2. ASSUME NEW h \in Holders
      PROVE  IF Is(h, "waiting") /\ holder[h].token <= acked'
             THEN holder'[h].stage = "held" /\ holder'[h].channel = holder[h].channel
             ELSE holder'[h] = holder[h]
  <2>1. holder'[h] = IF Is(h, "waiting") /\ holder[h].token <= acked'
                     THEN [holder[h] EXCEPT !.stage = "held", !.token = 0] ELSE holder[h]
    BY DEF Pong
  <2>2. holder[h] \in [stage : Stages, channel : Channels \cup {NoChannel}, token : Nat]
    BY DEF Inv, Types
  <2> QED
    BY <2>1, <2>2
<1>3. \A h \in Holders : Is(h, "waiting") => /\ holder[h].token \in Nat /\ acked' \in Nat
                                             /\ acked' <= holder[h].token
  BY PongOne
<1>4. \A h \in Holders : Is(h, "waiting") /\ holder[h].token <= acked' => holder[h].token = acked'
  BY <1>3
<1>5. CASE \E h \in Holders : Is(h, "waiting") /\ holder[h].token <= acked'
  <2>1. PICK h \in Holders : Is(h, "waiting") /\ holder[h].token <= acked'
    BY <1>5
  <2>2. ASSUME NEW g \in Holders, g # h PROVE holder'[g] = holder[g]
    <3>1. ~(Is(g, "waiting") /\ holder[g].token <= acked')
      BY <1>4, <2>1, <2>2 DEF Delivery, Tokens
    <3> QED
      BY <1>2, <3>1
  <2>3. /\ ~Is(h, "held") /\ holder'[h].stage = "held" /\ holder'[h].channel = holder[h].channel
    BY <1>2, <2>1 DEF Is
  <2>4. holder[h].channel \in Channels
    BY <2>1 DEF Is, Inv, Types, Callers
  <2> QED
    BY <1>1, <2>2, <2>3, <2>4, HoldsMore
<1>6. CASE ~(\E h \in Holders : Is(h, "waiting") /\ holder[h].token <= acked')
  <2>1. \A h \in Holders : holder'[h] = holder[h]
    BY <1>2, <1>6
  <2> QED
    BY <1>1, <2>1, HoldsKept
<1> QED
  BY <1>5, <1>6

\* The messages on the connection are in the order of their publication, and with no resync
\* to come each message that is owed is among them: the one that arrives was published first.
LEMMA MessageFeed ==
    ASSUME Inv, Delivery, Message
    PROVE  F!Next \/ (Holds' = Holds /\ due' = due)
<1>1. /\ link.in # <<>> /\ Head(link.in) = link.in[1] /\ link.in[1].kind = "message" /\ link.in[1].n \in Nat
      /\ link'.in = Tail(link.in) /\ Steady
      /\ \A k, n : Has(link.in, k, n) => Has(link'.in, k, n) \/ (k = "message" /\ n = link.in[1].n)
  <2>1. Received("message") /\ "message" # "control"
    BY DEF Message
  <2> QED
    BY <2>1, Arrived
<1>2. holder' = holder /\ due' = {m \in due : m.n # link.in[1].n}
  BY <1>1 DEF Message
<1>3. Holds' = Holds
  BY <1>2, HoldsKept
<1>4. CASE \E m \in due : m.n = link.in[1].n
  <2>1. PICK m \in due : m.n = link.in[1].n
    BY <1>4
  <2>2. due' = due \ {m}
    BY <1>2, <2>1 DEF Delivery, Owed
  <2>3. ASSUME NEW o \in due \ {m} PROVE m.n < o.n
    <3>1. o.n # link.in[1].n
      BY <2>1, <2>3 DEF Delivery, Owed
    <3>2. Has(Tail(link.in), "message", o.n)
      BY <1>1, <3>1 DEF Delivery, Owed
    <3>3. link.in \in Seq(Item) /\ Sorted(link.in, {"message"})
      BY LinkTypes DEF Delivery, Wired, Orderly, InFine
    <3>4. \A i \in 1..Len(Tail(link.in)) : Tail(link.in)[i].kind = "message" => link.in[1].n < Tail(link.in)[i].n
      BY <1>1, <3>3, SortedTail
    <3> QED
      BY <2>1, <3>2, <3>4 DEF Has
  <2>4. F!Deliver
    BY <1>3, <2>2, <2>3 DEF F!Deliver, Holds
  <2> QED
    BY <2>4 DEF F!Next
<1>5. CASE ~(\E m \in due : m.n = link.in[1].n)
  BY <1>2, <1>3, <1>5
<1> QED
  BY <1>4, <1>5

LEMMA ResyncFeed ==
    ASSUME Inv, Resubscribed \/ Close
    PROVE  F!Next \/ (Holds' = Holds /\ due' = due)
<1>1. holder' = FailWaiters /\ due' = {}
  BY DEF Resubscribed, Close
<1>2. ASSUME NEW h \in Holders
      PROVE  /\ holder'[h].stage = "held" <=> holder[h].stage = "held"
             /\ holder[h].stage = "held" => holder'[h].channel = holder[h].channel
  <2>1. holder'[h] = IF Is(h, "waiting") THEN [holder[h] EXCEPT !.stage = "failed", !.token = 0] ELSE holder[h]
    BY <1>1 DEF FailWaiters
  <2>2. holder[h] \in [stage : Stages, channel : Channels \cup {NoChannel}, token : Nat]
    BY DEF Inv, Types
  <2> QED
    BY <2>1, <2>2 DEF Is
<1>3. Holds' = Holds
  BY <1>2, HoldsKept
<1>4. CASE due # {}
  BY <1>1, <1>3, <1>4 DEF F!Resync, F!Next, Holds
<1> QED
  BY <1>1, <1>3, <1>4

LEMMA FeedStep ==
    ASSUME Inv, Delivery, [Next]_vars
    PROVE  [F!Next]_(F!vars)
<1>1. F!Next \/ (Holds' = Holds /\ due' = due)
  <2>1. ASSUME NEW h \in Holders, Confirm(h) \/ GiveUp(h) \/ Release(h) \/ \E ch \in Channels : Acquire(h, ch) \/ SubscribeFails(h, ch)
        PROVE  F!Next \/ (Holds' = Holds /\ due' = due)
    BY <2>1, ConfirmFeed, StagesFeed, ReleaseFeed
  <2>2. ASSUME NEW ch \in Channels, Publish(ch)
        PROVE  F!Next \/ (Holds' = Holds /\ due' = due)
    BY <2>2, PublishFeed
  <2>3. CASE Run \/ Close
    BY <2>3, PongFeed, MessageFeed, ResyncFeed DEF Run
  <2>4. CASE Process \/ Break \/ Reconnect \/ UNCHANGED vars
    <3>1. holder' = holder /\ due' = due
      BY <2>4 DEF Process, Break, Reconnect, vars
    <3> QED
      BY <3>1 DEF Holds, Is
  <2> QED
    BY <2>1, <2>2, <2>3, <2>4 DEF Next
<1> QED
  BY <1>1 DEF F!vars, Holds

\* The broker implements Feed step by step: no message that is owed is left out or overtaken
\* without a resync, whatever breaks and whoever acquires and releases meanwhile.
THEOREM BrokerFeeds ==
    ASSUME Replaced = FALSE
    PROVE  Spec => F!Init /\ [][F!Next]_(F!vars)
<1>1. Init => F!Init
  <2> SUFFICES ASSUME Init PROVE F!Init
    OBVIOUS
  <2>1. \A h \in Holders : holder[h].stage = "idle"
    BY DEF Init, Idle
  <2> QED
    BY <2>1 DEF Init, F!Init, Is
<1>2. Inv /\ Delivery /\ [Next]_vars => [F!Next]_(F!vars)
  BY FeedStep
<1> QED
  BY <1>1, <1>2, DeliveryAlways, PTL DEF Spec
-----------------------------------------------------------------------------
(* The types of what is numbered and of the connection, whatever the writes that fail do. *)

\* A command or reply whose number was given out, if it is about a PING, and a SUBSCRIBE of a
\* channel.
Known(s) == {c \in Item : /\ c.kind \in {"ping", "pong"} => c.n <= s
                          /\ c.kind = "subscribe" => c.channel \in Channels}
Link(s) == [up : BOOLEAN, subscribed : SUBSET Channels, out : Seq(Known(s)), in : Seq(Known(s))]

\* No number is acknowledged, awaited or on its way that was not given out.
GivenOut ==
    /\ seq \in 0..MaxSeq /\ acked \in 0..seq
    /\ \A ch \in Channels : at[ch] <= seq
    /\ \A h \in Holders : holder[h].token <= seq
    /\ link \in Link(seq)
    /\ count \in [messages : Nat, breaks : Nat]
    /\ due \subseteq [channel : Channels, n : Nat]

LEMMA LinkLater ==
    ASSUME NEW s \in Nat, NEW t \in Nat, s <= t
    PROVE  Known(s) \subseteq Known(t) /\ Link(s) \subseteq Link(t)
<1>1. Known(s) \subseteq Known(t)
  BY DEF Known, Item
<1>2. Seq(Known(s)) \subseteq Seq(Known(t))
  BY <1>1, SeqMonotonic
<1> QED
  BY <1>1, <1>2 DEF Link

LEMMA LinkFields ==
    ASSUME NEW s, NEW l \in Link(s)
    PROVE  /\ l.out \in Seq(Known(s)) /\ l.in \in Seq(Known(s)) /\ l.subscribed \subseteq Channels
           /\ \A q \in Seq(Known(s)) : [l EXCEPT !.out = q] \in Link(s) /\ [l EXCEPT !.in = q] \in Link(s)
BY DEF Link

LEMMA LinkOfNone ==
    ASSUME listed \subseteq Channels, NEW s \in Nat
    PROVE  Down \in Link(s) /\ Fresh \in Link(s)
<1>1. Control \in Known(s)
  BY DEF Control, Known, Item
<1>2. <<>> \in Seq(Known(s)) /\ <<Control>> \in Seq(Known(s))
  BY <1>1
<1> QED
  BY <1>2 DEF Down, Fresh, Link

LEMMA LinkSent ==
    ASSUME NEW s \in Nat, NEW t \in Nat, s <= t, link \in Link(s), NEW kind, NEW n, NEW ch,
           [kind |-> kind, n |-> n, channel |-> ch] \in Known(t)
    PROVE  Send(kind, n, ch) \in Link(t)
<1>1. link \in Link(t)
  BY LinkLater
<1>2. link.out \in Seq(Known(t))
  BY <1>1, LinkFields
<1>3. Append(link.out, [kind |-> kind, n |-> n, channel |-> ch]) \in Seq(Known(t))
  BY <1>2, AppendProperties
<1> QED
  BY <1>1, <1>3, LinkFields DEF Send

LEMMA InitGivenOut == Init => GivenOut
<1> SUFFICES ASSUME Init PROVE GivenOut
  OBVIOUS
<1>1. link = [up |-> TRUE, subscribed |-> {}, out |-> <<>>, in |-> <<>>]
  BY DEF Init, Fresh
<1>2. link \in Link(seq)
  BY <1>1 DEF Link
<1>3. \A h \in Holders : holder[h].token = 0
  BY DEF Init, Idle
<1> QED
  BY <1>2, <1>3, BrokerAssumption DEF Init, GivenOut

\* The numbers that are given out only grow.
LEMMA GivenOutKept ==
    ASSUME Inv, GivenOut, seq' \in 0..MaxSeq, seq <= seq',
           acked' = acked, \A ch \in Channels : at'[ch] = at[ch] \/ at'[ch] <= seq',
           \A h \in Holders : holder'[h].token = holder[h].token \/ holder'[h].token <= seq',
           link' = link \/ link' \in Link(seq'),
           count' \in [messages : Nat, breaks : Nat], due' \subseteq [channel : Channels, n : Nat]
    PROVE  GivenOut'
<1>1. seq \in Nat /\ seq' \in Nat /\ acked \in Nat /\ MaxSeq \in Nat
  BY BrokerAssumption DEF GivenOut
<1>2. link' \in Link(seq')
  BY <1>1, LinkLater DEF GivenOut
<1>3. \A ch \in Channels : at'[ch] <= seq'
  <2>1. at \in [Channels -> Nat]
    BY DEF Inv, Types
  <2> QED
    BY <1>1, <2>1 DEF GivenOut
<1>4. \A h \in Holders : holder'[h].token <= seq'
  <2>1. \A h \in Holders : holder[h].token \in Nat
    BY DEF Inv, Types
  <2> QED
    BY <1>1, <2>1 DEF GivenOut
<1>5. acked' \in 0..seq'
  BY <1>1 DEF GivenOut
<1> QED
  BY <1>2, <1>3, <1>4, <1>5 DEF GivenOut

LEMMA AcquireGivenOut ==
    ASSUME Inv, GivenOut, NEW h \in Holders, NEW ch \in Channels, Acquire(h, ch) \/ SubscribeFails(h, ch)
    PROVE  GivenOut'
<1>1. /\ seq \in Nat /\ MaxSeq \in Nat /\ listed \subseteq Channels /\ at \in [Channels -> Nat] /\ link \in Link(seq)
      /\ seq <= MaxSeq
  BY BrokerAssumption DEF GivenOut, Inv, Types
<1>2. \A g \in Holders : holder'[g].token = holder[g].token \/ holder'[g].token <= seq'
  <2>1. PICK s \in Stages : holder' = [holder EXCEPT ![h] = [Idle EXCEPT !.stage = s, !.channel = ch]]
    BY DEF Acquire, SubscribeFails, Stages
  <2>2. seq' \in Nat
    BY <1>1 DEF Acquire, SubscribeFails
  <2>3. [Idle EXCEPT !.stage = s, !.channel = ch].token = 0
    BY DEF Idle
  <2> QED
    BY <2>1, <2>2, <2>3 DEF Inv, Types
<1>3. CASE Acquire(h, ch) /\ refs[ch] = 0
  <2>1. seq' = seq + 1 /\ at' = [at EXCEPT ![ch] = seq + 1] /\ link' = Send("subscribe", seq + 1, ch)
        /\ seq < MaxSeq /\ UNCHANGED <<acked, count, due>>
    BY <1>3 DEF Acquire
  <2>2. [kind |-> "subscribe", n |-> seq + 1, channel |-> ch] \in Known(seq + 1)
    BY <1>1 DEF Known, Item
  <2>3. link' \in Link(seq + 1)
    BY <1>1, <2>1, <2>2, LinkSent
  <2>4. \A c \in Channels : at'[c] = at[c] \/ at'[c] <= seq'
    BY <1>1, <2>1
  <2>5. count' \in [messages : Nat, breaks : Nat] /\ due' \subseteq [channel : Channels, n : Nat]
    BY <2>1 DEF GivenOut
  <2>6. seq' \in 0..MaxSeq /\ seq <= seq'
    BY <1>1, <2>1
  <2> QED
    BY <1>2, <2>1, <2>3, <2>4, <2>5, <2>6, GivenOutKept
<1>4. CASE Acquire(h, ch) /\ refs[ch] # 0
  <2>1. UNCHANGED <<seq, at, link, acked, count, due>>
    BY <1>4 DEF Acquire
  <2>2. count' \in [messages : Nat, breaks : Nat] /\ due' \subseteq [channel : Channels, n : Nat]
        /\ seq' \in 0..MaxSeq /\ seq <= seq'
    BY <1>1, <2>1 DEF GivenOut
  <2> QED
    BY <1>2, <2>1, <2>2, GivenOutKept
<1>5. CASE SubscribeFails(h, ch)
  <2>1. link' \in {Down, Fresh} /\ UNCHANGED <<seq, at, acked, due>>
    BY <1>5 DEF SubscribeFails
  <2>2. count' \in [messages : Nat, breaks : Nat]
    <3>1. count \in [messages : Nat, breaks : Nat]
      BY DEF GivenOut
    <3> QED
      BY <1>5, <3>1 DEF SubscribeFails
  <2>3. link' \in Link(seq')
    BY <1>1, <2>1, LinkOfNone
  <2>4. due' \subseteq [channel : Channels, n : Nat] /\ seq' \in 0..MaxSeq /\ seq <= seq'
    BY <1>1, <2>1 DEF GivenOut
  <2> QED
    BY <1>2, <2>1, <2>2, <2>3, <2>4, GivenOutKept
<1> QED
  BY <1>3, <1>4, <1>5

LEMMA HoldersGivenOut ==
    ASSUME Inv, GivenOut, NEW h \in Holders, Confirm(h) \/ GiveUp(h) \/ Release(h)
    PROVE  GivenOut'
<1>1. /\ seq \in Nat /\ MaxSeq \in Nat /\ at \in [Channels -> Nat] /\ link \in Link(seq) /\ seq <= MaxSeq
      /\ holder \in [Holders -> [stage : Stages, channel : Channels \cup {NoChannel}, token : Nat]]
  BY BrokerAssumption DEF GivenOut, Inv, Types
<1>2. UNCHANGED <<acked, count>> /\ count' \in [messages : Nat, breaks : Nat]
      /\ due' \subseteq [channel : Channels, n : Nat]
  BY DEF GivenOut, Confirm, GiveUp, Release
<1>3. CASE seq' = seq
  <2>1. \A g \in Holders : holder'[g].token = holder[g].token \/ holder'[g].token <= seq'
    <3>1. CASE GiveUp(h)
      BY <1>1, <1>3, <3>1 DEF GiveUp
    <3>2. CASE Confirm(h)
      BY <1>1, <1>3, <3>2 DEF Confirm
    <3>3. CASE Release(h)
      BY <1>1, <1>3, <3>3 DEF Release, Idle
    <3> QED
      BY <3>1, <3>2, <3>3
  <2>2. \A ch \in Channels : at'[ch] = at[ch] \/ at'[ch] <= seq'
    <3>1. at' = at \/ at' = [at EXCEPT ![holder[h].channel] = 0]
      BY DEF Confirm, GiveUp, Release
    <3> QED
      BY <1>1, <1>3, <3>1
  <2>3. link' = link \/ link' \in Link(seq')
    <3>1. CASE Release(h)
      <4>1. [kind |-> "unsubscribe", n |-> 0, channel |-> holder[h].channel] \in Known(seq)
        BY <1>1 DEF Known, Item
      <4>2. Send("unsubscribe", 0, holder[h].channel) \in Link(seq)
        BY <1>1, <4>1, LinkSent
      <4>3. link' = link \/ link' = Send("unsubscribe", 0, holder[h].channel)
        BY <3>1 DEF Release
      <4> QED
        BY <1>3, <4>2, <4>3
    <3>2. CASE Confirm(h)
      BY <1>1, <1>3, <3>2 DEF Confirm
    <3> QED
      BY <3>1, <3>2 DEF GiveUp
  <2>4. seq' \in 0..MaxSeq /\ seq <= seq'
    BY <1>1, <1>3
  <2> QED
    BY <1>2, <2>1, <2>2, <2>3, <2>4, GivenOutKept
<1>4. CASE seq' # seq
  <2>1. /\ seq' = seq + 1 /\ seq < MaxSeq /\ link' = Send("ping", seq + 1, NoChannel) /\ at' = at
        /\ holder' = [holder EXCEPT ![h] = [holder[h] EXCEPT !.stage = "waiting", !.token = seq + 1]]
    BY <1>4 DEF Confirm, GiveUp, Release
  <2>2. [kind |-> "ping", n |-> seq + 1, channel |-> NoChannel] \in Known(seq + 1)
    BY <1>1 DEF Known, Item
  <2>3. link' \in Link(seq')
    BY <1>1, <2>1, <2>2, LinkSent
  <2>4. seq' \in 0..MaxSeq /\ seq <= seq'
    BY <1>1, <2>1
  <2>5. \A g \in Holders : holder'[g].token = holder[g].token \/ holder'[g].token <= seq'
    BY <1>1, <2>1
  <2> QED
    BY <1>2, <2>1, <2>3, <2>4, <2>5, GivenOutKept
<1> QED
  BY <1>3, <1>4
\* Redis answers a PING with its number, and nothing else is subscribed than was asked for.
LEMMA RedisGivenOut ==
    ASSUME Inv, GivenOut, Process \/ Break \/ Reconnect \/ (\E ch \in Channels : Publish(ch))
    PROVE  GivenOut'
<1>1. /\ seq \in Nat /\ listed \subseteq Channels /\ link \in Link(seq)
      /\ count \in [messages : Nat, breaks : Nat] /\ due \subseteq [channel : Channels, n : Nat]
      /\ seq \in 0..MaxSeq
  BY BrokerAssumption DEF GivenOut, Inv, Types
<1>2. UNCHANGED <<seq, acked, at, holder>>
  BY DEF Process, Break, Reconnect, Publish
<1>3. CASE Process
  <2> DEFINE c == Head(link.out)
             in == IF c.kind = "ping" THEN Append(link.in, [c EXCEPT !.kind = "pong"]) ELSE link.in
             subscribed == CASE c.kind = "subscribe" -> link.subscribed \cup {c.channel}
                             [] c.kind = "unsubscribe" -> link.subscribed \ {c.channel}
                             [] OTHER -> link.subscribed
  <2>1. /\ link.out # <<>> /\ UNCHANGED <<count, due>>
        /\ link' = [link EXCEPT !.out = Tail(link.out), !.subscribed = subscribed, !.in = in]
    BY <1>3 DEF Process
  <2>2. link.out \in Seq(Known(seq)) /\ link.in \in Seq(Known(seq)) /\ link.subscribed \subseteq Channels
    BY <1>1, LinkFields
  <2>3. c \in Known(seq) /\ Tail(link.out) \in Seq(Known(seq))
    <3>1. Len(link.out) \in Nat \ {0} /\ Head(link.out) = link.out[1] /\ Tail(link.out) \in Seq(Known(seq))
      BY <2>1, <2>2, EmptySeq, HeadTailProperties
    <3>2. link.out[1] \in Known(seq)
      BY <2>2, <3>1, ElementOfSeq
    <3> QED
      BY <3>1, <3>2
  <2>4. subscribed \subseteq Channels
    BY <2>2, <2>3 DEF Known
  <2>5. in \in Seq(Known(seq))
    <3>1. c.kind = "ping" => [c EXCEPT !.kind = "pong"] \in Known(seq)
      BY <2>3 DEF Known, Item
    <3> QED
      BY <2>2, <3>1, AppendProperties
  <2> HIDE DEF c, in, subscribed
  <2>6. link' \in Link(seq)
    BY <1>1, <2>1, <2>3, <2>4, <2>5 DEF Link
  <2> QED
    BY <1>1, <1>2, <2>1, <2>6, GivenOutKept
<1>4. CASE Break \/ Reconnect
  <2>1. link' \in {Down, Fresh} /\ due' = due
    BY <1>4 DEF Break, Reconnect
  <2>2. count' \in [messages : Nat, breaks : Nat]
    BY <1>1, <1>4 DEF Break, Reconnect
  <2>3. link' \in Link(seq)
    BY <1>1, <2>1, LinkOfNone
  <2> QED
    BY <1>1, <1>2, <2>1, <2>2, <2>3, GivenOutKept
<1>5. ASSUME NEW ch \in Channels, Publish(ch) PROVE GivenOut'
  <2> DEFINE n == count.messages + 1
             m == [kind |-> "message", n |-> n, channel |-> ch]
  <2>1. /\ count' = [count EXCEPT !.messages = n]
        /\ due' = due \/ due' = due \cup {[channel |-> ch, n |-> n]}
        /\ link' = link \/ link' = [link EXCEPT !.in = Append(link.in, m)]
    BY <1>5 DEF Publish
  <2>2. n \in Nat /\ m \in Known(seq)
    BY <1>1 DEF Known, Item
  <2> HIDE DEF n, m
  <2>3. count' \in [messages : Nat, breaks : Nat] /\ due' \subseteq [channel : Channels, n : Nat]
    BY <1>1, <2>1, <2>2
  <2>4. Append(link.in, m) \in Seq(Known(seq))
    BY <1>1, <2>2, LinkFields, AppendProperties
  <2>5. [link EXCEPT !.in = Append(link.in, m)] \in Link(seq)
    BY <1>1, <2>4, LinkFields
  <2>6. link' \in Link(seq)
    BY <1>1, <2>1, <2>5
  <2> QED
    BY <1>1, <1>2, <2>3, <2>6, GivenOutKept
<1> QED
  BY <1>3, <1>4, <1>5

\* Run takes in what arrived; a Pong cannot acknowledge what was not sent.
LEMMA RunGivenOut ==
    ASSUME Inv, GivenOut, Run \/ Close
    PROVE  GivenOut'
<1>1. /\ seq \in Nat /\ listed \subseteq Channels /\ link \in Link(seq)
      /\ count \in [messages : Nat, breaks : Nat] /\ due \subseteq [channel : Channels, n : Nat]
      /\ acked \in Nat /\ acked <= seq /\ seq \in 0..MaxSeq
      /\ holder \in [Holders -> [stage : Stages, channel : Channels \cup {NoChannel}, token : Nat]]
  BY BrokerAssumption DEF GivenOut, Inv, Types
<1>2. UNCHANGED <<seq, at, count>> /\ due' \subseteq due
  <2>1. CASE Pong
    BY <2>1, Zenon DEF Pong
  <2>2. CASE Message
    BY <2>2 DEF Message
  <2>3. CASE Resubscribed \/ Close
    BY <2>3 DEF Resubscribed, Close
  <2> QED
    BY <2>1, <2>2, <2>3 DEF Run
<1>3. /\ link.in # <<>> => link.in[1] \in Known(seq) /\ Head(link.in) = link.in[1]
      /\ link.in # <<>> => [link EXCEPT !.in = Tail(link.in)] \in Link(seq)
  <2>1. link.in \in Seq(Known(seq))
    BY <1>1, LinkFields
  <2>2. link.in # <<>> => /\ Len(link.in) \in Nat \ {0} /\ Head(link.in) = link.in[1]
                          /\ Tail(link.in) \in Seq(Known(seq))
    BY <2>1, EmptySeq, HeadTailProperties
  <2>3. link.in # <<>> => link.in[1] \in Known(seq)
    BY <2>1, <2>2, ElementOfSeq
  <2> QED
    BY <1>1, <2>2, <2>3, LinkFields
<1>4. link' \in Link(seq)
  <2>1. CASE Run
    <3>1. \E kind : Received(kind)
      BY <2>1, Zenon DEF Run, Pong, Message, Resubscribed
    <3>2. link.in # <<>> /\ link' = [link EXCEPT !.in = Tail(link.in)]
      BY <3>1 DEF Received
    <3> QED
      BY <1>3, <3>2
  <2>2. CASE Close
    BY <1>1, <2>2, LinkOfNone DEF Close
  <2> QED
    BY <2>1, <2>2
<1>5. acked' \in Nat /\ acked' <= seq
  <2>1. CASE Pong
    <3>0. acked' = IF Head(link.in).n > acked THEN Head(link.in).n ELSE acked
      BY <2>1, Zenon DEF Pong
    <3>1. Received("pong") /\ link.in # <<>> /\ Head(link.in).kind = "pong"
      BY <2>1, Zenon DEF Pong, Received
    <3>2. Head(link.in).n \in Nat /\ Head(link.in).n <= seq
      BY <1>3, <3>1 DEF Known, Item
    <3> QED
      BY <1>1, <3>0, <3>2
  <2>2. CASE acked' = acked
    BY <1>1, <2>2
  <2> QED
    BY <2>1, <2>2 DEF Run, Message, Resubscribed, Close
<1>6. \A h \in Holders : holder'[h].token = holder[h].token \/ holder'[h].token = 0
  <2>1. CASE Pong
    <3>1. ASSUME NEW h \in Holders
          PROVE  holder'[h].token = holder[h].token \/ holder'[h].token = 0
      <4>1. holder'[h] = IF Is(h, "waiting") /\ holder[h].token <= acked'
                         THEN [holder[h] EXCEPT !.stage = "held", !.token = 0] ELSE holder[h]
        BY <2>1, Zenon DEF Pong
      <4>2. holder[h] \in [stage : Stages, channel : Channels \cup {NoChannel}, token : Nat]
        BY <1>1
      <4> QED
        BY <4>1, <4>2
    <3> QED
      BY <3>1
  <2>2. CASE Resubscribed \/ Close
    <3>1. ASSUME NEW h \in Holders
          PROVE  holder'[h].token = holder[h].token \/ holder'[h].token = 0
      <4>1. holder'[h] = IF Is(h, "waiting")
                         THEN [holder[h] EXCEPT !.stage = "failed", !.token = 0] ELSE holder[h]
        BY <2>2, Zenon DEF Resubscribed, Close, FailWaiters
      <4>2. holder[h] \in [stage : Stages, channel : Channels \cup {NoChannel}, token : Nat]
        BY <1>1
      <4> QED
        BY <4>1, <4>2
    <3> QED
      BY <3>1
  <2>3. CASE Message
    BY <2>3 DEF Message
  <2> QED
    BY <2>1, <2>2, <2>3 DEF Run
<1>7. \A h \in Holders : holder'[h].token <= seq
  BY <1>1, <1>6 DEF GivenOut
<1>8. \A ch \in Channels : at'[ch] <= seq
  BY <1>2 DEF GivenOut
<1> QED
  BY <1>1, <1>2, <1>4, <1>5, <1>7, <1>8 DEF GivenOut

LEMMA GivenOutStep == Inv /\ GivenOut /\ [Next]_vars => GivenOut'
<1> SUFFICES ASSUME Inv, GivenOut, [Next]_vars PROVE GivenOut'
  OBVIOUS
<1>1. CASE UNCHANGED vars
  BY <1>1 DEF vars, GivenOut
<1> QED
  BY <1>1, AcquireGivenOut, HoldersGivenOut, RedisGivenOut, RunGivenOut DEF Next

\* A channel has at most as many references as there are callers.
LEMMA TypesGivenOut == Inv /\ GivenOut => TypeOK
<1> SUFFICES ASSUME Inv, GivenOut PROVE TypeOK
  OBVIOUS
<1>1. seq \in Nat /\ MaxSeq \in Nat /\ seq <= MaxSeq
  BY BrokerAssumption DEF GivenOut
<1>2. refs \in [Channels -> 0..Cardinality(Holders)]
  <2>1. ASSUME NEW ch \in Channels PROVE refs[ch] \in 0..Cardinality(Holders)
    <3>1. refs[ch] = Cardinality(Of(ch)) /\ Of(ch) \subseteq Holders
      BY Exact DEF Inv, Of
    <3>2. Cardinality(Of(ch)) <= Cardinality(Holders)
      BY <3>1, BrokerAssumption, FS_Subset
    <3>3. Cardinality(Of(ch)) \in Nat /\ Cardinality(Holders) \in Nat
      BY OfFinite, BrokerAssumption, FS_CardinalityType
    <3> QED
      BY <3>1, <3>2, <3>3
  <2> QED
    BY <2>1 DEF Inv, Types
<1>3. at \in [Channels -> 0..MaxSeq]
  BY <1>1 DEF Inv, Types, GivenOut
<1>4. holder \in [Holders -> [stage : Stages, channel : Channels \cup {NoChannel}, token : 0..MaxSeq]]
  <2>1. \A h \in Holders : /\ holder[h] \in [stage : Stages, channel : Channels \cup {NoChannel}, token : Nat]
                           /\ holder[h].token <= seq
    BY DEF Inv, Types, GivenOut
  <2>2. \A h \in Holders : holder[h].token \in 0..MaxSeq
    BY <1>1, <2>1
  <2>3. \A h \in Holders : holder[h] \in [stage : Stages, channel : Channels \cup {NoChannel}, token : 0..MaxSeq]
    BY <2>1, <2>2
  <2> QED
    BY <2>3 DEF Inv, Types
<1>5. link \in [up : BOOLEAN, subscribed : SUBSET Channels, out : Seq(Item), in : Seq(Item)]
  <2>1. Seq(Known(seq)) \subseteq Seq(Item)
    <3>1. Known(seq) \subseteq Item
      BY DEF Known
    <3> QED
      BY <3>1, SeqMonotonic
  <2> QED
    BY <2>1 DEF GivenOut, Link
<1> QED
  BY <1>2, <1>3, <1>4, <1>5 DEF TypeOK, Inv, Types, GivenOut

\* The broker's counters stay within what the callers and the commands account for: no channel
\* has more references than there are callers, Run acknowledges no number that Acquire has not
\* given out, and Redis subscribes nothing but channels, with writes that fail and connections
\* replaced at once included.
THEOREM BrokerTypes == Spec => []TypeOK
<1>1. Init => Inv /\ GivenOut
  BY InitInv, InitGivenOut
<1>2. Inv /\ GivenOut /\ [Next]_vars => (Inv /\ GivenOut)'
  BY RefsStep, GivenOutStep
<1> QED
  BY <1>1, <1>2, TypesGivenOut, PTL DEF Spec
=============================================================================
