----------------------------- MODULE HubProofs -----------------------------
(***************************************************************************)
(* Proofs about Hub, for every set of connections and topics.              *)
(***************************************************************************)
EXTENDS Hub, FiniteSetTheorems, TLAPS

USE DEF Checkers

-----------------------------------------------------------------------------
(* The queue of events. *)

\* After a commit was published or lost, what was pending is still pending and so is
\* everything the event is about.
LEMMA PublishPends ==
    ASSUME events \in Seq(Events), missed \subseteq Topics,
           NEW e \in Events, NEW T \in SUBSET Topics, Publish(e, T),
           T \subseteq e.recheck \cup e.closed
    PROVE  /\ events' \in Seq(Events) /\ missed' \subseteq Topics
           /\ \A t \in Topics : Pending(t) \/ t \in T => Pending(t)'
           /\ \A i \in DOMAIN events' : (i \in DOMAIN events /\ events'[i] = events[i]) \/ events'[i] = e
<1>1. CASE events' = Append(events, e) /\ UNCHANGED missed
    <2>1. /\ events' \in Seq(Events)
          /\ \A i \in DOMAIN events : i \in DOMAIN events' /\ events'[i] = events[i]
          /\ \A i \in DOMAIN events' : i \in DOMAIN events \/ i = Len(events) + 1
          /\ Len(events) + 1 \in DOMAIN events'
          /\ events'[Len(events) + 1] = e
        BY <1>1
    <2> QED BY <1>1, <2>1 DEF Pending
<1>2. CASE missed' = missed \cup T /\ UNCHANGED events
    BY <1>2 DEF Pending
<1> QED BY <1>1, <1>2 DEF Publish

\* Taking the first event leaves what is pending beyond it.
LEMMA TailPends ==
    ASSUME events \in Seq(Events), events # <<>>, events' = Tail(events)
    PROVE  /\ events' \in Seq(Events) /\ Head(events) \in Events
           /\ 1 \in DOMAIN events /\ Head(events) = events[1]
           /\ \A i \in DOMAIN events : i = 1 \/ (i - 1 \in DOMAIN events' /\ events'[i - 1] = events[i])
           /\ \A i \in DOMAIN events' : i + 1 \in DOMAIN events /\ events'[i] = events[i + 1]
OBVIOUS

-----------------------------------------------------------------------------
(* HubInv. *)

LEMMA DrainedType ==
    ASSUME NEW s \in [begun : BOOLEAN, unregistering : Int, drained : BOOLEAN], NEW open
    PROVE  Drained(s, open) \in [begun : BOOLEAN, unregistering : Int, drained : BOOLEAN]
BY DEF Drained

\* The state of the connections, the references and the shutdown keeps its type.
TypesKept ==
    /\ conn' \in [Conns -> Conn] /\ epoch' \in 0..MaxEpoch /\ refs' \in [Topics -> Int]
    /\ shutdown' \in [begun : BOOLEAN, unregistering : Int, drained : BOOLEAN]

\* References are counted by connection.
LEMMA ReleaseType ==
    ASSUME refs \in [Topics -> Int], NEW C \in SUBSET Conns, NEW T
    PROVE  ReleaseOf(C, T) \in [Topics -> Int]
<1> SUFFICES ASSUME NEW t \in Topics PROVE Cardinality({c \in C : t \in conn[c].subs \cap T}) \in Nat
    BY DEF ReleaseOf
<1>1. {c \in C : t \in conn[c].subs \cap T} \subseteq Conns
    OBVIOUS
<1> QED BY <1>1, FS_Subset, FS_CardinalityType, HubAssumption

\* What a step that leaves the database, the events and the checks alone has to keep.
LEMMA ConnStep ==
    ASSUME HubInv, UNCHANGED <<access, deleted, events, missed, check>>,
           TypesKept, CallsInv',
           \A c \in Conns : conn[c]'.subs \subseteq conn[c].subs
    PROVE  TypeOK' /\ EventsInv' /\ ChecksInv' /\ NoStaleSubscription'
<1>1. EventsInv' /\ ChecksInv'
    BY DEF HubInv, EventsInv, ChecksInv
<1>2. \A t : Due(t) <=> Due(t)'
    BY DEF Due, Pending
<1>3. TypeOK'
    BY DEF HubInv, TypeOK, TypesKept
<1> QED BY <1>1, <1>2, <1>3 DEF HubInv, NoStaleSubscription

\* A call that is about to add a topic was so before, and sees the same.
LEMMA AddsKept ==
    ASSUME AddsWithAccess, UNCHANGED <<access, deleted, events, missed, epoch>>,
           \A x \in Conns : conn'[x].call = "adding" => conn'[x] = conn[x]
    PROVE  AddsWithAccess'
<1>1. \A t : Pending(t) <=> Pending(t)'
    BY DEF Pending
<1> QED BY <1>1 DEF AddsWithAccess

LEMMA InitHub == Init => HubInv
<1> SUFFICES ASSUME Init PROVE HubInv
    OBVIOUS
<1>1. TypeOK
    BY HubAssumption DEF Init, TypeOK, NoConn, NoCheck, Conn, Events
<1>2. CallsInv /\ AddsWithAccess /\ ChecksInv /\ NoStaleSubscription
    BY DEF Init, CallsInv, AddsWithAccess, ChecksInv, NoStaleSubscription, NoConn, NoCheck, Open
<1>3. EventsInv
    BY DEF Init, EventsInv
<1> QED BY <1>1, <1>2, <1>3 DEF HubInv

\* The steps of one connection that add no subscription: only its own record changes.
LEMMA ReaderStep ==
    ASSUME HubInv, NEW c \in Conns,
           \/ Register(c) \/ Registered(c) \/ Close(c) \/ Unregister(c) \/ Unregistered(c)
           \/ Authorized(c) \/ Refused(c) \/ Retry(c)
           \/ \E t \in Topics : Subscribe(c, t) \/ Unsubscribe(c, t)
    PROVE  HubInv'
<1> USE DEF HubInv
<1>0. 0 \in 0..MaxEpoch /\ {} \in SUBSET Topics /\ epoch \in 0..MaxEpoch /\ conn \in [Conns -> Conn]
    BY HubAssumption DEF TypeOK
<1>1. CASE Register(c)
    <2> DEFINE r == [conn[c] EXCEPT !.stage = "registering"]
    <2>1. r \in Conn /\ r.subs \subseteq conn[c].subs
        BY <1>0 DEF Conn
    <2>2. conn' = [conn EXCEPT ![c] = r]
        BY <1>1, <1>0 DEF Register
    <2>3. refs' \in [Topics -> Int]
        BY <1>1 DEF Register, TypeOK
    <2>4. epoch' \in 0..MaxEpoch /\ shutdown' \in [begun : BOOLEAN, unregistering : Int, drained : BOOLEAN]
        BY <1>1, <1>0 DEF Register, TypeOK
    <2>5. CallsInv'
        BY <1>1, <1>0, <2>2 DEF Register, Conn, CallsInv, Open
    <2>6. AddsWithAccess'
        BY <1>1, <1>0, <2>2 DEF Register, Conn, AddsWithAccess, CallsInv, Pending, Open
    <2>7. UNCHANGED <<access, deleted, events, missed, check>>
        BY <1>1 DEF Register
    <2>8. TypesKept /\ \A x \in Conns : conn[x]'.subs \subseteq conn[x].subs
        BY <1>0, <2>1, <2>2, <2>3, <2>4 DEF TypesKept
    <2> QED BY <2>5, <2>6, <2>7, <2>8, ConnStep
<1>2. CASE Registered(c)
    <2> DEFINE r == [conn[c] EXCEPT !.stage = IF shutdown.begun THEN "none" ELSE "open"]
    <2>1. r \in Conn /\ r.subs \subseteq conn[c].subs
        BY <1>0 DEF Conn
    <2>2. conn' = [conn EXCEPT ![c] = r]
        BY <1>2, <1>0 DEF Registered
    <2>3. refs' \in [Topics -> Int]
        BY <1>2 DEF Registered, TypeOK
    <2>4. epoch' \in 0..MaxEpoch /\ shutdown' \in [begun : BOOLEAN, unregistering : Int, drained : BOOLEAN]
        BY <1>2, <1>0 DEF Registered, TypeOK
    <2>5. CallsInv'
        BY <1>2, <1>0, <2>2 DEF Registered, Conn, CallsInv, Open
    <2>6. AddsWithAccess'
        BY <1>2, <1>0, <2>2 DEF Registered, Conn, AddsWithAccess, CallsInv, Pending, Open
    <2>7. UNCHANGED <<access, deleted, events, missed, check>>
        BY <1>2 DEF Registered
    <2>8. TypesKept /\ \A x \in Conns : conn[x]'.subs \subseteq conn[x].subs
        BY <1>0, <2>1, <2>2, <2>3, <2>4 DEF TypesKept
    <2> QED BY <2>5, <2>6, <2>7, <2>8, ConnStep
<1>3. CASE Close(c)
    <2> DEFINE r == [conn[c] EXCEPT !.closing = TRUE]
    <2>1. r \in Conn /\ r.subs \subseteq conn[c].subs
        BY <1>0 DEF Conn
    <2>2. conn' = [conn EXCEPT ![c] = r]
        BY <1>3, <1>0 DEF Close
    <2>3. refs' \in [Topics -> Int]
        BY <1>3 DEF Close, TypeOK
    <2>4. epoch' \in 0..MaxEpoch /\ shutdown' \in [begun : BOOLEAN, unregistering : Int, drained : BOOLEAN]
        BY <1>3, <1>0 DEF Close, TypeOK
    <2>5. CallsInv'
        BY <1>3, <1>0, <2>2 DEF Close, Conn, CallsInv, Open
    <2>6. AddsWithAccess'
        BY <1>3, <1>0, <2>2 DEF Close, Conn, AddsWithAccess, CallsInv, Pending, Open
    <2>7. UNCHANGED <<access, deleted, events, missed, check>>
        BY <1>3 DEF Close
    <2>8. TypesKept /\ \A x \in Conns : conn[x]'.subs \subseteq conn[x].subs
        BY <1>0, <2>1, <2>2, <2>3, <2>4 DEF TypesKept
    <2> QED BY <2>5, <2>6, <2>7, <2>8, ConnStep
<1>4. CASE Unregistered(c)
    <2> DEFINE r == NoConn
    <2>1. r \in Conn /\ r.subs \subseteq conn[c].subs
        BY <1>0 DEF Conn, NoConn
    <2>2. conn' = [conn EXCEPT ![c] = r]
        BY <1>4, <1>0 DEF Unregistered
    <2>3. refs' \in [Topics -> Int]
        BY <1>4 DEF Unregistered, TypeOK
    <2>4. epoch' \in 0..MaxEpoch /\ shutdown' \in [begun : BOOLEAN, unregistering : Int, drained : BOOLEAN]
        <3> DEFINE s == [shutdown EXCEPT !.unregistering = @ - 1]
        <3>0. shutdown \in [begun : BOOLEAN, unregistering : Int, drained : BOOLEAN]
            BY DEF TypeOK
        <3>1. s \in [begun : BOOLEAN, unregistering : Int, drained : BOOLEAN]
            BY <3>0
        <3>2. shutdown' = Drained(s, Opened)
            BY <1>4 DEF Unregistered
        <3>3. Drained(s, Opened) \in [begun : BOOLEAN, unregistering : Int, drained : BOOLEAN]
            BY <3>1, DrainedType
        <3> QED BY <3>2, <3>3, <1>4, <1>0 DEF Unregistered
    <2>5. CallsInv'
        BY <1>4, <1>0, <2>2 DEF Unregistered, Conn, CallsInv, Open, NoConn
    <2>6. AddsWithAccess'
        BY <1>4, <1>0, <2>2 DEF Unregistered, Conn, AddsWithAccess, CallsInv, Pending, Open, NoConn
    <2>7. UNCHANGED <<access, deleted, events, missed, check>>
        BY <1>4 DEF Unregistered
    <2>8. TypesKept /\ \A x \in Conns : conn[x]'.subs \subseteq conn[x].subs
        BY <1>0, <2>1, <2>2, <2>3, <2>4 DEF TypesKept
    <2> QED BY <2>5, <2>6, <2>7, <2>8, ConnStep
<1>5. ASSUME NEW t \in Topics, Subscribe(c, t) PROVE HubInv'
    <2> DEFINE r == [conn[c] EXCEPT !.call = "authorizing", !.topics = {t}, !.epoch = epoch]
    <2>1. r \in Conn /\ r.subs \subseteq conn[c].subs
        BY <1>0 DEF Conn
    <2>2. conn' = [conn EXCEPT ![c] = r]
        BY <1>5, <1>0 DEF Subscribe
    <2>3. refs' \in [Topics -> Int]
        BY <1>5 DEF Subscribe, TypeOK
    <2>4. epoch' \in 0..MaxEpoch /\ shutdown' \in [begun : BOOLEAN, unregistering : Int, drained : BOOLEAN]
        BY <1>5, <1>0 DEF Subscribe, TypeOK
    <2>5. CallsInv'
        <3>1. /\ r.stage = "open" /\ r.epoch = epoch /\ r.topics \cap r.subs = {}
              /\ epoch' = epoch /\ r.call # "none"
            BY <1>5, <1>0 DEF Subscribe, Conn, Open
        <3> QED BY <3>1, <1>0, <2>2 DEF CallsInv, Open, Conn
    <2>6. AddsWithAccess'
        <3>1. r.call = "authorizing" /\ conn'[c] = r /\ \A x \in Conns \ {c} : conn'[x] = conn[x]
            BY <1>0, <2>2 DEF Conn
        <3>2. UNCHANGED <<access, deleted, events, missed, epoch>>
            BY <1>5 DEF Subscribe
        <3> QED BY <3>1, <3>2, AddsKept
    <2>7. UNCHANGED <<access, deleted, events, missed, check>>
        BY <1>5 DEF Subscribe
    <2>8. TypesKept /\ \A x \in Conns : conn[x]'.subs \subseteq conn[x].subs
        BY <1>0, <2>1, <2>2, <2>3, <2>4 DEF TypesKept
    <2> QED BY <2>5, <2>6, <2>7, <2>8, ConnStep
<1>6. CASE Authorized(c)
    <2> DEFINE r == [conn[c] EXCEPT !.call = "adding"]
    <2>1. r \in Conn /\ r.subs \subseteq conn[c].subs
        BY <1>0 DEF Conn
    <2>2. conn' = [conn EXCEPT ![c] = r]
        BY <1>6, <1>0 DEF Authorized
    <2>3. refs' \in [Topics -> Int]
        BY <1>6 DEF Authorized, TypeOK, Add
    <2>4. epoch' \in 0..MaxEpoch /\ shutdown' \in [begun : BOOLEAN, unregistering : Int, drained : BOOLEAN]
        BY <1>6, <1>0 DEF Authorized, TypeOK
    <2>5. CallsInv'
        BY <1>6, <1>0, <2>2 DEF Authorized, Conn, CallsInv, Open
    <2>6. AddsWithAccess'
        BY <1>6, <1>0, <2>2 DEF Authorized, Conn, AddsWithAccess, CallsInv, Pending, Open
    <2>7. UNCHANGED <<access, deleted, events, missed, check>>
        BY <1>6 DEF Authorized
    <2>8. TypesKept /\ \A x \in Conns : conn[x]'.subs \subseteq conn[x].subs
        BY <1>0, <2>1, <2>2, <2>3, <2>4 DEF TypesKept
    <2> QED BY <2>5, <2>6, <2>7, <2>8, ConnStep
<1>7. CASE Refused(c)
    <2> DEFINE r == [conn[c] EXCEPT !.call = "none", !.topics = {}, !.epoch = 0]
    <2>1. r \in Conn /\ r.subs \subseteq conn[c].subs
        BY <1>0 DEF Conn
    <2>2. conn' = [conn EXCEPT ![c] = r]
        BY <1>7, <1>0 DEF Refused
    <2>3. refs' \in [Topics -> Int]
        BY <1>7 DEF Refused, TypeOK
    <2>4. epoch' \in 0..MaxEpoch /\ shutdown' \in [begun : BOOLEAN, unregistering : Int, drained : BOOLEAN]
        BY <1>7, <1>0 DEF Refused, TypeOK
    <2>5. CallsInv'
        BY <1>7, <1>0, <2>2 DEF Refused, Conn, CallsInv, Open
    <2>6. AddsWithAccess'
        BY <1>7, <1>0, <2>2 DEF Refused, Conn, AddsWithAccess, CallsInv, Pending, Open
    <2>7. UNCHANGED <<access, deleted, events, missed, check>>
        BY <1>7 DEF Refused
    <2>8. TypesKept /\ \A x \in Conns : conn[x]'.subs \subseteq conn[x].subs
        BY <1>0, <2>1, <2>2, <2>3, <2>4 DEF TypesKept
    <2> QED BY <2>5, <2>6, <2>7, <2>8, ConnStep
<1>8. CASE Retry(c)
    <2> DEFINE r == [conn[c] EXCEPT !.call = "authorizing", !.epoch = epoch]
    <2>1. r \in Conn /\ r.subs \subseteq conn[c].subs
        BY <1>0 DEF Conn
    <2>2. conn' = [conn EXCEPT ![c] = r]
        BY <1>8, <1>0 DEF Retry
    <2>3. refs' \in [Topics -> Int]
        BY <1>8 DEF Retry, TypeOK
    <2>4. epoch' \in 0..MaxEpoch /\ shutdown' \in [begun : BOOLEAN, unregistering : Int, drained : BOOLEAN]
        BY <1>8, <1>0 DEF Retry, TypeOK
    <2>5. CallsInv'
        BY <1>8, <1>0, <2>2 DEF Retry, Conn, CallsInv, Open
    <2>6. AddsWithAccess'
        BY <1>8, <1>0, <2>2 DEF Retry, Conn, AddsWithAccess, CallsInv, Pending, Open
    <2>7. UNCHANGED <<access, deleted, events, missed, check>>
        BY <1>8 DEF Retry
    <2>8. TypesKept /\ \A x \in Conns : conn[x]'.subs \subseteq conn[x].subs
        BY <1>0, <2>1, <2>2, <2>3, <2>4 DEF TypesKept
    <2> QED BY <2>5, <2>6, <2>7, <2>8, ConnStep
<1>9. CASE Unregister(c)
    <2> DEFINE r == [NoConn EXCEPT !.stage = "leaving"]
    <2>1. r \in Conn /\ r.subs \subseteq conn[c].subs
        BY <1>0 DEF Conn, NoConn
    <2>2. conn' = [conn EXCEPT ![c] = r]
        BY <1>9, <1>0 DEF Unregister
    <2>3. refs' \in [Topics -> Int]
        BY <1>9, ReleaseType DEF Unregister, TypeOK
    <2>4. epoch' \in 0..MaxEpoch /\ shutdown' \in [begun : BOOLEAN, unregistering : Int, drained : BOOLEAN]
        BY <1>9, <1>0 DEF Unregister, TypeOK
    <2>5. CallsInv'
        BY <1>9, <1>0, <2>2 DEF Unregister, Conn, CallsInv, Open, NoConn, Opened
    <2>6. AddsWithAccess'
        BY <1>9, <1>0, <2>2 DEF Unregister, Conn, AddsWithAccess, CallsInv, Pending, Open, NoConn, Opened
    <2>7. UNCHANGED <<access, deleted, events, missed, check>>
        BY <1>9 DEF Unregister
    <2>8. TypesKept /\ \A x \in Conns : conn[x]'.subs \subseteq conn[x].subs
        BY <1>0, <2>1, <2>2, <2>3, <2>4 DEF TypesKept
    <2> QED BY <2>5, <2>6, <2>7, <2>8, ConnStep
<1>10. ASSUME NEW t \in Topics, Unsubscribe(c, t) PROVE HubInv'
    <2> DEFINE r == [conn[c] EXCEPT !.subs = @ \ {t}]
    <2>1. r \in Conn /\ r.subs \subseteq conn[c].subs
        BY <1>0 DEF Conn
    <2>2. conn' = [conn EXCEPT ![c] = r]
        BY <1>10, <1>0 DEF Unsubscribe, Drop
    <2>3. refs' \in [Topics -> Int]
        BY <1>10, ReleaseType DEF Unsubscribe, TypeOK
    <2>4. epoch' \in 0..MaxEpoch /\ shutdown' \in [begun : BOOLEAN, unregistering : Int, drained : BOOLEAN]
        BY <1>10, <1>0 DEF Unsubscribe, TypeOK
    <2>9. /\ r.stage = "open" /\ r.call = "none" /\ conn[c].call = "none"
          /\ epoch' = epoch
        BY <1>10, <1>0 DEF Unsubscribe, Conn, Open
    <2>7. UNCHANGED <<access, deleted, events, missed, check>>
        BY <1>10 DEF Unsubscribe
    <2>5. CallsInv'
        <3> QED BY <2>9, <1>0, <2>2 DEF CallsInv, Open, Conn
    <2>6. AddsWithAccess'
        <3> QED BY <2>7, <2>9, <1>0, <2>2 DEF AddsWithAccess, Pending, Conn
    <2>8. TypesKept /\ \A x \in Conns : conn[x]'.subs \subseteq conn[x].subs
        BY <1>0, <2>1, <2>2, <2>3, <2>4 DEF TypesKept
    <2> QED BY <2>5, <2>6, <2>7, <2>8, ConnStep
<1> QED BY <1>1, <1>2, <1>3, <1>4, <1>5, <1>6, <1>7, <1>8, <1>9, <1>10

\* A subscription is added only with the present epoch: AddsWithAccess says what that means.
LEMMA AddedStep ==
    ASSUME HubInv, NEW c \in Conns, Added(c)
    PROVE  HubInv'
<1> USE DEF HubInv
<1> DEFINE r == [conn[c] EXCEPT !.call = "none", !.subs = conn[c].subs \cup conn[c].topics, !.topics = {}, !.epoch = 0]
<1>0. 0 \in 0..MaxEpoch /\ {} \in SUBSET Topics /\ conn \in [Conns -> Conn]
    BY HubAssumption DEF TypeOK
<1>1. r \in Conn /\ r.call = "none" /\ r.stage = conn[c].stage /\ r.subs = conn[c].subs \cup conn[c].topics
    BY <1>0 DEF Conn
<1>2. conn' = [conn EXCEPT ![c] = r] /\ UNCHANGED <<access, deleted, events, missed, epoch, check, refs, shutdown>>
    BY <1>0 DEF Added
<1>3. conn[c].call = "adding" /\ conn[c].epoch = epoch /\ Open(c)
    BY DEF Added, CallsInv
<1>4. TypeOK'
    <2>1. TypesKept
        BY <1>0, <1>1, <1>2 DEF TypesKept, TypeOK
    <2> QED BY <2>1, <1>2 DEF TypesKept, TypeOK
<1>5. CallsInv'
    BY <1>0, <1>1, <1>2, <1>3 DEF CallsInv, Open, Conn
<1>6. AddsWithAccess'
    BY <1>0, <1>1, <1>2 DEF AddsWithAccess, Pending, Conn
<1>7. EventsInv' /\ ChecksInv'
    BY <1>2 DEF EventsInv, ChecksInv
<1>8. NoStaleSubscription'
    <2>1. \A t : Due(t)' <=> Due(t)
        BY <1>2 DEF Due, Pending
    <2>2. \A t \in conn[c].topics : t \in access \/ Pending(t) \/ t \in deleted
        BY <1>3 DEF AddsWithAccess
    <2> QED BY <2>1, <2>2, <1>0, <1>1, <1>2 DEF NoStaleSubscription, Due
<1> QED BY <1>4, <1>5, <1>6, <1>7, <1>8

\* A commit takes access away and publishes, or fails to.
LEMMA DatabaseStep ==
    ASSUME HubInv, NEW t \in Topics,
           (\E T \in {{t}, Scope(t)} : RemoveMember(t, T)) \/ AddMember(t) \/ DeleteRoom(t)
    PROVE  HubInv'
<1> USE DEF HubInv
<1>0. events \in Seq(Events) /\ missed \subseteq Topics /\ access \subseteq Topics /\ deleted \subseteq Topics
    BY DEF TypeOK
<1>1. UNCHANGED <<conn, epoch, check, refs, shutdown>>
    BY DEF RemoveMember, AddMember, DeleteRoom
<1>2. CallsInv' /\ ChecksInv'
    BY <1>1 DEF CallsInv, ChecksInv, Open
<1> SUFFICES /\ events' \in Seq(Events) /\ missed' \subseteq Topics
             /\ access' \subseteq Topics /\ deleted' \subseteq Topics
             /\ \A u \in Topics : u \in access \/ Pending(u) \/ u \in deleted =>
                                    u \in access' \/ Pending(u)' \/ u \in deleted'
             /\ \A u \in Topics : Pending(u) => Pending(u)'
             /\ deleted \subseteq deleted'
             /\ EventsInv'
    <2>1. TypeOK'
        BY <1>1 DEF TypeOK
    <2>2. AddsWithAccess'
        BY <1>1 DEF AddsWithAccess, TypeOK, Conn
    <2>3. \A c \in Conns : \A u \in conn[c].subs : u \in Topics
        BY DEF TypeOK, Conn
    <2>4. \A u \in Topics : u \in access \/ Due(u) \/ u \in deleted => u \in access' \/ Due(u)' \/ u \in deleted'
        BY <1>1 DEF Due
    <2>5. NoStaleSubscription'
        BY <1>1, <2>3, <2>4 DEF NoStaleSubscription
    <2> QED BY <1>2, <2>1, <2>2, <2>5
<1>3. ASSUME NEW T \in {{t}, Scope(t)}, RemoveMember(t, T)
      PROVE  /\ events' \in Seq(Events) /\ missed' \subseteq Topics
             /\ access' \subseteq Topics /\ deleted' \subseteq Topics
             /\ \A u \in Topics : u \in access \/ Pending(u) \/ u \in deleted =>
                                    u \in access' \/ Pending(u)' \/ u \in deleted'
             /\ \A u \in Topics : Pending(u) => Pending(u)'
             /\ deleted \subseteq deleted'
             /\ EventsInv'
    <2> DEFINE e == [recheck |-> Scope(t), closed |-> {}]
    <2>1. e \in Events /\ T \subseteq e.recheck \cup e.closed /\ T \subseteq Topics
        BY DEF Events, Scope
    <2>2. Publish(e, T) /\ access' = access \ T /\ deleted' = deleted
        BY <1>3 DEF RemoveMember
    <2>3. /\ events' \in Seq(Events) /\ missed' \subseteq Topics
          /\ \A u \in Topics : Pending(u) \/ u \in T => Pending(u)'
          /\ \A i \in DOMAIN events' : (i \in DOMAIN events /\ events'[i] = events[i]) \/ events'[i] = e
        BY <1>0, <2>1, <2>2, PublishPends
    <2>4. EventsInv'
        BY <2>2, <2>3 DEF EventsInv
    <2> QED BY <1>0, <2>2, <2>3, <2>4
<1>4. ASSUME DeleteRoom(t)
      PROVE  /\ events' \in Seq(Events) /\ missed' \subseteq Topics
             /\ access' \subseteq Topics /\ deleted' \subseteq Topics
             /\ \A u \in Topics : u \in access \/ Pending(u) \/ u \in deleted =>
                                    u \in access' \/ Pending(u)' \/ u \in deleted'
             /\ \A u \in Topics : Pending(u) => Pending(u)'
             /\ deleted \subseteq deleted'
             /\ EventsInv'
    <2> DEFINE e == [recheck |-> {}, closed |-> {t}]
    <2>1. e \in Events /\ {t} \subseteq e.recheck \cup e.closed
        BY DEF Events
    <2>2. Publish(e, {t}) /\ access' = access \ {t} /\ deleted' = deleted \cup {t}
        BY <1>4 DEF DeleteRoom
    <2>3. /\ events' \in Seq(Events) /\ missed' \subseteq Topics
          /\ \A u \in Topics : Pending(u) \/ u \in {t} => Pending(u)'
          /\ \A i \in DOMAIN events' : (i \in DOMAIN events /\ events'[i] = events[i]) \/ events'[i] = e
        BY <1>0, <2>1, <2>2, PublishPends
    <2>4. EventsInv'
        <3>1. e.closed \subseteq deleted' /\ e.recheck = {} /\ deleted \subseteq deleted'
            BY <2>2
        <3> HIDE DEF e
        <3>2. \A i \in DOMAIN events : events[i].closed \subseteq deleted /\ (events[i].closed # {} => events[i].recheck = {})
            BY DEF EventsInv
        <3>3. \A i \in DOMAIN events' : events'[i].closed \subseteq deleted' /\ (events'[i].closed # {} => events'[i].recheck = {})
            BY <2>3, <3>1, <3>2
        <3> QED BY <3>3 DEF EventsInv
    <2> QED BY <1>0, <2>2, <2>3, <2>4
<1>5. CASE AddMember(t)
    BY <1>0, <1>5 DEF AddMember, Pending, EventsInv
<1> QED BY <1>3, <1>4, <1>5

-----------------------------------------------------------------------------
(* Deliveries and revalidations. *)

\* Dropping topics only takes subscriptions away.
LEMMA DropShrinks ==
    ASSUME conn \in [Conns -> Conn], NEW T
    PROVE  /\ Drop(Opened, T) \in [Conns -> Conn]
           /\ \A c \in Conns : /\ Drop(Opened, T)[c].stage = conn[c].stage
                               /\ Drop(Opened, T)[c].call = conn[c].call
                               /\ Drop(Opened, T)[c].topics = conn[c].topics
                               /\ Drop(Opened, T)[c].epoch = conn[c].epoch
                               /\ Drop(Opened, T)[c].subs \subseteq conn[c].subs
                               /\ Open(c) => Drop(Opened, T)[c].subs = conn[c].subs \ T
<1>1. ASSUME NEW c \in Conns PROVE [conn[c] EXCEPT !.subs = @ \ T] \in Conn
    BY DEF Conn
<1> QED BY <1>1 DEF Drop, Opened, Conn

\* After the first half of a revalidation, every subscription in T is asked about, and no
\* call has seen the new epoch.
LEMMA RecheckDue ==
    ASSUME HubInv, NEW g \in Checkers, NEW T \in SUBSET Topics, check[g].stage = "idle",
           Recheck(g, T), UNCHANGED conn
    PROVE  /\ epoch' \in 0..MaxEpoch /\ epoch <= epoch'
           /\ check' \in [Checkers -> [stage : {"idle", "asking", "removing"},
                                       asked : SUBSET Topics, allowed : SUBSET Topics]]
           /\ ChecksInv'
           /\ \A h \in Checkers \ {g} : check'[h] = check[h]
           /\ \A c \in Conns : \A t \in conn[c].subs \cap T : t \in check'[g].asked \ check'[g].allowed
           /\ \A c \in Conns : conn[c].call = "adding" => conn[c].epoch # epoch'
<1> USE DEF HubInv
<1>0. check \in [Checkers -> [stage : {"idle", "asking", "removing"},
                              asked : SUBSET Topics, allowed : SUBSET Topics]]
      /\ conn \in [Conns -> Conn] /\ epoch \in 0..MaxEpoch
    BY DEF TypeOK
<1>1. CASE Opened = {}
    <2>1. epoch' = epoch /\ check' = check
        BY <1>1 DEF Recheck
    <2>2. \A c \in Conns : conn[c].subs = {} /\ conn[c].call = "none"
        BY <1>1 DEF CallsInv, Opened
    <2> QED BY <1>0, <2>1, <2>2 DEF ChecksInv
<1>2. CASE Opened # {}
    <2> DEFINE asked == Subscribed \cap T
               k == IF asked = {} THEN NoCheck ELSE [NoCheck EXCEPT !.stage = "asking", !.asked = asked]
    <2>1. epoch < MaxEpoch /\ epoch' = epoch + 1 /\ check' = [check EXCEPT ![g] = k]
        BY <1>2 DEF Recheck
    <2>2. asked \subseteq Topics
        OBVIOUS
    <2>3. k \in [stage : {"idle", "asking", "removing"}, asked : SUBSET Topics, allowed : SUBSET Topics]
          /\ k.allowed = {} /\ k.asked = asked /\ (k.stage = "idle" => asked = {})
        BY <2>2 DEF NoCheck
    <2>4. \A c \in Conns : conn[c].subs \subseteq Subscribed
        BY DEF Subscribed, Opened, CallsInv
    <2> HIDE DEF k
    <2>5. ChecksInv'
        BY <1>0, <2>1, <2>3 DEF ChecksInv
    <2>6. \A c \in Conns : conn[c].call = "adding" => conn[c].epoch <= epoch /\ conn[c].epoch \in Int
        BY <1>0 DEF CallsInv, Conn
    <2>7. epoch' \in 0..MaxEpoch /\ epoch <= epoch'
        BY <1>0, <2>1, HubAssumption
    <2>8. \A h \in Checkers \ {g} : check'[h] = check[h]
        BY <1>0, <2>1
    <2>9. \A c \in Conns : conn[c].call = "adding" => conn[c].epoch # epoch'
        BY <1>0, <2>1, <2>6
    <2>10. check'[g] = k
        BY <1>0, <2>1
    <2>11. \A c \in Conns : \A t \in conn[c].subs \cap T : t \in check'[g].asked \ check'[g].allowed
        BY <2>3, <2>4, <2>10
    <2>12. check' \in [Checkers -> [stage : {"idle", "asking", "removing"},
                                   asked : SUBSET Topics, allowed : SUBSET Topics]]
        BY <1>0, <2>1, <2>3
    <2> QED BY <2>5, <2>7, <2>8, <2>9, <2>11, <2>12
<1> QED BY <1>1, <1>2

\* The first half of a revalidation leaves the connections alone: what was missed or about
\* to be delivered may go, once it is asked about.
LEMMA RecheckStep ==
    ASSUME HubInv, NEW g \in Checkers, NEW T \in SUBSET Topics, check[g].stage = "idle",
           Recheck(g, T), UNCHANGED <<access, deleted, conn, refs, shutdown>>,
           events' \in Seq(Events), missed' \subseteq Topics, EventsInv',
           \A t \in Topics : Pending(t) => Pending(t)' \/ t \in T \/ t \in deleted
    PROVE  HubInv'
<1> USE DEF HubInv
<1>0. /\ epoch' \in 0..MaxEpoch /\ epoch <= epoch'
      /\ check' \in [Checkers -> [stage : {"idle", "asking", "removing"},
                                  asked : SUBSET Topics, allowed : SUBSET Topics]]
      /\ ChecksInv'
      /\ \A h \in Checkers \ {g} : check'[h] = check[h]
      /\ \A c \in Conns : \A t \in conn[c].subs \cap T : t \in check'[g].asked \ check'[g].allowed
      /\ \A c \in Conns : conn[c].call = "adding" => conn[c].epoch # epoch'
    BY RecheckDue
<1>1. TypeOK'
    BY <1>0 DEF TypeOK
<1>2. CallsInv'
    <2>1. \A c \in Conns : conn[c].epoch \in Int
        BY DEF TypeOK, Conn
    <2> QED BY <2>1, <1>0 DEF CallsInv, TypeOK, Open
<1>3. AddsWithAccess'
    BY <1>0 DEF AddsWithAccess
<1>4. NoStaleSubscription'
    <2> SUFFICES ASSUME NEW c \in Conns, NEW t \in conn[c].subs
                 PROVE  t \in access \/ Due(t)' \/ t \in deleted
        BY DEF NoStaleSubscription
    <2>1. t \in Topics
        BY DEF TypeOK, Conn
    <2>2. CASE t \in T
        BY <1>0, <2>2 DEF Due
    <2>3. CASE Pending(t) /\ t \notin T
        BY <2>1, <2>3 DEF Due
    <2>4. ASSUME NEW h \in Checkers, t \in check[h].asked \ check[h].allowed
          PROVE  t \in access \/ Due(t)' \/ t \in deleted
        <3>1. h # g
            BY <2>4 DEF ChecksInv
        <3> QED BY <1>0, <2>4, <3>1 DEF Due
    <2> QED BY <2>2, <2>3, <2>4 DEF NoStaleSubscription, Due
<1> QED BY <1>0, <1>1, <1>2, <1>3, <1>4

LEMMA DeliverStep ==
    ASSUME HubInv, DeliverAccessChange \/ Revalidate
    PROVE  HubInv'
<1> USE DEF HubInv
<1>0. events \in Seq(Events) /\ missed \subseteq Topics
    BY DEF TypeOK
<1>1. CASE DeliverAccessChange
    <2>1. /\ events # <<>> /\ events' = Tail(events) /\ Head(events).closed = {}
          /\ UNCHANGED <<access, deleted, missed, conn, refs, shutdown>>
          /\ check["broker"].stage = "idle" /\ Recheck("broker", Head(events).recheck)
        BY <1>1 DEF DeliverAccessChange
    <2>2. /\ events' \in Seq(Events) /\ Head(events) \in Events
          /\ 1 \in DOMAIN events /\ Head(events) = events[1]
          /\ \A i \in DOMAIN events : i = 1 \/ (i - 1 \in DOMAIN events' /\ events'[i - 1] = events[i])
          /\ \A i \in DOMAIN events' : i + 1 \in DOMAIN events /\ events'[i] = events[i + 1]
        BY <1>0, <2>1, TailPends
    <2>3. EventsInv'
        BY <2>1, <2>2 DEF EventsInv
    <2>4. \A t \in Topics : Pending(t) => Pending(t)' \/ t \in Head(events).recheck
        BY <2>1, <2>2 DEF Pending
    <2>5. Head(events).recheck \in SUBSET Topics
        BY <2>2 DEF Events
    <2> QED BY <1>0, <2>1, <2>2, <2>3, <2>4, <2>5, RecheckStep
<1>2. CASE Revalidate
    <2>1. /\ UNCHANGED <<access, deleted, events, conn, refs, shutdown>> /\ missed' = {}
          /\ check["timer"].stage = "idle" /\ Recheck("timer", Topics)
        BY <1>2 DEF Revalidate
    <2>2. EventsInv'
        BY <2>1 DEF EventsInv
    <2> QED BY <1>0, <2>1, <2>2, RecheckStep
<1> QED BY <1>1, <1>2

\* What is dropped from every open connection is not subscribed any more.
LEMMA DropStep ==
    ASSUME HubInv, NEW T \in SUBSET Topics, conn' = Drop(Opened, T), refs' = ReleaseOf(Opened, T),
           UNCHANGED <<access, deleted, missed, epoch, shutdown>>,
           events' \in Seq(Events), EventsInv', ChecksInv',
           check' \in [Checkers -> [stage : {"idle", "asking", "removing"},
                                    asked : SUBSET Topics, allowed : SUBSET Topics]],
           \A t \in Topics : Pending(t) => Pending(t)' \/ t \in deleted,
           \A t \in Topics : Due(t) => Due(t)' \/ t \in T
    PROVE  HubInv'
<1> USE DEF HubInv
<1>0. conn \in [Conns -> Conn] /\ refs \in [Topics -> Int]
    BY DEF TypeOK
<1>1. /\ conn' \in [Conns -> Conn]
      /\ \A c \in Conns : /\ conn'[c].stage = conn[c].stage /\ conn'[c].call = conn[c].call
                          /\ conn'[c].topics = conn[c].topics /\ conn'[c].epoch = conn[c].epoch
                          /\ conn'[c].subs \subseteq conn[c].subs
                          /\ Open(c) => conn'[c].subs = conn[c].subs \ T
    BY <1>0, DropShrinks
<1>2. refs' \in [Topics -> Int]
    BY <1>0, ReleaseType DEF Opened
<1>3. TypeOK'
    BY <1>1, <1>2 DEF TypeOK
<1>4. CallsInv'
    BY <1>1 DEF CallsInv, Open
<1>5. AddsWithAccess'
    <2> SUFFICES ASSUME NEW c \in Conns, conn'[c].call = "adding", conn'[c].epoch = epoch',
                        NEW t \in conn'[c].topics
                 PROVE  (t \in access \/ Pending(t) \/ t \in deleted)'
        BY DEF AddsWithAccess
    <2>1. t \in conn[c].topics /\ t \in Topics
        BY <1>0, <1>1 DEF Conn
    <2>2. t \in access \/ Pending(t) \/ t \in deleted
        BY <1>1, <2>1 DEF AddsWithAccess
    <2> QED BY <2>1, <2>2
<1>6. NoStaleSubscription'
    <2> SUFFICES ASSUME NEW c \in Conns, NEW t \in conn'[c].subs
                 PROVE  t \in access \/ Due(t)' \/ t \in deleted
        BY DEF NoStaleSubscription
    <2>1. t \in conn[c].subs /\ t \in Topics /\ t \notin T
        <3>1. t \in conn[c].subs /\ conn[c] \in Conn
            BY <1>0, <1>1
        <3>2. Open(c)
            BY <3>1 DEF CallsInv
        <3> QED BY <1>1, <3>1, <3>2 DEF Conn
    <2>2. t \in access \/ Due(t) \/ t \in deleted
        BY <2>1 DEF NoStaleSubscription
    <2> QED BY <2>1, <2>2
<1> QED BY <1>3, <1>4, <1>5, <1>6

\* DeliverClosed and the second half of a revalidation, answered or failed.
LEMMA RemovalStep ==
    ASSUME HubInv, DeliverClosed \/ \E g \in Checkers : Remove(g)
    PROVE  HubInv'
<1> USE DEF HubInv
<1>0. /\ events \in Seq(Events)
      /\ check \in [Checkers -> [stage : {"idle", "asking", "removing"},
                                 asked : SUBSET Topics, allowed : SUBSET Topics]]
    BY DEF TypeOK
<1>1. CASE DeliverClosed
    <2> DEFINE T == Head(events).closed
    <2>1. /\ events # <<>> /\ events' = Tail(events) /\ T # {}
          /\ conn' = Drop(Opened, T) /\ refs' = ReleaseOf(Opened, T)
          /\ UNCHANGED <<access, deleted, missed, epoch, check, shutdown>>
        BY <1>1 DEF DeliverClosed
    <2>2. /\ events' \in Seq(Events) /\ Head(events) \in Events
          /\ 1 \in DOMAIN events /\ Head(events) = events[1]
          /\ \A i \in DOMAIN events : i = 1 \/ (i - 1 \in DOMAIN events' /\ events'[i - 1] = events[i])
          /\ \A i \in DOMAIN events' : i + 1 \in DOMAIN events /\ events'[i] = events[i + 1]
        BY <1>0, <2>1, TailPends
    <2>3. EventsInv' /\ ChecksInv'
        BY <2>1, <2>2 DEF EventsInv, ChecksInv
    <2>4. T \subseteq deleted /\ Head(events).recheck = {}
        BY <2>1, <2>2 DEF EventsInv
    <2>5. \A t \in Topics : Pending(t) => Pending(t)' \/ t \in T
        BY <2>1, <2>2, <2>4 DEF Pending
    <2>6. \A t \in Topics : Pending(t) => Pending(t)' \/ t \in deleted
        BY <2>4, <2>5
    <2>7. \A t \in Topics : Due(t) => Due(t)' \/ t \in T
        BY <2>1, <2>5 DEF Due
    <2>8. T \in SUBSET Topics
        BY <2>2 DEF Events
    <2>9. check' \in [Checkers -> [stage : {"idle", "asking", "removing"},
                                   asked : SUBSET Topics, allowed : SUBSET Topics]]
        BY <1>0, <2>1
    <2> QED BY <2>1, <2>2, <2>3, <2>6, <2>7, <2>8, <2>9, DropStep
<1>2. ASSUME NEW g \in Checkers, Remove(g) PROVE HubInv'
    <2> DEFINE T == check[g].asked \ check[g].allowed
    <2>1. /\ conn' = Drop(Opened, T) /\ refs' = ReleaseOf(Opened, T)
          /\ UNCHANGED <<access, deleted, events, missed, epoch, shutdown>>
          /\ check' = [check EXCEPT ![g] = NoCheck]
        BY <1>2 DEF Remove
    <2>2. NoCheck \in [stage : {"idle", "asking", "removing"}, asked : SUBSET Topics, allowed : SUBSET Topics]
        BY DEF NoCheck
    <2>3. check' \in [Checkers -> [stage : {"idle", "asking", "removing"},
                                   asked : SUBSET Topics, allowed : SUBSET Topics]]
        BY <1>0, <2>1, <2>2
    <2>4. EventsInv' /\ ChecksInv'
        BY <1>0, <2>1 DEF EventsInv, ChecksInv, NoCheck
    <2>5. \A t \in Topics : Pending(t) <=> Pending(t)'
        BY <2>1 DEF Pending
    <2>6. \A t \in Topics : Due(t) => Due(t)' \/ t \in T
        BY <1>0, <2>1, <2>5 DEF Due
    <2>7. T \in SUBSET Topics
        BY <1>0
    <2> HIDE DEF T
    <2> QED BY <1>0, <2>1, <2>3, <2>4, <2>5, <2>6, <2>7, DropStep
<1> QED BY <1>1, <1>2

LEMMA AnswerStep ==
    ASSUME HubInv, NEW g \in Checkers, Allowed(g) \/ AllowedFails(g)
    PROVE  HubInv'
<1> USE DEF HubInv
<1>0. /\ check \in [Checkers -> [stage : {"idle", "asking", "removing"},
                                 asked : SUBSET Topics, allowed : SUBSET Topics]]
      /\ access \subseteq Topics /\ missed \subseteq Topics
    BY DEF TypeOK
<1>1. CASE Allowed(g)
    <2> DEFINE k == [check[g] EXCEPT !.stage = "removing", !.allowed = @ \cup (check[g].asked \cap access)]
    <2>1. k \in [stage : {"idle", "asking", "removing"}, asked : SUBSET Topics, allowed : SUBSET Topics]
          /\ k.stage = "removing" /\ k.asked = check[g].asked /\ k.allowed \subseteq check[g].allowed \cup access
        BY <1>0
    <2>2. check' = [check EXCEPT ![g] = k] /\ UNCHANGED <<access, deleted, events, missed, conn, epoch, refs, shutdown>>
        BY <1>0, <1>1 DEF Allowed
    <2> HIDE DEF k
    <2>3. TypeOK'
        BY <1>0, <2>1, <2>2 DEF TypeOK
    <2>4. CallsInv' /\ AddsWithAccess' /\ EventsInv' /\ ChecksInv'
        BY <1>0, <2>1, <2>2 DEF CallsInv, AddsWithAccess, EventsInv, ChecksInv, Open, Pending
    <2>5. \A t : t \in access \/ Due(t) => t \in access \/ Due(t)'
        BY <1>0, <2>1, <2>2 DEF Due, Pending
    <2> QED BY <2>2, <2>3, <2>4, <2>5 DEF NoStaleSubscription
<1>2. CASE AllowedFails(g)
    <2>1. /\ check' = [check EXCEPT ![g] = NoCheck] /\ missed' = missed \cup check[g].asked
          /\ UNCHANGED <<access, deleted, events, conn, epoch, refs, shutdown>>
        BY <1>2 DEF AllowedFails
    <2>2. NoCheck \in [stage : {"idle", "asking", "removing"}, asked : SUBSET Topics, allowed : SUBSET Topics]
        BY DEF NoCheck
    <2>3. TypeOK'
        BY <1>0, <2>1, <2>2 DEF TypeOK
    <2>4. CallsInv' /\ AddsWithAccess' /\ EventsInv' /\ ChecksInv'
        BY <1>0, <2>1 DEF CallsInv, AddsWithAccess, EventsInv, ChecksInv, Open, Pending, NoCheck
    <2>5. \A t : Due(t) => Due(t)'
        BY <1>0, <2>1 DEF Due, Pending
    <2> QED BY <2>1, <2>3, <2>4, <2>5 DEF NoStaleSubscription
<1> QED BY <1>1, <1>2

LEMMA ShutdownStep ==
    ASSUME HubInv, Shutdown
    PROVE  HubInv'
<1> USE DEF HubInv
<1>0. conn \in [Conns -> Conn] /\ shutdown \in [begun : BOOLEAN, unregistering : Int, drained : BOOLEAN]
    BY DEF TypeOK
<1> DEFINE s == [shutdown EXCEPT !.begun = TRUE]
<1>1. /\ shutdown' = Drained(s, Opened)
      /\ conn' = [c \in Conns |-> [conn[c] EXCEPT !.closing = @ \/ Open(c)]]
      /\ UNCHANGED <<access, deleted, events, missed, epoch, check, refs>>
    BY DEF Shutdown
<1>2. shutdown' \in [begun : BOOLEAN, unregistering : Int, drained : BOOLEAN]
    <2>1. s \in [begun : BOOLEAN, unregistering : Int, drained : BOOLEAN]
        BY <1>0
    <2> HIDE DEF s
    <2> QED BY <1>1, <2>1, DrainedType
<1>3. \A c \in Conns : /\ conn'[c] \in Conn /\ conn'[c].subs = conn[c].subs /\ conn'[c].stage = conn[c].stage
                       /\ conn'[c].call = conn[c].call /\ conn'[c].topics = conn[c].topics
                       /\ conn'[c].epoch = conn[c].epoch
    <2> SUFFICES ASSUME NEW c \in Conns
                 PROVE  /\ conn'[c] \in Conn /\ conn'[c].subs = conn[c].subs /\ conn'[c].stage = conn[c].stage
                        /\ conn'[c].call = conn[c].call /\ conn'[c].topics = conn[c].topics
                        /\ conn'[c].epoch = conn[c].epoch
        OBVIOUS
    <2> DEFINE b == conn[c].closing \/ Open(c)
    <2>1. conn[c] \in Conn /\ conn'[c] = [conn[c] EXCEPT !.closing = b]
        BY <1>0, <1>1
    <2>2. b \in BOOLEAN
        BY <2>1 DEF Conn, Open
    <2> HIDE DEF b
    <2> QED BY <2>1, <2>2 DEF Conn
<1>4. conn' \in [Conns -> Conn]
    BY <1>1, <1>3
<1>5. TypeOK'
    BY <1>1, <1>2, <1>4 DEF TypeOK
<1>6. CallsInv' /\ AddsWithAccess' /\ EventsInv' /\ ChecksInv'
    BY <1>1, <1>3 DEF CallsInv, AddsWithAccess, EventsInv, ChecksInv, Open, Pending
<1>7. \A t : Due(t) => Due(t)'
    BY <1>1 DEF Due, Pending
<1> QED BY <1>1, <1>3, <1>5, <1>6, <1>7 DEF NoStaleSubscription

LEMMA StepHub == HubInv /\ [Next]_vars => HubInv'
<1> SUFFICES ASSUME HubInv, [Next]_vars PROVE HubInv'
    OBVIOUS
<1>1. CASE UNCHANGED vars
    BY <1>1 DEF vars, HubInv, TypeOK, CallsInv, AddsWithAccess, ChecksInv, EventsInv, NoStaleSubscription,
                Due, Pending, Open
<1>2. CASE Next
    BY <1>2, DatabaseStep, ReaderStep, AddedStep, DeliverStep, RemovalStep, AnswerStep, ShutdownStep
       DEF Next, Reader
<1> QED BY <1>1, <1>2

\* No subscription outlives the access of its user for longer than the hub needs to look at
\* it, however Subscribe, Unregister, events and revalidations interleave.
THEOREM HubSafe == Spec => []NoStaleSubscription
<1>1. Spec => []HubInv
    BY InitHub, StepHub, PTL DEF Spec
<1>2. HubInv => NoStaleSubscription
    BY DEF HubInv
<1> QED BY <1>1, <1>2, PTL

\* Every subscription, reference count, event and look of the hub and its serializers stays
\* in its type: what Register, Subscribe, removals and the answers of the database leave is
\* a state the next one of them can start from.
THEOREM HubTypes == Spec => []TypeOK
<1>1. Spec => []HubInv
    BY InitHub, StepHub, PTL DEF Spec
<1>2. HubInv => TypeOK
    BY DEF HubInv
<1> QED BY <1>1, <1>2, PTL

-----------------------------------------------------------------------------
(* RefsBalanced. *)

Subscribers(t) == {c \in Conns : t \in conn[c].subs}
Adders(t) == {c \in Conns : conn[c].call = "adding" /\ t \in conn[c].topics}

LEMMA SetsFinite ==
    \A t : /\ IsFiniteSet(Subscribers(t)) /\ Cardinality(Subscribers(t)) \in Nat
           /\ IsFiniteSet(Adders(t)) /\ Cardinality(Adders(t)) \in Nat
BY HubAssumption, FS_Subset, FS_CardinalityType DEF Subscribers, Adders

\* A connection that is not among the elements counted makes one more; one that is, one less.
LEMMA OneMore ==
    ASSUME NEW S, IsFiniteSet(S), NEW c
    PROVE  /\ c \notin S => Cardinality(S \cup {c}) = Cardinality(S) + 1
           /\ c \in S => Cardinality(S \ {c}) = Cardinality(S) - 1
BY FS_AddElement, FS_RemoveElement

\* Releases are counted by the subscriptions that end.
LEMMA ReleaseBalances ==
    ASSUME TypeOK, RefsBalanced, NEW C \in SUBSET Conns, NEW T, refs' = ReleaseOf(C, T),
           \A c \in Conns : /\ conn'[c].subs = IF c \in C THEN conn[c].subs \ T ELSE conn[c].subs
                            /\ conn'[c].call = "adding" <=> conn[c].call = "adding"
                            /\ conn'[c].call = "adding" => conn'[c].topics = conn[c].topics
    PROVE  RefsBalanced'
<1> SUFFICES ASSUME NEW t \in Topics
             PROVE  refs'[t] = Cardinality(Subscribers(t)') + Cardinality(Adders(t)')
    BY DEF RefsBalanced, Subscribers, Adders
<1> DEFINE D == {c \in C : t \in conn[c].subs \cap T}
<1>1. refs'[t] = refs[t] - Cardinality(D) /\ refs[t] = Cardinality(Subscribers(t)) + Cardinality(Adders(t))
    BY DEF ReleaseOf, RefsBalanced, Subscribers, Adders
<1>2. Subscribers(t)' = Subscribers(t) \ D /\ D \subseteq Subscribers(t) /\ Adders(t)' = Adders(t)
    BY DEF Subscribers, Adders
<1>3. Cardinality(Subscribers(t) \ D) = Cardinality(Subscribers(t)) - Cardinality(D)
    <2>1. Subscribers(t) \cap D = D
        BY <1>2
    <2>2. IsFiniteSet(Subscribers(t))
        BY SetsFinite
    <2> HIDE DEF D
    <2> QED BY <2>1, <2>2, FS_Difference
<1>4. Cardinality(D) \in Nat
    BY <1>2, SetsFinite, FS_Subset, FS_CardinalityType
<1> QED BY <1>1, <1>2, <1>3, <1>4, SetsFinite

\* Where no subscription and no pending addition changes, nor a reference.
LEMMA NothingCounted ==
    ASSUME RefsBalanced, refs' = refs,
           \A c \in Conns : /\ conn'[c].subs = conn[c].subs
                            /\ conn'[c].call = "adding" <=> conn[c].call = "adding"
                            /\ conn'[c].call = "adding" => conn'[c].topics = conn[c].topics
    PROVE  RefsBalanced'
<1>1. \A t \in Topics : Subscribers(t)' = Subscribers(t) /\ Adders(t)' = Adders(t)
    BY DEF Subscribers, Adders
<1>2. \A t \in Topics : refs[t] = Cardinality(Subscribers(t)) + Cardinality(Adders(t))
    BY DEF RefsBalanced, Subscribers, Adders
<1>3. \A t \in Topics : refs'[t] = Cardinality(Subscribers(t)') + Cardinality(Adders(t)')
    BY <1>1, <1>2
<1> QED BY <1>3 DEF RefsBalanced, Subscribers, Adders

\* Acquire, and the two ways in which the reference of a call ends.
LEMMA CallBalances ==
    ASSUME HubInv, RefsBalanced, NEW c \in Conns, Authorized(c) \/ Retry(c) \/ Added(c)
    PROVE  RefsBalanced'
<1> USE DEF HubInv
<1> SUFFICES ASSUME NEW t \in Topics
             PROVE  refs'[t] = Cardinality(Subscribers(t)') + Cardinality(Adders(t)')
    BY DEF RefsBalanced, Subscribers, Adders
<1>0. /\ conn \in [Conns -> Conn] /\ refs \in [Topics -> Int]
      /\ refs[t] = Cardinality(Subscribers(t)) + Cardinality(Adders(t))
    BY DEF TypeOK, RefsBalanced, Subscribers, Adders
<1>1. CASE Authorized(c)
    <2>1. conn' = [conn EXCEPT ![c].call = "adding"] /\ refs' = Add(conn[c].topics) /\ conn[c].call # "adding"
        BY <1>1 DEF Authorized
    <2>2. Subscribers(t)' = Subscribers(t)
        BY <1>0, <2>1 DEF Subscribers, Conn
    <2>3. CASE t \in conn[c].topics
        <3>1. Adders(t)' = Adders(t) \cup {c} /\ c \notin Adders(t) /\ refs'[t] = refs[t] + 1
            BY <1>0, <2>1, <2>3 DEF Adders, Conn, Add
        <3> QED BY <1>0, <2>2, <3>1, SetsFinite, OneMore
    <2>4. CASE t \notin conn[c].topics
        <3>1. Adders(t)' = Adders(t) /\ refs'[t] = refs[t]
            BY <1>0, <2>1, <2>4 DEF Adders, Conn, Add
        <3> QED BY <1>0, <2>2, <3>1
    <2> QED BY <2>3, <2>4
<1>2. CASE Retry(c)
    <2>1. /\ conn' = [conn EXCEPT ![c] = [conn[c] EXCEPT !.call = "authorizing", !.epoch = epoch]]
          /\ refs' = [u \in Topics |-> IF u \in conn[c].topics THEN refs[u] - 1 ELSE refs[u]]
          /\ conn[c].call = "adding"
        BY <1>0, <1>2 DEF Retry
    <2>2. Subscribers(t)' = Subscribers(t)
        BY <1>0, <2>1 DEF Subscribers, Conn
    <2>3. CASE t \in conn[c].topics
        <3>1. Adders(t)' = Adders(t) \ {c} /\ c \in Adders(t) /\ refs'[t] = refs[t] - 1
            BY <1>0, <2>1, <2>3 DEF Adders, Conn
        <3> QED BY <1>0, <2>2, <3>1, SetsFinite, OneMore
    <2>4. CASE t \notin conn[c].topics
        <3>1. Adders(t)' = Adders(t) /\ refs'[t] = refs[t]
            BY <1>0, <2>1, <2>4 DEF Adders, Conn
        <3> QED BY <1>0, <2>2, <3>1
    <2> QED BY <2>3, <2>4
<1>3. CASE Added(c)
    <2>1. /\ conn' = [conn EXCEPT ![c] = [conn[c] EXCEPT !.call = "none", !.subs = conn[c].subs \cup conn[c].topics,
                                                         !.topics = {}, !.epoch = 0]]
          /\ refs' = refs /\ conn[c].call = "adding"
        BY <1>0, <1>3 DEF Added
    <2>2. CASE t \in conn[c].topics
        <3>1. t \notin conn[c].subs
            BY <2>1, <2>2 DEF CallsInv
        <3>2. Adders(t)' = Adders(t) \ {c} /\ c \in Adders(t)
            BY <1>0, <2>1, <2>2 DEF Adders, Conn
        <3>3. Subscribers(t)' = Subscribers(t) \cup {c} /\ c \notin Subscribers(t)
            BY <1>0, <2>1, <2>2, <3>1 DEF Subscribers, Conn
        <3> QED BY <1>0, <2>1, <3>2, <3>3, SetsFinite, OneMore
    <2>3. CASE t \notin conn[c].topics
        <3>1. Adders(t)' = Adders(t) /\ Subscribers(t)' = Subscribers(t)
            BY <1>0, <2>1, <2>3 DEF Adders, Subscribers, Conn
        <3> QED BY <1>0, <2>1, <3>1
    <2> QED BY <2>2, <2>3
<1> QED BY <1>1, <1>2, <1>3

LEMMA RefsStep == HubInv /\ RefsBalanced /\ [Next]_vars => RefsBalanced'
<1> SUFFICES ASSUME HubInv, RefsBalanced, [Next]_vars PROVE RefsBalanced'
    OBVIOUS
<1> USE DEF HubInv
<1>0. conn \in [Conns -> Conn]
    BY DEF TypeOK
<1>1. ASSUME NEW c \in Conns,
             \/ Register(c) \/ Registered(c) \/ Close(c) \/ Unregistered(c) \/ Refused(c)
             \/ \E t \in Topics : Subscribe(c, t)
      PROVE  RefsBalanced'
    <2>1. refs' = refs
        BY <1>1 DEF Register, Registered, Close, Unregistered, Refused, Subscribe
    <2>2. \A x \in Conns : /\ conn'[x].subs = conn[x].subs
                           /\ conn'[x].call = "adding" <=> conn[x].call = "adding"
                           /\ conn'[x].call = "adding" => conn'[x].topics = conn[x].topics
        <3>1. CASE Register(c) \/ Registered(c) \/ Close(c)
            BY <1>0, <3>1 DEF Register, Registered, Close, Conn
        <3>2. CASE Unregistered(c)
            BY <1>0, <3>2 DEF Unregistered, Conn, NoConn, CallsInv, Open
        <3>3. CASE Refused(c)
            BY <1>0, <3>3 DEF Refused, Conn
        <3>4. CASE \E t \in Topics : Subscribe(c, t)
            BY <1>0, <3>4 DEF Subscribe, Conn
        <3> QED BY <1>1, <3>1, <3>2, <3>3, <3>4
    <2> QED BY <2>1, <2>2, NothingCounted
<1>2. ASSUME NEW c \in Conns, Authorized(c) \/ Retry(c) \/ Added(c)
      PROVE  RefsBalanced'
    BY <1>2, CallBalances
<1>3. ASSUME NEW c \in Conns, Unregister(c) PROVE RefsBalanced'
    <2>1. refs' = ReleaseOf({c}, Topics)
        BY <1>3 DEF Unregister
    <2>2. \A x \in Conns : conn'[x] = IF x = c THEN [NoConn EXCEPT !.stage = "leaving"] ELSE conn[x]
        BY <1>0, <1>3 DEF Unregister
    <2>3. conn[c].call = "none" /\ conn[c].subs \subseteq Topics
        BY <1>0, <1>3 DEF Unregister, Conn
    <2>4. \A x \in Conns : /\ conn'[x].subs = IF x \in {c} THEN conn[x].subs \ Topics ELSE conn[x].subs
                           /\ conn'[x].call = "adding" <=> conn[x].call = "adding"
                           /\ conn'[x].call = "adding" => conn'[x].topics = conn[x].topics
        BY <2>2, <2>3 DEF NoConn
    <2> QED BY <2>1, <2>4, ReleaseBalances
<1>4. ASSUME NEW c \in Conns, NEW t \in Topics, Unsubscribe(c, t) PROVE RefsBalanced'
    <2>1. refs' = ReleaseOf({c}, {t}) /\ conn' = Drop({c}, {t})
        BY <1>4 DEF Unsubscribe
    <2>2. \A x \in Conns : /\ conn'[x].subs = IF x \in {c} THEN conn[x].subs \ {t} ELSE conn[x].subs
                           /\ conn'[x].call = "adding" <=> conn[x].call = "adding"
                           /\ conn'[x].call = "adding" => conn'[x].topics = conn[x].topics
        BY <1>0, <2>1 DEF Drop, Conn
    <2>3. {c} \in SUBSET Conns
        OBVIOUS
    <2> QED BY <2>1, <2>2, <2>3, ReleaseBalances
<1>5. ASSUME NEW T, conn' = Drop(Opened, T), refs' = ReleaseOf(Opened, T) PROVE RefsBalanced'
    <2>1. \A x \in Conns : /\ conn'[x].subs = IF x \in Opened THEN conn[x].subs \ T ELSE conn[x].subs
                           /\ conn'[x].call = conn[x].call /\ conn'[x].topics = conn[x].topics
        BY <1>0, <1>5 DEF Drop, Conn
    <2>2. \A x \in Conns : /\ conn'[x].subs = IF x \in Opened THEN conn[x].subs \ T ELSE conn[x].subs
                           /\ conn'[x].call = "adding" <=> conn[x].call = "adding"
                           /\ conn'[x].call = "adding" => conn'[x].topics = conn[x].topics
        BY <2>1
    <2>3. Opened \in SUBSET Conns
        BY DEF Opened
    <2> QED BY <1>5, <2>2, <2>3, ReleaseBalances
<1>6. CASE DeliverClosed \/ \E g \in Checkers : Remove(g)
    BY <1>5, <1>6 DEF DeliverClosed, Remove
<1>7. CASE UNCHANGED <<conn, refs>>
    BY <1>7, NothingCounted
<1>8. CASE Shutdown
    <2>1. refs' = refs /\ \A x \in Conns : /\ conn'[x].subs = conn[x].subs /\ conn'[x].call = conn[x].call
                                           /\ conn'[x].topics = conn[x].topics
        BY <1>0, <1>8 DEF Shutdown, Conn
    <2> QED BY <2>1, NothingCounted
<1>9. ASSUME NEW t \in Topics, (\E T \in {{t}, Scope(t)} : RemoveMember(t, T)) \/ AddMember(t) \/ DeleteRoom(t)
      PROVE  UNCHANGED <<conn, refs>>
    BY <1>9 DEF RemoveMember, AddMember, DeleteRoom
<1>10. ASSUME NEW g \in Checkers, DeliverAccessChange \/ Revalidate \/ Allowed(g) \/ AllowedFails(g)
       PROVE  UNCHANGED <<conn, refs>>
    BY <1>10 DEF DeliverAccessChange, Revalidate, Allowed, AllowedFails
<1>11. CASE UNCHANGED vars
    BY <1>7, <1>11 DEF vars
<1> QED BY <1>1, <1>2, <1>3, <1>4, <1>6, <1>7, <1>8, <1>9, <1>10, <1>11 DEF Next, Reader

\* Channels are neither leaked nor given back twice, on any number of connections.
THEOREM HubRefs == Spec => []RefsBalanced
<1>1. Spec => []HubInv
    BY InitHub, StepHub, PTL DEF Spec
<1>2. Init => RefsBalanced
    <2> SUFFICES ASSUME Init, NEW t \in Topics
                 PROVE  refs[t] = Cardinality(Subscribers(t)) + Cardinality(Adders(t))
        BY DEF RefsBalanced, Subscribers, Adders
    <2>1. Subscribers(t) = {} /\ Adders(t) = {} /\ refs[t] = 0
        BY DEF Init, Subscribers, Adders, NoConn
    <2> QED BY <2>1, FS_EmptySet
<1> QED BY <1>1, <1>2, RefsStep, PTL DEF Spec

-----------------------------------------------------------------------------
(* DrainedIsOver. *)

Leaving == {c \in Conns : conn[c].stage = "leaving"}

LEMMA DrainStep == HubInv /\ DrainInv /\ [Next]_vars => DrainInv'
<1> SUFFICES ASSUME HubInv, DrainInv, [Next]_vars PROVE DrainInv'
    OBVIOUS
<1> USE DEF HubInv
<1>0. /\ conn \in [Conns -> Conn]
      /\ shutdown \in [begun : BOOLEAN, unregistering : Int, drained : BOOLEAN]
      /\ IsFiniteSet(Leaving) /\ Cardinality(Leaving) \in Nat
      /\ shutdown.unregistering = Cardinality(Leaving)
      /\ shutdown.drained => shutdown.begun /\ \A c \in Conns : conn[c].stage \in {"none", "registering"}
    BY HubAssumption, FS_Subset, FS_CardinalityType DEF TypeOK, Leaving, DrainInv, DrainedIsOver
<1>1. ASSUME shutdown' = shutdown, \A c \in Conns : conn'[c].stage = conn[c].stage
      PROVE  DrainInv'
    <2>1. Leaving' = Leaving
        BY <1>1 DEF Leaving
    <2> QED BY <1>0, <1>1, <2>1 DEF DrainInv, DrainedIsOver, Leaving
<1>2. ASSUME NEW c \in Conns, Register(c) \/ Registered(c)
      PROVE  DrainInv'
    <2>1. shutdown' = shutdown /\ \A x \in Conns \ {c} : conn'[x] = conn[x]
        BY <1>0, <1>2 DEF Register, Registered
    <2>2. /\ conn[c].stage \in {"none", "registering"} /\ conn'[c].stage \in {"none", "registering", "open"}
          /\ conn'[c].stage = "open" => ~shutdown.begun
        BY <1>0, <1>2 DEF Register, Registered, Conn
    <2>3. Leaving' = Leaving
        BY <2>1, <2>2 DEF Leaving
    <2> QED BY <1>0, <2>1, <2>2, <2>3 DEF DrainInv, DrainedIsOver, Leaving
<1>3. ASSUME NEW c \in Conns, Unregister(c)
      PROVE  DrainInv'
    <2>1. /\ shutdown' = [shutdown EXCEPT !.unregistering = @ + 1]
          /\ conn' = [conn EXCEPT ![c] = [NoConn EXCEPT !.stage = "leaving"]] /\ conn[c].stage = "open"
        BY <1>3 DEF Unregister, Open
    <2>2. Leaving' = Leaving \cup {c} /\ c \notin Leaving
        BY <1>0, <2>1 DEF Leaving, NoConn
    <2>3. Cardinality(Leaving') = Cardinality(Leaving) + 1
        BY <1>0, <2>2, OneMore
    <2>4. ~shutdown.drained
        BY <1>0, <2>1
    <2>5. shutdown'.unregistering = shutdown.unregistering + 1 /\ shutdown'.drained = shutdown.drained
        BY <1>0, <2>1
    <2> QED BY <1>0, <2>3, <2>4, <2>5 DEF DrainInv, DrainedIsOver, Leaving
<1>4. ASSUME NEW c \in Conns, Unregistered(c)
      PROVE  DrainInv'
    <2> DEFINE s == [shutdown EXCEPT !.unregistering = @ - 1]
    <2>1. shutdown' = Drained(s, Opened) /\ conn' = [conn EXCEPT ![c] = NoConn] /\ conn[c].stage = "leaving"
        BY <1>4 DEF Unregistered
    <2>2. /\ s.unregistering = shutdown.unregistering - 1 /\ s.begun = shutdown.begun
          /\ s.drained = shutdown.drained
          /\ s \in [begun : BOOLEAN, unregistering : Int, drained : BOOLEAN]
        BY <1>0
    <2> HIDE DEF s
    <2>3. Leaving' = Leaving \ {c} /\ c \in Leaving
        BY <1>0, <2>1 DEF Leaving, NoConn
    <2>4. Cardinality(Leaving') = Cardinality(Leaving) - 1
        BY <1>0, <2>3, OneMore
    <2>5. /\ shutdown'.unregistering = s.unregistering /\ shutdown'.begun = s.begun
          /\ shutdown'.drained = (s.drained \/ (s.begun /\ Opened = {} /\ s.unregistering = 0))
        BY <2>1, <2>2 DEF Drained
    <2>6. ~shutdown.drained
        BY <1>0, <2>1
    <2>7. ASSUME s.unregistering = 0, Opened = {}
          PROVE  \A x \in Conns : conn'[x].stage \in {"none", "registering"}
        <3>1. IsFiniteSet(Leaving') /\ Cardinality(Leaving') = 0
            BY <1>0, <2>2, <2>3, <2>4, <2>7, FS_RemoveElement
        <3>2. Leaving' = {}
            BY <3>1, FS_EmptySet
        <3> QED BY <1>0, <2>1, <2>7, <3>2 DEF Leaving, Opened, Open, Conn, NoConn
    <2> QED BY <1>0, <2>2, <2>4, <2>5, <2>6, <2>7 DEF DrainInv, DrainedIsOver, Leaving
<1>5. CASE Shutdown
    <2> DEFINE s == [shutdown EXCEPT !.begun = TRUE]
    <2>1. shutdown' = Drained(s, Opened) /\ \A c \in Conns : conn'[c].stage = conn[c].stage
        BY <1>0, <1>5 DEF Shutdown, Conn
    <2>2. /\ s.unregistering = shutdown.unregistering /\ s.begun
          /\ s.drained = shutdown.drained
          /\ s \in [begun : BOOLEAN, unregistering : Int, drained : BOOLEAN]
        BY <1>0
    <2> HIDE DEF s
    <2>3. Leaving' = Leaving
        BY <2>1 DEF Leaving
    <2>4. /\ shutdown'.unregistering = s.unregistering /\ shutdown'.begun
          /\ shutdown'.drained = (s.drained \/ (s.begun /\ Opened = {} /\ s.unregistering = 0))
        BY <2>1, <2>2 DEF Drained
    <2>5. Opened = {} /\ s.unregistering = 0 => \A c \in Conns : conn[c].stage \in {"none", "registering"}
        <3>1. Cardinality(Leaving) = 0 => Leaving = {}
            BY <1>0, FS_EmptySet
        <3> QED BY <1>0, <2>2, <3>1 DEF Leaving, Opened, Open, Conn
    <2> QED BY <1>0, <2>1, <2>2, <2>3, <2>4, <2>5 DEF DrainInv, DrainedIsOver, Leaving
<1>6. ASSUME NEW c \in Conns,
             \/ Close(c) \/ Authorized(c) \/ Refused(c) \/ Retry(c) \/ Added(c)
             \/ \E t \in Topics : Subscribe(c, t) \/ Unsubscribe(c, t)
      PROVE  DrainInv'
    <2>1. shutdown' = shutdown
        BY <1>6 DEF Close, Authorized, Refused, Retry, Added, Subscribe, Unsubscribe
    <2>2. CASE Close(c) \/ Authorized(c)
        BY <1>0, <1>1, <2>1, <2>2 DEF Close, Authorized, Conn
    <2>3. CASE Refused(c)
        BY <1>0, <1>1, <2>1, <2>3 DEF Refused, Conn
    <2>4. CASE Retry(c)
        BY <1>0, <1>1, <2>1, <2>4 DEF Retry, Conn
    <2>5. CASE Added(c)
        BY <1>0, <1>1, <2>1, <2>5 DEF Added, Conn
    <2>6. ASSUME NEW t \in Topics, Subscribe(c, t) PROVE DrainInv'
        BY <1>0, <1>1, <2>1, <2>6 DEF Subscribe, Conn
    <2>7. ASSUME NEW t \in Topics, Unsubscribe(c, t) PROVE DrainInv'
        BY <1>0, <1>1, <2>1, <2>7 DEF Unsubscribe, Drop, Conn
    <2> QED BY <1>6, <2>2, <2>3, <2>4, <2>5, <2>6, <2>7
<1>7. CASE DeliverClosed \/ \E g \in Checkers : Remove(g)
    <2>1. shutdown' = shutdown /\ \A c \in Conns : conn'[c].stage = conn[c].stage
        BY <1>0, <1>7 DEF DeliverClosed, Remove, Drop, Conn
    <2> QED BY <1>1, <2>1
<1>8. CASE UNCHANGED <<conn, shutdown>>
    BY <1>1, <1>8
<1>9. ASSUME NEW t \in Topics, (\E T \in {{t}, Scope(t)} : RemoveMember(t, T)) \/ AddMember(t) \/ DeleteRoom(t)
      PROVE  UNCHANGED <<conn, shutdown>>
    BY <1>9 DEF RemoveMember, AddMember, DeleteRoom
<1>10. ASSUME NEW g \in Checkers, DeliverAccessChange \/ Revalidate \/ Allowed(g) \/ AllowedFails(g)
       PROVE  UNCHANGED <<conn, shutdown>>
    BY <1>10 DEF DeliverAccessChange, Revalidate, Allowed, AllowedFails
<1>11. CASE UNCHANGED vars
    BY <1>8, <1>11 DEF vars
<1> QED BY <1>2, <1>3, <1>4, <1>5, <1>6, <1>7, <1>8, <1>9, <1>10, <1>11 DEF Next, Reader

\* When Shutdown returns every connection is gone, its clean-up included.
THEOREM HubDrained == Spec => []DrainedIsOver
<1>1. Spec => []HubInv
    BY InitHub, StepHub, PTL DEF Spec
<1>2. Init => DrainInv
    <2> SUFFICES ASSUME Init PROVE DrainInv
        OBVIOUS
    <2>1. Leaving = {}
        BY DEF Init, Leaving, NoConn
    <2> QED BY <2>1, FS_EmptySet DEF Init, DrainInv, DrainedIsOver, Leaving
<1>3. DrainInv => DrainedIsOver
    BY DEF DrainInv
<1> QED BY <1>1, <1>2, <1>3, DrainStep, PTL DEF Spec
=============================================================================
