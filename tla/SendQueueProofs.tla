-------------------------- MODULE SendQueueProofs --------------------------
(***************************************************************************)
(* What the queue of web/lib/chat/store/send.ts and SendMessage of         *)
(* internal/chat/message.go promise, for any number of messages, retries,  *)
(* removals and reloads and whatever fails.                                *)
(*                                                                         *)
(* 1. A request that found no message with its client_msg_id meets none    *)
(*    when it inserts.  The reason is the lock on the sender's row of      *)
(*    room_members: at most one transaction is between                     *)
(*    LockRoomMemberships and its end.                                     *)
(* 2. What is shown as being sent waits in the queue of a loop that runs   *)
(*    (TabInv).  The loop waits for the head of the queue, or for a        *)
(*    message of a queue that was forgotten.                               *)
(* 3. Messages get their seq in the order of composition (OrderInv).  Of   *)
(*    two messages the older one is settled - written, or given up - or    *)
(*    both wait in the queue in their order (Chain); so when the younger   *)
(*    one is at the head and sent, the older one is settled, and it stays  *)
(*    so while the request is on its way (SentSettled).                    *)
(***************************************************************************)
EXTENDS SendQueue, FiniteSetTheorems, SequenceTheorems, TLAPS

-----------------------------------------------------------------------------
(* The row lock. *)

Busy == {"locked", "absent"}

Triple(x) == \E m, s, o : x = [msg |-> m, stage |-> s, open |-> o]

\* What EXCEPT needs to know of the requests: they are records with three fields.
Shaped(r) ==
    /\ r = [i \in Tries |-> r[i]]
    /\ \A i \in Tries : Triple(r[i])

\* The row lock excludes other transactions of the sender.
Locked(r) == \A i, j \in Tries : r[i].stage \in Busy /\ r[j].stage \in Busy => i = j

Inv == Shaped(request) /\ Locked(request) /\ NeverConflicts

\* From r to s no transaction starts: one that is open in s was so, with its message, in r.
NoneStarts(r, s) ==
    \A i \in Tries : s[i].stage \in Busy => s[i].stage = r[i].stage /\ s[i].msg = r[i].msg

USE DEF Busy

\* One request is replaced by the record x.
Replaced(r, i, x) == [r EXCEPT ![i] = x]

LEMMA ReplaceShaped ==
    ASSUME NEW r, Shaped(r), NEW i, NEW x, Triple(x)
    PROVE  /\ Shaped(Replaced(r, i, x))
           /\ \A j \in Tries : Replaced(r, i, x)[j] = IF j = i THEN x ELSE r[j]
<1>1. \A j \in Tries : Replaced(r, i, x)[j] = IF j = i THEN x ELSE r[j]
  BY DEF Shaped, Replaced
<1>2. Replaced(r, i, x) = [j \in Tries |-> Replaced(r, i, x)[j]]
  BY DEF Shaped, Replaced
<1> QED
  BY <1>1, <1>2 DEF Shaped

\* Left forgets a request or keeps it.
LEMMA LeftShaped ==
    ASSUME NEW x, Triple(x)
    PROVE  /\ Triple(Left(x))
           /\ x.stage \in Busy => Left(x) = x
           /\ Left(x).stage \in Busy => Left(x) = x
BY DEF Left, Unused, Triple

\* A field of a request is changed.
LEMMA OpenShaped ==
    ASSUME NEW x, Triple(x), NEW v, NEW y, y = [x EXCEPT !.open = v]
    PROVE  y.stage = x.stage /\ y.msg = x.msg /\ Triple(y)
<1>1. PICK m, s, o : x = [msg |-> m, stage |-> s, open |-> o]
  BY DEF Triple
<1>2. y = [msg |-> m, stage |-> s, open |-> v]
  BY <1>1
<1> QED
  BY <1>1, <1>2 DEF Triple

LEMMA StageShaped ==
    ASSUME NEW x, Triple(x), NEW v, NEW y, y = [x EXCEPT !.stage = v]
    PROVE  y.stage = v /\ y.msg = x.msg /\ Triple(y)
<1>1. PICK m, s, o : x = [msg |-> m, stage |-> s, open |-> o]
  BY DEF Triple
<1>2. y = [msg |-> m, stage |-> v, open |-> o]
  BY <1>1
<1> QED
  BY <1>1, <1>2 DEF Triple

\* The tab stops listening to a request.
LEMMA ClosedShaped ==
    ASSUME Shaped(request), NEW i \in Tries
    PROVE  Shaped(Closed(i)) /\ NoneStarts(request, Closed(i))
<1>1. PICK x : x = [request[i] EXCEPT !.open = FALSE]
  OBVIOUS
<1>1a. x.stage = request[i].stage /\ x.msg = request[i].msg /\ Triple(x)
  BY <1>1, OpenShaped DEF Shaped
<1>2. PICK y : y = Left(x)
  OBVIOUS
<1>3. Triple(y)
  BY <1>1a, <1>2, LeftShaped
<1>4. Closed(i) = Replaced(request, i, y)
  BY <1>1, <1>2 DEF Closed, Replaced
<1>5. /\ Shaped(Closed(i))
      /\ \A j \in Tries : Closed(i)[j] = IF j = i THEN y ELSE request[j]
  BY <1>3, <1>4, ReplaceShaped
<1>6. y.stage \in Busy => y = x
  BY <1>1a, <1>2, LeftShaped
<1> QED
  BY <1>1a, <1>5, <1>6 DEF NoneStarts

\* The loop goes on with requests r: it adds one that the server has not seen, or none.
LEMMA GoOnStarts ==
    ASSUME NEW q, NEW status, NEW r, Shaped(r), GoOn(q, status, r)
    PROVE  Shaped(request') /\ NoneStarts(r, request')
<1>1. CASE request' = r
  BY <1>1 DEF NoneStarts
<1>2. CASE request' # r
  <2>1. PICK k, m : request' = [r EXCEPT ![k] = [msg |-> m, stage |-> "sent", open |-> TRUE]]
    BY <1>2 DEF GoOn
  <2>2. PICK x : x = [msg |-> m, stage |-> "sent", open |-> TRUE]
    OBVIOUS
  <2>3. Triple(x)
    BY <2>2 DEF Triple
  <2>4. x.stage = "sent"
    BY <2>2
  <2>5. request' = Replaced(r, k, x)
    BY <2>1, <2>2 DEF Replaced
  <2>6. /\ Shaped(request')
        /\ \A j \in Tries : request'[j] = IF j = k THEN x ELSE r[j]
    BY <2>3, <2>5, ReplaceShaped
  <2> QED
    BY <2>4, <2>6 DEF NoneStarts
<1> QED
  BY <1>1, <1>2

\* enqueueSend keeps the requests or starts a loop.
LEMMA EnqueueStarts ==
    ASSUME Shaped(request), NEW m, NEW status, Enqueue(m, status)
    PROVE  Shaped(request') /\ NoneStarts(request, request')
<1>1. CASE loop = 0
  BY <1>1, GoOnStarts DEF Enqueue
<1>2. CASE loop # 0
  BY <1>2 DEF Enqueue, NoneStarts
<1> QED
  BY <1>1, <1>2

\* A step of the server on one request: the others stay as they are.
LEMMA AtStage ==
    ASSUME Shaped(request), NEW i \in Tries, NEW stage, At(i, stage)
    PROVE  /\ Shaped(request')
           /\ \A j \in Tries \ {i} : request'[j] = request[j]
           /\ stage \in Busy => request'[i].msg = request[i].msg
           /\ request'[i].stage \in Busy => request'[i].stage = stage
<1>1. PICK x : x = [request[i] EXCEPT !.stage = stage]
  OBVIOUS
<1>1a. x.stage = stage /\ x.msg = request[i].msg /\ Triple(x)
  BY <1>1, StageShaped DEF Shaped
<1>2. PICK y : y = Left(x)
  OBVIOUS
<1>3. request' = Replaced(request, i, y)
  BY <1>1, <1>2 DEF At, Replaced
<1>4. Triple(y)
  BY <1>1a, <1>2, LeftShaped
<1>5. /\ Shaped(request')
      /\ \A j \in Tries : request'[j] = IF j = i THEN y ELSE request[j]
  BY <1>3, <1>4, ReplaceShaped
<1>6. /\ x.stage \in Busy => y = x
      /\ y.stage \in Busy => y = x
  BY <1>1a, <1>2, LeftShaped
<1> QED
  BY <1>1a, <1>5, <1>6

\* Where no transaction starts and no message is inserted, the invariant stays.
LEMMA NoneStartsKeeps ==
    ASSUME Inv, Shaped(request'), NoneStarts(request, request'), seq' = seq
    PROVE  Inv'
<1>1. Locked(request')
  BY DEF Inv, Locked, NoneStarts
<1>2. NeverConflicts'
  BY DEF Inv, NeverConflicts, NoneStarts
<1> QED
  BY <1>1, <1>2 DEF Inv

\* Every step of the tab and of the server keeps the invariant.
LEMMA NextKeeps ==
    ASSUME Inv, [Next]_vars
    PROVE  Inv'
<1> USE DEF Inv
<1>1. CASE Compose
  <2>1. Shaped(request') /\ NoneStarts(request, request')
    BY <1>1, EnqueueStarts DEF Compose
  <2> QED
    BY <1>1, <2>1, NoneStartsKeeps DEF Compose, server
<1>2. ASSUME NEW m \in Messages, Retry(m) PROVE Inv'
  <2>1. Shaped(request') /\ NoneStarts(request, request')
    BY <1>2, EnqueueStarts DEF Retry
  <2> QED
    BY <1>2, <2>1, NoneStartsKeeps DEF Retry, server
<1>3. ASSUME NEW i \in Tries, Answered(i) PROVE Inv'
  <2>1. Shaped(Closed(i)) /\ NoneStarts(request, Closed(i))
    BY ClosedShaped
  <2>2. Shaped(request') /\ NoneStarts(Closed(i), request')
    <3>1. CASE loop = i
      BY <1>3, <2>1, <3>1, GoOnStarts DEF Answered
    <3>2. CASE loop # i
      BY <1>3, <2>1, <3>2 DEF Answered, NoneStarts
    <3> QED
      BY <3>1, <3>2
  <2>3. NoneStarts(request, request')
    BY <2>1, <2>2 DEF NoneStarts
  <2> QED
    BY <1>3, <2>2, <2>3, NoneStartsKeeps DEF Answered, server
<1>4. ASSUME NEW i \in Tries, Rejected(i) PROVE Inv'
  <2>1. request' = Closed(i)
    BY <1>4 DEF Rejected, FailQueue
  <2>2. Shaped(request') /\ NoneStarts(request, request')
    BY <2>1, ClosedShaped
  <2> QED
    BY <1>4, <2>2, NoneStartsKeeps DEF Rejected, server
<1>5. CASE Reload
  <2>1. ASSUME NEW i \in Tries
        PROVE  /\ Triple(request'[i])
               /\ request'[i].stage \in Busy => request'[i].stage = request[i].stage
                                                /\ request'[i].msg = request[i].msg
    <3>1. PICK x : x = [request[i] EXCEPT !.open = FALSE]
      OBVIOUS
    <3>1a. x.stage = request[i].stage /\ x.msg = request[i].msg /\ Triple(x)
      BY <3>1, OpenShaped DEF Shaped
    <3>2. request'[i] = Left(x)
      BY <1>5, <3>1 DEF Reload
    <3> QED
      BY <3>1a, <3>2, LeftShaped
  <2>2. request' = [i \in Tries |-> request'[i]]
    BY <1>5 DEF Reload
  <2>3. Shaped(request') /\ NoneStarts(request, request')
    BY <2>1, <2>2 DEF Shaped, NoneStarts
  <2> QED
    BY <1>5, <2>3, NoneStartsKeeps DEF Reload
<1>6. ASSUME NEW i \in Tries, Lock(i) PROVE Inv'
  <2>1. PICK stage \in {"locked", "error"} : At(i, stage)
    BY <1>6 DEF Lock
  <2>2. \A j \in Tries : request[j].stage \notin Busy
    BY <1>6 DEF Lock, Running
  <2>3. /\ Shaped(request')
        /\ \A j \in Tries \ {i} : request'[j] = request[j]
        /\ request'[i].stage # "absent"
    BY <2>1, AtStage
  <2>4. Locked(request')
    BY <2>2, <2>3 DEF Locked
  <2>5. NeverConflicts'
    BY <2>2, <2>3 DEF NeverConflicts
  <2> QED
    BY <2>3, <2>4, <2>5
<1>7. ASSUME NEW i \in Tries, Lookup(i) PROVE Inv'
  <2>1. PICK stage \in {"ok", "absent"} :
           At(i, stage) /\ (stage = "absent" => seq[request[i].msg] = 0)
    BY <1>7 DEF Lookup
  <2>2. \A j \in Tries \ {i} : request[j].stage \notin Busy
    BY <1>7 DEF Lookup, Locked
  <2>3. /\ Shaped(request')
        /\ \A j \in Tries \ {i} : request'[j] = request[j]
        /\ stage = "absent" => request'[i].msg = request[i].msg
        /\ request'[i].stage \in Busy => request'[i].stage = stage
    BY <2>1, AtStage
  <2>4. Locked(request')
    BY <2>2, <2>3 DEF Locked
  <2>5. seq' = seq
    BY <1>7 DEF Lookup, server
  <2>6. NeverConflicts'
    BY <2>1, <2>2, <2>3, <2>5 DEF NeverConflicts
  <2> QED
    BY <2>3, <2>4, <2>6
<1>8. ASSUME NEW i \in Tries, Commit(i) PROVE Inv'
  <2>1. PICK stage \in {"ok", "error"} : At(i, stage)
    BY <1>8 DEF Commit
  <2>2. \A j \in Tries \ {i} : request[j].stage \notin Busy
    BY <1>8 DEF Commit, Locked
  <2>3. /\ Shaped(request')
        /\ \A j \in Tries : request'[j].stage \notin Busy
    BY <2>1, <2>2, AtStage
  <2> QED
    BY <2>3 DEF Locked, NeverConflicts
<1>9. ASSUME NEW i \in Tries, Abort(i) PROVE Inv'
  <2>1. At(i, "error") /\ seq' = seq
    BY <1>9 DEF Abort, server
  <2>2. Shaped(request') /\ NoneStarts(request, request')
    BY <2>1, AtStage DEF NoneStarts
  <2> QED
    BY <2>1, <2>2, NoneStartsKeeps
<1>10. CASE request' = request /\ seq' = seq
  BY <1>10, NoneStartsKeeps DEF NoneStarts
<1>11. CASE TimedOut \/ Noticed \/ Remove \/ AddMember \/ UNCHANGED vars
  BY <1>10, <1>11 DEF TimedOut, FailQueue, Noticed, Remove, AddMember, server, sender, vars
<1>12. ASSUME NEW m \in Messages, Discard(m) \/ Receive(m) PROVE Inv'
  BY <1>10, <1>12 DEF Discard, Receive, server
<1> QED
  BY <1>1, <1>2, <1>3, <1>4, <1>5, <1>6, <1>7, <1>8, <1>9, <1>11, <1>12 DEF Next

\* NeverConflicts for every number of messages and retries: SendMessage answers a retry
\* with the message and never with the violation of the UNIQUE constraint.
THEOREM RetriesNeverConflict == Spec => []NeverConflicts
<1>1. Init => Inv
  <2> SUFFICES ASSUME Init PROVE Inv
    OBVIOUS
  <2>1. Shaped(request)
    BY DEF Init, Shaped, Triple, Unused
  <2>2. \A i \in Tries : request[i].stage = "error"
    BY DEF Init, Unused
  <2> QED
    BY <2>1, <2>2 DEF Inv, Locked, NeverConflicts
<1>2. Inv /\ [Next]_vars => Inv'
  BY NextKeeps
<1>3. Inv => NeverConflicts
  BY DEF Inv
<1> QED
  BY <1>1, <1>2, <1>3, PTL DEF Spec

-----------------------------------------------------------------------------
(* Sequences and sets of positions. *)

Elems(q) == {q[k] : k \in 1..Len(q)}
Once(q) == \A k, l \in 1..Len(q) : q[k] = q[l] => k = l
Before(q, a, b) == \E k, l \in 1..Len(q) : k < l /\ q[k] = a /\ q[l] = b

\* A set of positions has a first one: the intervals that end in it are well-founded.
LEMMA Least ==
    ASSUME NEW n \in Nat, NEW W, W \subseteq 1..n, W # {}
    PROVE  \E k \in W : \A l \in W : k <= l
<1> DEFINE R == StrictSubsetOrdering(1..n)
           S == FiniteSubsetsOf(1..n)
           T == {1..k : k \in W}
<1>1. IsWellFoundedOn(R, S)
  BY FS_StrictSubsetOrderingWellFounded
<1>2. T \subseteq S
  <2>1. IsFiniteSet(1..n)
    BY FS_Interval
  <2>2. S = SUBSET (1..n)
    BY <2>1, FS_FiniteSubsetsOfFinite
  <2>3. \A k \in W : 1..k \subseteq 1..n
    OBVIOUS
  <2> QED
    BY <2>2, <2>3
<1>3. T # {}
  OBVIOUS
<1>4. PICK x \in T : \A y \in T : <<y, x>> \notin R
  <2> HIDE DEF R, S, T
  <2> QED
    BY <1>1, <1>2, <1>3, WFMin
<1>5. PICK k \in W : x = 1..k
  OBVIOUS
<1>6. ASSUME NEW l \in W, ~(k <= l) PROVE FALSE
  <2>1. l \in 1..n /\ k \in 1..n
    OBVIOUS
  <2>2. 1..l \in SUBSET (1..n) /\ 1..k \in SUBSET (1..n)
    BY <2>1
  <2>3. 1..l \subseteq 1..k /\ k \in 1..k /\ k \notin 1..l
    BY <1>6, <2>1
  <2>4. <<1..l, 1..k>> \in R
    BY <2>2, <2>3 DEF StrictSubsetOrdering
  <2> QED
    BY <1>4, <1>5, <2>4
<1> QED
  BY <1>6

\* What is left when the first items are taken away.
LEMMA Suffix ==
    ASSUME NEW q \in Seq(Messages), Once(q), NEW f \in 1..(Len(q) + 1),
           NEW s, s = SubSeq(q, f, Len(q))
    PROVE  /\ s \in Seq(Messages) /\ Once(s)
           /\ Len(s) = Len(q) - f + 1
           /\ \A k \in 1..Len(s) : s[k] = q[k + f - 1]
           /\ Elems(s) \subseteq Elems(q)
           /\ \A k \in f..Len(q) : q[k] \in Elems(s)
           /\ \A a, b : Before(q, a, b) /\ a \in Elems(s) => Before(s, a, b)
<1>1. Len(q) \in Nat /\ \A k \in 1..Len(q) : q[k] \in Messages
  BY LenProperties, ElementOfSeq
<1>2. \A k \in f..Len(q) : q[k] \in Messages
  BY <1>1
<1>3. /\ s \in Seq(Messages)
      /\ Len(s) = IF f <= Len(q) THEN Len(q) - f + 1 ELSE 0
      /\ \A k \in 1..(Len(q) - f + 1) : s[k] = q[f + k - 1]
  <2>1. f \in Int /\ Len(q) \in Int
    BY <1>1
  <2> QED
    BY <1>2, <2>1, SubSeqProperties
<1>4. Len(s) = Len(q) - f + 1
  BY <1>1, <1>3
<1>5. \A k \in 1..Len(s) : s[k] = q[k + f - 1] /\ k + f - 1 \in 1..Len(q)
  BY <1>1, <1>3, <1>4
<1>6. Once(s)
  BY <1>1, <1>4, <1>5 DEF Once
<1>7. Elems(s) \subseteq Elems(q)
  BY <1>5 DEF Elems
<1>8. ASSUME NEW k \in f..Len(q) PROVE k - f + 1 \in 1..Len(s) /\ s[k - f + 1] = q[k]
  BY <1>1, <1>4, <1>5
<1>9. \A k \in f..Len(q) : q[k] \in Elems(s)
  BY <1>8 DEF Elems
<1>10. ASSUME NEW a, NEW b, Before(q, a, b), a \in Elems(s) PROVE Before(s, a, b)
  <2>1. PICK k, l \in 1..Len(q) : k < l /\ q[k] = a /\ q[l] = b
    BY <1>10 DEF Before
  <2>2. PICK j \in 1..Len(s) : s[j] = a
    BY <1>10 DEF Elems
  <2>3. k = j + f - 1
    BY <1>5, <2>1, <2>2 DEF Once
  <2>4. k \in f..Len(q) /\ l \in f..Len(q)
    BY <1>1, <1>4, <2>1, <2>3
  <2>5. k - f + 1 \in 1..Len(s) /\ l - f + 1 \in 1..Len(s) /\ k - f + 1 < l - f + 1
    BY <1>1, <1>8, <2>1, <2>4
  <2>6. s[k - f + 1] = a /\ s[l - f + 1] = b
    BY <1>8, <2>1, <2>4
  <2> QED
    BY <2>5, <2>6 DEF Before
<1> QED
  BY <1>3, <1>4, <1>5, <1>6, <1>7, <1>9, <1>10

\* Nothing stands before the head.
LEMMA HeadFirst ==
    ASSUME NEW q, Len(q) \in Nat, Once(q), NEW a
    PROVE  ~Before(q, a, q[1])
BY DEF Before, Once

\* The head is taken away.
LEMMA TailKeeps ==
    ASSUME NEW q \in Seq(Messages), Once(q), q # <<>>
    PROVE  /\ Tail(q) \in Seq(Messages) /\ Once(Tail(q))
           /\ Elems(Tail(q)) \subseteq Elems(q)
           /\ \A m \in Elems(q) : m # q[1] => m \in Elems(Tail(q))
           /\ \A a, b : Before(q, a, b) /\ a # q[1] => Before(Tail(q), a, b)
<1>1. Len(q) \in Nat \ {0} /\ Tail(q) = SubSeq(q, 2, Len(q))
  BY EmptySeq, TailIsSubSeq
<1>2. /\ Tail(q) \in Seq(Messages) /\ Once(Tail(q))
      /\ Elems(Tail(q)) \subseteq Elems(q)
      /\ \A k \in 2..Len(q) : q[k] \in Elems(Tail(q))
      /\ \A a, b : Before(q, a, b) /\ a \in Elems(Tail(q)) => Before(Tail(q), a, b)
  <2>1. 2 \in 1..(Len(q) + 1)
    BY <1>1
  <2> QED
    BY <1>1, <2>1, Suffix
<1>3. ASSUME NEW m \in Elems(q), m # q[1] PROVE m \in Elems(Tail(q))
  <2>1. PICK k \in 1..Len(q) : q[k] = m
    BY DEF Elems
  <2>2. k \in 2..Len(q)
    BY <1>1, <1>3, <2>1
  <2> QED
    BY <1>2, <2>1, <2>2
<1>4. \A a, b : Before(q, a, b) => a \in Elems(q)
  BY DEF Before, Elems
<1> QED
  BY <1>2, <1>3, <1>4

\* A message is added at the end.
LEMMA AppendKeeps ==
    ASSUME NEW q \in Seq(Messages), Once(q), NEW m \in Messages, m \notin Elems(q)
    PROVE  /\ Append(q, m) \in Seq(Messages) /\ Once(Append(q, m))
           /\ Elems(Append(q, m)) = Elems(q) \cup {m}
           /\ \A a, b : Before(q, a, b) => Before(Append(q, m), a, b)
           /\ \A a \in Elems(q) : Before(Append(q, m), a, m)
           /\ Append(q, m) # <<>>
           /\ q # <<>> => Append(q, m)[1] = q[1]
<1> DEFINE s == Append(q, m)
<1>1. Len(q) \in Nat /\ (q # <<>> => Len(q) # 0)
  BY EmptySeq
<1>2. /\ s \in Seq(Messages) /\ s # <<>> /\ Len(s) = Len(q) + 1
      /\ \A k \in 1..Len(q) : s[k] = q[k]
      /\ s[Len(q) + 1] = m
  BY AppendProperties
<1> HIDE DEF s
<1>3. \A k \in 1..Len(q) : q[k] # m
  BY DEF Elems
<1>4. Once(s)
  BY <1>1, <1>2, <1>3 DEF Once
<1>5. \A k : k \in 1..Len(s) <=> k \in 1..Len(q) \/ k = Len(q) + 1
  BY <1>1, <1>2
<1>6. Elems(s) = Elems(q) \cup {m}
  BY <1>2, <1>5 DEF Elems
<1>7. \A a, b : Before(q, a, b) => Before(s, a, b)
  BY <1>2, <1>5 DEF Before
<1>8. \A k \in 1..Len(q) : k < Len(q) + 1
  BY <1>1
<1>9. \A a \in Elems(q) : Before(s, a, m)
  BY <1>2, <1>5, <1>8 DEF Before, Elems
<1> QED
  BY <1>1, <1>2, <1>4, <1>6, <1>7, <1>9 DEF s

\* One turn of the for loop skips only what is not being sent.
LEMMA TurnKeeps ==
    ASSUME NEW q \in Seq(Messages), Once(q), NEW status, NEW rest, rest = Turn(q, status)
    PROVE  /\ rest \in Seq(Messages) /\ Once(rest)
           /\ Elems(rest) \subseteq Elems(q)
           /\ Elems(q) \cap Pending(status) \subseteq Elems(rest)
           /\ \A a \in Pending(status) : \A b : Before(q, a, b) => Before(rest, a, b)
           /\ rest # <<>> => rest[1] \in Pending(status)
<1> DEFINE waiting == {k \in 1..Len(q) : q[k] \in Pending(status)}
           first == CHOOSE k \in waiting : \A l \in waiting : k <= l
<1>1. Len(q) \in Nat
  BY LenProperties
<1>2. CASE waiting = {}
  <2>1. rest = <<>>
    BY <1>2 DEF Turn
  <2>2. rest \in Seq(Messages) /\ Len(rest) = 0
    BY <2>1, EmptySeq
  <2>3. Elems(rest) = {} /\ Once(rest)
    BY <2>2 DEF Elems, Once
  <2>4. Elems(q) \cap Pending(status) = {}
    BY <1>2 DEF Elems
  <2>5. \A a, b : Before(q, a, b) => a \in Elems(q)
    BY DEF Before, Elems
  <2> QED
    BY <2>1, <2>2, <2>3, <2>4, <2>5
<1>3. CASE waiting # {}
  <2>1. \E k \in waiting : \A l \in waiting : k <= l
    <3>1. waiting \subseteq 1..Len(q)
      OBVIOUS
    <3> HIDE DEF waiting
    <3> QED
      BY <1>1, <1>3, <3>1, Least
  <2>2. first \in waiting /\ \A l \in waiting : first <= l
    <3> HIDE DEF waiting
    <3> QED
      BY <2>1
  <2>3. rest = SubSeq(q, first, Len(q))
    BY <1>3 DEF Turn
  <2>4. first \in 1..Len(q) /\ q[first] \in Pending(status)
    BY <2>2
  <2>5. ASSUME NEW k \in 1..Len(q), q[k] \in Pending(status) PROVE k \in first..Len(q)
    <3>1. first <= k
      BY <2>2, <2>5
    <3> HIDE DEF waiting, first
    <3> QED
      BY <1>1, <2>4, <3>1
  <2> HIDE DEF waiting, first
  <2>6. first \in 1..(Len(q) + 1)
    BY <1>1, <2>4
  <2>7. /\ rest \in Seq(Messages) /\ Once(rest)
        /\ Len(rest) = Len(q) - first + 1
        /\ \A k \in 1..Len(rest) : rest[k] = q[k + first - 1]
        /\ Elems(rest) \subseteq Elems(q)
        /\ \A k \in first..Len(q) : q[k] \in Elems(rest)
        /\ \A a, b : Before(q, a, b) /\ a \in Elems(rest) => Before(rest, a, b)
    BY <2>3, <2>6, Suffix
  <2>8. Elems(q) \cap Pending(status) \subseteq Elems(rest)
    BY <2>5, <2>7 DEF Elems
  <2>9. rest[1] = q[first]
    <3>1. 1 \in 1..Len(rest) /\ 1 + first - 1 = first
      BY <1>1, <2>4, <2>7
    <3> QED
      BY <2>7, <3>1
  <2>10. \A a, b : Before(q, a, b) => a \in Elems(q)
    BY DEF Before, Elems
  <2> QED
    BY <2>4, <2>7, <2>8, <2>9, <2>10
<1> QED
  BY <1>2, <1>3
-----------------------------------------------------------------------------
(* The queue, its loop and its requests. *)

\* What is queued was composed, waits once and is not shown as failed; what is shown as
\* being sent is queued.
Holds(q, status, n) ==
    /\ q \in Seq(Messages) /\ Once(q)
    /\ Elems(q) \subseteq 1..n
    /\ Pending(status) \subseteq Elems(q)
    /\ \A m \in Messages : m \in Elems(q) \/ m > n => status[m] # "failed"
    /\ \A m \in Messages : m > n => status[m] = "none"

\* The loop waits for the head of the queue, or its queue was forgotten.
LoopInv ==
    /\ loop = 0 => queue = <<>> /\ ~detached
    /\ loop # 0 => request[loop].open
    /\ loop # 0 /\ ~detached => queue # <<>> /\ request[loop].msg = queue[1]
    /\ detached => request[loop].msg # 0 /\ outgoing[request[loop].msg] = "none"
    /\ \A i \in Tries : request[i].msg <= composed

\* What is shown as being sent and was not sent yet.
Unsent == Pending(outgoing) \ (IF loop # 0 THEN {request[loop].msg} ELSE {})

\* There is a request left for everything that waits and that will be composed.
Budget == tries + Cardinality(Unsent) + (MaxMessages - composed) <= MaxMessages + MaxRetries

\* last_message_seq counts the messages.
Written == {m \in Messages : seq[m] # 0}
Counted == Cardinality(Written) = lastSeq

TabInv == TypeOK /\ Holds(queue, outgoing, composed) /\ LoopInv /\ Budget /\ Counted

\* The part of the type invariant that a step of the tab can disturb.
TabType ==
    /\ outgoing \in [Messages -> {"none", "pending", "failed"}]
    /\ queue \in Seq(Messages)
    /\ loop \in {0} \cup Tries
    /\ detached \in BOOLEAN
    /\ tries \in 0..(MaxMessages + MaxRetries)
    /\ request \in [Tries -> Request]

\* Messages that are shown differently are no longer shown.
Fades(s, t) == \A m \in Messages : t[m] \in {"none", s[m]}

\* Sets of messages are finite.
LEMMA Count ==
    ASSUME NEW S, S \subseteq Messages
    PROVE  /\ IsFiniteSet(S) /\ Cardinality(S) \in Nat
           /\ \A T : T \subseteq S => Cardinality(T) <= Cardinality(S)
           /\ \A m : Cardinality(S \cup {m}) <= Cardinality(S) + 1
           /\ \A m \in S : Cardinality(S \ {m}) = Cardinality(S) - 1
           /\ \A m : m \notin S => Cardinality(S \cup {m}) = Cardinality(S) + 1
           /\ Cardinality(S) <= MaxMessages
           /\ S # Messages => Cardinality(S) < MaxMessages
           /\ S = {} => Cardinality(S) = 0
<1>1. IsFiniteSet(Messages) /\ Cardinality(Messages) = MaxMessages
  BY BoundsAssumption, FS_Interval DEF Messages
<1>2. /\ IsFiniteSet(S) /\ Cardinality(S) <= MaxMessages
      /\ Cardinality(S) = MaxMessages => S = Messages
  BY <1>1, FS_Subset
<1>3. Cardinality(S) \in Nat
  BY <1>2, FS_CardinalityType
<1>4. \A T : T \subseteq S => Cardinality(T) <= Cardinality(S)
  BY <1>2, FS_Subset
<1>5. ASSUME NEW m
      PROVE  Cardinality(S \cup {m}) = IF m \in S THEN Cardinality(S) ELSE Cardinality(S) + 1
  BY <1>2, FS_AddElement
<1>6. \A m \in S : Cardinality(S \ {m}) = Cardinality(S) - 1
  BY <1>2, FS_RemoveElement
<1>7. S = {} => Cardinality(S) = 0
  BY FS_EmptySet
<1>8. S # Messages => Cardinality(S) < MaxMessages
  BY <1>2, <1>3, BoundsAssumption
<1>9. \A m : Cardinality(S \cup {m}) <= Cardinality(S) + 1
  BY <1>3, <1>5
<1> QED
  BY <1>2, <1>3, <1>4, <1>5, <1>6, <1>7, <1>8, <1>9

\* Messages that are no longer shown do not disturb the queue.
LEMMA FadesHolds ==
    ASSUME NEW q, NEW s, NEW t, NEW n, Holds(q, s, n), Fades(s, t)
    PROVE  Holds(q, t, n) /\ Pending(t) \subseteq Pending(s)
<1>1. Pending(t) \subseteq Pending(s)
  BY DEF Pending, Fades
<1> QED
  BY <1>1 DEF Holds, Fades

\* Left forgets a request that is over on both sides, and nothing else.
LEMMA LeftRequest ==
    ASSUME NEW x \in Request, NEW y, y = Left(x)
    PROVE  /\ y \in Request
           /\ y.msg \in {0, x.msg}
           /\ y.open = x.open
           /\ x.open => y = x
           /\ y.stage # "error" => y = x
           /\ x.stage \in {"sent", "locked", "absent"} => y = x
<1>1. CASE x.open \/ x.stage \notin {"ok", "error"}
  BY <1>1 DEF Left
<1>2. CASE ~x.open /\ x.stage \in {"ok", "error"}
  <2>1. y = [msg |-> 0, stage |-> "error", open |-> FALSE]
    BY <1>2 DEF Left, Unused
  <2>2. x.open = FALSE
    BY <1>2 DEF Request
  <2>3. y \in Request
    BY <2>1, BoundsAssumption DEF Request, Stages
  <2>4. y.msg = 0 /\ y.open = FALSE /\ y.stage = "error"
    BY <2>1
  <2> QED
    BY <1>2, <2>2, <2>3, <2>4
<1> QED
  BY <1>1, <1>2

LEMMA OpenRequest ==
    ASSUME NEW x \in Request, NEW y, y = Left([x EXCEPT !.open = FALSE])
    PROVE  /\ y \in Request /\ y.msg \in {0, x.msg} /\ ~y.open
           /\ y.stage # "error" => y.stage = x.stage /\ y.msg = x.msg
<1>1. PICK z : z = [x EXCEPT !.open = FALSE]
  OBVIOUS
<1>2. z \in Request /\ z.msg = x.msg /\ z.stage = x.stage /\ z.open = FALSE
  BY <1>1 DEF Request
<1> QED
  BY <1>1, <1>2, LeftRequest

LEMMA StageRequest ==
    ASSUME NEW x \in Request, NEW stage \in Stages, NEW y, y = Left([x EXCEPT !.stage = stage])
    PROVE  /\ y \in Request /\ y.msg \in {0, x.msg} /\ y.open = x.open
           /\ x.open => y.msg = x.msg
           /\ y.stage # "error" => y.stage = stage /\ y.msg = x.msg
<1>1. PICK z : z = [x EXCEPT !.stage = stage]
  OBVIOUS
<1>2. z \in Request /\ z.msg = x.msg /\ z.stage = stage /\ z.open = x.open
  BY <1>1 DEF Request
<1> QED
  BY <1>1, <1>2, LeftRequest

\* From r to s requests are at most forgotten.
Kept(r, s) ==
    \A i \in Tries :
        /\ s[i].msg \in {0, r[i].msg}
        /\ s[i].stage # "error" => s[i].stage = r[i].stage /\ s[i].msg = r[i].msg

LEMMA ClosedKept ==
    ASSUME request \in [Tries -> Request], NEW i \in Tries, NEW s, s = Closed(i)
    PROVE  /\ s \in [Tries -> Request]
           /\ \A j \in Tries \ {i} : s[j] = request[j]
           /\ Kept(request, s)
<1>1. PICK y : y = Left([request[i] EXCEPT !.open = FALSE])
  OBVIOUS
<1>2. /\ y \in Request /\ y.msg \in {0, request[i].msg}
      /\ y.stage # "error" => y.stage = request[i].stage /\ y.msg = request[i].msg
  BY <1>1, OpenRequest
<1>3. s = [request EXCEPT ![i] = y]
  BY <1>1 DEF Closed
<1>4. /\ s \in [Tries -> Request]
      /\ \A j \in Tries : s[j] = IF j = i THEN y ELSE request[j]
  BY <1>2, <1>3
<1> QED
  BY <1>2, <1>4 DEF Kept

LEMMA ReloadKept ==
    ASSUME request \in [Tries -> Request], Reload
    PROVE  request' \in [Tries -> Request] /\ Kept(request, request')
<1>1. ASSUME NEW i \in Tries
      PROVE  /\ request'[i] \in Request /\ request'[i].msg \in {0, request[i].msg}
             /\ request'[i].stage # "error" =>
                    request'[i].stage = request[i].stage /\ request'[i].msg = request[i].msg
  <2>1. request'[i] = Left([request[i] EXCEPT !.open = FALSE])
    BY DEF Reload
  <2> QED
    BY <2>1, OpenRequest
<1>2. request' = [i \in Tries |-> request'[i]]
  BY DEF Reload
<1> QED
  BY <1>1, <1>2 DEF Kept

LEMMA AtRequest ==
    ASSUME request \in [Tries -> Request], NEW i \in Tries, NEW stage \in Stages, At(i, stage)
    PROVE  /\ request' \in [Tries -> Request]
           /\ \A j \in Tries \ {i} : request'[j] = request[j]
           /\ request'[i].msg \in {0, request[i].msg} /\ request'[i].open = request[i].open
           /\ request[i].open => request'[i].msg = request[i].msg
           /\ request'[i].stage # "error" =>
                  request'[i].stage = stage /\ request'[i].msg = request[i].msg
<1>1. PICK y : y = Left([request[i] EXCEPT !.stage = stage])
  OBVIOUS
<1>2. /\ y \in Request /\ y.msg \in {0, request[i].msg} /\ y.open = request[i].open
      /\ request[i].open => y.msg = request[i].msg
      /\ y.stage # "error" => y.stage = stage /\ y.msg = request[i].msg
  BY <1>1, StageRequest
<1>3. request' = [request EXCEPT ![i] = y]
  BY <1>1 DEF At
<1> QED
  BY <1>2, <1>3

\* A stuttering tab: what is shown may fade, and the request the loop waits for is there.
LEMMA TabStays ==
    ASSUME TabInv, TypeOK', Counted', UNCHANGED <<composed, queue, loop, detached, tries>>,
           Fades(outgoing, outgoing'),
           loop # 0 => request'[loop].open /\ request'[loop].msg = request[loop].msg,
           \A i \in Tries : request'[i].msg \in {0, request[i].msg}
    PROVE  TabInv'
<1> USE DEF TabInv
<1>1. Holds(queue', outgoing', composed') /\ Pending(outgoing') \subseteq Pending(outgoing)
  BY FadesHolds
<1>2. LoopInv'
  <2>1. \A i \in Tries : request'[i].msg <= composed
    <3>1. 0 <= composed /\ \A i \in Tries : request[i].msg <= composed
      BY DEF LoopInv, TypeOK
    <3> QED
      BY <3>1
  <2>2. detached => loop # 0
    BY DEF LoopInv
  <2>3. detached => request[loop].msg \in Messages
    BY <2>2, BoundsAssumption DEF LoopInv, TypeOK, Request, Messages
  <2>4. detached => outgoing'[request[loop].msg] = "none"
    BY <2>3 DEF LoopInv, Fades
  <2> QED
    BY <2>1, <2>2, <2>4 DEF LoopInv
<1>3. Unsent' \subseteq Unsent /\ Unsent \subseteq Messages
  BY <1>1 DEF Unsent, Pending
<1>4. Cardinality(Unsent') <= Cardinality(Unsent)
      /\ Cardinality(Unsent') \in Nat /\ Cardinality(Unsent) \in Nat
  BY <1>3, Count
<1>5. Budget'
  BY <1>4, BoundsAssumption DEF Budget, TypeOK
<1> QED
  BY <1>1, <1>2, <1>5

\* Nothing is being sent any more.
LEMMA TabEnds ==
    ASSUME TabInv, TypeOK', Counted', UNCHANGED <<composed, tries>>,
           queue' = <<>>, Pending(outgoing') = {},
           \A m \in Messages : m > composed => outgoing'[m] = "none",
           \/ loop' = 0 /\ ~detached'
           \/ /\ loop' # 0 /\ loop' = loop /\ detached' /\ request' = request
              /\ \A m \in Messages : outgoing'[m] = "none",
           \A i \in Tries : request'[i].msg \in {0, request[i].msg}
    PROVE  TabInv'
<1> USE DEF TabInv
<1>1. Holds(queue', outgoing', composed')
  <2>1. Len(queue') = 0
    OBVIOUS
  <2>2. Elems(queue') = {} /\ Once(queue') /\ queue' \in Seq(Messages)
    BY <2>1 DEF Elems, Once
  <2> QED
    BY <2>2 DEF Holds
<1>2. LoopInv'
  <2>1. \A i \in Tries : request'[i].msg <= composed
    <3>1. 0 <= composed /\ \A i \in Tries : request[i].msg <= composed
      BY DEF LoopInv, TypeOK
    <3> QED
      BY <3>1
  <2>2. CASE loop' = 0 /\ ~detached'
    BY <2>1, <2>2 DEF LoopInv
  <2>3. CASE ~(loop' = 0 /\ ~detached')
    <3>1. loop \in Tries /\ request[loop].open
      BY <2>3 DEF LoopInv, TypeOK
    <3>2. request[loop].msg \in Messages
      <4>1. CASE detached
        BY <3>1, <4>1, BoundsAssumption DEF LoopInv, TypeOK, Request, Messages
      <4>2. CASE ~detached
        <5>1. queue # <<>> /\ request[loop].msg = queue[1] /\ queue \in Seq(Messages)
          BY <2>3, <4>2 DEF LoopInv, TypeOK
        <5>2. 1 \in 1..Len(queue)
          BY <5>1, EmptySeq
        <5> QED
          BY <5>1, <5>2, ElementOfSeq
      <4> QED
        BY <4>1, <4>2
    <3>3. request[loop].msg # 0
      BY <3>2 DEF Messages
    <3> QED
      BY <2>1, <2>3, <3>1, <3>2, <3>3 DEF LoopInv
  <2> QED
    BY <2>2, <2>3
<1>3. Unsent' = {} /\ Unsent \subseteq Messages
  BY DEF Unsent, Pending
<1>4. Cardinality(Unsent') = 0 /\ Cardinality(Unsent) \in Nat
  BY <1>3, Count
<1>5. Budget'
  BY <1>4, BoundsAssumption DEF Budget, TypeOK
<1> QED
  BY <1>1, <1>2, <1>5
-----------------------------------------------------------------------------
(* The steps of the tab. *)

Fresh(m) == [msg |-> m, stage |-> "sent", open |-> TRUE]

\* From r to s, requests are added for the head of q only.
Sends(r, s, q) == \A i \in Tries : s[i] = r[i] \/ (q # <<>> /\ s[i] = Fresh(q[1]))

\* The loop goes on: it waits for the head of the queue, or there is nothing to send.
LEMMA GoOnKeeps ==
    ASSUME TypeOK, NEW n \in 0..MaxMessages, composed' = n, NEW q,
           NEW status \in [Messages -> {"none", "pending", "failed"}],
           NEW r \in [Tries -> Request], \A i \in Tries : r[i].msg <= n,
           Holds(q, status, n), GoOn(q, status, r),
           tries + Cardinality(Pending(status)) + (MaxMessages - n) <= MaxMessages + MaxRetries
    PROVE  /\ TabType' /\ Holds(queue', outgoing', n) /\ LoopInv' /\ Budget'
           /\ Sends(r, request', queue')
           /\ \A a \in Pending(status) : \A b : Before(q, a, b) => Before(queue', a, b)
<1> DEFINE rest == Turn(q, status)
<1>1. /\ rest \in Seq(Messages) /\ Once(rest)
      /\ Elems(rest) \subseteq Elems(q)
      /\ Elems(q) \cap Pending(status) \subseteq Elems(rest)
      /\ \A a \in Pending(status) : \A b : Before(q, a, b) => Before(rest, a, b)
      /\ rest # <<>> => rest[1] \in Pending(status)
  BY TurnKeeps DEF Holds
<1>2. queue' = rest /\ outgoing' = status /\ detached' = FALSE
  BY DEF GoOn
<1>3. rest = <<>> => loop' = 0 /\ request' = r /\ tries' = tries
  BY DEF GoOn
<1>4. rest # <<>> => /\ tries' = tries + 1 /\ loop' = tries'
                     /\ request' = [r EXCEPT ![tries'] = Fresh(Head(rest))]
  BY DEF GoOn, Fresh
<1> HIDE DEF rest
<1>5. Holds(queue', outgoing', n)
  BY <1>1, <1>2 DEF Holds
<1>6. Pending(status) \subseteq Messages
  BY DEF Pending
<1>7. tries \in 0..(MaxMessages + MaxRetries)
  BY DEF TypeOK
<1>8. CASE rest = <<>>
  <2>1. TabType'
    BY <1>1, <1>2, <1>3, <1>7, <1>8 DEF TabType
  <2>2. LoopInv'
    BY <1>2, <1>3, <1>8 DEF LoopInv
  <2>3. Unsent' = Pending(status)
    BY <1>2, <1>3, <1>8 DEF Unsent
  <2>4. Budget'
    BY <1>3, <1>8, <2>3 DEF Budget
  <2>5. Sends(r, request', queue')
    BY <1>3, <1>8 DEF Sends
  <2> QED
    BY <1>1, <1>2, <1>5, <2>1, <2>2, <2>4, <2>5
<1>9. CASE rest # <<>>
  <2>1. Head(rest) = rest[1] /\ rest[1] \in Pending(status) /\ rest[1] \in Messages
    BY <1>1, <1>6, <1>9
  <2>2. /\ Cardinality(Pending(status)) \in Nat /\ Cardinality(Pending(status)) # 0
        /\ Cardinality(Pending(status) \ {rest[1]}) = Cardinality(Pending(status)) - 1
        /\ Cardinality(Pending(status) \ {rest[1]}) \in Nat
    <3>1. /\ Cardinality(Pending(status)) \in Nat
          /\ Cardinality(Pending(status) \ {rest[1]}) = Cardinality(Pending(status)) - 1
      BY <1>6, <2>1, Count
    <3>2. Cardinality(Pending(status) \ {rest[1]}) \in Nat
      BY <1>6, Count
    <3> QED
      BY <3>1, <3>2
  <2>3. tries' \in Tries /\ tries' = tries + 1 /\ tries' # 0
    BY <1>4, <1>7, <1>9, <2>2, BoundsAssumption DEF Tries
  <2>4. Fresh(rest[1]) \in Request
    BY <2>1, BoundsAssumption DEF Fresh, Request, Stages, Messages
  <2>5. /\ request' \in [Tries -> Request]
        /\ \A i \in Tries : request'[i] = IF i = tries' THEN Fresh(rest[1]) ELSE r[i]
    BY <1>4, <1>9, <2>1, <2>3, <2>4
  <2>6. TabType'
    <3>1. loop' \in Tries /\ detached' \in BOOLEAN
      BY <1>2, <1>4, <1>9, <2>3
    <3>2. tries' \in 0..(MaxMessages + MaxRetries)
      BY <2>3, BoundsAssumption DEF Tries
    <3> QED
      BY <1>1, <1>2, <2>5, <3>1, <3>2 DEF TabType
  <2>7. Fresh(rest[1]).msg = rest[1] /\ Fresh(rest[1]).open = TRUE
    BY DEF Fresh
  <2>8. request'[loop'].msg = rest[1] /\ request'[loop'].open
    BY <1>4, <1>9, <2>3, <2>5, <2>7
  <2>9. rest[1] <= n
    <3>1. 1 \in 1..Len(rest)
      BY <1>1, <1>9, EmptySeq
    <3>2. rest[1] \in Elems(rest)
      BY <3>1 DEF Elems
    <3> QED
      BY <1>1, <3>2 DEF Holds
  <2>10. \A i \in Tries : request'[i].msg <= n
    BY <2>5, <2>7, <2>9
  <2>11. LoopInv'
    BY <1>2, <1>4, <1>9, <2>3, <2>8, <2>10 DEF LoopInv
  <2>12. Unsent' = Pending(status) \ {rest[1]}
    BY <1>2, <1>4, <1>9, <2>3, <2>8 DEF Unsent
  <2>13. Budget'
    BY <1>7, <2>2, <2>3, <2>12, BoundsAssumption DEF Budget
  <2>14. Sends(r, request', queue')
    BY <1>2, <1>9, <2>5 DEF Sends
  <2> QED
    BY <1>1, <1>2, <1>5, <2>6, <2>11, <2>13, <2>14
<1> QED
  BY <1>8, <1>9

\* A message that is shown as being sent joins the queue of m; without a loop it starts one.
LEMMA EnqueueKeeps ==
    ASSUME TabInv, NEW n \in 0..MaxMessages, composed' = n, composed <= n,
           NEW m \in 1..n, m \notin Elems(queue), m \in Messages,
           NEW status, status = [outgoing EXCEPT ![m] = "pending"],
           Enqueue(m, status),
           \A b \in Messages : b > n => outgoing[b] = "none",
           detached => request[loop].msg # m,
           tries + Cardinality(Unsent) + 1 + (MaxMessages - n) <= MaxMessages + MaxRetries
    PROVE  /\ TabType' /\ Holds(queue', outgoing', n) /\ LoopInv' /\ Budget'
           /\ Sends(request, request', queue')
           /\ Pending(outgoing') = Pending(outgoing) \cup {m}
           /\ \A b \in Messages : b # m => outgoing'[b] = outgoing[b]
           /\ outgoing'[m] = "pending"
           /\ \A a \in Pending(outgoing) : \A b : Before(queue, a, b) => Before(queue', a, b)
           /\ \A a \in Pending(outgoing) : Before(queue', a, m)
<1> USE DEF TabInv
<1> DEFINE q == Append(queue, m)
<1>1. /\ queue \in Seq(Messages) /\ Once(queue) /\ Pending(outgoing) \subseteq Elems(queue)
      /\ Elems(queue) \subseteq 1..composed
  BY DEF Holds
<1>2. /\ q \in Seq(Messages) /\ Once(q)
      /\ Elems(q) = Elems(queue) \cup {m}
      /\ \A a, b : Before(queue, a, b) => Before(q, a, b)
      /\ \A a \in Elems(queue) : Before(q, a, m)
      /\ q # <<>>
      /\ queue # <<>> => q[1] = queue[1]
  BY <1>1, AppendKeeps
<1>3. /\ status \in [Messages -> {"none", "pending", "failed"}]
      /\ \A b \in Messages : status[b] = IF b = m THEN "pending" ELSE outgoing[b]
  BY DEF TypeOK
<1>4. Pending(status) = Pending(outgoing) \cup {m} /\ Pending(outgoing) \subseteq Messages
  BY <1>3 DEF Pending
<1>5. composed \in 0..MaxMessages /\ Elems(queue) \subseteq 1..n /\ m <= n /\ 1..composed \subseteq 1..n
  BY <1>1 DEF TypeOK
<1>6. Holds(q, status, n)
  <2>1. ASSUME NEW b \in Messages, b \in Elems(q) \/ b > n PROVE status[b] # "failed"
    <3>1. CASE b = m
      BY <1>3, <3>1
    <3>2. CASE b # m
      BY <1>2, <1>3, <2>1, <3>2 DEF Holds
    <3> QED
      BY <3>1, <3>2
  <2>2. ASSUME NEW b \in Messages, b > n PROVE status[b] = "none"
    <3>1. b # m
      BY <1>5, <2>2
    <3> QED
      BY <1>3, <2>2, <3>1
  <2> QED
    BY <1>1, <1>2, <1>4, <1>5, <2>1, <2>2 DEF Holds
<1>7. \A i \in Tries : request[i].msg <= n
  <2>1. \A i \in Tries : request[i].msg <= composed /\ request[i].msg \in Int
    BY DEF LoopInv, TypeOK, Request
  <2> QED
    BY <1>5, <2>1
<1>8. request \in [Tries -> Request]
  BY DEF TypeOK
<1>8a. tries \in Nat
  BY DEF TypeOK
<1> HIDE DEF q
<1>9. CASE loop = 0
  <2>1. GoOn(q, status, request)
    BY <1>9 DEF Enqueue, q
  <2>2. Unsent = Pending(outgoing)
    BY <1>9 DEF Unsent
  <2>3. /\ Cardinality(Pending(status)) \in Nat /\ Cardinality(Unsent) \in Nat
        /\ Cardinality(Pending(status)) <= Cardinality(Unsent) + 1
    <3>1. Pending(status) \subseteq Messages /\ Unsent \subseteq Messages
      BY <1>4, <2>2 DEF Pending
    <3>2. Cardinality(Pending(status)) \in Nat
      BY <3>1, Count
    <3>3. Cardinality(Unsent) \in Nat /\ Cardinality(Unsent \cup {m}) <= Cardinality(Unsent) + 1
      BY <3>1, Count
    <3> QED
      BY <1>4, <2>2, <3>2, <3>3
  <2>4. tries + Cardinality(Pending(status)) + (MaxMessages - n) <= MaxMessages + MaxRetries
    BY <1>8a, <2>3, BoundsAssumption
  <2>5. /\ TabType' /\ Holds(queue', outgoing', n) /\ LoopInv' /\ Budget'
        /\ Sends(request, request', queue')
        /\ \A a \in Pending(status) : \A b : Before(q, a, b) => Before(queue', a, b)
    BY <1>3, <1>6, <1>7, <1>8, <2>1, <2>4, GoOnKeeps
  <2>6. outgoing' = status
    BY <2>1 DEF GoOn
  <2> QED
    BY <1>1, <1>2, <1>3, <1>4, <2>5, <2>6
<1>10. CASE loop # 0
  <2>1. queue' = q /\ outgoing' = status /\ UNCHANGED <<loop, detached, tries, request>>
    BY <1>10 DEF Enqueue, q
  <2>2. TabType'
    BY <1>2, <1>3, <2>1 DEF TabType, TypeOK
  <2>3. Holds(queue', outgoing', n)
    BY <1>6, <2>1
  <2>4. LoopInv'
    <3>1. request[loop].open /\ (~detached => queue # <<>> /\ request[loop].msg = queue[1])
      BY <1>10 DEF LoopInv
    <3>2. detached => /\ request[loop].msg # 0 /\ outgoing[request[loop].msg] = "none"
                      /\ request[loop].msg \in Messages
      BY <1>10, BoundsAssumption DEF LoopInv, TypeOK, Request, Messages
    <3>3. detached => status[request[loop].msg] = "none"
      BY <1>3, <3>2
    <3> QED
      BY <1>2, <1>7, <1>10, <2>1, <3>1, <3>2, <3>3 DEF LoopInv
  <2>5. /\ Unsent' \subseteq Unsent \cup {m} /\ Unsent \cup {m} \subseteq Messages
        /\ Unsent \subseteq Messages /\ Unsent' \subseteq Messages
    BY <1>4, <2>1 DEF Unsent
  <2>6. Cardinality(Unsent') \in Nat /\ Cardinality(Unsent) \in Nat
    BY <2>5, Count
  <2>7. Cardinality(Unsent') <= Cardinality(Unsent) + 1
    <3>1. Cardinality(Unsent') <= Cardinality(Unsent \cup {m})
      BY <2>5, Count
    <3>2. Cardinality(Unsent \cup {m}) <= Cardinality(Unsent) + 1 /\ Cardinality(Unsent \cup {m}) \in Nat
      BY <2>5, Count
    <3> QED
      BY <2>6, <3>1, <3>2
  <2>8. Budget'
    BY <1>8a, <2>1, <2>6, <2>7, BoundsAssumption DEF Budget
  <2>9. Sends(request, request', queue')
    BY <2>1 DEF Sends
  <2> QED
    BY <1>1, <1>2, <1>3, <1>4, <2>1, <2>2, <2>3, <2>4, <2>8, <2>9
<1> QED
  BY <1>8, <1>9, <1>10 DEF TypeOK

LEMMA ComposeTab ==
    ASSUME TabInv, Compose
    PROVE  /\ TabInv' /\ Sends(request, request', queue')
           /\ composed' = composed + 1 /\ composed' \in Messages
           /\ ahead' = [ahead EXCEPT ![composed'] = Pending(outgoing)]
           /\ Pending(outgoing') = Pending(outgoing) \cup {composed'}
           /\ \A b \in Messages : b # composed' => outgoing'[b] = outgoing[b]
           /\ outgoing'[composed'] = "pending"
           /\ \A a \in Pending(outgoing) : \A b : Before(queue, a, b) => Before(queue', a, b)
           /\ \A a \in Pending(outgoing) : Before(queue', a, composed')
           /\ UNCHANGED <<seq, lastSeq, events, givenUp>>
<1> USE DEF TabInv
<1>1. PICK n : n = composed + 1
  OBVIOUS
<1>2. composed' = n /\ Enqueue(n, [outgoing EXCEPT ![n] = "pending"])
      /\ ahead' = [ahead EXCEPT ![n] = Pending(outgoing)]
  BY <1>1 DEF Compose
<1>3. n \in 0..MaxMessages /\ composed <= n /\ n \in 1..n /\ n \in Messages
  BY <1>1, BoundsAssumption DEF Compose, TypeOK, Messages
<1>4. n \notin Elems(queue)
  <2>1. Elems(queue) \subseteq 1..composed /\ composed \in Nat
    BY DEF Holds, TypeOK
  <2> QED
    BY <1>1, <2>1
<1>5. \A b \in Messages : b > n => outgoing[b] = "none"
  <2>1. \A b \in Messages : b > composed => outgoing[b] = "none"
    BY DEF Holds
  <2>2. \A b \in Messages : b > n => b > composed
    BY <1>1, <1>3 DEF TypeOK, Messages
  <2> QED
    BY <2>1, <2>2
<1>6. detached => request[loop].msg # n
  <2>1. detached => loop \in Tries
    BY DEF LoopInv, TypeOK
  <2> QED
    BY <1>1, <2>1 DEF LoopInv, TypeOK
<1>7. tries + Cardinality(Unsent) + 1 + (MaxMessages - n) <= MaxMessages + MaxRetries
  <2>1. Cardinality(Unsent) \in Nat
    <3>1. Unsent \subseteq Messages
      BY DEF Unsent, Pending
    <3> QED
      BY <3>1, Count
  <2>2. tries \in Nat /\ composed \in Nat
    BY DEF TypeOK
  <2> QED
    BY <1>1, <2>1, <2>2, BoundsAssumption DEF Budget
<1>8. /\ TabType' /\ Holds(queue', outgoing', n) /\ LoopInv' /\ Budget'
      /\ Sends(request, request', queue')
      /\ Pending(outgoing') = Pending(outgoing) \cup {n}
      /\ \A b \in Messages : b # n => outgoing'[b] = outgoing[b]
      /\ outgoing'[n] = "pending"
      /\ \A a \in Pending(outgoing) : \A b : Before(queue, a, b) => Before(queue', a, b)
      /\ \A a \in Pending(outgoing) : Before(queue', a, n)
  BY <1>2, <1>3, <1>4, <1>5, <1>6, <1>7, EnqueueKeeps
<1>9. UNCHANGED <<seq, lastSeq, member, removals, events, notice, givenUp>>
  BY DEF Compose, server
<1>10. ahead' \in [Messages -> SUBSET Messages]
  <2>1. Pending(outgoing) \subseteq Messages
    BY DEF Pending
  <2> QED
    BY <1>2, <2>1 DEF TypeOK
<1>11. TypeOK'
  BY <1>2, <1>3, <1>8, <1>9, <1>10 DEF TypeOK, TabType
<1>12. Counted'
  BY <1>9 DEF Counted, Written
<1> QED
  BY <1>1, <1>2, <1>3, <1>8, <1>9, <1>11, <1>12

LEMMA RetryTab ==
    ASSUME TabInv, NEW m \in Messages, Retry(m)
    PROVE  /\ TabInv' /\ Sends(request, request', queue')
           /\ Pending(outgoing') = Pending(outgoing) \cup {m}
           /\ \A b \in Messages : b # m => outgoing'[b] = outgoing[b]
           /\ outgoing'[m] = "pending"
           /\ \A a \in Pending(outgoing) : \A b : Before(queue, a, b) => Before(queue', a, b)
           /\ UNCHANGED <<seq, lastSeq, events, givenUp, composed, ahead>>
<1> USE DEF TabInv
<1>1. /\ outgoing[m] = "failed" /\ composed' = composed
      /\ Enqueue(m, [outgoing EXCEPT ![m] = "pending"])
      /\ tries + Cardinality(Pending(outgoing)) + (MaxMessages - composed) < Cardinality(Tries)
  BY DEF Retry
<1>2. composed \in 0..MaxMessages /\ composed <= composed /\ tries \in Nat
  BY DEF TypeOK
<1>3. m \notin Elems(queue) /\ m \in 1..composed
  BY <1>1, <1>2 DEF Holds, Messages
<1>4. \A b \in Messages : b > composed => outgoing[b] = "none"
  BY DEF Holds
<1>5. detached => request[loop].msg # m
  BY <1>1 DEF LoopInv
<1>6. tries + Cardinality(Unsent) + 1 + (MaxMessages - composed) <= MaxMessages + MaxRetries
  <2>1. Pending(outgoing) \subseteq Messages /\ Unsent \subseteq Pending(outgoing) /\ Unsent \subseteq Messages
    BY DEF Unsent, Pending
  <2>2. /\ Cardinality(Unsent) \in Nat /\ Cardinality(Pending(outgoing)) \in Nat
        /\ Cardinality(Unsent) <= Cardinality(Pending(outgoing))
    BY <2>1, Count
  <2>3. Cardinality(Tries) = MaxMessages + MaxRetries
    <3>1. MaxMessages + MaxRetries \in Nat
      BY BoundsAssumption
    <3>2. PICK n \in Nat : n = MaxMessages + MaxRetries
      BY <3>1
    <3>3. Cardinality(1..n) = IF 1 > n THEN 0 ELSE n - 1 + 1
      BY FS_Interval
    <3>4. Cardinality(1..n) = n
      BY <3>3
    <3> QED
      BY <3>2, <3>4 DEF Tries
  <2> QED
    BY <1>1, <1>2, <2>2, <2>3, BoundsAssumption
<1>7. /\ TabType' /\ Holds(queue', outgoing', composed) /\ LoopInv' /\ Budget'
      /\ Sends(request, request', queue')
      /\ Pending(outgoing') = Pending(outgoing) \cup {m}
      /\ \A b \in Messages : b # m => outgoing'[b] = outgoing[b]
      /\ outgoing'[m] = "pending"
      /\ \A a \in Pending(outgoing) : \A b : Before(queue, a, b) => Before(queue', a, b)
  BY <1>1, <1>2, <1>3, <1>4, <1>5, <1>6, EnqueueKeeps
<1>8. UNCHANGED <<seq, lastSeq, member, removals, events, notice, givenUp, composed, ahead>>
  BY DEF Retry, server
<1>9. TypeOK' /\ Counted'
  BY <1>7, <1>8 DEF TypeOK, TabType, Counted, Written
<1> QED
  BY <1>1, <1>7, <1>8, <1>9

\* A message is confirmed.
LEMMA ConfirmedFades ==
    ASSUME TypeOK, NEW m, NEW status, status = Confirmed(m)
    PROVE  /\ status \in [Messages -> {"none", "pending", "failed"}]
           /\ Fades(outgoing, status)
           /\ \A b \in Messages : b # m => status[b] = outgoing[b]
           /\ m \in Messages => status[m] = "none"
BY DEF Confirmed, TypeOK, Fades

\* The response of a request is there.
LEMMA AnsweredTab ==
    ASSUME TabInv, NEW i \in Tries, Answered(i)
    PROVE  /\ TabInv' /\ Sends(Closed(i), request', queue')
           /\ Fades(outgoing, outgoing')
           /\ \A b \in Messages : b # request[i].msg => outgoing'[b] = outgoing[b]
           /\ \A a \in Pending(outgoing') : \A b : Before(queue, a, b) => Before(queue', a, b)
           /\ UNCHANGED <<seq, lastSeq, events, givenUp, composed, ahead>>
<1> USE DEF TabInv
<1>1. PICK m : m = request[i].msg
  OBVIOUS
<1>2. PICK status : status = Confirmed(m)
  OBVIOUS
<1>3. PICK r : r = Closed(i)
  OBVIOUS
<1>4. /\ status \in [Messages -> {"none", "pending", "failed"}]
      /\ Fades(outgoing, status)
      /\ \A b \in Messages : b # m => status[b] = outgoing[b]
      /\ m \in Messages => status[m] = "none"
  BY <1>2, ConfirmedFades
<1>5. /\ r \in [Tries -> Request]
      /\ \A j \in Tries \ {i} : r[j] = request[j]
      /\ Kept(request, r)
  BY <1>3, ClosedKept DEF TypeOK
<1>6. /\ loop = i => GoOn(IF detached THEN queue ELSE Tail(queue), status, r)
      /\ loop # i => outgoing' = status /\ request' = r /\ UNCHANGED <<queue, loop, detached, tries>>
      /\ UNCHANGED <<seq, lastSeq, member, removals, events, notice, givenUp, composed, ahead>>
  BY <1>1, <1>2, <1>3 DEF Answered, server
<1>7. Counted'
  BY <1>6 DEF Counted, Written
<1>8. \A j \in Tries : r[j].msg <= composed
  <2>1. 0 <= composed /\ \A j \in Tries : request[j].msg <= composed
    BY DEF LoopInv, TypeOK
  <2> QED
    BY <1>5, <2>1 DEF Kept
<1>9. CASE loop # i
  <2>1. TypeOK'
    BY <1>4, <1>5, <1>6, <1>9 DEF TypeOK
  <2>2. loop # 0 => request'[loop].open /\ request'[loop].msg = request[loop].msg
    BY <1>5, <1>6, <1>9 DEF LoopInv, TypeOK
  <2>3. \A j \in Tries : request'[j].msg \in {0, request[j].msg}
    BY <1>5, <1>6, <1>9 DEF Kept
  <2>4. TabInv'
    BY <1>4, <1>6, <1>7, <1>9, <2>1, <2>2, <2>3, TabStays
  <2> QED
    BY <1>1, <1>3, <1>4, <1>6, <1>9, <2>4 DEF Sends
<1>10. CASE loop = i
  <2> DEFINE q == IF detached THEN queue ELSE Tail(queue)
  <2>1. loop \in Tries /\ loop # 0
    BY <1>10, BoundsAssumption DEF Tries
  <2>2. Holds(queue, outgoing, composed)
    OBVIOUS
  <2>3. Holds(queue, status, composed) /\ Pending(status) \subseteq Pending(outgoing)
    BY <1>4, <2>2, FadesHolds
  <2>4. Pending(status) \subseteq Unsent /\ Pending(status) \subseteq Messages /\ Unsent \subseteq Messages
    <3>1. m \notin Pending(status)
      BY <1>4 DEF Pending
    <3> QED
      BY <1>1, <1>10, <2>1, <2>3, <3>1 DEF Unsent, Pending
  <2>5. /\ Holds(q, status, composed)
        /\ \A a \in Pending(status) : \A b : Before(queue, a, b) => Before(q, a, b)
    <3>1. CASE detached
      BY <2>3, <3>1
    <3>2. CASE ~detached
      <4>1. queue # <<>> /\ m = queue[1] /\ m \notin Pending(status)
        BY <1>1, <1>4, <1>10, <2>1, <3>2 DEF LoopInv, Pending
      <4>2. queue \in Seq(Messages) /\ Once(queue)
        BY DEF Holds
      <4>3. /\ q \in Seq(Messages) /\ Once(q)
            /\ Elems(q) \subseteq Elems(queue)
            /\ \A b \in Elems(queue) : b # m => b \in Elems(q)
            /\ \A a, b : Before(queue, a, b) /\ a # m => Before(q, a, b)
        BY <3>2, <4>1, <4>2, TailKeeps
      <4> QED
        BY <2>3, <4>1, <4>3 DEF Holds
    <3> QED
      BY <3>1, <3>2
  <2>6. GoOn(q, status, r)
    BY <1>6, <1>10
  <2>7. tries + Cardinality(Pending(status)) + (MaxMessages - composed) <= MaxMessages + MaxRetries
    <3>1. /\ Cardinality(Unsent) \in Nat /\ Cardinality(Pending(status)) \in Nat
          /\ Cardinality(Pending(status)) <= Cardinality(Unsent)
      BY <2>4, Count
    <3>2. tries \in Nat /\ composed \in Nat
      BY DEF TypeOK
    <3> QED
      BY <3>1, <3>2, BoundsAssumption DEF Budget
  <2> HIDE DEF q
  <2>8. composed \in 0..MaxMessages /\ composed' = composed
    BY <1>6 DEF TypeOK
  <2>9. /\ TabType' /\ Holds(queue', outgoing', composed) /\ LoopInv' /\ Budget'
        /\ Sends(r, request', queue')
        /\ \A a \in Pending(status) : \A b : Before(q, a, b) => Before(queue', a, b)
    BY <1>4, <1>5, <1>8, <2>5, <2>6, <2>7, <2>8, GoOnKeeps
  <2>10. TypeOK'
    BY <1>6, <2>9 DEF TypeOK, TabType
  <2>11. outgoing' = status
    BY <2>6 DEF GoOn
  <2> QED
    BY <1>1, <1>3, <1>4, <1>6, <1>7, <2>5, <2>8, <2>9, <2>10, <2>11
<1> QED
  BY <1>9, <1>10

\* failQueue: nothing is shown as being sent any more, and what was is given up.
LEMMA FailQueueTab ==
    ASSUME TabInv, NEW r \in [Tries -> Request], Kept(request, r), FailQueue(r),
           UNCHANGED <<seq, lastSeq, member, removals, events, notice, composed, ahead>>
    PROVE  /\ TabInv' /\ request' = r /\ queue' = <<>>
           /\ Pending(outgoing') = {} /\ Pending(outgoing) \subseteq givenUp'
           /\ givenUp \subseteq givenUp'
           /\ \A m \in Messages : outgoing'[m] = "failed" => outgoing[m] = "failed" \/ m \in givenUp'
<1> USE DEF TabInv
<1>1. PICK failed : failed = {queue[k] : k \in 1..Len(queue)} \cap Pending(outgoing)
  OBVIOUS
<1>2. failed = Pending(outgoing)
  BY <1>1 DEF Holds, Elems
<1>3. /\ queue' = <<>> /\ loop' = 0 /\ detached' = FALSE /\ request' = r /\ tries' = tries
      /\ outgoing' = [m \in Messages |-> IF m \in failed THEN "failed" ELSE outgoing[m]]
      /\ givenUp' = givenUp \cup failed
  BY <1>1 DEF FailQueue
<1>4. \A m \in Messages : outgoing'[m] = IF m \in failed THEN "failed" ELSE outgoing[m]
  BY <1>3
<1>5. Pending(outgoing') = {}
  BY <1>2, <1>4 DEF Pending
<1>6. failed \subseteq Messages
  BY <1>2 DEF Pending
<1>7. outgoing' \in [Messages -> {"none", "pending", "failed"}]
  BY <1>3 DEF TypeOK
<1>8. TypeOK' /\ Counted'
  <2>1. queue' \in Seq(Messages) /\ loop' \in {0} \cup Tries /\ detached' \in BOOLEAN
    BY <1>3, EmptySeq
  <2>2. givenUp' \subseteq Messages
    BY <1>3, <1>6 DEF TypeOK
  <2>3. TypeOK'
    BY <1>3, <1>7, <2>1, <2>2 DEF TypeOK
  <2> QED
    BY <2>3 DEF Counted, Written
<1>9. \A m \in Messages : m > composed => outgoing'[m] = "none"
  <2>1. \A m \in Messages : m > composed => outgoing[m] = "none" /\ m \notin failed
    BY <1>2 DEF Holds, Pending
  <2> QED
    BY <1>4, <2>1
<1>10. \A i \in Tries : request'[i].msg \in {0, request[i].msg}
  BY <1>3 DEF Kept
<1>11. TabInv'
  <2>1. queue' = <<>> /\ loop' = 0 /\ ~detached' /\ UNCHANGED <<composed, tries>>
    BY <1>3
  <2> QED
    BY <1>5, <1>8, <1>9, <1>10, <2>1, TabEnds
<1> QED
  BY <1>2, <1>3, <1>4, <1>5, <1>11

\* The tab forgets the room: nothing is shown any more, and what was is given up.
LEMMA NoticedTab ==
    ASSUME TabInv, Noticed
    PROVE  /\ TabInv' /\ request' = request /\ queue' = <<>>
           /\ Pending(outgoing') = {} /\ Pending(outgoing) \subseteq givenUp'
           /\ givenUp \subseteq givenUp'
           /\ \A m \in Messages : outgoing'[m] = "none"
           /\ UNCHANGED <<seq, lastSeq, events, composed, ahead>>
<1> USE DEF TabInv
<1>1. /\ queue' = <<>> /\ detached' = (loop # 0)
      /\ outgoing' = [m \in Messages |-> "none"]
      /\ givenUp' = givenUp \cup {m \in Messages : outgoing[m] # "none"}
      /\ UNCHANGED <<seq, lastSeq, member, removals, events, composed, ahead, loop, tries, request>>
      /\ notice' = FALSE
  BY DEF Noticed, Drop, server
<1>2. /\ \A m \in Messages : outgoing'[m] = "none"
      /\ outgoing' \in [Messages -> {"none", "pending", "failed"}]
  BY <1>1
<1>3. Pending(outgoing') = {}
  BY <1>2 DEF Pending
<1>4. Pending(outgoing) \subseteq givenUp' /\ givenUp' \subseteq Messages
  BY <1>1 DEF Pending, TypeOK
<1>5. queue' \in Seq(Messages) /\ detached' \in BOOLEAN /\ notice' \in BOOLEAN
  BY <1>1, EmptySeq
<1>6. TypeOK'
  BY <1>1, <1>2, <1>4, <1>5 DEF TypeOK
<1>7. Counted'
  BY <1>1 DEF Counted, Written
<1>8. \/ loop' = 0 /\ ~detached'
      \/ /\ loop' # 0 /\ loop' = loop /\ detached' /\ request' = request
         /\ \A m \in Messages : outgoing'[m] = "none"
  BY <1>1, <1>2
<1>9. UNCHANGED <<composed, tries>> /\ queue' = <<>> /\ \A i \in Tries : request'[i].msg \in {0, request[i].msg}
  BY <1>1
<1>10. TabInv'
  <2> HIDE DEF TabInv
  <2> QED
    BY <1>2, <1>3, <1>6, <1>7, <1>8, <1>9, TabEnds
<1> QED
  BY <1>1, <1>2, <1>3, <1>4, <1>10

\* The page is reloaded.
LEMMA ReloadTab ==
    ASSUME TabInv, Reload
    PROVE  /\ TabInv' /\ Kept(request, request') /\ queue' = <<>>
           /\ Pending(outgoing') = {} /\ Pending(outgoing) \subseteq givenUp'
           /\ givenUp \subseteq givenUp' /\ events' \subseteq events
           /\ \A m \in Messages : outgoing'[m] = "none"
           /\ UNCHANGED <<seq, lastSeq, composed, ahead>>
<1> USE DEF TabInv
<1>1. /\ queue' = <<>> /\ detached' = FALSE /\ loop' = 0 /\ events' = {} /\ notice' = FALSE
      /\ outgoing' = [m \in Messages |-> "none"]
      /\ givenUp' = givenUp \cup {m \in Messages : outgoing[m] # "none"}
      /\ UNCHANGED <<seq, lastSeq, member, composed, ahead, tries>>
      /\ removals < MaxRemovals /\ removals' = removals + 1
  BY DEF Reload
<1>2. /\ \A m \in Messages : outgoing'[m] = "none"
      /\ outgoing' \in [Messages -> {"none", "pending", "failed"}]
  BY <1>1
<1>3. Pending(outgoing') = {}
  BY <1>2 DEF Pending
<1>4. Pending(outgoing) \subseteq givenUp' /\ givenUp' \subseteq Messages
  BY <1>1 DEF Pending, TypeOK
<1>5. /\ queue' \in Seq(Messages) /\ detached' \in BOOLEAN /\ notice' \in BOOLEAN
      /\ loop' \in {0} \cup Tries /\ events' \subseteq Messages
  BY <1>1, EmptySeq
<1>6. request' \in [Tries -> Request] /\ Kept(request, request')
  BY ReloadKept DEF TypeOK
<1>7. removals' \in 0..MaxRemovals
  BY <1>1, BoundsAssumption DEF TypeOK
<1>8. TypeOK'
  BY <1>1, <1>2, <1>4, <1>5, <1>6, <1>7 DEF TypeOK
<1>9. Counted'
  BY <1>1 DEF Counted, Written
<1>10. /\ UNCHANGED <<composed, tries>> /\ queue' = <<>> /\ loop' = 0 /\ ~detached'
       /\ \A i \in Tries : request'[i].msg \in {0, request[i].msg}
  BY <1>1, <1>6 DEF Kept
<1>11. TabInv'
  <2> HIDE DEF TabInv
  <2> QED
    BY <1>2, <1>3, <1>8, <1>9, <1>10, TabEnds
<1> QED
  BY <1>1, <1>2, <1>3, <1>4, <1>6, <1>11

\* A step of the server does not disturb the tab.
LEMMA AtTab ==
    ASSUME TabInv, NEW i \in Tries, NEW stage \in Stages, At(i, stage), Counted',
           seq' \in [Messages -> 0..MaxMessages], lastSeq' \in Nat, events' \subseteq Messages,
           UNCHANGED <<member, removals, notice, composed, ahead, outgoing, queue, loop,
                       detached, tries, givenUp>>
    PROVE  TabInv'
<1>1. /\ request' \in [Tries -> Request]
      /\ \A j \in Tries \ {i} : request'[j] = request[j]
      /\ request'[i].msg \in {0, request[i].msg} /\ request'[i].open = request[i].open
      /\ request[i].open => request'[i].msg = request[i].msg
  BY AtRequest DEF TabInv, TypeOK
<1>2. TypeOK'
  BY <1>1 DEF TabInv, TypeOK
<1>3. Fades(outgoing, outgoing')
  BY DEF Fades
<1>4. \A j \in Tries : request'[j].msg \in {0, request[j].msg}
  BY <1>1
<1>5. loop # 0 => request'[loop].open /\ request'[loop].msg = request[loop].msg
  <2>1. loop # 0 => loop \in Tries /\ request[loop].open
    BY DEF TabInv, TypeOK, LoopInv
  <2> QED
    BY <1>1, <2>1
<1> QED
  BY <1>2, <1>3, <1>4, <1>5, TabStays

\* A transaction commits: it writes the next message, or the UNIQUE constraint refuses it.
LEMMA CommitTab ==
    ASSUME TabInv, NEW i \in Tries, Commit(i), request[i].msg # 0
    PROVE  /\ TabInv' /\ request[i].msg \in Messages
           /\ \/ /\ seq[request[i].msg] # 0 /\ At(i, "error")
                 /\ UNCHANGED <<seq, lastSeq, events>>
              \/ /\ seq[request[i].msg] = 0 /\ At(i, "ok")
                 /\ lastSeq' = lastSeq + 1 /\ events' = events \cup {request[i].msg}
                 /\ seq'[request[i].msg] = lastSeq + 1
                 /\ \A b \in Messages : b # request[i].msg => seq'[b] = seq[b]
           /\ UNCHANGED <<composed, ahead, outgoing, queue, givenUp>>
<1>1. PICK m : m = request[i].msg
  OBVIOUS
<1>2. m \in Messages
  BY <1>1 DEF TabInv, TypeOK, Request, Messages
<1>3. UNCHANGED <<member, removals, notice, composed, ahead, outgoing, queue, loop,
                  detached, tries, givenUp>>
  BY DEF Commit
<1>4. CASE seq[m] # 0
  <2>1. At(i, "error") /\ UNCHANGED <<seq, lastSeq, events>>
    BY <1>1, <1>4 DEF Commit
  <2>2. Counted'
    BY <2>1 DEF TabInv, Counted, Written
  <2>3. TabInv'
    BY <1>3, <2>1, <2>2, AtTab DEF TabInv, TypeOK, Stages
  <2> QED
    BY <1>1, <1>2, <1>3, <1>4, <2>1, <2>3
<1>5. CASE seq[m] = 0
  <2>1. /\ At(i, "ok") /\ lastSeq' = lastSeq + 1
        /\ seq' = [seq EXCEPT ![m] = lastSeq + 1] /\ events' = events \cup {m}
    BY <1>1, <1>5 DEF Commit
  <2>2. Written \subseteq Messages /\ m \notin Written /\ Cardinality(Written) = lastSeq
    BY <1>5 DEF Written, TabInv, Counted
  <2>3. /\ Cardinality(Written \cup {m}) = lastSeq + 1
        /\ Cardinality(Written) < MaxMessages /\ lastSeq \in Nat
    <3>1. Written # Messages
      BY <1>2, <2>2
    <3> QED
      BY <2>2, <3>1, Count DEF TabInv, TypeOK
  <2>4. lastSeq + 1 \in 0..MaxMessages /\ lastSeq + 1 # 0
    BY <2>2, <2>3, BoundsAssumption
  <2>5. /\ seq' \in [Messages -> 0..MaxMessages] /\ seq'[m] = lastSeq + 1
        /\ \A b \in Messages : b # m => seq'[b] = seq[b]
    BY <1>2, <2>1, <2>4 DEF TabInv, TypeOK
  <2>6. Written' = Written \cup {m}
    BY <1>2, <2>4, <2>5 DEF Written
  <2>7. Counted'
    BY <2>1, <2>3, <2>6 DEF Counted
  <2>8. lastSeq' \in Nat /\ events' \subseteq Messages
    BY <1>2, <2>1, <2>3 DEF TabInv, TypeOK
  <2>9. TabInv'
    BY <1>3, <2>1, <2>5, <2>7, <2>8, AtTab DEF Stages
  <2> QED
    BY <1>1, <1>2, <1>3, <1>5, <2>1, <2>5, <2>9
<1> QED
  BY <1>4, <1>5

\* A step of a transaction before its commit.
LEMMA ServerTab ==
    ASSUME TabInv, NEW i \in Tries, Lock(i) \/ Lookup(i) \/ Abort(i)
    PROVE  /\ TabInv'
           /\ UNCHANGED <<seq, lastSeq, events, composed, ahead, outgoing, queue, givenUp>>
           /\ \E stage \in Stages :
                  /\ At(i, stage)
                  /\ stage # "error" => request[i].stage \in {"sent", "locked"}
                  /\ stage = "ok" => seq[request[i].msg] # 0
<1>1. UNCHANGED <<seq, lastSeq, member, removals, events, notice, composed, ahead, outgoing,
                  queue, loop, detached, tries, givenUp>>
  BY DEF Lock, Lookup, Abort, server
<1>2. PICK stage \in Stages :
         /\ At(i, stage)
         /\ stage # "error" => request[i].stage \in {"sent", "locked"}
         /\ stage = "ok" => seq[request[i].msg] # 0
  <2>1. CASE Lock(i)
    BY <2>1 DEF Lock, Stages
  <2>2. CASE Lookup(i)
    BY <2>2 DEF Lookup, Stages
  <2>3. CASE Abort(i)
    BY <2>3 DEF Abort, Stages
  <2> QED
    BY <2>1, <2>2, <2>3
<1>3. Counted'
  BY <1>1 DEF TabInv, Counted, Written
<1>4. TabInv'
  BY <1>1, <1>2, <1>3, AtTab DEF TabInv, TypeOK
<1> QED
  BY <1>1, <1>2, <1>4

\* The steps that leave the queue and the requests alone.
LEMMA QuietTab ==
    ASSUME TabInv,
           \/ \E m \in Messages : Discard(m) \/ Receive(m)
           \/ Remove \/ AddMember \/ UNCHANGED vars
    PROVE  /\ TabInv' /\ Fades(outgoing, outgoing') /\ events' \subseteq events
           /\ UNCHANGED <<seq, lastSeq, composed, ahead, queue, request, givenUp>>
<1> USE DEF TabInv
<1>1. /\ UNCHANGED <<seq, lastSeq, composed, ahead, queue, loop, detached, tries, request, givenUp>>
      /\ events' \subseteq events
  <2>1. CASE \E m \in Messages : Discard(m) \/ Receive(m)
    BY <2>1 DEF Discard, Receive, server
  <2>2. CASE Remove \/ AddMember \/ UNCHANGED vars
    BY <2>2 DEF Remove, AddMember, sender, vars
  <2> QED
    BY <2>1, <2>2
<1>2. Fades(outgoing, outgoing') /\ outgoing' \in [Messages -> {"none", "pending", "failed"}]
  <2>1. ASSUME NEW m \in Messages, Discard(m) \/ Receive(m)
        PROVE  Fades(outgoing, outgoing') /\ outgoing' \in [Messages -> {"none", "pending", "failed"}]
    <3>1. outgoing' = [outgoing EXCEPT ![m] = "none"]
      BY <2>1 DEF Discard, Receive, Confirmed
    <3> QED
      BY <3>1 DEF TypeOK, Fades
  <2>2. CASE Remove \/ AddMember \/ UNCHANGED vars
    <3>1. outgoing' = outgoing
      BY <2>2 DEF Remove, AddMember, sender, vars
    <3> QED
      BY <3>1 DEF TypeOK, Fades
  <2> QED
    BY <2>1, <2>2
<1>3. member' \in BOOLEAN /\ removals' \in 0..MaxRemovals /\ notice' \in BOOLEAN
  <2>1. CASE \E m \in Messages : Discard(m) \/ Receive(m)
    BY <2>1 DEF Discard, Receive, server, TypeOK
  <2>2. CASE Remove
    <3>1. member' = FALSE /\ notice' = TRUE /\ removals < MaxRemovals /\ removals' = removals + 1
      BY <2>2 DEF Remove
    <3>2. removals \in Nat
      BY DEF TypeOK
    <3>3. removals' \in 0..MaxRemovals
      BY <3>1, <3>2, BoundsAssumption
    <3> QED
      BY <3>1, <3>3
  <2>3. CASE AddMember \/ UNCHANGED vars
    BY <2>3 DEF AddMember, vars, TypeOK
  <2> QED
    BY <2>1, <2>2, <2>3
<1>4. TypeOK'
  BY <1>1, <1>2, <1>3 DEF TypeOK
<1>5. Counted'
  BY <1>1 DEF Counted, Written
<1>6. /\ loop # 0 => request'[loop].open /\ request'[loop].msg = request[loop].msg
      /\ \A i \in Tries : request'[i].msg \in {0, request[i].msg}
  BY <1>1 DEF LoopInv
<1>7. TabInv'
  <2> HIDE DEF TabInv
  <2> QED
    BY <1>1, <1>2, <1>4, <1>5, <1>6, TabStays
<1> QED
  BY <1>1, <1>2, <1>7

\* A request fails.
LEMMA RejectedTab ==
    ASSUME TabInv, NEW i \in Tries, Rejected(i)
    PROVE  /\ TabInv' /\ request' = Closed(i) /\ Kept(request, request')
           /\ givenUp \subseteq givenUp'
           /\ UNCHANGED <<seq, lastSeq, events, composed, ahead>>
           /\ \/ UNCHANGED <<outgoing, queue, givenUp>>
              \/ /\ queue' = <<>> /\ Pending(outgoing') = {} /\ Pending(outgoing) \subseteq givenUp'
                 /\ \A m \in Messages :
                        outgoing'[m] = "failed" => outgoing[m] = "failed" \/ m \in givenUp'
<1>1. PICK r : r = Closed(i)
  OBVIOUS
<1>2. /\ r \in [Tries -> Request]
      /\ \A j \in Tries \ {i} : r[j] = request[j]
      /\ Kept(request, r)
  BY <1>1, ClosedKept DEF TabInv, TypeOK
<1>3. /\ loop = i => FailQueue(r)
      /\ loop # i => request' = r /\ UNCHANGED <<outgoing, queue, loop, detached, tries, givenUp>>
      /\ UNCHANGED <<seq, lastSeq, member, removals, events, notice, composed, ahead>>
  BY <1>1 DEF Rejected, server
<1>4. CASE loop = i
  BY <1>1, <1>2, <1>3, <1>4, FailQueueTab
<1>5. CASE loop # i
  <2>1. TypeOK' /\ Counted'
    BY <1>2, <1>3, <1>5 DEF TabInv, TypeOK, Counted, Written
  <2>2. /\ loop # 0 => request'[loop].open /\ request'[loop].msg = request[loop].msg
        /\ \A j \in Tries : request'[j].msg \in {0, request[j].msg}
    BY <1>2, <1>3, <1>5 DEF TabInv, TypeOK, LoopInv, Kept
  <2>3. Fades(outgoing, outgoing')
    BY <1>3, <1>5 DEF Fades
  <2>4. TabInv'
    BY <1>3, <1>5, <2>1, <2>2, <2>3, TabStays
  <2> QED
    BY <1>1, <1>2, <1>3, <1>5, <2>4
<1> QED
  BY <1>4, <1>5

\* SEND_TIMEOUT_MS is over.
LEMMA TimedOutTab ==
    ASSUME TabInv, TimedOut
    PROVE  /\ TabInv' /\ request' = request /\ queue' = <<>>
           /\ Pending(outgoing') = {} /\ Pending(outgoing) \subseteq givenUp'
           /\ givenUp \subseteq givenUp'
           /\ \A m \in Messages : outgoing'[m] = "failed" => outgoing[m] = "failed" \/ m \in givenUp'
           /\ UNCHANGED <<seq, lastSeq, events, composed, ahead>>
<1>1. /\ request \in [Tries -> Request] /\ Kept(request, request) /\ FailQueue(request)
      /\ UNCHANGED <<seq, lastSeq, member, removals, events, notice, composed, ahead>>
  BY DEF TabInv, TypeOK, Kept, TimedOut, server
<1> QED
  BY <1>1, FailQueueTab DEF TimedOut
-----------------------------------------------------------------------------
(* The order of the messages. *)

\* What lets b be sent although a was composed before it: a is written, or given up, and
\* with it b if b was composed while a was being sent.
Settled(a, b) == seq[a] # 0 \/ (a \in givenUp /\ (a \in ahead[b] => b \in givenUp))

\* b waits for a.
Behind(a, b) == {a, b} \subseteq Pending(outgoing) /\ Before(queue, a, b)

Chain == \A a, b \in 1..composed : a < b => Settled(a, b) \/ Behind(a, b)

\* What the server works on may be written.
Live == {"sent", "locked", "absent"}
SentSettled ==
    \A i \in Tries : request[i].stage \in Live =>
        /\ request[i].msg # 0
        /\ \A a \in Messages : a < request[i].msg => Settled(a, request[i].msg)

\* Nothing is confirmed that was not written, and nothing vanishes that was not given up.
Accounted ==
    /\ \A i \in Tries : request[i].stage = "ok" => request[i].msg # 0 /\ seq[request[i].msg] # 0
    /\ \A m \in events : seq[m] # 0
    /\ \A m \in 1..composed : outgoing[m] = "pending" \/ seq[m] # 0 \/ m \in givenUp
    /\ \A m \in Messages : outgoing[m] = "failed" => m \in givenUp
    /\ \A m \in Messages : seq[m] # 0 => m <= composed
    /\ \A m \in Messages : seq[m] <= lastSeq

OrderInv == TabInv /\ Accounted /\ Chain /\ SentSettled /\ InOrder

\* What is being sent stays so, or is written, or everything was given up.
Accounts ==
    \/ Pending(outgoing) \subseteq givenUp'
    \/ \A m \in Pending(outgoing) : m \in Pending(outgoing') \/ seq[m] # 0

\* The queue keeps its order.
KeepsOrder ==
    \A a, b \in Pending(outgoing) \cap Pending(outgoing') :
        Before(queue, a, b) => Before(queue', a, b)

\* What is newly composed is sent after what is being sent.
Joins ==
    \A b \in Messages : composed < b /\ b <= composed' =>
        /\ outgoing'[b] = "pending" /\ seq[b] = 0
        /\ \A a \in Messages : a < b =>
               IF a \in Pending(outgoing) THEN Before(queue', a, b) /\ a \in Pending(outgoing')
                                          ELSE a \notin ahead'[b]

\* A step of the tab keeps the order.
LEMMA TabOrder ==
    ASSUME OrderInv, TabInv', UNCHANGED <<seq, lastSeq>>, events' \subseteq events,
           givenUp \subseteq givenUp', composed' \in {composed, composed + 1},
           \A b \in 1..composed : ahead'[b] = ahead[b],
           \A m \in Messages : outgoing'[m] = "failed" => m \in givenUp',
           Accounts, KeepsOrder, Joins,
           NEW r \in [Tries -> Request], Kept(request, r), Sends(r, request', queue')
    PROVE  OrderInv'
<1> USE DEF OrderInv
<1>1. /\ composed \in 0..MaxMessages /\ composed' \in 0..MaxMessages
      /\ 1..composed' \subseteq Messages /\ 1..composed \subseteq 1..composed'
      /\ \A m \in Messages : m \in Nat /\ m > 0
  BY BoundsAssumption DEF TabInv, TypeOK, Messages
<1>2. ASSUME NEW a, NEW b \in 1..composed, Settled(a, b) PROVE Settled(a, b)'
  BY <1>2 DEF Settled
<1>3. ASSUME NEW i \in Tries
      PROVE  \/ /\ queue' # <<>> /\ request'[i].msg = queue'[1] /\ request'[i].stage = "sent"
             \/ request'[i].stage = "error"
             \/ request'[i].stage = request[i].stage /\ request'[i].msg = request[i].msg
  <2>1. CASE request'[i] = r[i]
    BY <2>1 DEF Kept
  <2>2. CASE request'[i] # r[i]
    <3>1. queue' # <<>> /\ request'[i] = Fresh(queue'[1])
      BY <2>2 DEF Sends
    <3> QED
      BY <3>1 DEF Fresh
  <2> QED
    BY <2>1, <2>2
<1>4. ASSUME NEW m \in 1..composed'
      PROVE  outgoing'[m] = "pending" \/ seq'[m] # 0 \/ m \in givenUp'
  <2>1. CASE m \in 1..composed
    <3>1. outgoing[m] = "pending" \/ seq[m] # 0 \/ m \in givenUp
      BY <2>1 DEF Accounted
    <3>2. m \in Messages /\ (outgoing[m] = "pending" => m \in Pending(outgoing))
      BY <1>1 DEF Pending
    <3> QED
      BY <3>1, <3>2 DEF Accounts, Pending
  <2>2. CASE m \notin 1..composed
    <3>1. m \in Messages /\ composed < m /\ m <= composed'
      BY <1>1, <2>2
    <3> QED
      BY <3>1 DEF Joins
  <2> QED
    BY <2>1, <2>2
<1>5. Accounted'
  <2>1. \A i \in Tries : request'[i].stage = "ok" => request'[i].msg # 0 /\ seq'[request'[i].msg] # 0
    BY <1>3 DEF Accounted
  <2>2. \A m \in events' : seq'[m] # 0
    BY DEF Accounted
  <2>3. ASSUME NEW m \in Messages, seq'[m] # 0 PROVE m <= composed'
    <3>1. m <= composed
      BY <2>3 DEF Accounted
    <3> QED
      BY <1>1, <3>1
  <2>4. \A m \in Messages : seq'[m] <= lastSeq'
    BY DEF Accounted
  <2> QED
    BY <1>4, <2>1, <2>2, <2>3, <2>4 DEF Accounted
<1>6. InOrder'
  <2> SUFFICES ASSUME NEW a \in Messages, NEW b \in Messages, a < b, seq'[b] # 0
               PROVE  \/ seq'[a] # 0 /\ seq'[a] < seq'[b]
                      \/ a \in givenUp' /\ (a \in ahead'[b] => b \in givenUp')
    BY DEF InOrder
  <2>1. \/ seq[a] # 0 /\ seq[a] < seq[b]
        \/ a \in givenUp /\ (a \in ahead[b] => b \in givenUp)
    BY DEF InOrder
  <2>2. b \in 1..composed
    BY <1>1 DEF Accounted
  <2> QED
    BY <2>1, <2>2
<1>7. Chain'
  <2> SUFFICES ASSUME NEW a \in 1..composed', NEW b \in 1..composed', a < b,
                      ~Settled(a, b)'
               PROVE  Behind(a, b)'
    BY DEF Chain
  <2>1. a \in Messages /\ b \in Messages
    BY <1>1
  <2>2. CASE b \in 1..composed
    <3>1. a \in 1..composed
      BY <1>1, <2>2
    <3>2. ~Settled(a, b)
      BY <1>2, <2>2
    <3>3. Behind(a, b)
      BY <2>2, <3>1, <3>2 DEF Chain
    <3>4. a \in Pending(outgoing) /\ b \in Pending(outgoing) /\ Before(queue, a, b)
      BY <3>3 DEF Behind
    <3>5. seq[a] = 0 /\ ~(a \in givenUp' /\ b \in givenUp')
      BY DEF Settled
    <3>6. \A m \in Pending(outgoing) : m \in Pending(outgoing') \/ seq[m] # 0
      BY <3>4, <3>5 DEF Accounts
    <3>7. seq[b] = 0
      <4>1. seq'[b] # 0 => Settled(a, b)'
        BY <1>6, <2>1 DEF InOrder, Settled
      <4> QED
        BY <4>1
    <3>8. a \in Pending(outgoing') /\ b \in Pending(outgoing')
      BY <3>4, <3>5, <3>6, <3>7
    <3>9. Before(queue', a, b)
      BY <3>4, <3>8 DEF KeepsOrder
    <3> QED
      BY <3>8, <3>9 DEF Behind
  <2>3. CASE b \notin 1..composed
    <3>1. composed < b /\ b <= composed'
      BY <1>1, <2>3
    <3>2. /\ outgoing'[b] = "pending"
          /\ IF a \in Pending(outgoing) THEN Before(queue', a, b) /\ a \in Pending(outgoing')
                                        ELSE a \notin ahead'[b]
      BY <2>1, <3>1 DEF Joins
    <3>3. b \in Pending(outgoing')
      BY <2>1, <3>2 DEF Pending
    <3>4. CASE a \in Pending(outgoing)
      BY <3>2, <3>3, <3>4 DEF Behind
    <3>5. CASE a \notin Pending(outgoing)
      <4>1. a \notin ahead'[b] /\ seq'[a] = 0 /\ a \notin givenUp'
        BY <3>2, <3>5 DEF Settled
      <4>2. outgoing'[a] = "pending"
        BY <1>4, <4>1
      <4>3. a \notin 1..composed
        <5>1. a \in 1..composed => outgoing[a] = "pending" \/ seq[a] # 0 \/ a \in givenUp
          BY DEF Accounted
        <5> QED
          BY <2>1, <3>5, <4>1, <5>1 DEF Pending
      <4>4. composed < a /\ a <= composed'
        BY <1>1, <4>3
      <4> QED
        BY <1>1, <2>1, <3>1, <4>4
    <3> QED
      BY <3>4, <3>5
  <2> QED
    BY <2>2, <2>3
<1>8. SentSettled'
  <2>1. ASSUME NEW i \in Tries, request'[i].stage \in Live, NEW m, m = request'[i].msg
        PROVE  m # 0 /\ \A a \in Messages : a < m => Settled(a, m)'
    <3>1. CASE request'[i].stage = request[i].stage /\ m = request[i].msg
      <4>1. m # 0 /\ \A a \in Messages : a < m => Settled(a, m)
        BY <2>1, <3>1 DEF SentSettled
      <4>2. m \in 1..composed
        BY <3>1, <4>1 DEF TabInv, LoopInv, TypeOK, Request
      <4> QED
        BY <1>2, <4>1, <4>2
    <3>2. CASE queue' # <<>> /\ m = queue'[1]
      <4>1. queue' \in Seq(Messages) /\ Once(queue') /\ Elems(queue') \subseteq 1..composed'
        BY DEF TabInv, Holds
      <4>2. Len(queue') \in Nat /\ 1 \in 1..Len(queue')
        BY <3>2, <4>1, EmptySeq
      <4>3. m \in 1..composed' /\ m # 0
        BY <3>2, <4>1, <4>2 DEF Elems
      <4>4. \A a : ~Before(queue', a, m)
        BY <3>2, <4>1, <4>2, HeadFirst
      <4>5. \A a \in Messages : a < m => a \in 1..composed'
        BY <1>1, <4>3
      <4>6. \A a, b \in 1..composed' : a < b => Settled(a, b)' \/ Behind(a, b)'
        BY <1>7 DEF Chain
      <4>7. \A a : ~Behind(a, m)'
        BY <4>4 DEF Behind
      <4> QED
        BY <4>3, <4>5, <4>6, <4>7
    <3> QED
      BY <1>3, <2>1, <3>1, <3>2 DEF Live
  <2> QED
    BY <2>1 DEF SentSettled
<1> QED
  BY <1>5, <1>6, <1>7, <1>8

\* A step of the server keeps the order: what it writes may be written.
LEMMA ServerOrder ==
    ASSUME OrderInv, TabInv', NEW i \in Tries, NEW stage \in Stages, At(i, stage),
           UNCHANGED <<composed, ahead, outgoing, queue, givenUp>>,
           stage # "error" => request[i].stage \in Live,
           \A b \in Messages : b # request[i].msg => seq'[b] = seq[b],
           stage = "ok" => seq'[request[i].msg] # 0,
           \/ UNCHANGED <<seq, lastSeq, events>>
           \/ /\ request[i].stage \in Live /\ events' = events \cup {request[i].msg}
              /\ seq[request[i].msg] = 0
              /\ seq'[request[i].msg] = lastSeq + 1 /\ lastSeq' = lastSeq + 1
    PROVE  OrderInv'
<1> USE DEF OrderInv
<1>1. PICK m : m = request[i].msg
  OBVIOUS
<1>2. /\ lastSeq \in Nat /\ composed \in 0..MaxMessages
      /\ \A b \in Messages : seq[b] \in Nat /\ seq[b] <= lastSeq
  BY BoundsAssumption DEF TabInv, TypeOK, Accounted
<1>3. ASSUME NEW b \in Messages, seq[b] # 0 PROVE seq'[b] = seq[b]
  BY <1>1, <1>3
<1>4. ASSUME NEW a \in Messages, NEW b, Settled(a, b) PROVE Settled(a, b)'
  BY <1>3, <1>4 DEF Settled
<1>5. /\ \A j \in Tries \ {i} : request'[j] = request[j]
      /\ request'[i].stage # "error" => request'[i].stage = stage /\ request'[i].msg = m
  BY <1>1, AtRequest DEF TabInv, TypeOK
<1>6. request[i].stage \in Live =>
          /\ m \in Messages /\ m <= composed
          /\ \A a \in Messages : a < m => Settled(a, m)
  <2>1. request[i].stage \in Live => m # 0 /\ \A a \in Messages : a < m => Settled(a, m)
    BY <1>1 DEF SentSettled
  <2>2. m <= composed /\ m \in 0..MaxMessages
    BY <1>1 DEF TabInv, LoopInv, TypeOK, Request
  <2> QED
    BY <2>1, <2>2 DEF Messages
<1>7. SentSettled'
  <2>1. ASSUME NEW j \in Tries, request'[j].stage \in Live, NEW n, n = request'[j].msg
        PROVE  n # 0 /\ \A a \in Messages : a < n => Settled(a, n)'
    <3>1. request[j].stage \in Live /\ n = request[j].msg
      BY <1>1, <1>5, <2>1 DEF Live
    <3>2. n # 0 /\ \A a \in Messages : a < n => Settled(a, n)
      BY <3>1 DEF SentSettled
    <3> QED
      BY <1>4, <3>2
  <2> QED
    BY <2>1 DEF SentSettled
<1>8. Chain'
  <2>1. ASSUME NEW a \in 1..composed, NEW b \in 1..composed, a < b
        PROVE  Settled(a, b)' \/ Behind(a, b)'
    <3>1. a \in Messages
      BY <1>2, BoundsAssumption DEF Messages
    <3>2. Settled(a, b) \/ Behind(a, b)
      BY <2>1 DEF Chain
    <3>3. Behind(a, b) => Behind(a, b)'
      BY DEF Behind
    <3> QED
      BY <1>4, <3>1, <3>2, <3>3
  <2> QED
    BY <2>1 DEF Chain
<1>9. Accounted'
  <2>1. ASSUME NEW j \in Tries, request'[j].stage = "ok", NEW n, n = request'[j].msg
        PROVE  n # 0 /\ seq'[n] # 0
    <3>1. CASE j = i
      BY <1>1, <1>5, <1>6, <2>1, <3>1 DEF Messages
    <3>2. CASE j # i
      <4>1. n # 0 /\ seq[n] # 0 /\ n \in Messages
        <5>1. n = request[j].msg /\ request[j].stage = "ok"
          BY <1>5, <2>1, <3>2
        <5>2. n # 0 /\ seq[n] # 0
          BY <5>1 DEF Accounted
        <5>3. n \in 0..MaxMessages
          BY <5>1 DEF TabInv, TypeOK, Request
        <5> QED
          BY <5>2, <5>3 DEF Messages
      <4> QED
        BY <1>3, <4>1
    <3> QED
      BY <3>1, <3>2
  <2>2. ASSUME NEW n \in events' PROVE seq'[n] # 0
    <3>1. CASE n \in events
      <4>1. seq[n] # 0 /\ n \in Messages
        BY <3>1 DEF Accounted, TabInv, TypeOK
      <4> QED
        BY <1>3, <4>1
    <3>2. CASE n \notin events
      BY <1>2, <2>2, <3>2
    <3> QED
      BY <3>1, <3>2
  <2>3. ASSUME NEW n \in 1..composed
        PROVE  outgoing[n] = "pending" \/ seq'[n] # 0 \/ n \in givenUp
    <3>1. n \in Messages
      BY <1>2, BoundsAssumption DEF Messages
    <3> QED
      BY <1>3, <3>1 DEF Accounted
  <2>4. ASSUME NEW n \in Messages PROVE seq'[n] <= lastSeq' /\ (seq'[n] # 0 => n <= composed)
    <3>1. CASE n = m /\ ~UNCHANGED <<seq, lastSeq, events>>
      BY <1>1, <1>2, <1>6, <3>1
    <3>2. CASE n # m /\ ~UNCHANGED <<seq, lastSeq, events>>
      <4>1. seq'[n] = seq[n] /\ lastSeq' = lastSeq + 1
        BY <1>1, <3>2
      <4>2. seq[n] # 0 => n <= composed
        BY DEF Accounted
      <4> QED
        BY <1>2, <4>1, <4>2
    <3>3. CASE UNCHANGED <<seq, lastSeq, events>>
      BY <3>3 DEF Accounted
    <3> QED
      BY <3>1, <3>2, <3>3
  <2>5. \A n \in Messages : outgoing[n] = "failed" => n \in givenUp
    BY DEF Accounted
  <2>6. /\ \A j \in Tries : request'[j].stage = "ok" =>
               request'[j].msg # 0 /\ seq'[request'[j].msg] # 0
        /\ \A n \in events' : seq'[n] # 0
    BY <2>1, <2>2
  <2> QED
    BY <2>3, <2>4, <2>5, <2>6 DEF Accounted
<1>10. InOrder'
  <2> SUFFICES ASSUME NEW a \in Messages, NEW b \in Messages, a < b, seq'[b] # 0
               PROVE  \/ seq'[a] # 0 /\ seq'[a] < seq'[b]
                      \/ a \in givenUp' /\ (a \in ahead'[b] => b \in givenUp')
    BY DEF InOrder
  <2>1. CASE seq[b] # 0
    <3>1. \/ seq[a] # 0 /\ seq[a] < seq[b]
          \/ a \in givenUp /\ (a \in ahead[b] => b \in givenUp)
      BY <2>1 DEF InOrder
    <3> QED
      BY <1>3, <2>1, <3>1
  <2>2. CASE seq[b] = 0
    <3>1. /\ request[i].stage \in Live /\ b = m
          /\ seq'[m] = lastSeq + 1
      BY <1>1, <2>2
    <3>2. Settled(a, b)
      BY <1>6, <3>1
    <3>3. seq[a] # 0 => seq'[a] = seq[a] /\ seq[a] < lastSeq + 1
      BY <1>2, <1>3
    <3> QED
      BY <3>1, <3>2, <3>3 DEF Settled
  <2> QED
    BY <2>1, <2>2
<1> QED
  BY <1>7, <1>8, <1>9, <1>10

\* Every step of the tab and of the server keeps the order.
LEMMA NextOrder ==
    ASSUME OrderInv, [Next]_vars
    PROVE  OrderInv'
<1>1. /\ TabInv /\ TypeOK /\ request \in [Tries -> Request] /\ Kept(request, request)
      /\ composed \in Nat
      /\ \A m \in Messages : outgoing[m] = "failed" => m \in givenUp
      /\ Pending(outgoing) \subseteq Messages
  BY BoundsAssumption DEF OrderInv, TabInv, TypeOK, Kept, Accounted, Pending
<1>2. composed' = composed => Joins
  <2>1. \A b \in Messages : b \in Nat
    BY DEF Messages
  <2> QED
    BY <1>1, <2>1 DEF Joins
<1>3. CASE Compose
  <2>1. PICK n : n = composed'
    OBVIOUS
  <2>2. /\ TabInv' /\ Sends(request, request', queue')
        /\ n = composed + 1 /\ n \in Messages
        /\ ahead' = [ahead EXCEPT ![n] = Pending(outgoing)]
        /\ Pending(outgoing') = Pending(outgoing) \cup {n}
        /\ \A b \in Messages : b # n => outgoing'[b] = outgoing[b]
        /\ outgoing'[n] = "pending"
        /\ \A a \in Pending(outgoing) : \A b : Before(queue, a, b) => Before(queue', a, b)
        /\ \A a \in Pending(outgoing) : Before(queue', a, n)
        /\ UNCHANGED <<seq, lastSeq, events, givenUp>>
    BY <1>1, <1>3, <2>1, ComposeTab
  <2>3. /\ ahead'[n] = Pending(outgoing)
        /\ \A b \in 1..composed : ahead'[b] = ahead[b]
    BY <1>1, <2>2 DEF TypeOK
  <2>4. \A m \in Messages : outgoing'[m] = "failed" => m \in givenUp'
    BY <1>1, <2>2
  <2>5. Accounts /\ KeepsOrder
    BY <2>2 DEF Accounts, KeepsOrder
  <2>6. seq[n] = 0
    BY <1>1, <2>2 DEF OrderInv, Accounted
  <2>7. \A b \in Messages : composed < b /\ b <= composed' => b = n
    BY <1>1, <2>1, <2>2 DEF Messages
  <2>8. Joins
    BY <2>2, <2>3, <2>6, <2>7 DEF Joins
  <2> QED
    BY <1>1, <2>1, <2>2, <2>3, <2>4, <2>5, <2>8, TabOrder
<1>4. ASSUME NEW m \in Messages, Retry(m) PROVE OrderInv'
  <2>1. /\ TabInv' /\ Sends(request, request', queue')
        /\ Pending(outgoing') = Pending(outgoing) \cup {m}
        /\ \A b \in Messages : b # m => outgoing'[b] = outgoing[b]
        /\ outgoing'[m] = "pending"
        /\ \A a \in Pending(outgoing) : \A b : Before(queue, a, b) => Before(queue', a, b)
        /\ UNCHANGED <<seq, lastSeq, events, givenUp, composed, ahead>>
    BY <1>1, <1>4, RetryTab
  <2>2. \A b \in Messages : outgoing'[b] = "failed" => b \in givenUp'
    BY <1>1, <2>1
  <2>3. Accounts /\ KeepsOrder
    BY <2>1 DEF Accounts, KeepsOrder
  <2> QED
    BY <1>1, <1>2, <2>1, <2>2, <2>3, TabOrder
<1>5. ASSUME NEW i \in Tries, Answered(i) PROVE OrderInv'
  <2>1. /\ TabInv' /\ Sends(Closed(i), request', queue')
        /\ Fades(outgoing, outgoing')
        /\ \A b \in Messages : b # request[i].msg => outgoing'[b] = outgoing[b]
        /\ \A a \in Pending(outgoing') : \A b : Before(queue, a, b) => Before(queue', a, b)
        /\ UNCHANGED <<seq, lastSeq, events, givenUp, composed, ahead>>
    BY <1>1, <1>5, AnsweredTab
  <2>2. PICK r : r = Closed(i)
    OBVIOUS
  <2>3. r \in [Tries -> Request] /\ Kept(request, r)
    BY <1>1, <2>2, ClosedKept
  <2>4. seq[request[i].msg] # 0
    BY <1>5 DEF Answered, OrderInv, Accounted
  <2>5. \A b \in Messages : outgoing'[b] = "failed" => b \in givenUp'
    BY <1>1, <2>1 DEF Fades
  <2>6. Accounts
    BY <1>1, <2>1, <2>4 DEF Accounts, Pending
  <2>7. KeepsOrder
    BY <2>1 DEF KeepsOrder
  <2> QED
    BY <1>1, <1>2, <2>1, <2>2, <2>3, <2>5, <2>6, <2>7, TabOrder
<1>6. ASSUME NEW i \in Tries, Rejected(i) PROVE OrderInv'
  <2>1. /\ TabInv' /\ request' = Closed(i) /\ Kept(request, request')
        /\ givenUp \subseteq givenUp'
        /\ UNCHANGED <<seq, lastSeq, events, composed, ahead>>
        /\ \/ UNCHANGED <<outgoing, queue, givenUp>>
           \/ /\ queue' = <<>> /\ Pending(outgoing') = {} /\ Pending(outgoing) \subseteq givenUp'
              /\ \A m \in Messages :
                     outgoing'[m] = "failed" => outgoing[m] = "failed" \/ m \in givenUp'
    BY <1>1, <1>6, RejectedTab
  <2>2. request' \in [Tries -> Request] /\ Sends(request', request', queue')
    BY <2>1 DEF TabInv, TypeOK, Sends
  <2>3. \A b \in Messages : outgoing'[b] = "failed" => b \in givenUp'
    BY <1>1, <2>1
  <2>4. Accounts /\ KeepsOrder
    BY <2>1 DEF Accounts, KeepsOrder
  <2> QED
    BY <1>1, <1>2, <2>1, <2>2, <2>3, <2>4, TabOrder
<1>7. CASE TimedOut
  <2>1. /\ TabInv' /\ request' = request /\ queue' = <<>>
        /\ Pending(outgoing') = {} /\ Pending(outgoing) \subseteq givenUp'
        /\ givenUp \subseteq givenUp'
        /\ \A m \in Messages : outgoing'[m] = "failed" => outgoing[m] = "failed" \/ m \in givenUp'
        /\ UNCHANGED <<seq, lastSeq, events, composed, ahead>>
    BY <1>1, <1>7, TimedOutTab
  <2>2. Accounts /\ KeepsOrder /\ Sends(request, request', queue')
    BY <2>1 DEF Accounts, KeepsOrder, Sends
  <2>3. \A b \in Messages : outgoing'[b] = "failed" => b \in givenUp'
    BY <1>1, <2>1
  <2> QED
    BY <1>1, <1>2, <2>1, <2>2, <2>3, TabOrder
<1>8. CASE Noticed
  <2>1. /\ TabInv' /\ request' = request
        /\ Pending(outgoing') = {} /\ Pending(outgoing) \subseteq givenUp'
        /\ givenUp \subseteq givenUp'
        /\ \A m \in Messages : outgoing'[m] = "none"
        /\ UNCHANGED <<seq, lastSeq, events, composed, ahead>>
    BY <1>1, <1>8, NoticedTab
  <2>2. Accounts /\ KeepsOrder /\ Sends(request, request', queue')
    BY <2>1 DEF Accounts, KeepsOrder, Sends
  <2>3. \A b \in Messages : outgoing'[b] = "failed" => b \in givenUp'
    BY <2>1
  <2> QED
    BY <1>1, <1>2, <2>1, <2>2, <2>3, TabOrder
<1>9. CASE Reload
  <2>1. /\ TabInv' /\ Kept(request, request')
        /\ Pending(outgoing') = {} /\ Pending(outgoing) \subseteq givenUp'
        /\ givenUp \subseteq givenUp' /\ events' \subseteq events
        /\ \A m \in Messages : outgoing'[m] = "none"
        /\ UNCHANGED <<seq, lastSeq, composed, ahead>>
    BY <1>1, <1>9, ReloadTab
  <2>2. /\ Accounts /\ KeepsOrder
        /\ request' \in [Tries -> Request] /\ Sends(request', request', queue')
    BY <2>1 DEF Accounts, KeepsOrder, Sends, TabInv, TypeOK
  <2>3. \A b \in Messages : outgoing'[b] = "failed" => b \in givenUp'
    BY <2>1
  <2> QED
    BY <1>1, <1>2, <2>1, <2>2, <2>3, TabOrder
<1>10. ASSUME NEW i \in Tries, Lock(i) \/ Lookup(i) \/ Abort(i) PROVE OrderInv'
  <2>1. /\ TabInv'
        /\ UNCHANGED <<seq, lastSeq, events, composed, ahead, outgoing, queue, givenUp>>
    BY <1>1, <1>10, ServerTab
  <2>2. PICK stage \in Stages :
           /\ At(i, stage)
           /\ stage # "error" => request[i].stage \in {"sent", "locked"}
           /\ stage = "ok" => seq[request[i].msg] # 0
    BY <1>1, <1>10, ServerTab
  <2> QED
    BY <2>1, <2>2, ServerOrder DEF Live
<1>11. ASSUME NEW i \in Tries, Commit(i) PROVE OrderInv'
  <2>1. request[i].stage \in Live /\ request[i].msg # 0
    BY <1>11 DEF Commit, Live, OrderInv, SentSettled
  <2>2. /\ TabInv' /\ request[i].msg \in Messages
        /\ UNCHANGED <<composed, ahead, outgoing, queue, givenUp>>
        /\ \/ /\ seq[request[i].msg] # 0 /\ At(i, "error")
              /\ UNCHANGED <<seq, lastSeq, events>>
           \/ /\ seq[request[i].msg] = 0 /\ At(i, "ok")
              /\ lastSeq' = lastSeq + 1 /\ events' = events \cup {request[i].msg}
              /\ seq'[request[i].msg] = lastSeq + 1
              /\ \A b \in Messages : b # request[i].msg => seq'[b] = seq[b]
    BY <1>1, <1>11, <2>1, CommitTab
  <2>3. CASE At(i, "error") /\ UNCHANGED <<seq, lastSeq, events>>
    BY <2>2, <2>3, ServerOrder DEF Stages
  <2>4. CASE /\ seq[request[i].msg] = 0 /\ At(i, "ok")
             /\ lastSeq' = lastSeq + 1 /\ events' = events \cup {request[i].msg}
             /\ seq'[request[i].msg] = lastSeq + 1
             /\ \A b \in Messages : b # request[i].msg => seq'[b] = seq[b]
    <3>1. lastSeq + 1 # 0
      BY <1>1 DEF TypeOK
    <3> QED
      BY <2>1, <2>2, <2>4, <3>1, ServerOrder DEF Stages
  <2> QED
    BY <2>2, <2>3, <2>4
<1>12. ASSUME \/ \E m \in Messages : Discard(m) \/ Receive(m)
              \/ Remove \/ AddMember \/ UNCHANGED vars
       PROVE  OrderInv'
  <2>1. /\ TabInv' /\ Fades(outgoing, outgoing') /\ events' \subseteq events
        /\ UNCHANGED <<seq, lastSeq, composed, ahead, queue, request, givenUp>>
    BY <1>1, <1>12, QuietTab
  <2>2. \A m \in Messages : m \in Pending(outgoing) => m \in Pending(outgoing') \/ seq[m] # 0
    <3>1. CASE \E m \in Messages : Discard(m) \/ Receive(m)
      <4>1. PICK m \in Messages : Discard(m) \/ Receive(m)
        BY <3>1
      <4>2. /\ outgoing' = [outgoing EXCEPT ![m] = "none"]
            /\ outgoing[m] = "failed" \/ m \in events
        BY <4>1 DEF Discard, Receive, Confirmed
      <4>3. outgoing[m] = "failed" \/ seq[m] # 0
        BY <4>2 DEF OrderInv, Accounted
      <4>4. \A b \in Messages : b # m => outgoing'[b] = outgoing[b]
        BY <1>1, <4>2 DEF TypeOK
      <4> QED
        BY <4>3, <4>4 DEF Pending
    <3>2. CASE Remove \/ AddMember \/ UNCHANGED vars
      BY <3>2 DEF Remove, AddMember, sender, vars
    <3> QED
      BY <1>12, <3>1, <3>2
  <2>3. /\ Accounts /\ KeepsOrder /\ Sends(request, request', queue')
    BY <1>1, <2>1, <2>2 DEF Accounts, KeepsOrder, Sends
  <2>4. \A b \in Messages : outgoing'[b] = "failed" => b \in givenUp'
    BY <1>1, <2>1 DEF Fades
  <2> QED
    BY <1>1, <1>2, <2>1, <2>3, <2>4, TabOrder
<1> QED
  BY <1>3, <1>4, <1>5, <1>6, <1>7, <1>8, <1>9, <1>10, <1>11, <1>12 DEF Next

LEMMA InitOrder == Init => OrderInv
<1> SUFFICES ASSUME Init PROVE OrderInv
  OBVIOUS
<1>1. /\ \A m \in Messages : seq[m] = 0 /\ outgoing[m] = "none"
      /\ \A i \in Tries : request[i] = Unused
      /\ composed = 0 /\ queue = <<>> /\ loop = 0 /\ ~detached /\ tries = 0
      /\ lastSeq = 0 /\ events = {}
  BY DEF Init
<1>2. Unused \in Request /\ Unused.msg = 0 /\ Unused.stage = "error"
  BY BoundsAssumption DEF Unused, Request, Stages
<1>3. TypeOK
  <2>1. request \in [Tries -> Request]
    BY <1>2 DEF Init
  <2>2. queue \in Seq(Messages)
    BY <1>1, EmptySeq
  <2>3. /\ seq \in [Messages -> 0..MaxMessages]
        /\ outgoing \in [Messages -> {"none", "pending", "failed"}]
        /\ ahead \in [Messages -> SUBSET Messages]
    BY BoundsAssumption DEF Init
  <2>4. /\ lastSeq \in Nat /\ removals \in 0..MaxRemovals /\ composed \in 0..MaxMessages
        /\ tries \in 0..(MaxMessages + MaxRetries) /\ loop \in {0} \cup Tries
    BY BoundsAssumption DEF Init
  <2>5. /\ member \in BOOLEAN /\ notice \in BOOLEAN /\ detached \in BOOLEAN
        /\ events \subseteq Messages /\ givenUp \subseteq Messages
    BY DEF Init
  <2> QED
    BY <2>1, <2>2, <2>3, <2>4, <2>5 DEF TypeOK
<1>4. Pending(outgoing) = {} /\ Written = {}
  BY <1>1 DEF Pending, Written
<1>5. Elems(queue) = {} /\ Once(queue) /\ queue \in Seq(Messages)
  <2>1. Len(queue) = 0
    BY <1>1
  <2> QED
    BY <1>1, <2>1, EmptySeq DEF Elems, Once
<1>6. Holds(queue, outgoing, composed)
  BY <1>1, <1>4, <1>5 DEF Holds
<1>7. LoopInv
  BY <1>1, <1>2 DEF LoopInv
<1>8. Budget
  <2>1. Unsent = {}
    BY <1>4 DEF Unsent
  <2>2. Cardinality(Unsent) = 0
    BY <2>1, FS_EmptySet
  <2> QED
    BY <1>1, <2>2, BoundsAssumption DEF Budget
<1>9. Counted
  BY <1>1, <1>4, FS_EmptySet DEF Counted
<1>10. TabInv
  BY <1>3, <1>6, <1>7, <1>8, <1>9 DEF TabInv
<1>11. Accounted /\ Chain /\ SentSettled
  BY <1>1, <1>2 DEF Accounted, Chain, SentSettled, Live
<1>12. InOrder
  BY <1>1 DEF InOrder
<1> QED
  BY <1>10, <1>11, <1>12 DEF OrderInv

LEMMA OrderIsInvariant == Spec => []OrderInv
<1>1. OrderInv /\ [Next]_vars => OrderInv'
  BY NextOrder
<1> QED
  BY <1>1, InitOrder, PTL DEF Spec

\* The types of the queue, of its requests and of the rows, for every value of the bounds:
\* there is a request for everything that is sent, and a seq for everything written.
THEOREM SendQueueTypes == Spec => []TypeOK
<1>1. OrderInv => TypeOK
  BY DEF OrderInv, TabInv
<1> QED
  BY <1>1, OrderIsInvariant, PTL

\* InOrder for every number of messages, retries, removals and reloads: runSendQueue and
\* failQueue keep the order of composition among the rows that SendMessage inserts.
THEOREM SentInOrder == Spec => []InOrder
<1>1. OrderInv => InOrder
  BY DEF OrderInv
<1> QED
  BY <1>1, OrderIsInvariant, PTL

\* PendingIsQueued for every value of the bounds: enqueueSend, failQueue and dropOutgoing
\* leave no message shown as being sent without a loop that has it in its queue once.
THEOREM PendingAreQueued == Spec => []PendingIsQueued
<1>1. OrderInv => PendingIsQueued
  <2> SUFFICES ASSUME OrderInv PROVE PendingIsQueued
    OBVIOUS
  <2>1. Once(queue) /\ Pending(outgoing) \subseteq Elems(queue)
    BY DEF OrderInv, TabInv, Holds
  <2>2. ASSUME NEW m \in Pending(outgoing)
        PROVE  Cardinality({k \in 1..Len(queue) : queue[k] = m}) = 1
    <3>1. PICK k \in 1..Len(queue) : queue[k] = m
      BY <2>1 DEF Elems
    <3>2. {l \in 1..Len(queue) : queue[l] = m} = {k}
      BY <2>1, <3>1 DEF Once
    <3> QED
      BY <3>2, FS_Singleton
  <2>3. queue # <<>> => loop # 0 /\ (~detached => request[loop].msg = queue[1])
    BY DEF OrderInv, TabInv, LoopInv
  <2> QED
    BY <2>2, <2>3 DEF PendingIsQueued
<1> QED
  BY <1>1, OrderIsInvariant, PTL
=============================================================================
