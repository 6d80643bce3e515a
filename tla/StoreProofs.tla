---------------------------- MODULE StoreProofs ----------------------------
(***************************************************************************)
(* Proofs about the two components that keep a second store beside the     *)
(* database in step without a transaction over both: Presence, whose       *)
(* fields are at Redis, and Attachments, whose objects are at the storage. *)
(* The components share no state; the definitions of Attachments that      *)
(* Presence has too are those with the prefix Files.                       *)
(***************************************************************************)
EXTENDS Presence, Attachments, FiniteSetTheorems, TLAPS

-----------------------------------------------------------------------------
(* Presence, for every number of instances and connections. *)

Types ==
    /\ conns \in [Instances -> Counts] /\ announced \in [Instances -> Counts]
    /\ writing \in [Instances -> SUBSET Counts] /\ renewing \in [Instances -> SUBSET (0..MaxConns)]
    /\ field \in [Instances -> SUBSET (0..MaxConns)]
    /\ late \in [Instances -> SUBSET [value : SUBSET (0..MaxConns), tells : BOOLEAN]]
    /\ up \subseteq Instances

\* What is announced was written, but for the writes that are suspect, or is on its way;
\* and the lock keeps any other write from being on its way, but for a refresh.
Written(i) ==
    /\ i \in waiting \/ announced[i] = conns[i]
    /\ writing[i] \subseteq {announced[i]}
    /\ writing[i] = {} /\ i \notin suspect => field[i] = Value(announced[i])

\* A running instance whose write did not fail has a field, if anything is announced.
Kept(i) ==
    /\ i \in failing => i \in suspect
    /\ announced[i] # Zero /\ i \notin failing /\ writing[i] = {} => field[i] # {}

Inv == Types /\ \A i \in up : Written(i) /\ Kept(i)

LEMMA CountParts ==
    Zero \in Counts /\ \A c \in Counts : c[2] \in 0..MaxConns /\ Value(c) \subseteq 0..MaxConns
BY PresenceAssumption DEF Counts, Zero, Value

LEMMA InitInv == Init => Inv
BY CountParts DEF Init, Inv, Types, Written, Kept, Value, Zero

LEMMA StepInv ==
    ASSUME Inv, NEW i \in Instances,
           \/ Change(i) \/ Sync(i) \/ Write(i) \/ WriteFails(i) \/ RunLate(i)
           \/ Refresh(i) \/ Renew(i) \/ RenewFails(i) \/ Crash(i) \/ Expire(i)
    PROVE  Inv'
<1> USE CountParts DEF Inv
<1>1. CASE Change(i)
    <2>1. Types'
        BY <1>1 DEF Change, Types
    <2>2. \A j \in up' : Written(j)' /\ Kept(j)'
        BY <1>1 DEF Change, Types, Written, Kept
    <2> QED BY <2>1, <2>2
<1>2. CASE Sync(i)
    <2>1. Types'
        BY <1>2 DEF Sync, Types
    <2>2. \A j \in up' : Written(j)' /\ Kept(j)'
        BY <1>2 DEF Sync, Types, Written, Kept
    <2> QED BY <2>1, <2>2
<1>3. CASE Write(i)
    <2>1. Types'
        BY <1>3 DEF Write, Run, Types
    <2>2. \A j \in up' : Written(j)' /\ Kept(j)'
        <3>1. PICK c \in writing[i] :
                  /\ field' = [field EXCEPT ![i] = Value(c)] /\ writing' = [writing EXCEPT ![i] = @ \ {c}]
                  /\ suspect' \in {suspect, suspect \ {i}} /\ failing' = failing \ {i}
                  /\ UNCHANGED <<up, conns, waiting, announced>>
            BY <1>3 DEF Write, Run
        <3>2. ASSUME NEW j \in up, j # i PROVE Written(j)' /\ Kept(j)'
            BY <3>1, <3>2 DEF Types, Written, Kept
        <3>3. ASSUME i \in up PROVE Written(i)' /\ Kept(i)'
            <4>1. c = announced[i] /\ announced'[i] = c /\ field'[i] = Value(c) /\ writing'[i] = {}
                BY <3>1, <3>3 DEF Types, Written
            <4> QED BY <3>1, <3>3, <4>1 DEF Written, Kept, Value, Types
        <3> QED BY <3>1, <3>2, <3>3
    <2> QED BY <2>1, <2>2
<1>4. CASE WriteFails(i)
    <2>1. PICK v \in SUBSET (0..MaxConns), t \in BOOLEAN : GivenUp(i, v, t)
        BY <1>4 DEF WriteFails, Types
    <2>2. /\ field' \in {field, [field EXCEPT ![i] = v]}
          /\ late' \in [Instances -> SUBSET [value : SUBSET (0..MaxConns), tells : BOOLEAN]]
          /\ suspect' = suspect \cup {i} /\ failing' = failing \cup {i}
        BY <2>1 DEF GivenUp, Run, Types
    <2>3. /\ writing' = [writing EXCEPT ![i] = {}]
          /\ UNCHANGED <<up, conns, waiting, announced, renewing>>
        BY <1>4 DEF WriteFails
    <2>4. Types'
        BY <2>2, <2>3 DEF Types
    <2>5. \A j \in up' : Written(j)' /\ Kept(j)'
        BY <2>2, <2>3 DEF Types, Written, Kept
    <2> QED BY <2>4, <2>5
<1>5. CASE Refresh(i)
    <2>1. Types'
        BY <1>5 DEF Refresh, Types
    <2>2. \A j \in up' : Written(j)' /\ Kept(j)'
        BY <1>5 DEF Refresh, Types, Written, Kept
    <2> QED BY <2>1, <2>2
<1>6. CASE Renew(i)
    <2>1. Types'
        BY <1>6 DEF Renew, Run, Types
    <2>2. \A j \in up' : Written(j)' /\ Kept(j)'
        BY <1>6 DEF Renew, Run, Types, Written, Kept, Renews, Value
    <2> QED BY <2>1, <2>2
<1>7. CASE RenewFails(i)
    <2>1. PICK v \in SUBSET (0..MaxConns), t \in BOOLEAN : GivenUp(i, v, t)
        BY <1>7 DEF RenewFails, Types
    <2>2. /\ field' \in {field, [field EXCEPT ![i] = v]}
          /\ late' \in [Instances -> SUBSET [value : SUBSET (0..MaxConns), tells : BOOLEAN]]
          /\ suspect' = suspect \cup {i} /\ failing' = failing \cup {i}
        BY <2>1 DEF GivenUp, Run, Types
    <2>3. /\ renewing' = [renewing EXCEPT ![i] = {}]
          /\ UNCHANGED <<up, conns, waiting, announced, writing>>
        BY <1>7 DEF RenewFails
    <2>4. Types'
        BY <2>2, <2>3 DEF Types
    <2>5. \A j \in up' : Written(j)' /\ Kept(j)'
        BY <2>2, <2>3 DEF Types, Written, Kept
    <2> QED BY <2>4, <2>5
<1>8. CASE Crash(i)
    <2>1. Types'
        BY <1>8 DEF Crash, Types
    <2>2. \A j \in up' : Written(j)' /\ Kept(j)'
        BY <1>8 DEF Crash, Types, Written, Kept
    <2> QED BY <2>1, <2>2
<1>9. CASE Expire(i)
    <2>1. Types'
        BY <1>9 DEF Expire, Run, Types
    <2>2. \A j \in up' : Written(j)' /\ Kept(j)'
        BY <1>9 DEF Expire, Run, Types, Written, Kept, Value
    <2> QED BY <2>1, <2>2
<1>10. CASE RunLate(i)
    <2>1. PICK script \in late[i] :
              /\ field' = [field EXCEPT ![i] = script.value]
              /\ late' = [late EXCEPT ![i] = @ \ {script}]
              /\ suspect' = suspect \cup {i}
              /\ failing' = IF script.value = {} THEN failing \cup {i} ELSE failing
              /\ UNCHANGED <<up, conns, waiting, announced, writing, renewing>>
        BY <1>10 DEF RunLate, Run
    <2>2. script.value \in SUBSET (0..MaxConns)
        BY <2>1 DEF Types
    <2>3. Types'
        BY <2>1, <2>2 DEF Types
    <2>4. \A j \in up' : Written(j)' /\ Kept(j)'
        BY <2>1, <2>2 DEF Types, Written, Kept
    <2> QED BY <2>3, <2>4
<1> QED BY <1>1, <1>2, <1>3, <1>4, <1>5, <1>6, <1>7, <1>8, <1>9, <1>10

LEMMA NextInv == Inv /\ [Next]_vars => Inv'
<1> SUFFICES ASSUME Inv, [Next]_vars PROVE Inv'
    OBVIOUS
<1>1. CASE UNCHANGED vars
    BY <1>1 DEF vars, Inv, Types, Written, Kept
<1> QED BY <1>1, StepInv DEF Next

LEMMA InvAlways == Spec => []Inv
BY InitInv, NextInv, PTL DEF Spec

\* Redis has the present count of every instance that is at rest.
THEOREM FieldIsExact == Spec => []FieldExact
<1>1. Inv => FieldExact
    BY DEF Inv, Written, FieldExact, Exact, Value
<1> QED BY <1>1, InvAlways, PTL

\* Whoever has a connection is never shown as offline, except for a write that failed.
THEOREM OnlineIsShown == Spec => []NotOffline
<1>1. Inv => NotOffline
    <2> SUFFICES ASSUME Inv, NEW i \in up, announced[i] # Zero, i \notin failing, writing[i] = {}
                 PROVE  State(field) # "offline"
        BY DEF NotOffline
    <2>1. i \in Instances /\ field[i] # {}
        BY DEF Inv, Types, Kept
    <2> QED BY <2>1 DEF State
<1> QED BY <1>1, InvAlways, PTL

-----------------------------------------------------------------------------
(* The types: a field is one value or none, and one write at a time is on its way. *)

Alone(S) == S = {} \/ \E x : S = {x}
Typed ==
    /\ up \subseteq Instances /\ waiting \subseteq Instances /\ suspect \subseteq Instances /\ failing \subseteq Instances
    /\ renewing \in [Instances -> SUBSET (0..MaxConns)]
    /\ \A i \in Instances : Alone(field[i]) /\ Alone(writing[i]) /\ Alone(renewing[i])
    /\ \A i \in Instances : \A script \in late[i] : Alone(script.value)
    /\ shown \in States /\ silent \in BOOLEAN

LEMMA StateIsOne == \A f : State(f) \in States
BY DEF State, States

LEMMA RunTyped ==
    ASSUME Types, Typed, NEW i \in Instances, NEW v, Alone(v), NEW t \in BOOLEAN, Run(i, v, t)
    PROVE  /\ \A j \in Instances : Alone(field'[j])
           /\ shown' \in States /\ silent' \in BOOLEAN
BY StateIsOne DEF Types, Typed, Run

LEMMA GivenUpTyped ==
    ASSUME Types, Typed, NEW i \in Instances, NEW v, Alone(v), NEW t \in BOOLEAN, GivenUp(i, v, t)
    PROVE  /\ \A j \in Instances : Alone(field'[j])
           /\ \A j \in Instances : \A script \in late'[j] : Alone(script.value)
           /\ shown' \in States /\ silent' \in BOOLEAN
           /\ suspect' \subseteq Instances /\ failing' \subseteq Instances
<1>1. CASE UNCHANGED <<field, late, shown, silent>>
    BY <1>1 DEF GivenUp, Typed
<1>2. CASE Run(i, v, t) /\ UNCHANGED late
    BY <1>2, RunTyped DEF GivenUp, Typed
<1>3. CASE late' = [late EXCEPT ![i] = @ \cup {[value |-> v, tells |-> t]}]
           /\ UNCHANGED <<field, shown, silent>>
    <2>1. \A j \in Instances : late'[j] \in {late[j], late[j] \cup {[value |-> v, tells |-> t]}}
        BY <1>3 DEF Types
    <2> QED BY <1>3, <2>1 DEF GivenUp, Typed
<1> QED BY <1>1, <1>2, <1>3 DEF GivenUp

LEMMA TypedStep ==
    ASSUME Types, Typed, NEW i \in Instances,
           \/ Change(i) \/ Sync(i) \/ Write(i) \/ WriteFails(i) \/ RunLate(i)
           \/ Refresh(i) \/ Renew(i) \/ RenewFails(i) \/ Crash(i) \/ Expire(i)
    PROVE  Typed'
<1>0. \A c : Alone(Value(c))
    BY DEF Value, Alone
<1>1. CASE Change(i)
    BY <1>1 DEF Change, Typed
<1>2. CASE Sync(i)
    BY <1>2 DEF Sync, Typed, Types, Alone
<1>3. CASE Write(i)
    <2>1. PICK c \in writing[i], t \in BOOLEAN :
              /\ Run(i, Value(c), t) /\ writing' = [writing EXCEPT ![i] = writing[i] \ {c}]
              /\ suspect' \in {suspect, suspect \ {i}} /\ failing' = failing \ {i}
              /\ UNCHANGED <<up, waiting, renewing, late>>
        BY <1>3 DEF Write
    <2>2. Alone(writing[i] \ {c})
        BY <2>1 DEF Alone, Typed
    <2>3. \A j \in Instances : Alone(writing'[j])
        BY <2>1, <2>2 DEF Typed, Types
    <2>4. /\ \A j \in Instances : Alone(field'[j])
          /\ shown' \in States /\ silent' \in BOOLEAN
        BY <1>0, <2>1, RunTyped
    <2> QED BY <2>1, <2>3, <2>4 DEF Typed
<1>4. CASE WriteFails(i)
    <2>1. PICK c \in writing[i], t \in BOOLEAN : GivenUp(i, Value(c), t)
        BY <1>4 DEF WriteFails
    <2>2. \A j \in Instances : Alone(writing'[j])
        BY <1>4 DEF WriteFails, Typed, Types, Alone
    <2>3. /\ \A j \in Instances : Alone(field'[j])
          /\ \A j \in Instances : \A script \in late'[j] : Alone(script.value)
          /\ shown' \in States /\ silent' \in BOOLEAN
          /\ suspect' \subseteq Instances /\ failing' \subseteq Instances
        BY <1>0, <2>1, GivenUpTyped
    <2> QED BY <1>4, <2>2, <2>3 DEF WriteFails, Typed
<1>5. CASE Refresh(i)
    <2>1. announced[i][2] \in 0..MaxConns
        BY CountParts DEF Types
    <2> QED BY <1>5, <2>1 DEF Refresh, Typed, Types, Alone
<1>6. CASE Renew(i)
    <2>1. Alone(renewing[i]) /\ FALSE \in BOOLEAN
        BY DEF Typed
    <2>2. suspect' \subseteq Instances /\ failing' \subseteq Instances
        BY <1>6 DEF Renew, Typed
    <2>3. /\ renewing' \in [Instances -> SUBSET (0..MaxConns)]
          /\ \A j \in Instances : Alone(renewing'[j])
        BY <1>6 DEF Renew, Typed, Types, Alone
    <2> QED BY <1>6, <2>1, <2>2, <2>3, RunTyped DEF Renew, Typed
<1>7. CASE RenewFails(i)
    <2>1. Alone(renewing[i]) /\ FALSE \in BOOLEAN
        BY DEF Typed
    <2>2. /\ renewing' \in [Instances -> SUBSET (0..MaxConns)]
          /\ \A j \in Instances : Alone(renewing'[j])
        BY <1>7 DEF RenewFails, Typed, Types, Alone
    <2> QED BY <1>7, <2>1, <2>2, GivenUpTyped DEF RenewFails, Typed
<1>8. CASE Crash(i)
    BY <1>8 DEF Crash, Typed, Types, Alone
<1>9. CASE Expire(i)
    <2>1. Alone({}) /\ FALSE \in BOOLEAN
        BY DEF Alone
    <2> QED BY <1>9, <2>1, RunTyped DEF Expire, Typed
<1>10. CASE RunLate(i)
    <2>1. PICK script \in late[i] :
              /\ Run(i, script.value, script.tells)
              /\ late' = [late EXCEPT ![i] = @ \ {script}]
              /\ suspect' = suspect \cup {i} /\ failing' \subseteq failing \cup {i}
              /\ UNCHANGED <<up, waiting, writing, renewing>>
        BY <1>10 DEF RunLate
    <2>2. Alone(script.value) /\ script.tells \in BOOLEAN
        BY <2>1 DEF Typed, Types
    <2>3. \A j \in Instances : late'[j] \subseteq late[j]
        BY <2>1 DEF Types
    <2> QED BY <2>1, <2>2, <2>3, RunTyped DEF Typed
<1> QED BY <1>1, <1>2, <1>3, <1>4, <1>5, <1>6, <1>7, <1>8, <1>9, <1>10

LEMMA TypedAlways == Spec => [](Inv /\ Typed)
<1>1. Init => Typed
    BY DEF Init, Typed, Alone, States
<1>2. Inv /\ Typed /\ [Next]_vars => Typed'
    <2> SUFFICES ASSUME Inv, Typed, [Next]_vars PROVE Typed'
        OBVIOUS
    <2>1. CASE UNCHANGED vars
        BY <2>1 DEF vars, Typed, Alone
    <2> QED BY <2>1, TypedStep DEF Next, Inv
<1> QED BY <1>1, <1>2, InitInv, NextInv, PTL DEF Spec

\* The types of counts, fields and writes, for every number of instances and connections:
\* each instance has at most one field at Redis and one write on its way.
THEOREM PresenceTypes == Spec => []TypeOK
<1>1. ASSUME NEW S, Alone(S) PROVE Cardinality(S) <= 1
    <2>1. CASE S = {}
        <3>1. Cardinality(S) = 0
            BY <2>1, FS_EmptySet, Zenon
        <3> QED BY <3>1
    <2>2. ASSUME NEW x, S = {x} PROVE Cardinality(S) <= 1
        <3>1. Cardinality(S) = 1
            BY <2>2, FS_Singleton, Zenon
        <3> QED BY <3>1
    <2> QED BY <1>1, <2>1, <2>2 DEF Alone
<1>2. Inv /\ Typed => TypeOK
    BY <1>1 DEF Inv, Types, Typed, TypeOK
<1> QED BY <1>2, TypedAlways, PTL

\* What subscribers were told last is what Redis says, unless a refresh, an expiry or a
\* write that could not be announced changed it in silence: syncScript compares and
\* publishes in one step, whichever instance runs it, also when its caller has given it up.
THEOREM ToldWhatIsThere == Spec => []ShownFollows
<1>1. Init => ShownFollows
    BY DEF Init, ShownFollows, State
<1>2. ShownFollows /\ [Next]_vars => ShownFollows'
    <2> SUFFICES ASSUME ShownFollows, [Next]_vars PROVE ShownFollows'
        OBVIOUS
    <2>1. State(field)' = State(field')
        BY DEF State
    <2>2. CASE UNCHANGED <<field, shown, silent>>
        BY <2>2 DEF ShownFollows
    <2>3. ASSUME NEW i \in Instances, NEW v, NEW t, Run(i, v, t) PROVE ShownFollows'
        BY <2>1, <2>3 DEF Run, ShownFollows
    <2>4. ASSUME NEW i \in Instances, Write(i) \/ RunLate(i) \/ Renew(i) \/ Expire(i)
          PROVE  ShownFollows'
        BY <2>3, <2>4 DEF Write, RunLate, Renew, Expire
    <2>5. ASSUME NEW i \in Instances, WriteFails(i) \/ RenewFails(i)
          PROVE  ShownFollows'
        BY <2>2, <2>3, <2>5 DEF WriteFails, RenewFails, GivenUp
    <2> QED BY <2>2, <2>4, <2>5 DEF Next, vars, Change, Sync, Refresh, Crash
<1> QED BY <1>1, <1>2, PTL DEF Spec

-----------------------------------------------------------------------------
(* Attachments, for every number of files, messages, calls and cleanup jobs. *)

FInv == FilesTyped /\ AttachmentsInv

\* What is locked, deleted or held, by whom.
LEMMA InDone ==
    /\ \A k, f : f \in DoneBy(k) <=> \E g \in Cleaners : batch[g].kind = k /\ f \in batch[g].done
    /\ \A k, f : f \in DoneBy(k)' <=> \E g \in Cleaners : batch'[g].kind = k /\ f \in batch'[g].done
BY DEF DoneBy

LEMMA InLocked ==
    \A k, f : f \in LockedBy(k) <=> \E g \in Cleaners : batch[g].kind = k /\ f \in batch[g].files
BY DEF LockedBy

LEMMA InHeld ==
    \A m : m \in Held <=> \E c \in Callers : call[c].op = "delete" /\ \E f \in call[c].file : of[f] = m
BY DEF Held

LEMMA InitFiles == FilesInit => FInv
BY DEF FilesInit, FInv, FilesTyped, AttachmentsInv, FilesInv, CallsInv, BatchesInv, RoomInv,
       NoEmptyMessage, ObjectsKnown, NoCall, NoBatch, Calls, Batches,
       Rows

\* The calls that go on, or end, when their files stay what they were for them.
LEMMA CallsKept ==
    ASSUME FilesTyped, CallsInv,
           call' \in [Callers -> Calls],
           \A c \in Callers : call'[c] = call[c] \/ call'[c] = NoCall,
           \A f \in Files : row[f] # "none" =>
               /\ row'[f] # "none"
               /\ row'[f] = "pending" => row[f] = "pending" /\ (Seen(f) => Seen(f)'),
           \A c \in Callers : call[c].op = "delete" /\ call'[c].op = "delete" =>
               \A f \in call[c].file : \A e \in Files :
                   row[e] = "attached" /\ of[e] = of[f] <=> row'[e] = "attached" /\ of'[e] = of[f]
    PROVE  CallsInv'
<1> USE DEF Calls
<1> SUFFICES ASSUME NEW c \in Callers
             PROVE  /\ \A f \in call'[c].file : row'[f] # "none"
                    /\ call'[c].op = "mark" => \A f \in call'[c].file : row'[f] = "pending" => Seen(f)'
                    /\ call'[c].op = "delete" =>
                        \E f \in Files :
                            /\ call'[c].file = {f} /\ row'[f] = "attached"
                            /\ call'[c].last <=> ~\E e \in Attached(of[f])' : e # f
                            /\ \A d \in Callers \ {c} : call'[d].op = "delete" =>
                                   \A e \in call'[d].file : of'[e] # of'[f]
  BY DEF CallsInv
<1>1. CASE call'[c] = NoCall
  BY <1>1 DEF NoCall
<1>2. CASE call'[c] = call[c]
  <2>1. call[c].file \subseteq Files
    BY DEF FilesTyped
  <2>2. /\ \A f \in call'[c].file : row'[f] # "none"
        /\ call'[c].op = "mark" => \A f \in call'[c].file : row'[f] = "pending" => Seen(f)'
    BY <1>2, <2>1 DEF CallsInv
  <2>3. ASSUME call'[c].op = "delete"
        PROVE  \E f \in Files :
                   /\ call'[c].file = {f} /\ row'[f] = "attached"
                   /\ call'[c].last <=> ~\E e \in Attached(of[f])' : e # f
                   /\ \A d \in Callers \ {c} : call'[d].op = "delete" =>
                          \A e \in call'[d].file : of'[e] # of'[f]
    <3>1. PICK f \in Files :
              /\ call[c].file = {f} /\ row[f] = "attached"
              /\ call[c].last <=> ~\E e \in Attached(of[f]) : e # f
              /\ \A d \in Callers \ {c} : call[d].op = "delete" => \A e \in call[d].file : of[e] # of[f]
      BY <1>2, <2>3 DEF CallsInv
    <3>2. row'[f] = "attached" /\ of'[f] = of[f]
      BY <1>2, <2>3, <3>1
    <3>3. call'[c].last <=> ~\E e \in Attached(of[f])' : e # f
      BY <1>2, <2>3, <3>1, <3>2 DEF Attached
    <3>4. ASSUME NEW d \in Callers \ {c}, call'[d].op = "delete", NEW e \in call'[d].file
          PROVE  of'[e] # of'[f]
      <4>1. call'[d] = call[d]
        BY <3>4 DEF NoCall
      <4>2. PICK x \in Files : call[d].file = {x} /\ row[x] = "attached"
        BY <3>4, <4>1 DEF CallsInv
      <4>3. of'[e] = of[e]
        BY <3>4, <4>1, <4>2
      <4> QED BY <3>1, <3>2, <3>4, <4>1, <4>3
    <3> QED BY <1>2, <3>1, <3>2, <3>3, <3>4
  <2> QED BY <2>2, <2>3
<1> QED BY <1>1, <1>2

(* Uploading. *)

LEMMA UploadKeeps ==
    ASSUME FInv, NEW f \in Files, Create(f) \/ Put(f) \/ Age(f)
    PROVE  FInv'
<1> USE DEF FInv, AttachmentsInv, Calls, Batches
<1>1. CASE Create(f)
  <2> USE <1>1 DEF Create, Become
  <2>1. FilesTyped'
    BY DEF FilesTyped
  <2>2. FilesInv'
    BY InDone DEF FilesTyped, FilesInv, Seen
  <2>3. CallsInv'
    BY CallsKept, InDone DEF FilesTyped, Seen
  <2>4. BatchesInv'
    BY DEF FilesTyped, BatchesInv
  <2>5. RoomInv'
    BY DEF FilesTyped, RoomInv, Rows
  <2>6. NoEmptyMessage' /\ ObjectsKnown'
    BY DEF FilesTyped, NoEmptyMessage, ObjectsKnown, Rows, Attached
  <2> QED BY <2>1, <2>2, <2>3, <2>4, <2>5, <2>6
<1>2. CASE Put(f)
  <2> USE <1>2 DEF Put
  <2>1. FilesTyped'
    BY DEF FilesTyped
  <2>2. FilesInv'
    BY InDone DEF FilesTyped, FilesInv, Seen
  <2>3. CallsInv'
    BY CallsKept, InDone DEF FilesTyped, Seen
  <2>4. BatchesInv'
    <3>1. ASSUME NEW g \in Cleaners, batch[g].kind \in {"rows", "keys"}, f \in batch[g].done
          PROVE  f \in again'
      BY <3>1, InDone DEF BatchesInv, Forgotten
    <3> QED BY <3>1 DEF FilesTyped, BatchesInv
  <2>5. RoomInv'
    BY DEF FilesTyped, RoomInv, Rows
  <2>6. NoEmptyMessage' /\ ObjectsKnown'
    BY DEF FilesTyped, NoEmptyMessage, ObjectsKnown, Rows, Attached, RoomInv, Forgotten
  <2> QED BY <2>1, <2>2, <2>3, <2>4, <2>5, <2>6
<1>3. CASE Age(f)
  <2> USE <1>3 DEF Age
  <2>1. FilesTyped'
    BY DEF FilesTyped
  <2>2. FilesInv'
    BY InDone DEF FilesTyped, FilesInv, Seen
  <2>3. CallsInv'
    BY CallsKept, InDone DEF FilesTyped, Seen
  <2>4. BatchesInv'
    BY DEF FilesTyped, BatchesInv
  <2>5. RoomInv'
    BY DEF FilesTyped, RoomInv, Rows
  <2>6. NoEmptyMessage' /\ ObjectsKnown'
    BY DEF FilesTyped, NoEmptyMessage, ObjectsKnown, Rows, Attached
  <2> QED BY <2>1, <2>2, <2>3, <2>4, <2>5, <2>6
<1> QED BY <1>1, <1>2, <1>3

LEMMA CompleteKeeps ==
    ASSUME FInv, NEW c \in Callers, (\E f \in Files : Complete(c, f)) \/ Head(c)
    PROVE  FInv'
<1> USE DEF FInv, AttachmentsInv, Calls, Batches
<1>1. /\ UNCHANGED <<row, of, age, object, message, room, copied, queue, batch, torn, again, failures>>
      /\ \E k \in Calls :
            /\ call' = [call EXCEPT ![c] = k]
            /\ k.op # "delete" /\ \A f \in k.file : row[f] # "none"
            /\ k.op = "mark" => k.file \subseteq object
  <2>1. ASSUME Head(c)
        PROVE  \E k \in Calls :
                  /\ call' = [call EXCEPT ![c] = k]
                  /\ k.op # "delete" /\ \A e \in k.file : row[e] # "none"
                  /\ k.op = "mark" => k.file \subseteq object
    <3>1. CASE call[c].file \subseteq object
      <4> DEFINE k == [call[c] EXCEPT !.op = "mark"]
      <4>1. call' = [call EXCEPT ![c] = k]
        BY <2>1, <3>1 DEF Head
      <4>2. k \in Calls /\ k.file = call[c].file
            /\ k.op = "mark"
        BY DEF FilesTyped
      <4>3. \A e \in k.file : row[e] # "none"
        BY <4>2 DEF CallsInv
      <4> HIDE DEF k
      <4> QED BY <3>1, <4>1, <4>2, <4>3
    <3>2. CASE ~(call[c].file \subseteq object)
      <4>1. call' = [call EXCEPT ![c] = NoCall]
        BY <2>1, <3>2 DEF Head
      <4>2. NoCall \in Calls
            /\ NoCall.op = "none" /\ NoCall.file = {}
        BY DEF NoCall
      <4> QED BY <4>1, <4>2
    <3> QED BY <3>1, <3>2
  <2>2. ASSUME NEW f \in Files, Complete(c, f)
        PROVE  \E k \in Calls :
                  /\ call' = [call EXCEPT ![c] = k]
                  /\ k.op # "delete" /\ \A e \in k.file : row[e] # "none"
                  /\ k.op = "mark" => k.file \subseteq object
    <3> DEFINE k == [op |-> "head", file |-> {f}, last |-> FALSE]
    <3>1. call' = [call EXCEPT ![c] = k] /\ row[f] # "none"
      BY <2>2 DEF Complete
    <3>2. k \in Calls /\ k.op = "head" /\ k.file = {f}
      OBVIOUS
    <3> HIDE DEF k
    <3> QED BY <3>1, <3>2
  <2> QED BY <2>1, <2>2 DEF Complete, Head
<1>2. PICK k \in Calls :
            /\ call' = [call EXCEPT ![c] = k]
            /\ k.op # "delete" /\ \A f \in k.file : row[f] # "none"
            /\ k.op = "mark" => k.file \subseteq object
  BY <1>1
<1>3. \A f : Seen(f)' <=> Seen(f)
  BY <1>1, InDone DEF Seen
<1>4. \A f \in object : Seen(f)
  BY DEF Seen
<1>5. CallsInv'
  BY <1>1, <1>2, <1>3, <1>4 DEF CallsInv, Attached, FilesTyped
<1>6. FilesTyped'
  BY <1>1, <1>2 DEF FilesTyped
<1>7. FilesInv' /\ BatchesInv' /\ RoomInv' /\ NoEmptyMessage' /\ ObjectsKnown'
  BY <1>1, <1>3 DEF FilesInv, BatchesInv, RoomInv, NoEmptyMessage, ObjectsKnown, Rows, Attached
<1> QED BY <1>5, <1>6, <1>7

LEMMA MarkKeeps ==
    ASSUME FInv, NEW c \in Callers, Mark(c)
    PROVE  FInv'
<1> USE DEF FInv, AttachmentsInv, Calls, Batches
<1> DEFINE F == {f \in call[c].file : row[f] = "pending"}
<1>1. /\ row' = [f \in Files |-> IF f \in F THEN "uploaded" ELSE row[f]]
      /\ call' = [call EXCEPT ![c] = NoCall] /\ call[c].op = "mark"
      /\ UNCHANGED <<of, age, object, message, room, copied, queue, batch, torn, again, failures>>
      /\ F \subseteq Files /\ \A f \in F : row[f] = "pending" /\ Seen(f)
  BY DEF Mark, Become, FilesTyped, CallsInv
<1> HIDE DEF F
<1>2. \A f : Seen(f)' <=> Seen(f)
  BY <1>1, InDone DEF Seen
<1>3. NoCall \in Calls
  BY DEF NoCall
<1>4. FilesTyped'
  BY <1>1, <1>3 DEF FilesTyped
<1>5. FilesInv'
  BY <1>1, <1>2 DEF FilesInv, FilesTyped
<1>6. CallsInv'
  <2>1. \A f \in Files : row[f] # "none" =>
            /\ row'[f] # "none"
            /\ row'[f] = "pending" => row[f] = "pending" /\ (Seen(f) => Seen(f)')
    BY <1>1, <1>2
  <2>2. \A e \in Files : (row[e] = "attached" <=> row'[e] = "attached") /\ of'[e] = of[e]
    BY <1>1
  <2>3. \A d \in Callers : call'[d] = call[d] \/ call'[d] = NoCall
    BY <1>1 DEF FilesTyped
  <2>4. call' \in [Callers -> Calls]
    BY <1>4 DEF FilesTyped
  <2> QED BY <2>1, <2>2, <2>3, <2>4, CallsKept
<1>7. BatchesInv'
  BY <1>1 DEF BatchesInv, FilesTyped
<1>8. RoomInv' /\ NoEmptyMessage' /\ ObjectsKnown'
  BY <1>1 DEF RoomInv, NoEmptyMessage, ObjectsKnown, Rows, Attached, FilesTyped
<1> QED BY <1>4, <1>5, <1>6, <1>7, <1>8

LEMMA CallFailsKeeps ==
    ASSUME FInv, NEW c \in Callers, CallFails(c)
    PROVE  FInv'
<1> USE DEF FInv, AttachmentsInv, Calls, Batches
<1>1. /\ call' = [call EXCEPT ![c] = NoCall]
      /\ UNCHANGED <<row, of, age, object, message, room, copied, queue, batch, torn, again>>
  BY DEF CallFails
<1>2. \A f : Seen(f)' <=> Seen(f)
  BY <1>1, InDone DEF Seen
<1>3. FilesTyped'
  BY <1>1 DEF FilesTyped, NoCall
<1>4. CallsInv'
  <2>1. call' \in [Callers -> Calls]
    BY <1>3 DEF FilesTyped
  <2>2. \A d \in Callers : call'[d] = call[d] \/ call'[d] = NoCall
    BY <1>1 DEF FilesTyped
  <2> QED BY <1>1, <1>2, <2>1, <2>2, CallsKept
<1>5. FilesInv' /\ BatchesInv' /\ RoomInv' /\ NoEmptyMessage' /\ ObjectsKnown'
  BY <1>1, <1>2 DEF FilesInv, BatchesInv, RoomInv, NoEmptyMessage, ObjectsKnown, Rows, Attached
<1> QED BY <1>3, <1>4, <1>5

LEMMA DeleteFileKeeps ==
    ASSUME FInv, NEW c \in Callers, NEW f \in Files, DeleteFile(c, f)
    PROVE  FInv'
<1> USE DEF FInv, AttachmentsInv, Calls, Batches
<1> DEFINE k == [op |-> "delete", file |-> {f}, last |-> Attached(of[f]) = {f}]
<1>1. /\ call' = [call EXCEPT ![c] = k] /\ call[c] = NoCall
      /\ row[f] = "attached" /\ of[f] \notin Held
      /\ UNCHANGED <<row, of, age, object, message, room, copied, queue, batch, torn, again, failures>>
  BY DEF DeleteFile
<1>2. k \in Calls
  OBVIOUS
<1>3. k.op = "delete" /\ k.file = {f} /\ (k.last <=> ~\E e \in Attached(of[f]) : e # f)
  BY <1>1 DEF Attached
<1> HIDE DEF k
<1>4. \A e : Seen(e)' <=> Seen(e)
  BY <1>1, InDone DEF Seen
<1>5. FilesTyped'
  BY <1>1, <1>2 DEF FilesTyped
<1>6. CallsInv'
  <2>1. \A d \in Callers \ {c} : call[d].op = "delete" => \A e \in call[d].file : of[e] # of[f]
    BY <1>1, InHeld
  <2>2. call'[c] = k /\ \A d \in Callers \ {c} : call'[d] = call[d]
    BY <1>1 DEF FilesTyped
  <2>3. \A g \in Files : Attached(of[g])' = Attached(of[g])
    BY <1>1 DEF Attached
  <2> QED BY <1>1, <1>3, <1>4, <2>1, <2>2, <2>3 DEF CallsInv
<1>7. FilesInv' /\ BatchesInv' /\ RoomInv' /\ NoEmptyMessage' /\ ObjectsKnown'
  BY <1>1, <1>4 DEF FilesInv, BatchesInv, RoomInv, NoEmptyMessage, ObjectsKnown, Rows, Attached
<1> QED BY <1>5, <1>6, <1>7

LEMMA FileDeletedKeeps ==
    ASSUME FInv, NEW c \in Callers, FileDeleted(c)
    PROVE  FInv'
<1> USE DEF FInv, AttachmentsInv, Calls, Batches
<1>1. PICK f \in Files :
          /\ call[c].file = {f} /\ row[f] = "attached"
          /\ call[c].last <=> ~\E e \in Attached(of[f]) : e # f
          /\ \A d \in Callers \ {c} : call[d].op = "delete" => \A e \in call[d].file : of[e] # of[f]
  BY DEF FileDeleted, CallsInv
<1>2. /\ row' = [row EXCEPT ![f] = "deleted"]
      /\ message' = [m \in Messages |->
             IF call[c].last /\ message[m] = "plain" /\ of[f] = m THEN "deleted" ELSE message[m]]
      /\ call' = [call EXCEPT ![c] = NoCall] /\ room = "open"
      /\ UNCHANGED <<of, age, object, room, copied, queue, batch, torn, again, failures>>
  <2>1. row' = [e \in Files |-> IF e \in {f} THEN "deleted" ELSE row[e]]
    BY <1>1 DEF FileDeleted, Become
  <2>2. row' = [row EXCEPT ![f] = "deleted"]
    BY <2>1 DEF FilesTyped
  <2> QED BY <1>1, <2>2 DEF FileDeleted
<1>3. \A e : Seen(e)' <=> Seen(e)
  BY <1>2, InDone DEF Seen
<1>4. NoCall \in Calls
  BY DEF NoCall
<1>5. FilesTyped'
  BY <1>2, <1>4 DEF FilesTyped
<1>6. FilesInv'
  <2>1. \A e \in Files : row'[e] = "attached" => e # f /\ row[e] = "attached"
    BY <1>2 DEF FilesTyped
  <2>2. \A e \in Files : row'[e] = "attached" => ~(call[c].last /\ of[e] = of[f])
    BY <1>1, <2>1 DEF Attached
  <2>3. \A e \in Files : row'[e] = "attached" =>
            e \in object \cup torn /\ of[e] \in Messages /\ message[of[e]] \in {"text", "plain"}
    BY <2>1 DEF FilesInv
  <2>4. \A e \in Files : row'[e] = "attached" => message'[of[e]] = message[of[e]]
    BY <1>2, <2>2, <2>3
  <2>5. \A e \in Files : row'[e] = "uploaded" => row[e] = "uploaded"
    BY <1>2 DEF FilesTyped
  <2> QED BY <1>2, <1>3, <2>3, <2>4, <2>5 DEF FilesInv
<1>7. CallsInv'
  <2>1. \A e \in Files : row[e] # "none" =>
            /\ row'[e] # "none"
            /\ row'[e] = "pending" => row[e] = "pending" /\ (Seen(e) => Seen(e)')
    BY <1>2, <1>3 DEF FilesTyped
  <2>2. \A d \in Callers : (d # c /\ call'[d] = call[d]) \/ call'[d] = NoCall
    BY <1>2 DEF FilesTyped
  <2>3. ASSUME NEW d \in Callers, call[d].op = "delete", call'[d].op = "delete", NEW g \in call[d].file, NEW e \in Files
        PROVE  row[e] = "attached" /\ of[e] = of[g] <=> row'[e] = "attached" /\ of'[e] = of[g]
    <3>1. d # c
      BY <2>2, <2>3 DEF NoCall
    <3>2. of[g] # of[f]
      BY <1>1, <2>3, <3>1
    <3> QED BY <1>2, <3>2 DEF FilesTyped
  <2>4. call' \in [Callers -> Calls]
    BY <1>5 DEF FilesTyped
  <2> QED BY <2>1, <2>2, <2>3, <2>4, CallsKept
<1>8. BatchesInv'
  BY <1>1, <1>2 DEF BatchesInv, FilesTyped
<1>9. RoomInv' /\ ObjectsKnown'
  BY <1>1, <1>2 DEF RoomInv, ObjectsKnown, Rows, FilesTyped
<1>10. NoEmptyMessage'
  <2> SUFFICES ASSUME NEW m \in Messages, message'[m] = "plain" PROVE Attached(m)' # {}
    BY DEF NoEmptyMessage
  <2>1. message[m] = "plain" /\ ~(call[c].last /\ of[f] = m)
    BY <1>2
  <2>2. PICK e \in Files : row[e] = "attached" /\ of[e] = m /\ e # f
    <3>1. CASE of[f] = m
      BY <1>1, <2>1, <3>1 DEF Attached
    <3>2. CASE of[f] # m
      BY <2>1, <3>2 DEF NoEmptyMessage, Attached
    <3> QED BY <3>1, <3>2
  <2> QED BY <1>2, <2>2 DEF Attached, FilesTyped
<1> QED BY <1>5, <1>6, <1>7, <1>8, <1>9, <1>10

(* Messages and the room. *)

LEMMA SendKeeps ==
    ASSUME FInv, NEW m \in Messages, NEW F \in SUBSET Files, Send(m, F)
    PROVE  FInv'
<1> USE DEF FInv, AttachmentsInv, Calls, Batches
<1>1. PICK kind \in {"text", "plain"} :
          /\ message[m] = "none" /\ room = "open"
          /\ F \cap LockedBy("rows") = {} /\ \A f \in F : row[f] = "uploaded"
          /\ message' = [message EXCEPT ![m] = kind] /\ (kind = "plain" => F # {})
          /\ row' = [f \in Files |-> IF f \in F THEN "attached" ELSE row[f]]
          /\ of' = [f \in Files |-> IF f \in F THEN m ELSE of[f]]
          /\ UNCHANGED <<age, object, room, copied, queue, call, batch, torn, again, failures>>
  BY DEF Send, Become
<1>2. \A f : Seen(f)' <=> Seen(f)
  BY <1>1, InDone DEF Seen
<1>3. FilesTyped'
  BY <1>1 DEF FilesTyped
<1>4. \A f \in Files : row[f] = "attached" => f \notin F /\ of[f] \in Messages \ {m}
  BY <1>1 DEF FilesInv
<1>5. FilesInv'
  <2>1. \A f \in F : f \in object \cup torn
    <3>1. \A f \in F : Seen(f) /\ ~\E g \in Cleaners : batch[g].kind = "rows" /\ f \in batch[g].files
      BY <1>1, InLocked DEF FilesInv
    <3> QED BY <3>1, InDone DEF Seen, BatchesInv
  <2> QED BY <1>1, <1>2, <1>4, <2>1 DEF FilesInv, FilesTyped
<1>6. CallsInv'
  <2>1. \A f \in Files : row[f] # "none" =>
            /\ row'[f] # "none"
            /\ row'[f] = "pending" => row[f] = "pending" /\ (Seen(f) => Seen(f)')
    BY <1>1, <1>2
  <2>2. ASSUME NEW c \in Callers, call[c].op = "delete", NEW f \in call[c].file, NEW e \in Files
        PROVE  row[e] = "attached" /\ of[e] = of[f] <=> row'[e] = "attached" /\ of'[e] = of[f]
    <3>1. row[f] = "attached" /\ f \in Files
      BY <2>2 DEF CallsInv
    <3>2. of[f] # m
      BY <1>4, <3>1
    <3> QED BY <1>1, <1>4, <3>2
  <2>3. call' = call /\ call' \in [Callers -> Calls]
    BY <1>1 DEF FilesTyped
  <2> QED BY <2>1, <2>2, <2>3, CallsKept
<1>7. BatchesInv'
  <2>1. \A g \in Cleaners : batch[g].kind = "rows" => batch[g].files \cap F = {}
    BY <1>1, InLocked
  <2> QED BY <1>1, <2>1 DEF BatchesInv, FilesTyped
<1>8. RoomInv' /\ ObjectsKnown'
  BY <1>1 DEF RoomInv, ObjectsKnown, Rows, FilesTyped
<1>9. NoEmptyMessage'
  <2> SUFFICES ASSUME NEW n \in Messages, message'[n] = "plain" PROVE Attached(n)' # {}
    BY DEF NoEmptyMessage
  <2>1. CASE n = m
    <3>1. PICK f \in F : TRUE
      BY <1>1, <2>1 DEF FilesTyped
    <3> QED BY <1>1, <2>1, <3>1 DEF Attached
  <2>2. CASE n # m
    <3>1. PICK f \in Files : row[f] = "attached" /\ of[f] = n
      BY <1>1, <2>2 DEF NoEmptyMessage, Attached
    <3> QED BY <1>1, <1>4, <3>1 DEF Attached
  <2> QED BY <2>1, <2>2
<1> QED BY <1>3, <1>5, <1>6, <1>7, <1>8, <1>9

LEMMA DeleteMessageKeeps ==
    ASSUME FInv, NEW m \in Messages, DeleteMessage(m)
    PROVE  FInv'
<1> USE DEF FInv, AttachmentsInv, Calls, Batches
<1>1. /\ m \notin Held /\ message' = [message EXCEPT ![m] = "deleted"]
      /\ row' = [f \in Files |-> IF row[f] = "attached" /\ of[f] = m THEN "deleted" ELSE row[f]]
      /\ UNCHANGED <<of, age, object, room, copied, queue, call, batch, torn, again, failures>>
  <2>1. row' = [f \in Files |-> IF f \in Attached(m) THEN "deleted" ELSE row[f]]
    BY DEF DeleteMessage, Become
  <2>2. \A f \in Files : f \in Attached(m) <=> row[f] = "attached" /\ of[f] = m
    BY DEF Attached
  <2> QED BY <2>1, <2>2 DEF DeleteMessage
<1>2. \A f : Seen(f)' <=> Seen(f)
  BY <1>1, InDone DEF Seen
<1>3. FilesTyped'
  BY <1>1 DEF FilesTyped
<1>4. FilesInv'
  BY <1>1, <1>2 DEF FilesInv, FilesTyped
<1>5. CallsInv'
  <2>1. \A f \in Files : row[f] # "none" =>
            /\ row'[f] # "none"
            /\ row'[f] = "pending" => row[f] = "pending" /\ (Seen(f) => Seen(f)')
    BY <1>1, <1>2
  <2>2. ASSUME NEW c \in Callers, call[c].op = "delete", NEW f \in call[c].file, NEW e \in Files
        PROVE  row[e] = "attached" /\ of[e] = of[f] <=> row'[e] = "attached" /\ of'[e] = of[f]
    <3>1. of[f] # m
      BY <1>1, <2>2, InHeld
    <3> QED BY <1>1, <3>1
  <2>3. call' = call /\ call' \in [Callers -> Calls]
    BY <1>1 DEF FilesTyped
  <2> QED BY <2>1, <2>2, <2>3, CallsKept
<1>6. BatchesInv'
  BY <1>1 DEF BatchesInv, FilesTyped
<1>7. RoomInv' /\ ObjectsKnown'
  BY <1>1 DEF RoomInv, ObjectsKnown, Rows, FilesTyped
<1>8. NoEmptyMessage'
  BY <1>1 DEF NoEmptyMessage, Attached, FilesTyped
<1> QED BY <1>3, <1>4, <1>5, <1>6, <1>7, <1>8

LEMMA RoomKeeps ==
    ASSUME FInv, LockRoom \/ DeleteRoom \/ DeleteRoomFails
    PROVE  FInv'
<1> USE DEF FInv, AttachmentsInv, Calls, Batches
<1>1. CASE LockRoom \/ DeleteRoomFails
  <2>1. /\ UNCHANGED <<row, of, age, object, message, queue, call, batch, torn, again>>
        /\ \/ room' = "locked" /\ copied' = Rows
           \/ room' = "open" /\ copied' = {}
    BY <1>1 DEF LockRoom, DeleteRoomFails
  <2>2. \A f : Seen(f)' <=> Seen(f)
    BY <2>1, InDone DEF Seen
  <2>3. FilesTyped'
    BY <2>1 DEF FilesTyped, Rows
  <2>4. CallsInv'
    BY <2>1, <2>2 DEF CallsInv, Attached
  <2>5. RoomInv'
    BY <2>1 DEF RoomInv, Rows
  <2>6. FilesInv' /\ BatchesInv' /\ NoEmptyMessage' /\ ObjectsKnown'
    BY <2>1, <2>2 DEF FilesInv, BatchesInv, NoEmptyMessage, ObjectsKnown, Rows, Attached
  <2> QED BY <2>3, <2>4, <2>5, <2>6
<1>2. CASE DeleteRoom
  <2>1. /\ room = "locked" /\ Held = {} /\ LockedBy("rows") = {}
        /\ room' = "deleted" /\ copied' = {} /\ queue' = queue \cup copied
        /\ row' = [f \in Files |-> IF f \in Rows THEN "cascaded" ELSE row[f]]
        /\ message' = [m \in Messages |-> IF message[m] = "none" THEN "none" ELSE "deleted"]
        /\ UNCHANGED <<of, age, object, call, batch, torn, again, failures>>
    BY <1>2 DEF DeleteRoom, Become
  <2>2. \A f \in Files : f \in Rows <=> row[f] \in {"pending", "uploaded", "attached", "deleted"}
    BY DEF Rows
  <2>3. \A f \in Files : row'[f] \in {"none", "cleaned", "cascaded"}
                         /\ (row[f] # "none" => row'[f] # "none")
                         /\ (row[f] = "none" => row'[f] = "none")
                         /\ (row'[f] = "cascaded" => row[f] = "cascaded" \/ f \in copied)
    BY <2>1, <2>2 DEF FilesTyped, RoomInv
  <2>4. \A c \in Callers : call[c].op # "delete"
    BY <2>1, InHeld DEF CallsInv
  <2>5. \A g \in Cleaners : batch[g].kind = "rows" => batch[g].files = {}
    BY <2>1, InLocked
  <2>6. FilesTyped'
    BY <2>1, <2>3 DEF FilesTyped
  <2>7. FilesInv'
    BY <2>1, <2>3 DEF FilesInv
  <2>8. CallsInv'
    BY <2>1, <2>3, <2>4 DEF CallsInv, FilesTyped
  <2>9. BatchesInv'
    <3>1. \A g \in Cleaners : batch[g].files \subseteq Files
      BY DEF FilesTyped
    <3> QED BY <2>1, <2>2, <2>5, <3>1 DEF BatchesInv
  <2>10. RoomInv'
    <3>1. Rows' = {}
      BY <2>3 DEF Rows
    <3>2. \A f \in queue \cup copied : row'[f] \in {"cleaned", "cascaded"}
      <4>1. \A f \in queue \cup copied : f \in Files /\ row[f] # "none"
        BY DEF RoomInv, FilesTyped
      <4> QED BY <4>1, <2>3
    <3> QED BY <2>1, <2>3, <3>1, <3>2 DEF RoomInv
  <2>11. NoEmptyMessage'
    BY <2>1 DEF NoEmptyMessage
  <2>12. ObjectsKnown'
    <3>1. \A f \in object : f \in Files
      BY DEF FilesTyped
    <3> QED BY <2>1, <3>1 DEF ObjectsKnown, RoomInv
  <2> QED BY <2>6, <2>7, <2>8, <2>9, <2>10, <2>11, <2>12
<1> QED BY <1>1, <1>2


(* The cleanup. *)

LEMMA LockKeeps ==
    ASSUME FInv, NEW g \in Cleaners, LockRows(g) \/ LockKeys(g)
    PROVE  FInv'
<1> USE DEF FInv, AttachmentsInv, Calls, Batches
<1>1. /\ UNCHANGED <<row, of, age, object, message, room, copied, queue, call, torn, again, failures>>
      /\ batch[g] = NoBatch
      /\ \E b \in Batches :
             /\ batch' = [batch EXCEPT ![g] = b] /\ b.done = {}
             /\ \/ /\ b.kind = "rows" /\ b.files \cap LockedBy("rows") = {}
                   /\ \A f \in b.files : row[f] \in {"pending", "uploaded", "deleted"}
                \/ b.kind = "keys" /\ \A f \in b.files : f \in queue /\ age[f] # "fresh"
  <2>1. ASSUME LockRows(g)
        PROVE  \E b \in Batches :
                   /\ batch' = [batch EXCEPT ![g] = b] /\ b.done = {}
                   /\ b.kind = "rows" /\ b.files \cap LockedBy("rows") = {}
                   /\ \A f \in b.files : row[f] \in {"pending", "uploaded", "deleted"}
    <3> DEFINE b == [NoBatch EXCEPT !.kind = "rows", !.files = Due \ LockedBy("rows")]
    <3>1. Due \subseteq Files /\ \A f \in Due : row[f] \in {"pending", "uploaded", "deleted"}
      BY DEF Due, Rows
    <3>2. b.kind = "rows" /\ b.files = Due \ LockedBy("rows") /\ b.done = {} /\ b \in Batches
      BY <3>1 DEF NoBatch
    <3>3. batch' = [batch EXCEPT ![g] = b]
      BY <2>1 DEF LockRows
    <3> HIDE DEF b
    <3> QED BY <3>1, <3>2, <3>3
  <2>2. ASSUME LockKeys(g)
        PROVE  \E b \in Batches :
                   /\ batch' = [batch EXCEPT ![g] = b] /\ b.done = {}
                   /\ b.kind = "keys" /\ \A f \in b.files : f \in queue /\ age[f] # "fresh"
    <3> DEFINE b == [NoBatch EXCEPT !.kind = "keys", !.files = DueKeys \ LockedBy("keys")]
    <3>1. DueKeys \subseteq Files /\ \A f \in DueKeys : f \in queue /\ age[f] # "fresh"
      BY DEF DueKeys, FilesTyped
    <3>2. b.kind = "keys" /\ b.files = DueKeys \ LockedBy("keys") /\ b.done = {} /\ b \in Batches
      BY <3>1 DEF NoBatch
    <3>3. batch' = [batch EXCEPT ![g] = b]
      BY <2>2 DEF LockKeys
    <3> HIDE DEF b
    <3> QED BY <3>1, <3>2, <3>3
  <2> QED BY <2>1, <2>2 DEF LockRows, LockKeys
<1>2. PICK b \in Batches :
          /\ batch' = [batch EXCEPT ![g] = b] /\ b.done = {}
          /\ \/ /\ b.kind = "rows" /\ b.files \cap LockedBy("rows") = {}
                /\ \A f \in b.files : row[f] \in {"pending", "uploaded", "deleted"}
             \/ b.kind = "keys" /\ \A f \in b.files : f \in queue /\ age[f] # "fresh"
  BY <1>1
<1>3. FilesTyped'
  BY <1>1, <1>2 DEF FilesTyped
<1>4. /\ batch'[g] = b /\ \A h \in Cleaners \ {g} : batch'[h] = batch[h]
      /\ batch[g].kind = "none" /\ batch[g].done = {}
  BY <1>1, <1>2 DEF FilesTyped, NoBatch
<1>5. \A f : Seen(f)' <=> Seen(f)
  BY <1>1, <1>2, <1>4, InDone DEF Seen
<1>6. BatchesInv'
  <2>1. \A h \in Cleaners : b.kind = "rows" /\ batch[h].kind = "rows" => b.files \cap batch[h].files = {}
    BY <1>2, InLocked
  <2>2. \A f \in queue : row[f] \in {"cleaned", "cascaded"}
    BY DEF RoomInv
  <2> SUFFICES ASSUME NEW h \in Cleaners
               PROVE  /\ batch'[h].done \subseteq batch'[h].files
                      /\ batch'[h].kind = "none" => batch'[h].files = {}
                      /\ batch'[h].kind = "rows" =>
                          /\ \A f \in batch'[h].files : row[f] \in {"pending", "uploaded", "deleted"}
                          /\ batch'[h].done \cap object \subseteq again
                          /\ \A i \in Cleaners \ {h} :
                                 batch'[i].kind = "rows" => batch'[h].files \cap batch'[i].files = {}
                      /\ batch'[h].kind = "keys" =>
                          /\ \A f \in batch'[h].files : row[f] \in {"cleaned", "cascaded"} /\ age[f] # "fresh"
                          /\ batch'[h].done \cap object \subseteq again
    BY <1>1 DEF BatchesInv
  <2>3. CASE h = g
    BY <1>2, <1>4, <2>1, <2>2, <2>3
  <2>4. CASE h # g
    BY <1>4, <2>1, <2>4 DEF BatchesInv
  <2> QED BY <2>3, <2>4
<1>7. FilesInv' /\ CallsInv' /\ RoomInv' /\ NoEmptyMessage' /\ ObjectsKnown'
  BY <1>1, <1>5 DEF FilesInv, CallsInv, RoomInv, NoEmptyMessage, ObjectsKnown, Rows, Attached
<1> QED BY <1>3, <1>6, <1>7

LEMMA DeleteObjectKeeps ==
    ASSUME FInv, NEW g \in Cleaners, DeleteObject(g)
    PROVE  FInv'
<1> USE DEF FInv, AttachmentsInv, Calls, Batches
<1>1. PICK f \in batch[g].files \ batch[g].done :
          /\ object' = object \ {f}
          /\ batch' = [batch EXCEPT ![g].done = @ \cup {f}]
          /\ UNCHANGED <<row, of, age, message, room, copied, queue, call, torn, again, failures>>
  BY DEF DeleteObject
<1>2. f \in Files /\ batch[g].kind # "none"
  BY <1>1 DEF FilesTyped, BatchesInv
<1>3. FilesTyped'
  BY <1>1, <1>2 DEF FilesTyped
<1>4. /\ batch'[g].kind = batch[g].kind /\ batch'[g].files = batch[g].files
      /\ batch'[g].done = batch[g].done \cup {f}
      /\ \A h \in Cleaners \ {g} : batch'[h] = batch[h]
  BY <1>1 DEF FilesTyped
<1>5. \A e : Seen(e) => Seen(e)' \/ (e = f /\ batch[g].kind = "keys")
  <2>1. \A e : e \in DoneBy("rows") => e \in DoneBy("rows")'
    BY <1>4, InDone
  <2>2. batch[g].kind = "rows" => f \in DoneBy("rows")'
    BY <1>4, InDone
  <2>3. batch[g].kind \in {"none", "rows", "keys"}
    BY DEF FilesTyped
  <2> QED BY <1>1, <1>2, <2>1, <2>2, <2>3 DEF Seen
<1>6. batch[g].kind = "keys" => row[f] \in {"cleaned", "cascaded"}
  BY <1>1 DEF BatchesInv
<1>7. FilesInv'
  <2>1. row[f] # "attached"
    BY <1>1, <1>2 DEF BatchesInv, FilesTyped
  <2> QED BY <1>1, <1>5, <1>6, <2>1 DEF FilesInv
<1>8. CallsInv'
  <2>1. call' \in [Callers -> Calls]
    BY <1>3 DEF FilesTyped
  <2> QED BY <1>1, <1>5, <1>6, <2>1, CallsKept
<1>9. BatchesInv'
  BY <1>1, <1>4 DEF BatchesInv
<1>10. RoomInv' /\ NoEmptyMessage' /\ ObjectsKnown'
  BY <1>1 DEF RoomInv, NoEmptyMessage, ObjectsKnown, Rows, Attached
<1> QED BY <1>3, <1>7, <1>8, <1>9, <1>10

LEMMA CleanupCommitsKeeps ==
    ASSUME FInv, NEW g \in Cleaners, CleanupCommits(g)
    PROVE  FInv'
<1> USE DEF FInv, AttachmentsInv, Calls, Batches
<1>1. /\ batch' = [batch EXCEPT ![g] = NoBatch] /\ batch[g].done = batch[g].files
      /\ UNCHANGED <<of, age, object, message, room, copied, call, torn, again, failures>>
      /\ batch[g].files \subseteq Files
  BY DEF CleanupCommits, FilesTyped
<1>2. /\ batch'[g] = NoBatch /\ \A h \in Cleaners \ {g} : batch'[h] = batch[h]
      /\ NoBatch.kind = "none" /\ NoBatch.files = {} /\ NoBatch.done = {}
  BY <1>1 DEF FilesTyped, NoBatch
<1>3. NoBatch \in Batches
  BY DEF NoBatch
<1>4. CASE batch[g].kind = "rows"
  <2>1. row' = [f \in Files |-> IF f \in batch[g].files THEN "cleaned" ELSE row[f]] /\ queue' = queue
    BY <1>4 DEF CleanupCommits, Become
  <2>2. /\ \A f \in batch[g].files : row[f] \in {"pending", "uploaded", "deleted"}
        /\ batch[g].files \cap object \subseteq again
        /\ \A h \in Cleaners \ {g} : batch[h].kind = "rows" => batch[g].files \cap batch[h].files = {}
    BY <1>1, <1>4 DEF BatchesInv
  <2>3. FilesTyped'
    BY <1>1, <1>3, <2>1 DEF FilesTyped
  <2>4. \A f : Seen(f) /\ f \notin batch[g].files => Seen(f)'
    <3>1. \A f : f \in DoneBy("rows") /\ f \notin batch[g].files => f \in DoneBy("rows")'
      BY <1>1, <1>2, InDone
    <3> QED BY <1>1, <3>1 DEF Seen
  <2>5. FilesInv'
    BY <1>1, <2>1, <2>4 DEF FilesInv, FilesTyped
  <2>6. CallsInv'
    <3>1. \A f \in Files : row[f] # "none" =>
              /\ row'[f] # "none"
              /\ row'[f] = "pending" => row[f] = "pending" /\ (Seen(f) => Seen(f)')
      BY <2>1, <2>4
    <3>2. \A e \in Files : (row[e] = "attached" <=> row'[e] = "attached") /\ of'[e] = of[e]
      BY <1>1, <2>1, <2>2
    <3>3. call' \in [Callers -> Calls]
          /\ call' = call
      BY <1>1 DEF FilesTyped
    <3>4. \A c \in Callers : \A f \in call[c].file : f \in Files
      BY DEF FilesTyped
    <3> QED BY <3>1, <3>2, <3>3, <3>4, CallsKept
  <2>7. BatchesInv'
    <3>1. \A h \in Cleaners : batch[h].files \subseteq Files
      BY DEF FilesTyped
    <3>2. \A f \in Files : row'[f] = row[f] \/ (f \in batch[g].files /\ row'[f] = "cleaned")
      BY <2>1
    <3>3. \A h \in Cleaners : batch'[h].kind # "none" => h # g /\ batch'[h] = batch[h]
      BY <1>2
    <3> SUFFICES ASSUME NEW h \in Cleaners
                 PROVE  /\ batch'[h].done \subseteq batch'[h].files
                        /\ batch'[h].kind = "none" => batch'[h].files = {}
                        /\ batch'[h].kind = "rows" =>
                            /\ \A f \in batch'[h].files : row'[f] \in {"pending", "uploaded", "deleted"}
                            /\ batch'[h].done \cap object \subseteq again
                            /\ \A i \in Cleaners \ {h} :
                                   batch'[i].kind = "rows" => batch'[h].files \cap batch'[i].files = {}
                        /\ batch'[h].kind = "keys" =>
                            /\ \A f \in batch'[h].files : row'[f] \in {"cleaned", "cascaded"} /\ age[f] # "fresh"
                            /\ batch'[h].done \cap object \subseteq again
      BY <1>1 DEF BatchesInv
    <3>4. CASE h = g
      BY <1>2, <3>4
    <3>5. CASE h # g
      BY <1>2, <2>2, <3>1, <3>2, <3>3, <3>5 DEF BatchesInv
    <3> QED BY <3>4, <3>5
  <2>8. RoomInv'
    BY <1>1, <2>1, <2>2, <2>3 DEF RoomInv, Rows, FilesTyped
  <2>9. NoEmptyMessage'
    BY <1>1, <2>1, <2>2 DEF NoEmptyMessage, Attached
  <2>10. ObjectsKnown'
    BY <1>1, <2>1, <2>2 DEF ObjectsKnown, Rows, FilesTyped
  <2> QED BY <2>3, <2>5, <2>6, <2>7, <2>8, <2>9, <2>10
<1>5. CASE batch[g].kind = "keys"
  <2>1. queue' = queue \ batch[g].files /\ row' = row
    BY <1>5 DEF CleanupCommits
  <2>2. /\ \A f \in batch[g].files : row[f] \in {"cleaned", "cascaded"} /\ age[f] # "fresh"
        /\ batch[g].files \cap object \subseteq again
    BY <1>1, <1>5 DEF BatchesInv
  <2>3. FilesTyped'
    BY <1>1, <1>3, <2>1 DEF FilesTyped
  <2>4. \A f : Seen(f) => Seen(f)'
    <3>1. \A f : f \in DoneBy("rows") => f \in DoneBy("rows")'
      BY <1>2, <1>5, InDone
    <3> QED BY <1>1, <3>1 DEF Seen
  <2>5. FilesInv'
    BY <1>1, <2>1, <2>4 DEF FilesInv
  <2>6. CallsInv'
    BY <1>1, <2>1, <2>4 DEF CallsInv, Attached
  <2>7. BatchesInv'
    BY <1>1, <1>2, <2>1 DEF BatchesInv
  <2>8. RoomInv'
    BY <1>1, <2>1, <2>2 DEF RoomInv, Rows
  <2>9. NoEmptyMessage' /\ ObjectsKnown'
    BY <1>1, <2>1, <2>2 DEF NoEmptyMessage, ObjectsKnown, Rows, Attached
  <2> QED BY <2>3, <2>5, <2>6, <2>7, <2>8, <2>9
<1>6. CASE batch[g].kind = "none"
  <2>1. batch[g] = NoBatch
    <3>1. batch[g].files = {} /\ batch[g].done = {}
      BY <1>6 DEF BatchesInv
    <3>2. batch[g] = [kind |-> batch[g].kind, files |-> batch[g].files, done |-> batch[g].done]
      BY DEF FilesTyped
    <3> QED BY <1>6, <3>1, <3>2 DEF NoBatch
  <2> QED BY <2>1 DEF CleanupCommits
<1> QED BY <1>4, <1>5, <1>6 DEF FilesTyped

LEMMA CleanupFailsKeeps ==
    ASSUME FInv, NEW g \in Cleaners, CleanupFails(g)
    PROVE  FInv'
<1> USE DEF FInv, AttachmentsInv, Calls, Batches
<1>1. /\ batch' = [batch EXCEPT ![g] = NoBatch]
      /\ torn' = IF batch[g].kind = "rows" THEN torn \cup batch[g].done ELSE torn
      /\ UNCHANGED <<row, of, age, object, message, room, copied, queue, call, again>>
  BY DEF CleanupFails
<1>2. /\ batch'[g] = NoBatch /\ \A h \in Cleaners \ {g} : batch'[h] = batch[h]
      /\ NoBatch.kind = "none" /\ NoBatch.files = {} /\ NoBatch.done = {}
  BY <1>1 DEF FilesTyped, NoBatch
<1>3. NoBatch \in Batches
  BY DEF NoBatch
<1>4. FilesTyped'
  BY <1>1, <1>3 DEF FilesTyped
<1>5. \A f : Seen(f) => Seen(f)'
  <2>1. \A f : f \in DoneBy("rows") => f \in DoneBy("rows")' \/ f \in torn'
    BY <1>1, <1>2, InDone
  <2> QED BY <1>1, <2>1 DEF Seen
<1>6. FilesInv'
  BY <1>1, <1>5 DEF FilesInv
<1>7. CallsInv'
  BY <1>1, <1>5 DEF CallsInv, Attached
<1>8. BatchesInv'
  BY <1>1, <1>2 DEF BatchesInv
<1>9. RoomInv' /\ NoEmptyMessage' /\ ObjectsKnown'
  BY <1>1 DEF RoomInv, NoEmptyMessage, ObjectsKnown, Rows, Attached
<1> QED BY <1>4, <1>6, <1>7, <1>8, <1>9

LEMMA NextFiles == FInv /\ [FilesNext]_fileVars => FInv'
<1> SUFFICES ASSUME FInv, [FilesNext]_fileVars PROVE FInv'
  OBVIOUS
<1>1. CASE UNCHANGED fileVars
  <2>1. \A f : Seen(f)' <=> Seen(f)
    BY <1>1, InDone DEF fileVars, Seen
  <2> QED BY <1>1, <2>1 DEF fileVars, FInv, FilesTyped, AttachmentsInv, FilesInv, CallsInv, BatchesInv,
             RoomInv, NoEmptyMessage, ObjectsKnown, Rows, Attached
<1>2. CASE \E f \in Files : Create(f) \/ Put(f) \/ Age(f)
  BY <1>2, UploadKeeps
<1>3. ASSUME NEW c \in Callers,
             \/ Head(c) \/ Mark(c) \/ FileDeleted(c) \/ CallFails(c)
             \/ \E f \in Files : Complete(c, f) \/ DeleteFile(c, f)
      PROVE  FInv'
  BY <1>3, CompleteKeeps, MarkKeeps, FileDeletedKeeps, CallFailsKeeps, DeleteFileKeeps
<1>4. CASE \E m \in Messages : DeleteMessage(m) \/ \E F \in SUBSET Files : Send(m, F)
  BY <1>4, DeleteMessageKeeps, SendKeeps
<1>5. CASE LockRoom \/ DeleteRoom \/ DeleteRoomFails
  BY <1>5, RoomKeeps
<1>6. CASE \E g \in Cleaners : Cleanup(g) \/ CleanupFails(g)
  BY <1>6, LockKeeps, DeleteObjectKeeps, CleanupCommitsKeeps, CleanupFailsKeeps DEF Cleanup
<1> QED BY <1>1, <1>2, <1>3, <1>4, <1>5, <1>6 DEF FilesNext

LEMMA FilesAreSound == FilesSpec => []FInv
<1> QED BY InitFiles, NextFiles, PTL DEF FilesSpec

\* Rows, objects, calls and batches keep their types, for every number of files, messages,
\* calls and cleanup jobs; no more transactions fail than the bound says.
THEOREM FilesTypes == FilesSpec => []FilesTypeOK
<1> DEFINE Left == failures \in 0..MaxFailed
<1>1. FilesInit => Left
  BY AttachmentsAssumption DEF FilesInit
<1>2. Left /\ [FilesNext]_fileVars => Left'
  <2>1. Fail /\ Left => Left'
    BY AttachmentsAssumption DEF Fail
  <2>2. CASE UNCHANGED failures
    BY <2>2
  <2>3. ASSUME NEW f \in Files, Create(f) \/ Put(f) \/ Age(f) PROVE UNCHANGED failures
    BY <2>3 DEF Create, Put, Age
  <2>4. ASSUME NEW c \in Callers, NEW f \in Files,
               Complete(c, f) \/ DeleteFile(c, f)
        PROVE  UNCHANGED failures
    BY <2>4 DEF Complete, DeleteFile
  <2>5. ASSUME NEW m \in Messages, DeleteMessage(m) \/ \E F \in SUBSET Files : Send(m, F)
        PROVE  UNCHANGED failures
    BY <2>5 DEF DeleteMessage, Send
  <2>6. ASSUME NEW g \in Cleaners, Cleanup(g) PROVE UNCHANGED failures
    BY <2>6 DEF Cleanup, LockRows, LockKeys, DeleteObject, CleanupCommits
  <2>7. ASSUME LockRoom \/ DeleteRoom PROVE UNCHANGED failures
    BY <2>7 DEF LockRoom, DeleteRoom
  <2>8. ASSUME \/ \E c \in Callers : CallFails(c)
               \/ \E g \in Cleaners : CleanupFails(g)
               \/ DeleteRoomFails
        PROVE  UNCHANGED failures \/ Fail
    BY <2>8 DEF CallFails, CleanupFails, DeleteRoomFails
  <2>9. CASE UNCHANGED fileVars
    BY <2>9 DEF fileVars
  <2> HIDE DEF Left
  <2>10. ASSUME NEW c \in Callers, Head(c) \/ Mark(c) \/ FileDeleted(c) PROVE UNCHANGED failures
    BY <2>10 DEF Head, Mark, FileDeleted
  <2> QED BY <2>1, <2>2, <2>3, <2>4, <2>5, <2>6, <2>7, <2>8, <2>9, <2>10 DEF FilesNext
<1>3. FInv /\ Left => FilesTypeOK
  BY DEF FInv, FilesTypeOK
<1> HIDE DEF Left
<1> QED BY <1>1, <1>2, <1>3, FilesAreSound, PTL DEF FilesSpec

\* What complete has verified and what a message shows can be downloaded: FOR UPDATE SKIP
\* LOCKED keeps the cleanup and an attachToMessage from one row, and an upload that is
\* marked after its row was cleared away marks nothing.
THEOREM FilesCanBeDownloaded == FilesSpec => []Downloadable
<1>1. FInv => Downloadable
  <2> SUFFICES ASSUME FInv, NEW f \in Files, row[f] = "uploaded", f \notin object \cup torn
               PROVE  f \in LockedBy("rows")
    BY DEF Downloadable, FInv, AttachmentsInv, FilesInv
  <2>1. f \in DoneBy("rows")
    BY DEF FInv, AttachmentsInv, FilesInv, Seen
  <2> QED BY <2>1, InDone, InLocked DEF FInv, AttachmentsInv, BatchesInv
<1> QED BY <1>1, FilesAreSound, PTL

\* Files of one message may be deleted together: the row of the message, locked by
\* GetMessageForUpdate, makes each DeleteMessageAttachment count what the others left.
THEOREM MessagesHoldSomething == FilesSpec => []NoEmptyMessage
<1>1. FInv => NoEmptyMessage
  BY DEF FInv, AttachmentsInv
<1> QED BY <1>1, FilesAreSound, PTL

\* No object is left at the storage that neither attachments nor storage_deletions names,
\* except for a file that its client put there again after the cleanup was through with it.
THEOREM EveryObjectIsKnown == FilesSpec => []ObjectsKnown
<1>1. FInv => ObjectsKnown
  BY DEF FInv, AttachmentsInv
<1> QED BY <1>1, FilesAreSound, PTL
=============================================================================
