------------------------------ MODULE Presence ------------------------------
(***************************************************************************)
(* Whether one user is online: each instance counts the user's connections *)
(* (hub.go) and writes the count to its own field of a hash at Redis,      *)
(* which expires (presence/presence.go).  The script that writes a field   *)
(* publishes the user's state when it changes.                             *)
(*                                                                         *)
(* A count is <<connections, connections that watch the screen>>.  Time is *)
(* abstract: a field expires once its instance no longer renews it.        *)
(***************************************************************************)
EXTENDS Naturals, FiniteSets, FiniteSetsExt

CONSTANTS
    Instances,
    MaxConns,       \* bound: connections of the user to an instance
    MaxChanges,     \* bound: connections, disconnections, changes of activity
    MaxFailures     \* bound: scripts that fail, announcements that fail, and crashes

ASSUME PresenceAssumption == MaxConns \in Nat

VARIABLES
    up,         \* the instances that run
    conns,      \* Instances -> the count of h.byUser
    waiting,    \* instances where a syncPresence waits for the user's presenceLock
    announced,  \* Instances -> h.announced; Zero for a user without an entry
    writing,    \* Instances -> the counts that a syncPresence is sending to Redis
    renewing,   \* Instances -> the watching counts that a RefreshPresence is sending to Redis
    field,      \* Instances -> the field of presence:{userID} at Redis: how many
                \* connections watch, or nothing
    late,       \* Instances -> the scripts that were given up, and that Redis still may run
    shown,      \* the state published last
    silent,     \* a refresh, an expiry or a write without an announcement changed the state
                \* since, and no event told of it
    suspect,    \* instances whose field may be wrong until the next refresh
    failing,    \* instances whose last write failed, or was undone by one given up before
    left        \* changes and failures left (for the bounds)

vars == <<up, conns, waiting, announced, writing, renewing, field, late, shown, silent, suspect, failing, left>>

Counts == {c \in (0..MaxConns) \X (0..MaxConns) : c[2] <= c[1]}
Zero == <<0, 0>>
Value(c) == IF c = Zero THEN {} ELSE {c[2]}
States == {"offline", "idle", "active"}

TypeOK ==
    /\ up \subseteq Instances /\ waiting \subseteq Instances /\ suspect \subseteq Instances /\ failing \subseteq Instances
    /\ conns \in [Instances -> Counts] /\ announced \in [Instances -> Counts]
    /\ writing \in [Instances -> SUBSET Counts]
    /\ \A v \in {renewing, field} : v \in [Instances -> SUBSET (0..MaxConns)]
    /\ late \in [Instances -> SUBSET [value : SUBSET (0..MaxConns), tells : BOOLEAN]]
    /\ \A i \in Instances : Cardinality(field[i]) <= 1 /\ Cardinality(writing[i]) <= 1
    /\ shown \in States /\ silent \in BOOLEAN

Init ==
    /\ up = Instances
    /\ conns = [i \in Instances |-> Zero] /\ announced = conns
    /\ writing = [i \in Instances |-> {}] /\ renewing = writing /\ field = writing /\ late = writing
    /\ waiting = {} /\ suspect = {} /\ failing = {}
    /\ shown = "offline" /\ silent = FALSE
    /\ left = [changes |-> MaxChanges, failures |-> MaxFailures]

\* The scripts' state(): no field, fields that are all 0, or one above 0.
State(f) ==
    IF \A i \in Instances : f[i] = {} THEN "offline"
    ELSE IF \E i \in Instances : \E a \in f[i] : a > 0 THEN "active" ELSE "idle"

\* A script runs at Redis: it sets or deletes the field of i and, when it tells, publishes
\* the state if that changed.
Run(i, value, tells) ==
    /\ field' = [field EXCEPT ![i] = value]
    /\ IF State(field) = State(field') THEN UNCHANGED <<shown, silent>>
       ELSE /\ shown' = IF tells THEN State(field') ELSE shown
            /\ silent' = ~tells

-----------------------------------------------------------------------------
\* Register, Unregister and SetActivity change the count and call syncPresence.
Change(i) ==
    LET n == conns[i][1]
        a == conns[i][2]
    IN  /\ i \in up /\ left.changes > 0
        /\ \E c \in Counts \cap {<<n + 1, a>>, <<n - 1, a>>, <<n - 1, a - 1>>, <<n, a + 1>>, <<n, a - 1>>} :
               conns' = [conns EXCEPT ![i] = c]
        /\ waiting' = waiting \cup {i}
        /\ left' = [left EXCEPT !.changes = @ - 1]
        /\ UNCHANGED <<up, announced, writing, renewing, field, late, shown, silent, suspect, failing>>

\* Mutant of Sync: the user's syncs on an instance are not serialised.
SyncUnlocked(i) ==
    /\ i \in waiting
    /\ waiting' = waiting \ {i}
    /\ announced' = [announced EXCEPT ![i] = conns[i]]
    /\ writing' = [writing EXCEPT ![i] =
           IF conns[i] = announced[i] THEN @ ELSE @ \cup {conns[i]}]
    /\ UNCHANGED <<up, conns, renewing, field, late, shown, silent, suspect, failing, left>>

\* syncPresence has the lock: it compares the count with the one announced, and takes it
\* for announced before Redis has it.
Sync(i) ==
    /\ i \in waiting
    /\ writing[i] = {}
    /\ waiting' = waiting \ {i}
    /\ announced' = [announced EXCEPT ![i] = conns[i]]
    /\ writing' = [writing EXCEPT ![i] = IF conns[i] = announced[i] THEN {} ELSE {conns[i]}]
    /\ UNCHANGED <<up, conns, renewing, field, late, shown, silent, suspect, failing, left>>

\* Mutant of Write: the state published is that of this instance alone.
WriteOwnState(i) ==
    \E c \in writing[i] :
        /\ field' = [field EXCEPT ![i] = Value(c)]
        /\ writing' = [writing EXCEPT ![i] = @ \ {c}]
        /\ shown' = IF c = Zero THEN "offline" ELSE IF c[2] > 0 THEN "active" ELSE "idle"
        /\ suspect' = suspect \ {i} /\ failing' = failing \ {i}
        /\ UNCHANGED <<up, conns, waiting, announced, renewing, late, silent, left>>

\* Mutant of Write: the field is deleted when nobody watches the screen.
WriteWatching(i) ==
    \E c \in writing[i] :
        /\ Run(i, IF c[2] = 0 THEN {} ELSE {c[2]}, TRUE)
        /\ writing' = [writing EXCEPT ![i] = @ \ {c}]
        /\ suspect' = suspect \ {i} /\ failing' = failing \ {i}
        /\ UNCHANGED <<up, conns, waiting, announced, renewing, late, left>>

\* syncScript: the field is set or deleted, and the state published if it changed; but the
\* script gets nothing to publish when the user's workspaces cannot be read.
Write(i) ==
    \E c \in writing[i], tells \in BOOLEAN :
        /\ tells \/ left.failures > 0
        /\ Run(i, Value(c), tells)
        /\ writing' = [writing EXCEPT ![i] = @ \ {c}]
        /\ suspect' = IF renewing[i] \in {{}, Value(c)} THEN suspect \ {i} ELSE suspect
        /\ failing' = failing \ {i}
        /\ left' = IF tells THEN left ELSE [left EXCEPT !.failures = @ - 1]
        /\ UNCHANGED <<up, conns, waiting, announced, renewing, late>>

\* The call of a script fails: it did not run, it ran and the reply was lost, or the call
\* timed out and Redis runs it later.
GivenUp(i, value, tells) ==
    /\ left.failures > 0
    /\ \/ UNCHANGED <<field, late, shown, silent>>
       \/ Run(i, value, tells) /\ UNCHANGED late
       \/ /\ late' = [late EXCEPT ![i] = @ \cup {[value |-> value, tells |-> tells]}]
          /\ UNCHANGED <<field, shown, silent>>
    /\ suspect' = suspect \cup {i} /\ failing' = failing \cup {i}
    /\ left' = [left EXCEPT !.failures = @ - 1]

WriteFails(i) ==
    /\ \E c \in writing[i], tells \in BOOLEAN : GivenUp(i, Value(c), tells)
    /\ writing' = [writing EXCEPT ![i] = {}]
    /\ UNCHANGED <<up, conns, waiting, announced, renewing>>

\* Redis runs a script that its caller has given up: over what was written since.
RunLate(i) ==
    \E script \in late[i] :
        /\ Run(i, script.value, script.tells)
        /\ late' = [late EXCEPT ![i] = @ \ {script}]
        /\ suspect' = suspect \cup {i}
        /\ failing' = IF script.value = {} THEN failing \cup {i} ELSE failing
        /\ UNCHANGED <<up, conns, waiting, announced, writing, renewing, left>>

\* RefreshPresence collects what was announced under h.mu ...
Refresh(i) ==
    /\ i \in up /\ renewing[i] = {}
    /\ announced[i] # Zero
    /\ renewing' = [renewing EXCEPT ![i] = {announced[i][2]}]
    /\ UNCHANGED <<up, conns, waiting, announced, writing, field, late, shown, silent, suspect, failing, left>>

\* The refresh under way writes what is announced, and no sync is about to write.
Renews(i) == announced[i] # Zero /\ renewing[i] = {announced[i][2]} /\ writing[i] = {}

\* Mutant of Renew: every field is set to '1' again, as before ADR 0049.
RenewAsActive(i) ==
    /\ renewing[i] # {}
    /\ field' = [field EXCEPT ![i] = {1}]
    /\ renewing' = [renewing EXCEPT ![i] = {}]
    /\ suspect' = IF Renews(i) THEN suspect \ {i}
                  ELSE suspect \cup {i}
    /\ failing' = failing \ {i}
    /\ silent' = (silent \/ State(field) # State(field'))
    /\ UNCHANGED <<up, conns, waiting, announced, writing, late, shown, left>>

\* ... and refreshScript writes it without a lock and without an event: when a change was
\* announced meanwhile the field is wrong until it is written or expires.
Renew(i) ==
    /\ renewing[i] # {}
    /\ Run(i, renewing[i], FALSE)
    /\ renewing' = [renewing EXCEPT ![i] = {}]
    /\ suspect' = IF Renews(i) THEN suspect \ {i} ELSE suspect \cup {i}
    /\ failing' = failing \ {i}
    /\ UNCHANGED <<up, conns, waiting, announced, writing, late, left>>

RenewFails(i) ==
    /\ renewing[i] # {}
    /\ GivenUp(i, renewing[i], FALSE)
    /\ renewing' = [renewing EXCEPT ![i] = {}]
    /\ UNCHANGED <<up, conns, waiting, announced, writing>>

Crash(i) ==
    /\ i \in up /\ left.failures > 0
    /\ up' = up \ {i}
    /\ waiting' = waiting \ {i} /\ suspect' = suspect \ {i} /\ failing' = failing \ {i}
    /\ conns' = [conns EXCEPT ![i] = Zero] /\ announced' = [announced EXCEPT ![i] = Zero]
    /\ writing' = [writing EXCEPT ![i] = {}] /\ renewing' = [renewing EXCEPT ![i] = {}]
    /\ left' = [left EXCEPT !.failures = @ - 1]
    /\ UNCHANGED <<field, late, shown, silent>>

\* A field is gone after OnlineTTL without a write: nothing renews it, or it was not renewed
\* in time.  No event tells of it.
Expire(i) ==
    /\ field[i] # {}
    /\ announced[i] = Zero \/ i \in failing
    /\ renewing[i] = {}
    /\ Run(i, {}, FALSE)
    /\ UNCHANGED <<up, conns, waiting, announced, writing, renewing, late, suspect, failing, left>>

Next ==
    \E i \in Instances :
        \/ Change(i) \/ Sync(i) \/ Write(i) \/ WriteFails(i) \/ RunLate(i)
        \/ Refresh(i) \/ Renew(i) \/ RenewFails(i) \/ Crash(i) \/ Expire(i)

\* A sync and a refresh end, the ticker of RefreshPresence goes on, Redis expires fields.
Fairness ==
    \A i \in Instances :
        /\ WF_vars(Sync(i)) /\ WF_vars(Write(i))
        /\ WF_vars(Refresh(i)) /\ WF_vars(Renew(i)) /\ WF_vars(Expire(i))

Spec == Init /\ [][Next]_vars /\ Fairness

-----------------------------------------------------------------------------
Exact(i) == field[i] = IF conns[i] = Zero THEN {} ELSE {conns[i][2]}

\* The last sync of an instance leaves Redis with the present count, however connections
\* come and go together: the lock keeps the writes in the order of the counts.  The
\* exceptions (suspect) are a script that failed or ran after it was given up, and a
\* refresh that raced a sync; a crashed instance is not up.
FieldExact ==
    \A i \in up : i \notin waiting \cup suspect /\ writing[i] = {} /\ renewing[i] = {} => Exact(i)

\* A running instance that has connections and whose writes went through, and were not
\* undone by a deletion given up before, keeps the user from being offline, whatever the
\* other instances do, crash or let expire.
NotOffline ==
    (\E i \in up : announced[i] # Zero /\ i \notin failing /\ writing[i] = {})
        => State(field) # "offline"

\* What the subscribers were told last is the state at Redis, unless a refresh, an expiry
\* or a write that could not be announced changed it in silence: with several instances,
\* failing calls and late scripts the events are in the order of Redis.
ShownFollows == silent \/ shown = State(field)

\* In the end Redis, and so REST, has the counts of the instances that run and nothing of
\* those that crashed: failed writes and fields set by a late refresh do not stay.
Settles == <>[](\A i \in Instances : Exact(i))
=============================================================================
