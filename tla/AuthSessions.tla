---------------------------- MODULE AuthSessions ----------------------------
(***************************************************************************)
(* The login sessions of one user: the rows of refresh_tokens, and the     *)
(* requests of internal/auth that rotate and revoke them as concurrent     *)
(* READ COMMITTED transactions.                                            *)
(*                                                                         *)
(* A session is a family of tokens and is named here by its first token.   *)
(* A statement that revokes works on the rows its snapshot shows: it waits *)
(* for the lock of each, looks at the row again, and does not see a row    *)
(* that was inserted after it began.  Nothing of a transaction is visible  *)
(* before it commits.  A refusal (unknown, revoked or expired token)       *)
(* changes nothing and is left out, and so is the clock: an expired token  *)
(* is one nobody refreshes with any more.                                  *)
(***************************************************************************)
CONSTANTS
    Tokens,     \* bound: the tokens ever issued
    Requests,   \* bound: the requests under way at the same time
    NoFamily    \* the family of a token that is not issued

ASSUME NoFamilyAssumption == NoFamily \notin Tokens

VARIABLES
    row,        \* refresh_tokens: "none" (not issued), "open" (revoked_at IS NULL),
                \* "rotated", or "revoked" for any other reason
    family,     \* refresh_tokens.family_id
    announced,  \* the sessions whose revocation was published by name
    condemned,  \* the tokens issued before the UPDATE of a password reset that published
                \* the revocation of all sessions of the user
    req         \* what each request is doing

vars == <<row, family, announced, condemned, req>>

\* read: the row a request selected FOR UPDATE; todo: the rows its UPDATE still has to
\* visit; done: those it updated; tell: the sessions it has to publish; user: it has to
\* publish all sessions of the user, and seen are the tokens issued when its UPDATE began.
Request == [stage : {"idle", "rotating", "revoking", "announcing"},
            read : SUBSET Tokens, todo : SUBSET Tokens, done : SUBSET Tokens,
            tell : SUBSET Tokens, user : BOOLEAN, seen : SUBSET Tokens]
Idle == [stage |-> "idle", read |-> {}, todo |-> {}, done |-> {}, tell |-> {},
         user |-> FALSE, seen |-> {}]

Is(p, stage) == req[p].stage = stage

\* The row locks that a request's transaction holds.
Locked(p) == req[p].read \cup req[p].done

\* Mutant of Free: the token is read without FOR UPDATE.
FreeUnlocked(t, p) == t \in Tokens /\ p \in Requests

\* No other transaction holds the lock of the row.
Free(t, p) == \A q \in Requests \ {p} : t \notin Locked(q)

Families == {family[t] : t \in {u \in Tokens : row[u] # "none"}}
RowsOf(F) == {t \in Tokens : row[t] # "none" /\ family[t] \in F}

\* Mutant of OpenRows: WHERE without revoked_at IS NULL.
RowsRotatedToo(F) == {t \in RowsOf(F) : row[t] # "revoked"}

\* The rows that a statement revoking the sessions F finds: revoked_at IS NULL.
OpenRows(F) == {t \in RowsOf(F) : row[t] = "open"}

TypeOK ==
    /\ row \in [Tokens -> {"none", "open", "rotated", "revoked"}]
    /\ family \in [Tokens -> Tokens \cup {NoFamily}]
    /\ \A t \in Tokens : row[t] = "none" <=> family[t] = NoFamily
    /\ announced \subseteq Tokens
    /\ condemned \subseteq Tokens
    /\ req \in [Requests -> Request]

Init ==
    /\ row = [t \in Tokens |-> "none"]
    /\ family = [t \in Tokens |-> NoFamily]
    /\ announced = {}
    /\ condemned = {}
    /\ req = [p \in Requests |-> Idle]

-----------------------------------------------------------------------------
\* Login and Register insert the first row of a new session.
Login ==
    \E t \in Tokens :
        /\ row[t] = "none"
        /\ row' = [row EXCEPT ![t] = "open"]
        /\ family' = [family EXCEPT ![t] = t]
        /\ UNCHANGED <<announced, condemned, req>>

\* Refresh reads the token FOR UPDATE and finds it valid.
Refresh(p, t) ==
    /\ Is(p, "idle")
    /\ row[t] = "open"
    /\ Free(t, p)
    /\ req' = [req EXCEPT ![p] = [Idle EXCEPT !.stage = "rotating", !.read = {t}]]
    /\ UNCHANGED <<row, family, announced, condemned>>

\* It marks the token rotated, inserts its successor and commits.
Rotate(p) ==
    /\ Is(p, "rotating")
    /\ \E t \in req[p].read, u \in Tokens :
        /\ row[u] = "none"
        /\ row' = [row EXCEPT ![t] = "rotated", ![u] = "open"]
        /\ family' = [family EXCEPT ![u] = family[t]]
    /\ req' = [req EXCEPT ![p] = Idle]
    /\ UNCHANGED <<announced, condemned>>

-----------------------------------------------------------------------------
(* Revocations.  They differ in the sessions named in the WHERE clause. *)

\* A request begins the UPDATE that revokes the sessions F, holding the rows read.
BeginRevoking(p, F, read) ==
    /\ Is(p, "idle")
    /\ req' = [req EXCEPT ![p] = [Idle EXCEPT !.stage = "revoking", !.read = read,
                                              !.todo = OpenRows(F)]]
    /\ UNCHANGED <<row, family, announced, condemned>>

\* Refresh finds the token rotated: it was used before, and its session is revoked in
\* the same transaction, which then commits although the request is refused.
Reuse(p, t) ==
    /\ row[t] = "rotated"
    /\ Free(t, p)
    /\ BeginRevoking(p, {family[t]}, {t})

\* Any token of the session will do, also one that is rotated or revoked.
Logout(p, t) ==
    /\ row[t] # "none"
    /\ BeginRevoking(p, {family[t]}, {})

\* The list of devices: one session, or all but the one in use.
RevokeSession(p, f) == BeginRevoking(p, {f}, {})
RevokeOtherSessions(p, keep) == BeginRevoking(p, Families \ {keep}, {})

\* The password was reset through a mailed link: every session of the user.
ResetPassword(p) ==
    /\ Is(p, "idle")
    /\ req' = [req EXCEPT ![p] = [Idle EXCEPT !.stage = "revoking", !.todo = OpenRows(Families),
                                              !.user = TRUE, !.seen = RowsOf(Families)]]
    /\ UNCHANGED <<row, family, announced, condemned>>

\* The UPDATE visits a row: once it has the lock it revokes the row if it is still open.
RevokeRow(p, t) ==
    /\ Is(p, "revoking")
    /\ t \in req[p].todo
    /\ Free(t, p)
    /\ req' = [req EXCEPT ![p].todo = @ \ {t},
                          ![p].done = @ \cup ({t} \cap OpenRows({family[t]}))]
    /\ UNCHANGED <<row, family, announced, condemned>>

\* All rows were visited: commit.  The sessions of updated rows are published, and when
\* there is none, nothing is; but a password reset publishes the user in any case.
RevokeCommit(p) ==
    /\ Is(p, "revoking")
    /\ req[p].todo = {}
    /\ row' = [t \in Tokens |-> IF t \in req[p].done THEN "revoked" ELSE row[t]]
    /\ LET r == req[p]
           told == IF r.user THEN {} ELSE {family[t] : t \in r.done}
       IN  req' = [req EXCEPT ![p] =
                     IF r.done = {} /\ ~r.user THEN Idle
                     ELSE [Idle EXCEPT !.stage = "announcing", !.tell = told,
                                       !.user = r.user, !.seen = r.seen]]
    /\ UNCHANGED <<family, announced, condemned>>

\* The publish after the commit: an event for each session, or one that names the user,
\* on which the hub closes every connection of the user (CloseSessions by rev.All).
Announce(p) ==
    /\ Is(p, "announcing")
    /\ announced' = announced \cup req[p].tell
    /\ condemned' = condemned \cup req[p].seen
    /\ req' = [req EXCEPT ![p] = Idle]
    /\ UNCHANGED <<row, family>>

\* A failing statement, a cancelled request, a deadlock that the database breaks or a
\* crash rolls the transaction back; a failing publish is only logged.
Fail(p) ==
    /\ ~Is(p, "idle")
    /\ req' = [req EXCEPT ![p] = Idle]
    /\ UNCHANGED <<row, family, announced, condemned>>

Next ==
    \/ Login
    \/ \E p \in Requests :
        \/ Rotate(p)
        \/ RevokeCommit(p)
        \/ Announce(p)
        \/ Fail(p)
        \/ ResetPassword(p)
        \/ \E f \in Families : RevokeSession(p, f) \/ RevokeOtherSessions(p, f)
        \/ \E t \in Tokens :
            \/ Refresh(p, t)
            \/ Reuse(p, t)
            \/ Logout(p, t)
            \/ RevokeRow(p, t)

Spec == Init /\ [][Next]_vars

-----------------------------------------------------------------------------
(* Safety. *)

\* A session has at most one valid token, however its refreshes interleave: the row lock
\* of GetRefreshTokenForUpdate lets one of two refreshes with the same token find it
\* valid.  ListActiveSessions takes the device from "the one row not revoked".
OneOpen ==
    \A t, u \in Tokens :
        row[t] = "open" /\ row[u] = "open" /\ family[t] = family[u] => t = u

\* A session that began and has no valid token left.
Over(f) == /\ \E t \in Tokens : family[t] = f
           /\ \A t \in Tokens : family[t] = f => row[t] # "open"

\* A session that is over is never revived: no refresh that found its token valid before
\* the revocation inserts a successor after it (Rotate against RevokeCommit).
NeverRevived == [][\A f \in Tokens : Over(f) => Over(f)']_vars

\* Of what is published nothing is left to refresh with: a session published by name is
\* over, and so is every token issued before the UPDATE of a password reset that published
\* the user.  The hub closes connections on such an event, and a client could come back
\* with a token.  (All that the event of a reset says, "every session of the user", is
\* more than that and does not hold: a successor or a login inserted during the UPDATE
\* stays valid.  The converse fails too: a publish may be lost, and a revocation that finds
\* no row to update publishes nothing.)
AnnouncedIsOver ==
    /\ \A f \in announced : Over(f)
    /\ \A t \in condemned : row[t] \in {"rotated", "revoked"}

-----------------------------------------------------------------------------
(* The inductive invariant. *)

\* The row locks exclude each other.
LocksExclude ==
    \A p, q \in Requests : p # q => Locked(p) \cap Locked(q) = {}

\* What a transaction found under its locks still holds: the token to rotate and the rows
\* updated are valid until it commits.
LockedStaysOpen ==
    \A p \in Requests :
        /\ Is(p, "rotating") => \E t \in Tokens : req[p].read = {t} /\ row[t] = "open"
        /\ \A t \in req[p].done : row[t] = "open"
        /\ req[p].stage \in {"idle", "announcing"} => Locked(p) = {}
        /\ \A t \in req[p].todo : row[t] # "none"

\* The sessions to be published are over already.
ToldIsOver == \A p \in Requests : \A f \in req[p].tell : Over(f)

\* Of the tokens that the UPDATE of a password reset could see, it still has to visit those
\* that are valid, or has updated them and not committed.
SeenIsVisited ==
    \A p \in Requests : \A t \in req[p].seen :
        /\ row[t] # "none"
        /\ row[t] = "open" => Is(p, "revoking") /\ t \in req[p].todo \cup req[p].done

\* A session is named by a token that was issued.
FamilyIssued == \A t \in Tokens : row[t] # "none" => row[family[t]] # "none"

SessionInv ==
    /\ TypeOK
    /\ LocksExclude
    /\ LockedStaysOpen
    /\ FamilyIssued
    /\ OneOpen
    /\ ToldIsOver
    /\ SeenIsVisited
    /\ AnnouncedIsOver
=============================================================================
