------------------------- MODULE AuthSessionsProofs -------------------------
(***************************************************************************)
(* Proofs about AuthSessions for every set of tokens and of requests: the  *)
(* inductive invariant SessionInv, and from it that a session has at most  *)
(* one valid token and is never revived once it is over.                   *)
(***************************************************************************)
EXTENDS AuthSessions, TLAPS

\* A step of one request that writes no row keeps the invariant when what the request
\* becomes is consistent in itself and holds no row that another one has locked.
LEMMA RequestStep ==
    ASSUME SessionInv, NEW p \in Requests, NEW r \in Request,
           req' = [req EXCEPT ![p] = r],
           UNCHANGED <<row, family, announced, condemned>>,
           \A t \in r.read \cup r.done : Free(t, p),
           r.stage = "rotating" => \E t \in Tokens : r.read = {t} /\ row[t] = "open",
           \A t \in r.done : row[t] = "open",
           r.stage \in {"idle", "announcing"} => r.read \cup r.done = {},
           \A t \in r.todo : row[t] # "none",
           r.tell \subseteq req[p].tell,
           \A t \in r.seen : /\ row[t] # "none"
                             /\ row[t] = "open" => r.stage = "revoking" /\ t \in r.todo \cup r.done
    PROVE  SessionInv'
<1>1. req'[p] = r /\ \A q \in Requests \ {p} : req'[q] = req[q]
  BY DEF SessionInv, TypeOK
<1>2. TypeOK'
  BY DEF SessionInv, TypeOK
<1>3. LocksExclude'
  BY <1>1 DEF SessionInv, LocksExclude, Locked, Free
<1>4. LockedStaysOpen'
  BY <1>1 DEF SessionInv, LockedStaysOpen, Locked, Is
<1>5. FamilyIssued' /\ OneOpen' /\ AnnouncedIsOver'
  BY DEF SessionInv, FamilyIssued, OneOpen, AnnouncedIsOver, Over
<1>6. ToldIsOver'
  BY <1>1 DEF SessionInv, ToldIsOver, Over
<1>7. SeenIsVisited'
  BY <1>1 DEF SessionInv, SeenIsVisited, Is
<1> QED BY <1>2, <1>3, <1>4, <1>5, <1>6, <1>7 DEF SessionInv

LEMMA LoginInv ==
    ASSUME SessionInv, Login
    PROVE  SessionInv' /\ \A f \in Tokens : Over(f) => Over(f)'
<1>1. PICK t \in Tokens : /\ row[t] = "none"
                          /\ row' = [row EXCEPT ![t] = "open"]
                          /\ family' = [family EXCEPT ![t] = t]
                          /\ UNCHANGED <<announced, condemned, req>>
  BY DEF Login
<1>2. /\ row \in [Tokens -> {"none", "open", "rotated", "revoked"}]
      /\ family \in [Tokens -> Tokens \cup {NoFamily}]
      /\ \A u \in Tokens : row[u] = "none" <=> family[u] = NoFamily
  BY DEF SessionInv, TypeOK
<1>3. TypeOK'
  BY <1>1, <1>2, NoFamilyAssumption DEF SessionInv, TypeOK
<1>4. \A u \in Tokens : row[u] # "none" => u # t /\ row'[u] = row[u] /\ family'[u] = family[u]
  BY <1>1, <1>2
<1>5. LocksExclude'
  BY <1>1 DEF SessionInv, LocksExclude, Locked
<1>6. LockedStaysOpen'
  <2>1. \A p \in Requests : req[p] \in Request
    BY DEF SessionInv, TypeOK
  <2> QED BY <1>1, <1>4, <2>1 DEF SessionInv, LockedStaysOpen, Locked, Is, Request
<1>7. \A u \in Tokens : family[u] # t
  BY <1>1, <1>2, NoFamilyAssumption DEF SessionInv, FamilyIssued
<1>8. FamilyIssued'
  BY <1>1, <1>2 DEF SessionInv, FamilyIssued
<1>9. OneOpen'
  BY <1>1, <1>2, <1>7 DEF SessionInv, OneOpen
<1>10. \A f \in Tokens : Over(f) => Over(f)'
  BY <1>1, <1>2, <1>7, NoFamilyAssumption DEF Over
<1>11. ToldIsOver' /\ AnnouncedIsOver'
  BY <1>1, <1>4, <1>10 DEF SessionInv, TypeOK, Request, ToldIsOver, AnnouncedIsOver
<1>12. SeenIsVisited'
  <2>1. \A q \in Requests : req[q].seen \subseteq Tokens
    BY DEF SessionInv, TypeOK, Request
  <2> QED BY <1>1, <1>4, <2>1 DEF SessionInv, SeenIsVisited, Is
<1> QED BY <1>3, <1>5, <1>6, <1>8, <1>9, <1>10, <1>11, <1>12 DEF SessionInv

LEMMA RotateInv ==
    ASSUME SessionInv, NEW p \in Requests, Rotate(p)
    PROVE  SessionInv' /\ \A f \in Tokens : Over(f) => Over(f)'
<1>1. PICK t \in req[p].read, u \in Tokens :
          /\ row[u] = "none"
          /\ row' = [row EXCEPT ![t] = "rotated", ![u] = "open"]
          /\ family' = [family EXCEPT ![u] = family[t]]
  BY DEF Rotate
<1>2. /\ row \in [Tokens -> {"none", "open", "rotated", "revoked"}]
      /\ family \in [Tokens -> Tokens \cup {NoFamily}]
      /\ \A v \in Tokens : row[v] = "none" <=> family[v] = NoFamily
      /\ req \in [Requests -> Request]
  BY DEF SessionInv, TypeOK
<1>3. req[p].read = {t} /\ t \in Tokens /\ row[t] = "open"
  BY <1>1 DEF SessionInv, LockedStaysOpen, Rotate
<1>4. /\ req' = [req EXCEPT ![p] = Idle]
      /\ announced' = announced /\ condemned' = condemned
      /\ Idle \in Request
      /\ t # u
      /\ family[t] \in Tokens
  BY <1>1, <1>2, <1>3, NoFamilyAssumption DEF Rotate, Idle, Request
<1>5. TypeOK'
  BY <1>1, <1>2, <1>3, <1>4, NoFamilyAssumption DEF SessionInv, TypeOK
<1>6. LocksExclude'
  BY <1>2, <1>4 DEF SessionInv, LocksExclude, Locked, Idle
<1>7. LockedStaysOpen'
  <2>1. ASSUME NEW q \in Requests, q # p
        PROVE  req'[q] = req[q] /\ t \notin Locked(q)
    BY <1>2, <1>3, <1>4, <2>1 DEF SessionInv, LocksExclude, Locked
  <2>2. ASSUME NEW v \in Tokens, row[v] # "none", v # t
        PROVE  row'[v] = row[v]
    BY <1>1, <1>2, <2>2
  <2>3. row'[t] # "none"
    BY <1>1, <1>2, <1>3
  <2>4. req'[p] = Idle
    BY <1>2, <1>4
  <2>5. ASSUME NEW q \in Requests, q # p
        PROVE  /\ Is(q, "rotating")' =>
                      \E v \in Tokens : req'[q].read = {v} /\ row'[v] = "open"
               /\ \A v \in req'[q].done : row'[v] = "open"
               /\ req'[q].stage \in {"idle", "announcing"} => Locked(q)' = {}
               /\ \A v \in req'[q].todo : row'[v] # "none"
    BY <1>2, <2>1, <2>2, <2>3, <2>5 DEF SessionInv, LockedStaysOpen, Locked, Is, Request
  <2> QED BY <2>4, <2>5 DEF LockedStaysOpen, Locked, Is, Idle
<1>8. FamilyIssued'
  <2>1. row[family[t]] # "none" /\ family[t] # u
    BY <1>1, <1>3, <1>4 DEF SessionInv, FamilyIssued
  <2> QED BY <1>1, <1>2, <1>3, <1>4, <2>1 DEF SessionInv, FamilyIssued
<1>9. OneOpen'
  BY <1>1, <1>2, <1>3, <1>4 DEF SessionInv, OneOpen
<1>10. \A f \in Tokens : Over(f) => Over(f)'
  BY <1>1, <1>2, <1>3, <1>4, NoFamilyAssumption DEF Over
<1>11. ToldIsOver' /\ AnnouncedIsOver'
  <2>1. \A v \in condemned : v # t /\ v # u /\ row'[v] = row[v]
    BY <1>1, <1>2, <1>3 DEF SessionInv, TypeOK, AnnouncedIsOver
  <2> QED BY <1>2, <1>4, <1>10, <2>1 DEF SessionInv, TypeOK, Request, ToldIsOver, AnnouncedIsOver, Idle
<1>12. SeenIsVisited'
  <2>1. \A q \in Requests : req[q].seen \subseteq Tokens
    BY <1>2 DEF Request
  <2>2. req'[p] = Idle /\ \A q \in Requests \ {p} : req'[q] = req[q]
    BY <1>2, <1>4
  <2>3. \A v \in Tokens : row[v] # "none" =>
            row'[v] # "none" /\ (row'[v] = "open" => row[v] = "open")
    BY <1>1, <1>2, <1>3
  <2> QED BY <2>1, <2>2, <2>3 DEF SessionInv, SeenIsVisited, Is, Idle
<1> QED BY <1>5, <1>6, <1>7, <1>8, <1>9, <1>10, <1>11, <1>12 DEF SessionInv

LEMMA RevokeCommitInv ==
    ASSUME SessionInv, NEW p \in Requests, RevokeCommit(p)
    PROVE  SessionInv' /\ \A f \in Tokens : Over(f) => Over(f)'
<1> DEFINE told == IF req[p].user THEN {} ELSE {family[t] : t \in req[p].done}
           next == IF req[p].done = {} /\ ~req[p].user THEN Idle
                   ELSE [Idle EXCEPT !.stage = "announcing", !.tell = told,
                                     !.user = req[p].user, !.seen = req[p].seen]
<1>1. /\ row \in [Tokens -> {"none", "open", "rotated", "revoked"}]
      /\ family \in [Tokens -> Tokens \cup {NoFamily}]
      /\ \A v \in Tokens : row[v] = "none" <=> family[v] = NoFamily
      /\ req \in [Requests -> Request]
      /\ req[p].done \subseteq Tokens
      /\ \A t \in req[p].done : row[t] = "open"
  BY DEF SessionInv, TypeOK, LockedStaysOpen, Request
<1>2. /\ row' = [t \in Tokens |-> IF t \in req[p].done THEN "revoked" ELSE row[t]]
      /\ req' = [req EXCEPT ![p] = next]
      /\ UNCHANGED <<family, announced, condemned>>
  BY DEF RevokeCommit
<1>3. told \subseteq Tokens
  BY <1>1, NoFamilyAssumption
<1>4. next \in Request /\ next.read = {} /\ next.done = {} /\ next.todo = {}
      /\ next.stage \in {"idle", "announcing"} /\ next.tell \subseteq told
      /\ next.seen \subseteq req[p].seen
  BY <1>1, <1>3 DEF Idle, Request
<1> HIDE DEF next
<1>5. req'[p] = next /\ \A q \in Requests \ {p} : req'[q] = req[q]
  BY <1>1, <1>2
<1>6. TypeOK'
  BY <1>1, <1>2, <1>4 DEF SessionInv, TypeOK
<1>7. LocksExclude'
  BY <1>4, <1>5 DEF SessionInv, LocksExclude, Locked
<1>8. LockedStaysOpen'
  <2>1. ASSUME NEW q \in Requests, q # p
        PROVE  \A v \in Locked(q) : v \notin req[p].done
    BY <2>1 DEF SessionInv, LocksExclude, Locked
  <2>2. \A v \in Tokens : v \notin req[p].done => row'[v] = row[v]
    BY <1>2
  <2>3. \A v \in Tokens : row[v] # "none" => row'[v] # "none"
    BY <1>2
  <2>4. ASSUME NEW q \in Requests, q # p
        PROVE  /\ Is(q, "rotating")' =>
                      \E v \in Tokens : req'[q].read = {v} /\ row'[v] = "open"
               /\ \A v \in req'[q].done : row'[v] = "open"
               /\ req'[q].stage \in {"idle", "announcing"} => Locked(q)' = {}
               /\ \A v \in req'[q].todo : row'[v] # "none"
    BY <1>1, <1>5, <2>1, <2>2, <2>3, <2>4 DEF SessionInv, LockedStaysOpen, Locked, Is, Request
  <2> QED BY <1>4, <1>5, <2>4 DEF LockedStaysOpen, Locked, Is
<1>9. FamilyIssued'
  BY <1>1, <1>2, NoFamilyAssumption DEF SessionInv, FamilyIssued
<1>10. OneOpen'
  BY <1>2 DEF SessionInv, OneOpen
<1>11. \A f \in Tokens : Over(f) => Over(f)'
  BY <1>2 DEF Over
<1>12. \A f \in told : Over(f)'
  BY <1>1, <1>2 DEF SessionInv, OneOpen, Over
<1>13. ToldIsOver' /\ AnnouncedIsOver'
  <2>1. \A q \in Requests : req[q].tell \subseteq Tokens
    BY <1>1 DEF Request
  <2> QED BY <1>2, <1>4, <1>5, <1>11, <1>12, <2>1 DEF SessionInv, TypeOK, ToldIsOver, AnnouncedIsOver
<1>14. SeenIsVisited'
  <2>1. \A q \in Requests : req[q].seen \subseteq Tokens
    BY <1>1 DEF Request
  <2>2. \A v \in Tokens : row[v] # "none" =>
            row'[v] # "none" /\ (row'[v] = "open" => row[v] = "open" /\ v \notin req[p].done)
    BY <1>2
  <2>3. req[p].todo = {}
    BY DEF RevokeCommit
  <2>4. ASSUME NEW v \in next.seen
        PROVE  row'[v] # "none" /\ row'[v] # "open"
    BY <1>4, <2>1, <2>2, <2>3 DEF SessionInv, SeenIsVisited
  <2>5. ASSUME NEW q \in Requests, q # p, NEW v \in req[q].seen
        PROVE  /\ row'[v] # "none"
               /\ row'[v] = "open" => Is(q, "revoking") /\ v \in req[q].todo \cup req[q].done
    BY <2>1, <2>2 DEF SessionInv, SeenIsVisited
  <2> QED BY <1>5, <2>4, <2>5 DEF SeenIsVisited, Is
<1> QED BY <1>6, <1>7, <1>8, <1>9, <1>10, <1>11, <1>13, <1>14 DEF SessionInv

\* What every revocation begins with: the rows to visit were issued.
LEMMA BeginRevokingInv ==
    ASSUME SessionInv, NEW p \in Requests, NEW F, NEW read \in SUBSET Tokens,
           BeginRevoking(p, F, read), \A t \in read : Free(t, p)
    PROVE  SessionInv' /\ UNCHANGED <<row, family>>
<1> DEFINE r == [Idle EXCEPT !.stage = "revoking", !.read = read, !.todo = OpenRows(F)]
<1>1. /\ r \in Request
      /\ r.read = read /\ r.done = {} /\ r.tell = {} /\ r.seen = {} /\ r.stage = "revoking"
      /\ \A t \in r.todo : row[t] # "none"
  BY DEF Idle, Request, OpenRows, RowsOf
<1>2. req' = [req EXCEPT ![p] = r] /\ UNCHANGED <<row, family, announced, condemned>>
  BY DEF BeginRevoking
<1> HIDE DEF r
<1> QED BY <1>1, <1>2, RequestStep

\* A password reset: what its UPDATE can see and is valid, it has to visit.
LEMMA ResetPasswordInv ==
    ASSUME SessionInv, NEW p \in Requests, ResetPassword(p)
    PROVE  SessionInv' /\ UNCHANGED <<row, family>>
<1> DEFINE r == [Idle EXCEPT !.stage = "revoking", !.todo = OpenRows(Families),
                             !.user = TRUE, !.seen = RowsOf(Families)]
<1>1. /\ r \in Request
      /\ r.read = {} /\ r.done = {} /\ r.tell = {} /\ r.stage = "revoking"
      /\ \A t \in r.todo : row[t] # "none"
      /\ \A t \in r.seen : row[t] # "none" /\ (row[t] = "open" => t \in r.todo)
  BY DEF Idle, Request, OpenRows, RowsOf
<1>2. req' = [req EXCEPT ![p] = r] /\ UNCHANGED <<row, family, announced, condemned>>
  BY DEF ResetPassword
<1> HIDE DEF r
<1> QED BY <1>1, <1>2, RequestStep

LEMMA RefreshInv ==
    ASSUME SessionInv, NEW p \in Requests, NEW t \in Tokens, Refresh(p, t)
    PROVE  SessionInv' /\ UNCHANGED <<row, family>>
<1> DEFINE r == [Idle EXCEPT !.stage = "rotating", !.read = {t}]
<1>1. /\ r \in Request
      /\ r.read = {t} /\ r.done = {} /\ r.todo = {} /\ r.tell = {} /\ r.seen = {}
      /\ r.stage = "rotating"
  BY DEF Idle, Request
<1>2. /\ req' = [req EXCEPT ![p] = r] /\ UNCHANGED <<row, family, announced, condemned>>
      /\ row[t] = "open" /\ Free(t, p)
  BY DEF Refresh
<1> HIDE DEF r
<1> QED BY <1>1, <1>2, RequestStep

\* A row is locked before it is updated, and the locks held so far stay free for p.
LEMMA RevokeRowInv ==
    ASSUME SessionInv, NEW p \in Requests, NEW t \in Tokens, RevokeRow(p, t)
    PROVE  SessionInv' /\ UNCHANGED <<row, family>>
<1> DEFINE r == [req[p] EXCEPT !.todo = @ \ {t},
                               !.done = @ \cup ({t} \cap OpenRows({family[t]}))]
<1>1. req[p] \in Request /\ req[p].stage = "revoking" /\ Free(t, p)
  BY DEF RevokeRow, SessionInv, TypeOK, Is
<1>2. /\ r \in Request
      /\ r.read = req[p].read /\ r.tell = req[p].tell /\ r.stage = "revoking"
      /\ r.todo \subseteq req[p].todo
      /\ r.done \subseteq req[p].done \cup {t}
      /\ \A u \in r.done : u \in req[p].done \/ row[u] = "open"
      /\ r.seen = req[p].seen
      /\ \A u \in Tokens : u \in req[p].todo \cup req[p].done /\ row[u] = "open" =>
             u \in r.todo \cup r.done
  BY <1>1 DEF Request, OpenRows, RowsOf
<1>3. req' = [req EXCEPT ![p] = r] /\ UNCHANGED <<row, family, announced, condemned>>
  BY DEF RevokeRow, SessionInv, TypeOK, Request
<1> HIDE DEF r
<1>4. \A u \in Locked(p) : Free(u, p)
  BY DEF SessionInv, LocksExclude, Free
<1>5. \A u \in r.read \cup r.done : Free(u, p)
  BY <1>1, <1>2, <1>4 DEF Locked
<1>6. /\ \A u \in r.done : row[u] = "open"
      /\ \A u \in r.todo : row[u] # "none"
  BY <1>2 DEF SessionInv, LockedStaysOpen
<1>7. \A u \in r.seen : row[u] # "none" /\ (row[u] = "open" => u \in r.todo \cup r.done)
  BY <1>1, <1>2 DEF SessionInv, SeenIsVisited, Request
<1> QED BY <1>2, <1>3, <1>5, <1>6, <1>7, RequestStep

LEMMA FailInv ==
    ASSUME SessionInv, NEW p \in Requests, Fail(p)
    PROVE  SessionInv' /\ UNCHANGED <<row, family>>
<1>1. /\ Idle \in Request
      /\ Idle.read = {} /\ Idle.done = {} /\ Idle.todo = {} /\ Idle.tell = {} /\ Idle.seen = {}
      /\ Idle.stage = "idle"
  BY DEF Idle, Request
<1>2. req' = [req EXCEPT ![p] = Idle] /\ UNCHANGED <<row, family, announced, condemned>>
  BY DEF Fail
<1> QED BY <1>1, <1>2, RequestStep

LEMMA AnnounceInv ==
    ASSUME SessionInv, NEW p \in Requests, Announce(p)
    PROVE  SessionInv' /\ UNCHANGED <<row, family>>
<1>1. /\ announced' = announced \cup req[p].tell
      /\ condemned' = condemned \cup req[p].seen
      /\ req' = [req EXCEPT ![p] = Idle]
      /\ UNCHANGED <<row, family>>
  BY DEF Announce
<1>2. /\ Idle \in Request
      /\ Idle.read = {} /\ Idle.done = {} /\ Idle.todo = {} /\ Idle.tell = {} /\ Idle.seen = {}
      /\ Idle.stage = "idle"
  BY DEF Idle, Request
<1>3. /\ req[p].tell \subseteq Tokens /\ \A f \in req[p].tell : Over(f)
      /\ req[p].seen \subseteq Tokens /\ \A t \in req[p].seen : row[t] \notin {"none", "open"}
  BY DEF SessionInv, TypeOK, Request, ToldIsOver, SeenIsVisited, Announce, Is
<1>4. req'[p] = Idle /\ \A q \in Requests \ {p} : req'[q] = req[q]
  BY <1>1 DEF SessionInv, TypeOK
<1>5. TypeOK'
  BY <1>1, <1>2, <1>3 DEF SessionInv, TypeOK
<1>6. LocksExclude'
  BY <1>2, <1>4 DEF SessionInv, LocksExclude, Locked
<1>7. LockedStaysOpen'
  BY <1>1, <1>2, <1>4 DEF SessionInv, LockedStaysOpen, Locked, Is
<1>8. FamilyIssued' /\ OneOpen'
  BY <1>1 DEF SessionInv, FamilyIssued, OneOpen
<1>9. AnnouncedIsOver'
  BY <1>1, <1>3 DEF SessionInv, TypeOK, AnnouncedIsOver, Over
<1>10. ToldIsOver'
  BY <1>1, <1>2, <1>4 DEF SessionInv, ToldIsOver, Over
<1>11. SeenIsVisited'
  BY <1>1, <1>2, <1>4 DEF SessionInv, SeenIsVisited, Is
<1> QED BY <1>1, <1>5, <1>6, <1>7, <1>8, <1>9, <1>10, <1>11 DEF SessionInv

-----------------------------------------------------------------------------
LEMMA SessionStep ==
    ASSUME SessionInv, [Next]_vars
    PROVE  SessionInv' /\ \A f \in Tokens : Over(f) => Over(f)'
<1>1. ASSUME UNCHANGED <<row, family>> PROVE \A f \in Tokens : Over(f) => Over(f)'
  BY <1>1 DEF Over
<1>2. CASE Login
  BY <1>2, LoginInv
<1>3. ASSUME NEW p \in Requests, Rotate(p) \/ RevokeCommit(p)
      PROVE  SessionInv' /\ \A f \in Tokens : Over(f) => Over(f)'
  BY <1>3, RotateInv, RevokeCommitInv
<1>4. ASSUME NEW p \in Requests, Announce(p) \/ Fail(p)
      PROVE  SessionInv' /\ UNCHANGED <<row, family>>
  BY <1>4, AnnounceInv, FailInv
<1>5. ASSUME NEW p \in Requests,
             \/ \E f \in Families : RevokeSession(p, f) \/ RevokeOtherSessions(p, f)
             \/ \E t \in Tokens : Logout(p, t)
      PROVE  SessionInv' /\ UNCHANGED <<row, family>>
  <2>1. \E F : BeginRevoking(p, F, {})
    BY <1>5 DEF RevokeSession, RevokeOtherSessions, Logout
  <2>2. PICK F : BeginRevoking(p, F, {})
    BY <2>1
  <2>3. {} \in SUBSET Tokens /\ \A u \in {} : Free(u, p)
    OBVIOUS
  <2> QED BY <2>2, <2>3, BeginRevokingInv
<1>6. ASSUME NEW p \in Requests, NEW t \in Tokens, Reuse(p, t)
      PROVE  SessionInv' /\ UNCHANGED <<row, family>>
  <2>1. BeginRevoking(p, {family[t]}, {t}) /\ {t} \in SUBSET Tokens /\ \A u \in {t} : Free(u, p)
    BY <1>6 DEF Reuse
  <2> QED BY <2>1, BeginRevokingInv
<1>7. ASSUME NEW p \in Requests, NEW t \in Tokens, Refresh(p, t) \/ RevokeRow(p, t)
      PROVE  SessionInv' /\ UNCHANGED <<row, family>>
  BY <1>7, RefreshInv, RevokeRowInv
<1>8. CASE UNCHANGED vars
  BY <1>1, <1>8 DEF vars, SessionInv, TypeOK, LocksExclude, LockedStaysOpen, FamilyIssued,
                    OneOpen, ToldIsOver, SeenIsVisited, AnnouncedIsOver, Locked, Is, Over
<1>9. CASE Next
  <2>1. CASE \E p \in Requests : Rotate(p) \/ RevokeCommit(p)
    BY <1>3, <2>1
  <2>2. CASE \E p \in Requests : Announce(p) \/ Fail(p)
    BY <1>1, <1>4, <2>2
  <2>3. CASE \E p \in Requests :
               \/ \E f \in Families : RevokeSession(p, f) \/ RevokeOtherSessions(p, f)
               \/ \E t \in Tokens : Logout(p, t)
    BY <1>1, <1>5, <2>3
  <2>4. CASE \E p \in Requests, t \in Tokens : Reuse(p, t)
    BY <1>1, <1>6, <2>4
  <2>5. CASE \E p \in Requests, t \in Tokens : Refresh(p, t) \/ RevokeRow(p, t)
    BY <1>1, <1>7, <2>5
  <2>6. CASE \E p \in Requests : ResetPassword(p)
    BY <1>1, <2>6, ResetPasswordInv
  <2> QED BY <1>2, <1>9, <2>1, <2>2, <2>3, <2>4, <2>5, <2>6 DEF Next
<1> QED BY <1>8, <1>9

\* SessionInv is an invariant of refresh_tokens and of the requests on it.
THEOREM SessionInvariant == Spec => []SessionInv
<1>1. Init => SessionInv
  BY NoFamilyAssumption DEF Init, SessionInv, TypeOK, Request, Idle, LocksExclude, LockedStaysOpen,
     FamilyIssued, OneOpen, ToldIsOver, SeenIsVisited, AnnouncedIsOver, Locked, Is, Over
<1>2. SessionInv /\ [Next]_vars => SessionInv'
  BY SessionStep
<1> QED BY <1>1, <1>2, PTL DEF Spec

\* However refreshes, logouts and revocations interleave, a session has at most one
\* valid token (GetRefreshTokenForUpdate), whatever the number of requests.
THEOREM OneValidToken == Spec => []OneOpen
<1>1. SessionInv => OneOpen
  BY DEF SessionInv
<1> QED BY <1>1, SessionInvariant, PTL

\* A session published by name has no valid token (notifySessionRevoked comes after the
\* commit, and only when a row was updated); when a password reset publishes the user, no
\* token issued before its UPDATE is valid, also of a session that a refresh is rotating.
THEOREM PublishedIsOver == Spec => []AnnouncedIsOver
<1>1. SessionInv => AnnouncedIsOver
  BY DEF SessionInv
<1> QED BY <1>1, SessionInvariant, PTL

\* No interleaving gives a session that is over a valid token again.
THEOREM OverForGood == Spec => NeverRevived
<1>1. SessionInv /\ [Next]_vars => [\A f \in Tokens : Over(f) => Over(f)']_vars
  BY SessionStep
<1> QED BY <1>1, SessionInvariant, PTL DEF Spec, NeverRevived
=============================================================================
