---------------------------- MODULE SessionsProofs ----------------------------
(***************************************************************************)
(* What holds of a user's sessions for any number of sessions, requests    *)
(* and roles: a committed change ends every token issued before it, unless *)
(* an SSO sign-in made it without knowing, and a session that a change     *)
(* creates outlives that change.                                           *)
(***************************************************************************)
EXTENDS Sessions, TLAPS

UserRow ==
  [password : Nat, legacy : BOOLEAN, role : Roles, active : BOOLEAN, epoch : Nat]
SessionRow ==
  [status : {"none", "live", "revoked"}, epoch : Nat \cup {NoToken}, seen : Nat]
Request ==
  [pc : {"idle", "insert", "issue", "lock", "rows", "wait", "bump", "commit"},
   kind : Changes \cup {"none", "login"},
   session : SessionIds \cup {NoSession}, rows : SUBSET SessionIds,
   role : Roles \cup {NoSession}, read : Roles \cup {NoSession},
   revokes : BOOLEAN, began : Nat]

(* The inductive invariant *)

\* What a request carries: a role to be written, a session to be issued.
Carried(q) ==
  /\ q \in Request
  /\ q.kind \in {"role", "sso"} => q.role \in Roles
  /\ q.pc \in {"insert", "issue"} => q.session \in SessionIds

\* A token is issued for a row that has been inserted.
Inserted ==
  \A r \in Requests : req[r].pc = "issue" => session[req[r].session].status # "none"

\* A request that is past the lock of the user row, which a mandate takes last.
HasRow(q) ==
  /\ q.pc \in {"rows", "wait", "commit"}
  /\ q.kind = "mandate" => q.pc = "commit"

\* It revokes when it alters the row, or when it writes another role than it read.
Decided(q) ==
  /\ q.kind \in {"password", "mandate"} => q.revokes = TRUE
  /\ q.kind = "role" /\ q.role # user.role => q.revokes = TRUE
  /\ q.kind = "active" /\ user.active = TRUE => q.revokes = TRUE
  /\ q.kind = "sso" /\ q.role # q.read => q.revokes = TRUE

\* Such a request holds the lock, so that what it decided stays right.
Locked(r) == HasRow(req[r]) => lock = r /\ Decided(req[r])

\* No token is ahead of the user, and one that is not behind was issued after the
\* latest change, unless an SSO sign-in made that without knowing.
Counted ==
  /\ \A s \in SessionIds : session[s].epoch # NoToken => session[s].epoch <= user.epoch
  /\ ~overtaken =>
       \A s \in SessionIds : session[s].epoch = user.epoch => session[s].seen = changes

IInv ==
  /\ TypeOK
  /\ \A r \in Requests : Carried(req[r])
  /\ Inserted
  /\ \A r \in Requests : Locked(r)
  /\ Counted
-----------------------------------------------------------------------------
(* Types *)

LEMMA Rows ==
  ASSUME TypeOK
  PROVE  /\ user \in UserRow
         /\ \A s \in SessionIds : session[s] \in SessionRow
         /\ \A r \in Requests : req[r] \in Request
BY DEF TypeOK, UserRow, SessionRow, Request

LEMMA IdleType == Carried(Idle) /\ Idle.pc = "idle" /\ ~HasRow(Idle)
<1>1. FALSE \in BOOLEAN
  BY Zenon
<1> QED BY <1>1 DEF Carried, HasRow, Idle, Request, Changes

\* A request that begins, goes on or ends, while the rows stay as they are.
LEMMA RequestKeeps ==
  ASSUME IInv, NEW r \in Requests, NEW q, Carried(q), q.pc # "issue",
         req' = [req EXCEPT ![r] = q],
         HasRow(q) => lock' = r /\ Decided(q),
         lock' = lock \/ lock \in {r, NoRequest},
         UNCHANGED <<user, session, changes, overtaken>>,
         lock' \in Requests \cup {NoRequest}, rehash' \subseteq Nat
  PROVE  IInv'
<1>1. TypeOK'
  BY DEF IInv, TypeOK, Carried, Request
<1>2. \A s \in Requests : req'[s] = IF s = r THEN q ELSE req[s]
  BY DEF IInv, TypeOK
<1>3. (\A s \in Requests : Carried(req'[s])) /\ Inserted'
  BY <1>2 DEF IInv, Inserted
<1>4. Counted'
  BY DEF IInv, Counted
<1>5. ASSUME NEW s \in Requests, HasRow(req'[s])
      PROVE  lock' = s /\ Decided(req'[s])
  <2>1. CASE s = r
    BY <1>2, <1>5, <2>1 DEF Decided
  <2>2. CASE s # r
    <3>1. req'[s] = req[s]
      BY <1>2, <2>2
    <3>2. lock = s /\ Decided(req[s])
      BY <1>5, <3>1 DEF IInv, Locked
    <3>3. lock' = s
      BY <2>2, <3>2, NullAssumption
    <3> QED BY <3>1, <3>2, <3>3 DEF Decided
  <2> QED BY <2>1, <2>2
<1>6. \A s \in Requests : Locked(s)'
  BY <1>5 DEF Locked, HasRow, Decided
<1> QED BY <1>1, <1>3, <1>4, <1>6 DEF IInv
-----------------------------------------------------------------------------
(* Requests that begin *)

LEMMA BeginKeeps ==
  ASSUME IInv, NEW r \in Requests,
         NEW pc \in {"insert", "lock", "rows"}, NEW kind \in Changes \cup {"login"},
         NEW s \in SessionIds \cup {NoSession}, Begin(r, pc, kind, s),
         pc = "insert" => s \in SessionIds,
         kind \notin {"role", "sso"}, pc = "rows" => kind = "mandate",
         UNCHANGED <<user, session, changes, overtaken, lock>>, rehash' \subseteq Nat
  PROVE  IInv'
<1>1. PICK q : q = [Idle EXCEPT !.pc = pc, !.kind = kind, !.session = s, !.began = changes]
  OBVIOUS
<1>2. Carried(q) /\ q.pc # "issue" /\ ~HasRow(q)
  BY <1>1, IdleType DEF Carried, HasRow, Request, Idle, IInv, TypeOK
<1> QED BY <1>1, <1>2, RequestKeeps DEF Begin, IInv, TypeOK

LEMMA StartKeeps ==
  ASSUME IInv, NEW r \in Requests, Start(r)
  PROVE  IInv'
<1>1. ASSUME NEW s \in SessionIds, BeginLogin(r, s) \/ BeginNameLogin(r, s)
      PROVE  IInv'
  <2>1. rehash' \subseteq Nat
    BY <1>1, Rows DEF BeginLogin, BeginNameLogin, IInv, TypeOK, UserRow
  <2> QED BY <1>1, <2>1, BeginKeeps DEF BeginLogin, BeginNameLogin
<1>2. ASSUME NEW s \in SessionIds, NEW t \in SessionIds, BeginPassword(r, s, t)
      PROVE  IInv'
  BY <1>2, BeginKeeps DEF BeginPassword, BeginChange, Changes, IInv, TypeOK
<1>3. ASSUME NEW role \in Roles, BeginPatch(r, "role", role)
      PROVE  IInv'
  <2>1. PICK q : q = [Idle EXCEPT !.pc = "lock", !.kind = "role", !.role = role]
    OBVIOUS
  <2>2. Carried(q) /\ q.pc # "issue" /\ ~HasRow(q)
    BY <2>1, IdleType DEF Carried, HasRow, Request, Idle, Changes
  <2> QED BY <1>3, <2>1, <2>2, RequestKeeps DEF BeginPatch, IInv, TypeOK
<1>4. CASE BeginPatch(r, "active", NoSession)
  <2>1. PICK q : q = [Idle EXCEPT !.pc = "lock", !.kind = "active", !.role = NoSession]
    OBVIOUS
  <2>2. Carried(q) /\ q.pc # "issue" /\ ~HasRow(q)
    BY <2>1, IdleType DEF Carried, HasRow, Request, Idle, Changes
  <2> QED BY <1>4, <2>1, <2>2, RequestKeeps DEF BeginPatch, IInv, TypeOK
<1>5. ASSUME NEW t \in SessionIds, NEW role \in Roles, BeginSso(r, t, role)
      PROVE  IInv'
  <2>0. user.role \in Roles /\ changes \in Nat
    BY DEF IInv, TypeOK
  <2>1. PICK q : q = [Idle EXCEPT !.pc = "lock", !.kind = "sso", !.session = t,
                        !.role = role, !.read = user.role, !.began = changes]
    OBVIOUS
  <2>2. Carried(q) /\ q.pc # "issue" /\ ~HasRow(q)
    BY <2>0, <2>1, IdleType DEF Carried, HasRow, Request, Idle, Changes
  <2> QED BY <1>5, <2>1, <2>2, RequestKeeps DEF BeginSso, IInv, TypeOK
<1>6. CASE BeginMandate(r)
  <2>1. Begin(r, "rows", "mandate", NoSession) /\ UNCHANGED <<user, session, changes, overtaken, lock>>
    BY <1>6 DEF BeginMandate, BeginChange
  <2>2. rehash' \subseteq Nat
    BY <1>6 DEF BeginMandate, BeginChange, IInv, TypeOK
  <2> QED BY <2>1, <2>2, BeginKeeps DEF Changes
<1> QED BY <1>1, <1>2, <1>3, <1>4, <1>5, <1>6 DEF Start
-----------------------------------------------------------------------------
(* Requests that go on *)

\* LockUser takes the row and decides what the change revokes.
LEMMA LockKeeps ==
  ASSUME IInv, NEW r \in Requests, LockUser(r)
  PROVE  IInv'
<1> DEFINE revokes == CASE req[r].kind = "role"   -> req[r].role # user.role
                        [] req[r].kind = "active" -> user.active
                        [] req[r].kind = "sso"    -> req[r].role # req[r].read
                        [] OTHER                  -> TRUE
<1>1. Carried(req[r])
  BY DEF IInv
<1>2. revokes \in BOOLEAN
  <2>1. user.active \in BOOLEAN
    BY Rows DEF IInv, UserRow
  <2>2. (req[r].role # user.role) \in BOOLEAN /\ (req[r].role # req[r].read) \in BOOLEAN
    BY Zenon
  <2>3. CASE req[r].kind = "role"
    BY Zenon, <2>2, <2>3
  <2>4. CASE req[r].kind = "active"
    BY <2>1, <2>4
  <2>5. CASE req[r].kind = "sso"
    <3>1. revokes = (req[r].role # req[r].read)
      BY <2>5
    <3> QED BY Zenon, <2>2, <3>1
  <2>6. CASE req[r].kind \notin {"role", "active", "sso"}
    <3>1. revokes = TRUE
      BY <2>6
    <3> QED BY Zenon, <3>1
  <2> QED BY <2>3, <2>4, <2>5, <2>6
<1>3. /\ req[r].kind \notin {"role", "active", "sso"} => revokes = TRUE
      /\ req[r].kind = "role" /\ req[r].role # user.role => revokes = TRUE
      /\ req[r].kind = "active" /\ user.active = TRUE => revokes = TRUE
      /\ req[r].kind = "sso" /\ req[r].role # req[r].read => revokes = TRUE
  OBVIOUS
<1>4. /\ req' = [req EXCEPT ![r] =
           [req[r] EXCEPT !.pc = IF revokes THEN "rows" ELSE "commit", !.revokes = revokes]]
      /\ lock = NoRequest /\ lock' = r
      /\ UNCHANGED <<user, session, rehash, changes, overtaken>>
  BY Zenon DEF LockUser
<1> HIDE DEF revokes
<1>5. PICK q : q = [req[r] EXCEPT !.pc = IF revokes THEN "rows" ELSE "commit",
                                  !.revokes = revokes]
  OBVIOUS
<1>6. Carried(q) /\ q.pc # "issue"
  BY <1>1, <1>2, <1>5 DEF Carried, Request
<1>7. Decided(q)
  <2>1. /\ q.kind = req[r].kind /\ q.role = req[r].role /\ q.read = req[r].read
        /\ q.revokes = revokes
    BY <1>1, <1>5 DEF Carried, Request
  <2> QED BY <1>3, <2>1 DEF Decided
<1> QED BY <1>4, <1>5, <1>6, <1>7, RequestKeeps DEF IInv, TypeOK

LEMMA RevokingKeeps ==
  ASSUME IInv, NEW r \in Requests,
         FindRows(r) \/ RevokeRows(r) \/ LockUserLast(r) \/ Abandon(r)
  PROVE  IInv'
<1>0. Carried(req[r]) /\ Locked(r)
  BY DEF IInv
<1>1. CASE FindRows(r)
  <2>1. PICK q : q = [req[r] EXCEPT !.pc = "wait",
                        !.rows = {s \in SessionIds : session[s].status = "live"}]
    OBVIOUS
  <2>2. Carried(q) /\ q.pc # "issue"
    BY <1>0, <2>1 DEF Carried, Request
  <2>3. HasRow(q) => lock = r /\ Decided(q)
    BY <1>0, <1>1, <2>1 DEF FindRows, Locked, HasRow, Decided, Carried, Request
  <2> QED BY <1>1, <2>1, <2>2, <2>3, RequestKeeps DEF FindRows, IInv, TypeOK
<1>2. CASE RevokeRows(r)
  <2>1. PICK q : q = [req[r] EXCEPT
                        !.pc = IF req[r].kind = "mandate" THEN "bump" ELSE "commit",
                        !.rows = {s \in req[r].rows : session[s].status = "live"}]
    OBVIOUS
  <2>2. Carried(q) /\ q.pc # "issue"
    BY <1>0, <2>1 DEF Carried, Request
  <2>3. HasRow(q) => lock = r /\ Decided(q)
    BY <1>0, <1>2, <2>1 DEF RevokeRows, Locked, HasRow, Decided, Carried, Request
  <2> QED BY <1>2, <2>1, <2>2, <2>3, RequestKeeps DEF RevokeRows, IInv, TypeOK
<1>3. CASE LockUserLast(r)
  <2>1. PICK q : q = [req[r] EXCEPT !.pc = "commit", !.revokes = TRUE]
    OBVIOUS
  <2>2. TRUE \in BOOLEAN
    BY Zenon
  <2>3. Carried(q) /\ q.pc # "issue"
    BY <1>0, <2>1, <2>2 DEF Carried, Request
  <2>4. Decided(q)
    BY <1>0, <2>1 DEF Decided, Carried, Request
  <2> QED BY <1>3, <2>1, <2>3, <2>4, RequestKeeps DEF LockUserLast, IInv, TypeOK
<1>4. CASE Abandon(r)
  <2>1. Idle.pc # "issue" /\ ~HasRow(Idle)
    BY IdleType
  <2>2. lock' = lock \/ lock \in {r, NoRequest}
    BY <1>4 DEF Abandon
  <2>3. lock' \in Requests \cup {NoRequest}
    BY <1>4 DEF Abandon, IInv, TypeOK
  <2> QED BY <1>4, <2>1, <2>2, <2>3, IdleType, RequestKeeps DEF Abandon, IInv, TypeOK
<1> QED BY <1>1, <1>2, <1>3, <1>4
-----------------------------------------------------------------------------
(* Steps that write a session or the user *)

\* The rows of others keep their tokens; no row becomes a missing one. The user
\* row is written by the holder of its lock.
LEMMA SessionKeeps ==
  ASSUME IInv, NEW r \in Requests, NEW q, Carried(q), ~HasRow(q),
         req' = [req EXCEPT ![r] = q],
         q.pc = "issue" => session'[q.session].status # "none",
         session' \in [SessionIds -> SessionRow], user' \in UserRow,
         changes' \in Nat, overtaken' \in BOOLEAN,
         \A s \in SessionIds : session[s].status # "none" => session'[s].status # "none",
         Counted',
         lock = r \/ UNCHANGED <<user, lock>>,
         lock' \in Requests \cup {NoRequest}, UNCHANGED rehash
  PROVE  IInv'
<1>1. TypeOK'
  BY DEF IInv, TypeOK, Carried, Request, SessionRow, UserRow
<1>2. \A s \in Requests : req'[s] = IF s = r THEN q ELSE req[s]
  BY DEF IInv, TypeOK
<1>3. Inserted'
  <2> SUFFICES ASSUME NEW s \in Requests, req'[s].pc = "issue"
               PROVE  session'[req'[s].session].status # "none"
    BY DEF Inserted
  <2>1. CASE s = r
    BY <1>2, <2>1
  <2>2. CASE s # r
    <3>1. req'[s] = req[s] /\ req[s].session \in SessionIds
      BY <1>2, <2>2 DEF IInv, Carried
    <3> QED BY <3>1 DEF IInv, Inserted
  <2> QED BY <2>1, <2>2
<1>4. \A s \in Requests : Carried(req'[s])
  BY <1>2 DEF IInv
<1>5. \A s \in Requests : Locked(s)'
  <2> SUFFICES ASSUME NEW s \in Requests, HasRow(req[s]), req'[s] = req[s], s # r
               PROVE  Locked(s)'
    BY <1>2 DEF Locked, HasRow
  <2>1. lock = s /\ Decided(req[s])
    BY DEF IInv, Locked
  <2>2. UNCHANGED <<user, lock>>
    BY <2>1
  <2> QED BY <2>1, <2>2 DEF Locked, Decided
<1> QED BY <1>1, <1>3, <1>4, <1>5 DEF IInv

LEMMA InsertKeeps ==
  ASSUME IInv, NEW r \in Requests, InsertSession(r)
  PROVE  IInv'
<1>1. Carried(req[r]) /\ req[r].session \in SessionIds
  BY DEF IInv, Carried, InsertSession
<1>2. PICK q : q = [req[r] EXCEPT !.pc = "issue"]
  OBVIOUS
<1>3. Carried(q) /\ ~HasRow(q) /\ q.session = req[r].session
  BY <1>1, <1>2 DEF Carried, HasRow, Request
<1>4. /\ session' = [session EXCEPT ![req[r].session] = [session[req[r].session] EXCEPT !.status = "live"]]
      /\ req' = [req EXCEPT ![r] = q]
  BY <1>1, <1>2 DEF InsertSession, Goto, IInv, TypeOK
<1>5. \A s \in SessionIds :
        /\ session'[s].epoch = session[s].epoch /\ session'[s].seen = session[s].seen
        /\ session'[s].status = IF s = req[r].session THEN "live" ELSE session[s].status
        /\ session'[s] \in SessionRow
  BY <1>1, <1>4, Rows DEF IInv, TypeOK, SessionRow
<1>6. session' \in [SessionIds -> SessionRow]
  BY <1>4, <1>5 DEF IInv, TypeOK
<1>7. Counted'
  BY <1>5 DEF InsertSession, IInv, Counted
<1>8. /\ user' \in UserRow /\ changes' \in Nat /\ overtaken' \in BOOLEAN
      /\ lock' \in Requests \cup {NoRequest} /\ UNCHANGED <<user, lock, rehash>>
  BY Rows DEF InsertSession, IInv, TypeOK
<1>9. /\ session'[q.session].status # "none"
      /\ \A s \in SessionIds : session[s].status # "none" => session'[s].status # "none"
  BY <1>1, <1>3, <1>5
<1> QED BY <1>3, <1>4, <1>6, <1>7, <1>8, <1>9, SessionKeeps

LEMMA IssueKeeps ==
  ASSUME IInv, NEW r \in Requests, IssueToken(r)
  PROVE  IInv'
<1>1. Carried(req[r]) /\ req[r].session \in SessionIds
  BY DEF IInv, Carried, IssueToken
<1>2. PICK row : row = [session[req[r].session] EXCEPT !.epoch = user.epoch, !.seen = changes]
  OBVIOUS
<1>3. /\ row \in SessionRow /\ row.epoch = user.epoch /\ row.seen = changes
      /\ row.status = session[req[r].session].status /\ user.epoch \in Nat
  <2>1. user.epoch \in Nat /\ changes \in Nat /\ session[req[r].session] \in SessionRow
    BY <1>1, Rows DEF UserRow, IInv, TypeOK
  <2> QED BY <1>2, <2>1 DEF SessionRow
<1>4. session' = [session EXCEPT ![req[r].session] = row]
  BY <1>2 DEF IssueToken
<1>5. \A s \in SessionIds : session'[s] = IF s = req[r].session THEN row ELSE session[s]
  BY <1>4 DEF IInv, TypeOK
<1>6. session' \in [SessionIds -> SessionRow]
  BY <1>3, <1>4 DEF IInv, TypeOK, SessionRow
<1>7. \A s \in SessionIds : session[s].status # "none" => session'[s].status # "none"
  BY <1>3, <1>5
<1>8. Counted'
  BY <1>3, <1>5 DEF IssueToken, IInv, Counted
<1>9. Idle.pc # "issue" /\ ~HasRow(Idle)
  BY IdleType
<1>10. /\ user' \in UserRow /\ changes' \in Nat /\ overtaken' \in BOOLEAN
       /\ lock' \in Requests \cup {NoRequest} /\ UNCHANGED <<user, lock, rehash>>
       /\ req' = [req EXCEPT ![r] = Idle]
  BY Rows DEF IssueToken, IInv, TypeOK
<1> QED BY <1>6, <1>7, <1>8, <1>9, <1>10, IdleType, SessionKeeps

\* The user row that a transaction leaves is well typed, with the next epoch.
LEMMA WrittenType ==
  ASSUME IInv, NEW r \in Requests
  PROVE  Written(r) \in UserRow /\ Written(r).epoch = NextEpoch(r)
<1>1. PICK row : row = [user EXCEPT !.epoch = NextEpoch(r)]
  OBVIOUS
<1>2. row \in UserRow /\ row.epoch = NextEpoch(r)
  BY <1>1, Rows DEF IInv, UserRow, NextEpoch
<1>3. Carried(req[r])
  BY DEF IInv
<1>4. CASE req[r].kind = "password"
  <2>1. Written(r) = [row EXCEPT !.password = row.epoch, !.legacy = FALSE]
    BY Zenon, <1>1, <1>4 DEF Written
  <2>2. FALSE \in BOOLEAN
    BY Zenon
  <2> QED BY <1>2, <2>1, <2>2 DEF UserRow
<1>5. CASE req[r].kind = "active"
  <2>1. PICK b \in BOOLEAN : b = ~row.active
    BY Zenon
  <2>2. Written(r) = [row EXCEPT !.active = ~row.active]
    BY Zenon, <1>1, <1>5 DEF Written
  <2>3. Written(r) = [row EXCEPT !.active = b]
    BY Zenon, <2>1, <2>2
  <2> QED BY <1>2, <2>3 DEF UserRow
<1>6. CASE req[r].kind \in {"role", "sso"}
  <2>1. Written(r) = [row EXCEPT !.role = req[r].role]
    BY Zenon, <1>1, <1>6 DEF Written
  <2>2. req[r].role \in Roles
    BY <1>3, <1>6 DEF Carried
  <2> QED BY <1>2, <2>1, <2>2 DEF UserRow
<1>7. CASE req[r].kind \notin {"password", "active", "role", "sso"}
  <2>1. Written(r) = row
    BY Zenon, <1>1, <1>7 DEF Written
  <2> QED BY <1>2, <2>1
<1> QED BY <1>4, <1>5, <1>6, <1>7

\* What the row lock is for: a transaction that alters the user row has decided
\* to revoke, unless it is an SSO sign-in whose read was overtaken.
LEMMA AlteringRevokes ==
  ASSUME IInv, NEW r \in Requests, req[r].pc = "commit", Alters(r), ~Overtaken(r)
  PROVE  req[r].revokes = TRUE
<1>1. Decided(req[r])
  BY DEF IInv, Locked, HasRow
<1>2. CASE req[r].kind \in {"password", "mandate", "role"}
  BY <1>1, <1>2 DEF Decided, Alters
<1>3. CASE req[r].kind = "active"
  <2>1. user.active = TRUE
    BY <1>3, Rows DEF Alters, IInv, UserRow
  <2> QED BY <1>1, <1>3, <2>1 DEF Decided
<1>4. CASE req[r].kind = "sso"
  BY <1>1, <1>4 DEF Decided, Alters, Overtaken
<1> QED BY <1>2, <1>3, <1>4 DEF Alters

LEMMA CommitKeeps ==
  ASSUME IInv, NEW r \in Requests, Commit(r)
  PROVE  IInv'
<1>1. user' = Written(r) /\ session' = Revoked(r) /\ req[r].pc = "commit"
  BY DEF Commit
<1>2. user' \in UserRow /\ user'.epoch = NextEpoch(r)
  BY <1>1, WrittenType
<1>3. /\ user.epoch \in Nat /\ NextEpoch(r) \in Nat /\ changes' \in Nat
      /\ NextEpoch(r) = user.epoch \/ NextEpoch(r) = user.epoch + 1
      /\ req[r].revokes = TRUE => NextEpoch(r) = user.epoch + 1
  BY Rows DEF Commit, NextEpoch, ChangesAfter, IInv, TypeOK, UserRow
<1>4. \A s \in SessionIds : session'[s] =
        IF s = req[r].session
        THEN [status |-> "live", epoch |-> NextEpoch(r), seen |-> changes']
        ELSE IF s \in req[r].rows THEN [session[s] EXCEPT !.status = "revoked"]
        ELSE session[s]
  BY <1>1 DEF Revoked, Commit
<1>5. ASSUME NEW s \in SessionIds
      PROVE  /\ session'[s] \in SessionRow
             /\ session[s].status # "none" => session'[s].status # "none"
             /\ \/ session'[s].epoch = NextEpoch(r) /\ session'[s].seen = changes'
                \/ session'[s].epoch = session[s].epoch /\ session'[s].seen = session[s].seen
  <2>0. session[s] \in SessionRow
    BY Rows DEF IInv
  <2>1. CASE s = req[r].session
    <3>1. PICK n \in Nat : n = NextEpoch(r)
      BY <1>3
    <3>2. session'[s] = [status |-> "live", epoch |-> n, seen |-> changes']
      BY <1>4, <2>1, <3>1
    <3> QED BY <1>3, <3>1, <3>2 DEF SessionRow
  <2>2. CASE s # req[r].session /\ s \in req[r].rows
    <3>1. session'[s] = [session[s] EXCEPT !.status = "revoked"]
      BY <1>4, <2>2
    <3> QED BY <2>0, <3>1 DEF SessionRow
  <2>3. CASE s # req[r].session /\ s \notin req[r].rows
    BY <1>4, <2>0, <2>3
  <2> QED BY <2>1, <2>2, <2>3
<1>6. session' \in [SessionIds -> SessionRow]
  BY <1>1, <1>5 DEF Revoked
<1>7. overtaken' \in BOOLEAN
  BY Zenon DEF Commit, Overtaken, IInv, TypeOK
<1>8. Counted'
  <2>1. \A s \in SessionIds : session'[s].epoch # NoToken => session'[s].epoch <= user'.epoch
    <3> SUFFICES ASSUME NEW s \in SessionIds, session'[s].epoch # NoToken
                 PROVE  session'[s].epoch <= NextEpoch(r)
      BY <1>2
    <3>1. CASE session'[s].epoch = NextEpoch(r)
      BY <1>3, <3>1
    <3>2. CASE session'[s].epoch = session[s].epoch
      <4>1. session[s].epoch \in Nat /\ session[s].epoch <= user.epoch
        BY <3>2, Rows DEF IInv, Counted, SessionRow
      <4> QED BY <1>3, <3>2, <4>1
    <3> QED BY <1>5, <3>1, <3>2
  <2>2. ASSUME ~overtaken', NEW s \in SessionIds, session'[s].epoch = user'.epoch
        PROVE  session'[s].seen = changes'
    <3>1. CASE session'[s].epoch = session[s].epoch /\ session'[s].seen = session[s].seen
      <4>1. session[s].epoch = NextEpoch(r) /\ session[s].epoch # NoToken
        BY <1>2, <1>3, <2>2, <3>1, NullAssumption
      <4>2. session[s].epoch <= user.epoch
        BY <4>1 DEF IInv, Counted
      <4>3. NextEpoch(r) = user.epoch /\ req[r].revokes # TRUE
        <5>1. NextEpoch(r) <= user.epoch
          BY <4>1, <4>2
        <5>2. NextEpoch(r) # user.epoch + 1
          BY <1>3, <5>1
        <5> QED BY <1>3, <5>2
      <4>4. ~Alters(r)
        BY <1>1, <2>2, <4>3, AlteringRevokes DEF Commit
      <4>5. ~overtaken /\ changes' = changes
        BY <2>2, <4>4 DEF Commit, ChangesAfter
      <4> QED BY <3>1, <4>1, <4>3, <4>5 DEF IInv, Counted
    <3>2. CASE session'[s].seen = changes'
      BY <3>2
    <3> QED BY <1>5, <3>1, <3>2
  <2> QED BY <2>1, <2>2 DEF Counted
<1>9. Idle.pc # "issue" /\ ~HasRow(Idle) /\ Carried(Idle)
  BY IdleType
<1>10. lock = r
  <2>1. HasRow(req[r])
    BY <1>1 DEF HasRow
  <2> QED BY <2>1 DEF IInv, Locked
<1>11. req' = [req EXCEPT ![r] = Idle] /\ lock' = NoRequest /\ UNCHANGED rehash
  BY DEF Commit
<1> QED BY <1>2, <1>3, <1>5, <1>6, <1>7, <1>8, <1>9, <1>10, <1>11, SessionKeeps

LEMMA UserKeeps ==
  ASSUME IInv, (\E p \in rehash : StoreRehash(p)) \/ (\E s \in SessionIds : Logout(s))
  PROVE  IInv'
<1>1. ASSUME NEW p \in rehash, StoreRehash(p)
      PROVE  IInv'
  <2>1. FALSE \in BOOLEAN /\ p \in Nat
    BY Zenon DEF IInv, TypeOK
  <2>2. user' = [user EXCEPT !.password = p, !.legacy = FALSE]
    BY <1>1 DEF StoreRehash
  <2>3. user' \in UserRow /\ user'.epoch = user.epoch
    BY <2>1, <2>2, Rows DEF IInv, UserRow
  <2>4. \A r \in Requests : ~HasRow(req[r])
    BY <1>1, NullAssumption DEF StoreRehash, IInv, Locked
  <2>5. \A r \in Requests : Locked(r)'
    BY <1>1, <2>4 DEF StoreRehash, Locked, HasRow
  <2> QED BY <1>1, <2>3, <2>5 DEF StoreRehash, IInv, TypeOK, UserRow, Inserted, Counted
<1>2. ASSUME NEW s \in SessionIds, Logout(s)
      PROVE  IInv'
  <2>1. session' = [session EXCEPT ![s] = [session[s] EXCEPT !.status = "revoked"]]
    BY <1>2 DEF Logout, IInv, TypeOK
  <2>2. \A t \in SessionIds :
          /\ session'[t] \in SessionRow
          /\ session'[t].epoch = session[t].epoch /\ session'[t].seen = session[t].seen
          /\ session'[t].status = IF t = s THEN "revoked" ELSE session[t].status
    BY <2>1, Rows DEF IInv, TypeOK, SessionRow
  <2>3. session' \in [SessionIds -> SessionRow]
    BY <2>1, <2>2 DEF IInv, TypeOK
  <2>4. TypeOK'
    BY <1>2, <2>3 DEF Logout, IInv, TypeOK, SessionRow
  <2>5. Inserted'
    BY <1>2, <2>2 DEF Logout, IInv, Inserted, Carried
  <2>6. Counted'
    BY <1>2, <2>2 DEF Logout, IInv, Counted
  <2>7. \A r \in Requests : Locked(r)'
    BY <1>2 DEF Logout, IInv, Locked, HasRow, Decided
  <2> QED BY <1>2, <2>4, <2>5, <2>6, <2>7 DEF Logout, IInv
<1> QED BY <1>1, <1>2
-----------------------------------------------------------------------------
(* The theorems *)

LEMMA Initially == Init => IInv
<1> SUFFICES ASSUME Init
             PROVE  IInv
  OBVIOUS
<1>1. user \in UserRow /\ user.epoch = 0
  <2>1. PICK legacy \in BOOLEAN :
          user = [password |-> 0, legacy |-> legacy, role |-> FirstRole,
                  active |-> TRUE, epoch |-> 0]
    BY DEF Init
  <2>2. TRUE \in BOOLEAN
    BY Zenon
  <2> QED BY <2>1, <2>2, RoleAssumption DEF UserRow
<1>2. Blank \in SessionRow /\ Blank.epoch = NoToken
  BY DEF Blank, SessionRow
<1>3. TypeOK
  <2>1. overtaken \in BOOLEAN
    BY Zenon DEF Init
  <2> QED BY <1>1, <1>2, <2>1, IdleType
          DEF Init, TypeOK, UserRow, SessionRow, Carried, Request
<1>4. \A r \in Requests : req[r] = Idle
  BY DEF Init
<1>5. (\A r \in Requests : Carried(req[r])) /\ Inserted
  BY <1>4, IdleType DEF Inserted
<1>6. Counted
  BY <1>1, <1>2, NullAssumption DEF Init, Counted
<1>7. \A r \in Requests : Locked(r)
  BY <1>4, IdleType DEF Locked
<1> QED BY <1>3, <1>5, <1>6, <1>7 DEF IInv

LEMMA StepKeeps == IInv /\ [Next]_vars => IInv'
<1> SUFFICES ASSUME IInv, [Next]_vars
             PROVE  IInv'
  OBVIOUS
<1>1. ASSUME NEW r \in Requests, Start(r) \/ Proceed(r) \/ Abandon(r)
      PROVE  IInv'
  BY <1>1, StartKeeps, InsertKeeps, IssueKeeps, LockKeeps, RevokingKeeps, CommitKeeps
     DEF Proceed
<1>2. CASE (\E p \in rehash : StoreRehash(p)) \/ (\E s \in SessionIds : Logout(s))
  BY <1>2, UserKeeps
<1>3. CASE UNCHANGED vars
  BY <1>3 DEF vars, IInv, TypeOK, Inserted, Locked, HasRow, Decided, Counted
<1> QED BY <1>1, <1>2, <1>3 DEF Next

LEMMA Inductive == Spec => []IInv
BY Initially, StepKeeps, PTL DEF Spec

\* Every row is well typed, and so is everything a request carries.
THEOREM TypeCorrect == Spec => []TypeOK
<1>1. IInv => TypeOK
  BY DEF IInv
<1> QED BY Inductive, <1>1, PTL

\* No token that was issued before a committed change of password, role,
\* mandate or activity authenticates after it, for any number of logins,
\* changes and logouts that overlap, until an SSO sign-in writes over a role
\* that it had not read, and again from the change that follows.
THEOREM TokensEnd == Spec => []ChangeEndsTokens
<1>1. IInv => ChangeEndsTokens
  BY DEF ChangeEndsTokens, Alive, IInv, Counted
<1> QED BY Inductive, <1>1, PTL

\* A session is given its first token live and under the current epoch.
LEMMA FirstToken ==
  ASSUME IInv, [Next]_vars, NEW s \in SessionIds, session[s] = Blank,
         session'[s].epoch # NoToken
  PROVE  session'[s].status = "live" /\ session'[s].epoch = user'.epoch
<1>0. session[s].status = "none" /\ session[s].epoch = NoToken /\ session[s] \in SessionRow
  BY Rows DEF Blank, IInv
<1>1. ASSUME NEW r \in Requests, Start(r) \/ LockUser(r) \/ FindRows(r) \/ RevokeRows(r)
                                  \/ LockUserLast(r) \/ Abandon(r)
      PROVE  session' = session
  BY <1>1 DEF Start, BeginLogin, BeginNameLogin, BeginPassword, BeginPatch, BeginSso,
              BeginMandate, BeginChange, LockUser, FindRows, RevokeRows, LockUserLast,
              Abandon
<1>2. ASSUME NEW r \in Requests, InsertSession(r)
      PROVE  session'[s].epoch = session[s].epoch
  <2>1. session' = [session EXCEPT ![req[r].session] =
                      [session[req[r].session] EXCEPT !.status = "live"]]
    BY <1>2 DEF InsertSession, IInv, TypeOK
  <2> QED BY <1>0, <2>1 DEF IInv, TypeOK, SessionRow
<1>3. ASSUME NEW r \in Requests, IssueToken(r)
      PROVE  session'[s] = session[s]
  <2>1. req[r].session # s
    BY <1>0, <1>3 DEF IssueToken, IInv, Inserted
  <2> QED BY <1>3, <2>1 DEF IssueToken, IInv, TypeOK
<1>4. ASSUME NEW r \in Requests, Commit(r)
      PROVE  session'[s].status = "live" /\ session'[s].epoch = user'.epoch
  <2>1. session'[s] =
          IF s = req[r].session
          THEN [status |-> "live", epoch |-> NextEpoch(r), seen |-> ChangesAfter(r)]
          ELSE IF s \in req[r].rows THEN [session[s] EXCEPT !.status = "revoked"]
          ELSE session[s]
    BY <1>4 DEF Commit, Revoked
  <2>2. s = req[r].session
    BY <1>0, <2>1 DEF SessionRow
  <2>3. user'.epoch = NextEpoch(r)
    BY <1>4, WrittenType DEF Commit
  <2> QED BY <2>1, <2>2, <2>3
<1>5. ASSUME NEW p \in rehash, StoreRehash(p)
      PROVE  session' = session
  BY <1>5 DEF StoreRehash
<1>6. ASSUME NEW t \in SessionIds, Logout(t)
      PROVE  session'[s] = session[s]
  BY <1>0, <1>6 DEF Logout, IInv, TypeOK
<1>7. CASE UNCHANGED vars
  BY <1>0, <1>7 DEF vars
<1> QED BY <1>0, <1>1, <1>2, <1>3, <1>4, <1>5, <1>6, <1>7 DEF Next, Proceed

\* The session that a change of password or an SSO sign-in creates is alive
\* when that change commits, for any number of others in flight.
THEOREM DeviceKept == Spec => KeepsThisDevice
<1>1. IInv /\ [Next]_vars =>
        [\A s \in SessionIds :
           session[s] = Blank /\ session'[s].epoch # NoToken /\ user'.active
             => Alive(s)']_vars
  BY FirstToken DEF Alive
<1> QED BY Inductive, <1>1, PTL DEF Spec, KeepsThisDevice
=============================================================================
