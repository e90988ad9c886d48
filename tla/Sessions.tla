------------------------------ MODULE Sessions ------------------------------
(***************************************************************************)
(* The sessions of one user, and what ends them.                           *)
(*                                                                         *)
(*   server/src/services/sessions.js            createSession, revoke*     *)
(*   server/src/routes/auth.js                  login, logout, passwords,  *)
(*                                              users, mandates            *)
(*   server/src/routes/sso.js                   callback, logout           *)
(*   server/src/middleware/requestContext.js    loadUserAndSession         *)
(*                                                                         *)
(* A login checks the user, inserts the session and reads the epoch in     *)
(* three statements of its own. A change of password, role or mandate is   *)
(* one transaction: what it writes is seen at COMMIT, its row locks from   *)
(* the statement that takes them. The mandate handler locks the session    *)
(* rows first and the user row last, all the others the other way round.   *)
(***************************************************************************)
EXTENDS Naturals, FiniteSets

CONSTANTS
  SessionIds,  \* auth_session rows that may come to exist
  Requests,    \* concurrent requests
  Roles,
  FirstRole,   \* the user's role at the start
  MaxEpoch,    \* bound on the mass revocations
  NoSession, NoRequest, NoToken

ASSUME RoleAssumption == FirstRole \in Roles
ASSUME EpochAssumption == MaxEpoch \in Nat \ {0}
ASSUME NullAssumption ==
  /\ NoSession \notin SessionIds /\ NoRequest \notin Requests
  /\ NoToken \notin Nat

VARIABLES
  user,     \* the uw_user row
  session,  \* auth_session, each with the epoch its token carries
  req,      \* what each request carries
  lock,     \* the transaction that holds the user row
  rehash,   \* passwords that a login is hashing anew, unawaited
  changes,  \* history: committed changes of the user's authority
  overtaken \* history: the latest of them is an SSO sign-in that wrote over
            \* a role it had not read

vars == <<user, session, req, lock, rehash, changes, overtaken>>

Changes == {"password", "role", "active", "mandate", "sso"}

Idle ==
  [pc |-> "idle", kind |-> "none", session |-> NoSession, rows |-> {},
   role |-> NoSession, read |-> NoSession, revokes |-> FALSE, began |-> 0]

Blank == [status |-> "none", epoch |-> NoToken, seen |-> 0]

\* loadUserAndSession: the token of session s authenticates a request.
Alive(s) ==
  /\ user.active
  /\ session[s].status = "live"
  /\ session[s].epoch = user.epoch

\* The session rows a transaction has updated, and those of the others.
Held(q) == IF req[q].pc \in {"bump", "commit"} THEN req[q].rows ELSE {}
HeldByOthers(r) ==
  UNION {Held(q) : q \in Requests \ {r}}

Unused(s) ==
  session[s] = Blank /\ \A q \in Requests : req[q].session # s

Changing == {q \in Requests : req[q].kind \in Changes}

Begin(r, pc, kind, s) ==
  /\ req[r] = Idle
  /\ req' = [req EXCEPT ![r] = [Idle EXCEPT !.pc = pc, !.kind = kind, !.session = s,
                                            !.began = changes]]

\* MaxEpoch bounds the changes, and the epochs, that are committed or in flight.
Admitted ==
  /\ changes + Cardinality(Changing) < MaxEpoch
  /\ user.epoch + Cardinality(Changing) < MaxEpoch

BeginChange(r, pc, kind, s) ==
  /\ Admitted
  /\ Begin(r, pc, kind, s)
  /\ UNCHANGED <<user, session, lock, rehash, changes, overtaken>>

Goto(r, pc) == req' = [req EXCEPT ![r].pc = pc]

-----------------------------------------------------------------------------
(* Signing in and out *)

\* POST /auth/login: the user row and its hash are read on the pool. A hash
\* below the current policy is computed anew without anyone waiting for it.
BeginLogin(r, s) ==
  /\ user.active
  /\ Unused(s)
  /\ Begin(r, "insert", "login", s)
  /\ rehash' = IF user.legacy THEN rehash \cup {user.password} ELSE rehash
  /\ UNCHANGED <<user, session, lock, changes, overtaken>>

\* POST /auth/name-login asks for no password.
BeginNameLogin(r, s) ==
  /\ user.active
  /\ Unused(s)
  /\ Begin(r, "insert", "login", s)
  /\ UNCHANGED <<user, session, lock, rehash, changes, overtaken>>

\* createSession on the pool: the row is inserted (its foreign key waits for the
\* FOR UPDATE lock of a patch, not for the lock of an UPDATE),
InsertSession(r) ==
  /\ req[r].pc = "insert"
  /\ \A q \in Requests : lock = q => req[q].kind \notin {"role", "active"}
  /\ session' = [session EXCEPT ![req[r].session].status = "live"]
  /\ Goto(r, "issue")
  /\ UNCHANGED <<user, lock, rehash, changes, overtaken>>

\* then the epoch is read, and the token goes into the cookie.
IssueToken(r) ==
  /\ req[r].pc = "issue"
  /\ session' = [session EXCEPT ![req[r].session] =
                   [@ EXCEPT !.epoch = user.epoch, !.seen = changes]]
  /\ req' = [req EXCEPT ![r] = Idle]
  /\ UNCHANGED <<user, lock, rehash, changes, overtaken>>

\* The unawaited UPDATE of password_hash; it waits for the user row.
StoreRehash(p) ==
  /\ p \in rehash
  /\ lock = NoRequest
  /\ user' = [user EXCEPT !.password = p, !.legacy = FALSE]
  /\ rehash' = rehash \ {p}
  /\ UNCHANGED <<session, req, lock, changes, overtaken>>

\* revokeSession, for a logout here or at the identity provider.
Logout(s) ==
  /\ session[s].status = "live" /\ session[s].epoch # NoToken
  /\ \A q \in Requests : s \notin Held(q)
  /\ session' = [session EXCEPT ![s].status = "revoked"]
  /\ UNCHANGED <<user, req, lock, rehash, changes, overtaken>>

-----------------------------------------------------------------------------
(* Changes that revoke *)

\* POST /auth/change-password: the caller is authenticated and the current
\* password verified on the pool. t is the session of the device afterwards.
BeginPassword(r, s, t) ==
  /\ Alive(s)
  /\ Unused(t)
  /\ BeginChange(r, "lock", "password", t)

\* PATCH /auth/users/:id with a role, or with is_active.
BeginPatch(r, kind, role) ==
  /\ Admitted
  /\ req[r] = Idle
  /\ req' = [req EXCEPT ![r] =
       [Idle EXCEPT !.pc = "lock", !.kind = kind, !.role = role]]
  /\ UNCHANGED <<user, session, lock, rehash, changes, overtaken>>

\* GET /auth/sso/callback: provisionFromClaims reads role and is_active
\* without a lock before it writes the role the provider names.
BeginSso(r, t, role) ==
  /\ user.active
  /\ Unused(t)
  /\ Admitted
  /\ req[r] = Idle
  /\ req' = [req EXCEPT ![r] =
       [Idle EXCEPT !.pc = "lock", !.kind = "sso", !.session = t, !.role = role,
                    !.read = user.role, !.began = changes]]
  /\ UNCHANGED <<user, session, lock, rehash, changes, overtaken>>

\* PUT /auth/mandates/:userId with a changed authority: user_mandate is locked
\* and written, which keeps two of them apart.
BeginMandate(r) ==
  /\ \A q \in Requests : req[q].kind # "mandate"
  /\ BeginChange(r, "rows", "mandate", NoSession)

\* Mutant: the patch reads the row without FOR UPDATE.
UnlockedRead(r) ==
  LET revokes == CASE req[r].kind = "role"   -> req[r].role # user.role
                   [] req[r].kind = "active" -> user.active
                   [] req[r].kind = "sso"    -> req[r].role # req[r].read
                   [] OTHER                  -> TRUE
  IN
  /\ req[r].pc = "lock"
  /\ lock = NoRequest \/ req[r].kind \in {"role", "active"}
  /\ lock' = r
  /\ req' = [req EXCEPT ![r] =
       [@ EXCEPT !.pc = IF revokes THEN "rows" ELSE "commit", !.revokes = revokes]]
  /\ UNCHANGED <<user, session, rehash, changes, overtaken>>

\* The user row is locked: FOR UPDATE in the patch, an UPDATE elsewhere. A patch
\* revokes when it changes the role of the locked row, or deactivates; an SSO
\* sign-in when the role it writes is not the one it has read.
LockUser(r) ==
  LET revokes == CASE req[r].kind = "role"   -> req[r].role # user.role
                   [] req[r].kind = "active" -> user.active
                   [] req[r].kind = "sso"    -> req[r].role # req[r].read
                   [] OTHER                  -> TRUE
  IN
  /\ req[r].pc = "lock"
  /\ lock = NoRequest
  /\ lock' = r
  /\ req' = [req EXCEPT ![r] =
       [@ EXCEPT !.pc = IF revokes THEN "rows" ELSE "commit", !.revokes = revokes]]
  /\ UNCHANGED <<user, session, rehash, changes, overtaken>>

\* revokeAllForUser, first statement: the live rows of its snapshot,
FindRows(r) ==
  /\ req[r].pc = "rows"
  /\ req' = [req EXCEPT ![r] =
       [@ EXCEPT !.pc = "wait",
                 !.rows = {s \in SessionIds : session[s].status = "live"}]]
  /\ UNCHANGED <<user, session, lock, rehash, changes, overtaken>>

\* each locked in turn and left alone when it is revoked by then.
RevokeRows(r) ==
  /\ req[r].pc = "wait"
  /\ req[r].rows \cap HeldByOthers(r) = {}
  /\ req' = [req EXCEPT ![r] =
       [@ EXCEPT !.pc = IF req[r].kind = "mandate" THEN "bump" ELSE "commit",
                 !.rows = {s \in req[r].rows : session[s].status = "live"}]]
  /\ UNCHANGED <<user, session, lock, rehash, changes, overtaken>>

\* Second statement, session_epoch + 1: the mandate has yet to lock the row.
LockUserLast(r) ==
  /\ req[r].pc = "bump"
  /\ lock = NoRequest
  /\ lock' = r
  /\ req' = [req EXCEPT ![r] = [@ EXCEPT !.pc = "commit", !.revokes = TRUE]]
  /\ UNCHANGED <<user, session, rehash, changes, overtaken>>

\* session_epoch as the transaction leaves it.
NextEpoch(r) == IF req[r].revokes THEN user.epoch + 1 ELSE user.epoch

\* The user row as the transaction leaves it. Every new password is one of its
\* own, named by the epoch it brings in.
Written(r) ==
  LET row == [user EXCEPT !.epoch = NextEpoch(r)] IN
  CASE req[r].kind = "password" -> [row EXCEPT !.password = row.epoch,
                                               !.legacy = FALSE]
    [] req[r].kind = "active"   -> [row EXCEPT !.active = ~@]
    [] req[r].kind \in {"role", "sso"} -> [row EXCEPT !.role = req[r].role]
    [] OTHER -> row

\* History: the transaction alters what the user is or may do. The password is
\* new and a mandate is sent only when its authority changes; reactivation gives
\* nothing that a token could have outlived.
Alters(r) ==
  \/ req[r].kind \in {"password", "mandate"}
  \/ req[r].kind \in {"role", "sso"} /\ req[r].role # user.role
  \/ req[r].kind = "active" /\ user.active

\* The role was changed after an SSO sign-in had read it.
Overtaken(r) == req[r].kind = "sso" /\ req[r].read # user.role

ChangesAfter(r) == IF Alters(r) THEN changes + 1 ELSE changes

\* Mutant: the session of this device is created before the revocation.
SignedInFirst(r) ==
  [s \in SessionIds |->
     IF s = req[r].session
     THEN [status |-> "live", epoch |-> user.epoch, seen |-> changes]
     ELSE IF s \in req[r].rows THEN [session[s] EXCEPT !.status = "revoked"]
     ELSE session[s]]

\* auth_session as it leaves it: a password change and an SSO sign-in create
\* a session after the revocation.
Revoked(r) ==
  [s \in SessionIds |->
     IF s = req[r].session
     THEN [status |-> "live", epoch |-> NextEpoch(r), seen |-> ChangesAfter(r)]
     ELSE IF s \in req[r].rows THEN [session[s] EXCEPT !.status = "revoked"]
     ELSE session[s]]

Commit(r) ==
  /\ req[r].pc = "commit"
  /\ user' = Written(r)
  /\ session' = Revoked(r)
  /\ changes' = ChangesAfter(r)
  /\ overtaken' = IF Alters(r) THEN Overtaken(r) ELSE overtaken
  /\ lock' = NoRequest
  /\ req' = [req EXCEPT ![r] = Idle]
  /\ UNCHANGED rehash

\* Mutant: the error path returns the connection without a ROLLBACK.
NoRollback(r) ==
  /\ req[r] # Idle
  /\ req' = [req EXCEPT ![r] = Idle]
  /\ UNCHANGED <<user, session, lock, rehash, changes, overtaken>>

\* An error, the deadlock detector or a crash: a transaction is rolled back, a
\* login leaves the row it has inserted.
Abandon(r) ==
  /\ req[r] # Idle
  /\ req' = [req EXCEPT ![r] = Idle]
  /\ lock' = IF lock = r THEN NoRequest ELSE lock
  /\ UNCHANGED <<user, session, rehash, changes, overtaken>>

-----------------------------------------------------------------------------
Init ==
  /\ \E legacy \in BOOLEAN :
       user = [password |-> 0, legacy |-> legacy, role |-> FirstRole,
               active |-> TRUE, epoch |-> 0]
  /\ session = [s \in SessionIds |-> Blank]
  /\ req = [r \in Requests |-> Idle]
  /\ lock = NoRequest
  /\ rehash = {}
  /\ changes = 0
  /\ overtaken = FALSE

Start(r) ==
  \/ \E s \in SessionIds : BeginLogin(r, s) \/ BeginNameLogin(r, s)
  \/ \E s, t \in SessionIds : BeginPassword(r, s, t)
  \/ \E role \in Roles : BeginPatch(r, "role", role)
  \/ BeginPatch(r, "active", NoSession)
  \/ \E t \in SessionIds, role \in Roles : BeginSso(r, t, role)
  \/ BeginMandate(r)

Proceed(r) ==
  \/ InsertSession(r)
  \/ IssueToken(r)
  \/ LockUser(r)
  \/ FindRows(r)
  \/ RevokeRows(r)
  \/ LockUserLast(r)
  \/ Commit(r)

Next ==
  \/ \E r \in Requests : Start(r) \/ Proceed(r) \/ Abandon(r)
  \/ \E p \in rehash : StoreRehash(p)
  \/ \E s \in SessionIds : Logout(s)

\* Two transactions that wait for each other.
Deadlocked(r) ==
  \E q \in Requests \ {r} :
    /\ req[r].pc = "bump" /\ lock = q
    /\ req[q].pc = "wait" /\ req[q].rows \cap req[r].rows # {}

\* Statements run, and PostgreSQL aborts a transaction of a deadlock. The user
\* row may change hands while others wait for it, hence the strong fairness.
Fairness ==
  \A r \in Requests :
    /\ SF_vars(Proceed(r))
    /\ WF_vars(Deadlocked(r) /\ Abandon(r))

Spec == Init /\ [][Next]_vars /\ Fairness
-----------------------------------------------------------------------------
(* Properties *)

TypeOK ==
  /\ user \in [password : Nat, legacy : BOOLEAN, role : Roles,
               active : BOOLEAN, epoch : Nat]
  /\ session \in [SessionIds -> [status : {"none", "live", "revoked"},
                                 epoch : Nat \cup {NoToken}, seen : Nat]]
  /\ req \in [Requests ->
       [pc : {"idle", "insert", "issue", "lock", "rows", "wait", "bump", "commit"},
        kind : Changes \cup {"none", "login"},
        session : SessionIds \cup {NoSession}, rows : SUBSET SessionIds,
        role : Roles \cup {NoSession}, read : Roles \cup {NoSession},
        revokes : BOOLEAN, began : Nat]]
  /\ lock \in Requests \cup {NoRequest}
  /\ rehash \subseteq Nat
  /\ changes \in Nat
  /\ overtaken \in BOOLEAN

\* "The epoch bump invalidates every outstanding token for the user, even one
\* whose session row was somehow missed": no token that was issued before a
\* committed change of password, role, mandate or activity works after it, and
\* none of them works again when the user is reactivated, whatever the change
\* took itself to be when it decided whether to revoke. Excepted is a role that
\* an SSO sign-in writes over one it had not read, until the next change.
ChangeEndsTokens ==
  ~overtaken => \A s \in SessionIds : Alive(s) => session[s].seen = changes

\* "The device that just changed its password stays logged in": a session that
\* a transaction creates survives the mass revocation of that transaction,
\* whatever other sessions and revocations were doing meanwhile.
KeepsThisDevice ==
  [][\A s \in SessionIds :
       session[s] = Blank /\ session'[s].epoch # NoToken /\ user'.active
         => Alive(s)']_vars

\* Every request ends, though mandates and the other changes take their locks
\* in opposite orders.
Settles == \A r \in Requests : req[r] # Idle ~> req[r] = Idle

\* ---- what a comment says and the code does not keep ----

\* "An authority change forces re-login everywhere": a change of role ends the
\* tokens issued before it, also when an SSO sign-in makes it.
AuthorityChangeEndsTokens ==
  \A s \in SessionIds : Alive(s) => session[s].seen = changes

\* The request gives out the token of session s in this step.
SignsIn(r, s) ==
  /\ req[r].session = s /\ req'[r] = Idle
  /\ session[s].epoch = NoToken /\ session'[s].epoch # NoToken

\* "Every OTHER session ... is killed immediately": no sign-in that was checked
\* before a change gives out a token that works after it.
SignInsAreCurrent ==
  [][\A r \in Requests, s \in SessionIds :
       SignsIn(r, s) /\ Alive(s)' => req[r].began = changes]_vars

\* "We refuse to mint a session for an inactive user", said of SSO sign-ins.
NoneForInactive ==
  [][\A r \in Requests, s \in SessionIds :
       SignsIn(r, s) /\ req[r].kind = "sso" => user.active]_vars

\* "All in one transaction so the password and the revocation can never
\* diverge": the password never changes without a new epoch.
PasswordRevokes ==
  [][user'.password # user.password => user'.epoch > user.epoch]_vars
=============================================================================
