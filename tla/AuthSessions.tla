---------------------------- MODULE AuthSessions ----------------------------
(***************************************************************************)
(* Accounts, refresh-token sessions and the requests that race on them:    *)
(* AuthService (register, login, refresh, logout), UserService.create, the *)
(* seedAdmin script, and the user and session repositories below them.     *)
(*                                                                         *)
(* A call is one HTTP request being handled, or one run of seedAdmin.  The *)
(* handlers are asynchronous: every await of a repository or of scrypt     *)
(* ends an action, and any other call may run before the next one.         *)
(* Persistent selects the adapter: TRUE is PostgreSQL through Prisma       *)
(* (unique e-mails, operations that can fail, data that survives a         *)
(* restart, several replicas), FALSE the in-memory repositories.           *)
(*                                                                         *)
(* Users and tokens are numbered in the order they are created, so that    *)
(* "the first user with this e-mail" is the one with the least number.     *)
(***************************************************************************)
EXTENDS Integers, FiniteSets

CONSTANTS
  Calls,           \* concurrent activities
  UserIds,         \* numbers of the accounts that can be created (a bound)
  Tokens,          \* numbers of the token pairs that can be signed (a bound)
  Emails,          \* normalised e-mail addresses
  AdminEmail,      \* BOOTSTRAP_ADMIN_EMAIL, as seedAdmin uses it
  Passwords,
  None,            \* "no value": null in the code
  RefreshTtl,      \* REFRESH_TOKEN_TTL_SECONDS
  AccessTtl,       \* ACCESS_TOKEN_TTL_SECONDS
  TicksPerSecond,  \* Date.now() is finer than the seconds of a JWT
  MaxTime,         \* bound on the clock, in ticks
  Persistent       \* TRUE: Prisma repositories, FALSE: in-memory ones

ASSUME IdAssumption == UserIds \subseteq Nat /\ Tokens \subseteq Nat
ASSUME NoneAssumption == None \notin Nat \cup Emails \cup Passwords
ASSUME EmailAssumption == AdminEmail \in Emails
ASSUME TimeAssumption ==
  /\ RefreshTtl \in Nat \ {0} /\ AccessTtl \in Nat \ {0}
  /\ TicksPerSecond \in Nat \ {0} /\ MaxTime \in Nat
ASSUME PersistentAssumption == Persistent \in BOOLEAN

VARIABLES
  users,     \* the user table
  sessions,  \* the refresh-session table, keyed by (the hash of) the token
  claims,    \* what each signed token pair carries, and whether a client has it
  clock,     \* Date.now(), in ticks
  call,      \* the local state of each activity
  uses,      \* history: how often each refresh token was consumed
  seen       \* history: accounts that were ACTIVE at some time of the call

vars == <<users, sessions, claims, clock, call, uses, seen>>

Roles == {"USER", "ADMIN"}
UserStates == {"none", "ACTIVE", "DISABLED", "gone"}
SessionStates == {"none", "live", "revoked", "gone"}
TokenStates == {"unused", "signed", "delivered"}
(* What a call is waiting for: hash and compare are scrypt; create, seed,  *)
(* consume, load and store are repository operations; issue is signing.    *)
Steps == {"idle", "hash", "create", "compare", "consume", "load", "issue",
          "store", "seed"}

IdleCall == [pc |-> "idle", email |-> None, password |-> None, user |-> None,
             accepted |-> FALSE, roles |-> {}, parent |-> None,
             token |-> None, at |-> 0]

NoUser == [state |-> "none", email |-> None, password |-> None, roles |-> {}]
NoSession == [state |-> "none", user |-> None, expiresAt |-> 0]
NoClaims == [state |-> "unused", user |-> None, roles |-> {}, iat |-> 0,
             root |-> None]

Init ==
  /\ users = [u \in UserIds |-> NoUser]
  /\ sessions = [t \in Tokens |-> NoSession]
  /\ claims = [t \in Tokens |-> NoClaims]
  /\ clock = 0
  /\ call = [c \in Calls |-> IdleCall]
  /\ uses = [t \in Tokens |-> 0]
  /\ seen = [c \in Calls |-> {}]

-----------------------------------------------------------------------------
(* The user repositories.                                                  *)

Exists(u) == users[u].state \in {"ACTIVE", "DISABLED"}
WithEmail(e) == {u \in UserIds : Exists(u) /\ users[u].email = e}
EmailTaken(e) == WithEmail(e) # {}
(* The in-memory find returns the first user inserted; with unique e-mails *)
(* there is no other.                                                      *)
FirstWithEmail(e, u) == u \in WithEmail(e) /\ \A v \in WithEmail(e) : u <= v

NextUser(u) ==
  /\ users[u].state = "none"
  /\ \A v \in UserIds : users[v].state = "none" => u <= v

(* users.create refuses a second account with the e-mail only where the    *)
(* database has a unique index on it.                                      *)
AcceptsDuplicate(e) == FALSE \* fault: the unique index is missing
InsertConflicts(e) == Persistent /\ EmailTaken(e)

NewUser(e, p, rs) ==
  [state |-> "ACTIVE", email |-> e, password |-> p, roles |-> rs]

StatusUnchecked(u, p) == \* fault: login forgets the account status
  users[u].password # None /\ users[u].password = p
(* Credentials as login judges them, all of it on the row it has read.     *)
CredentialsAccepted(u, p) ==
  /\ users[u].password # None
  /\ users[u].password = p
  /\ users[u].state = "ACTIVE"

-----------------------------------------------------------------------------
(* JWTs: whole seconds, and the refresh-session repositories: ticks.       *)

Seconds(time) == time \div TicksPerSecond

RefreshJwtValid(t, time) == Seconds(time) < claims[t].iat + RefreshTtl
AccessJwtValid(t, time) == Seconds(time) < claims[t].iat + AccessTtl

SecondsTakenForTicks(time) == time + RefreshTtl \* fault: ttl not scaled
SessionExpiry(time) == time + RefreshTtl * TicksPerSecond

RevokedAccepted(t, now) == \* fault: consume forgets revokedAt = null
  sessions[t].state \in {"live", "revoked"} /\ sessions[t].expiresAt > now
Consumable(t, now) ==
  /\ sessions[t].state = "live"
  /\ sessions[t].expiresAt > now

RevokesNothing(S) == sessions' = sessions \* fault: the update has no data
Revoke(S) ==
  sessions' = [t \in Tokens |->
    IF t \in S /\ sessions[t].state = "live"
      THEN [sessions[t] EXCEPT !.state = "revoked"]
      ELSE sessions[t]]

SameSecondSameToken(t) == \* fault: no jwtid and no session id in the token
  claims[t].state = "unused" \/ claims[t].iat = Seconds(clock)
NextToken(t) ==
  /\ claims[t].state = "unused"
  /\ \A s \in Tokens : claims[s].state = "unused" => t <= s

Delivered(t) == claims[t].state = "delivered"

-----------------------------------------------------------------------------
(* Beginning and ending a call.                                            *)

Idle(c) == call[c].pc = "idle"
Waiting(step) == {c \in Calls : call[c].pc = step}

Become(c, local) == call' = [call EXCEPT ![c] = local]
(* The handler has answered, with a result or an error.                    *)
Finish(c) == Become(c, IdleCall)

(* The arguments of a repository call are computed before the database     *)
(* runs it; the in-memory repositories run in the same turn.               *)
ArgumentTimes(c) == IF Persistent THEN call[c].at .. clock ELSE {clock}

(* A database may apply an operation and lose the answer: the handler sees *)
(* an error (500) although the effect is there.                            *)
Replies == IF Persistent THEN {"ok", "lost"} ELSE {"ok"}

(* History: seen[c] gathers the accounts that were ACTIVE at some moment   *)
(* between the first and the last step of the call.                        *)
Observe ==
  seen' = [c \in Calls |->
    IF call'[c].pc = "idle" THEN {}
    ELSE seen[c] \cup {u \in UserIds : users'[u].state = "ACTIVE"}]

(* Bounds of the model: a call starts only if what it may create is left.  *)
TokensLeft ==
  Cardinality({c \in Calls : call[c].pc \in
                 {"hash", "compare", "consume", "load", "issue"}})
    < Cardinality({t \in Tokens : claims[t].state = "unused"})
UsersLeft ==
  Cardinality({c \in Calls : call[c].pc \in {"hash", "create", "seed"}})
    < Cardinality({u \in UserIds : users[u].state = "none"})

-----------------------------------------------------------------------------
(* AuthService.register: find, hash, create, issue.                        *)

(* A taken e-mail is answered 409 at once and changes nothing.             *)
RegisterFind(c, e, p) ==
  /\ Idle(c) /\ TokensLeft /\ UsersLeft
  /\ ~EmailTaken(e)
  /\ Become(c, [IdleCall EXCEPT !.pc = "hash", !.email = e, !.password = p])
  /\ UNCHANGED <<users, sessions, claims, clock, uses>>
  /\ Observe

RegisterCreate(c) ==
  /\ call[c].pc = "hash"
  /\ ~InsertConflicts(call[c].email)
  /\ \E u \in UserIds, reply \in Replies :
       /\ NextUser(u)
       /\ users' = [users EXCEPT
            ![u] = NewUser(call[c].email, call[c].password, {"USER"})]
       /\ IF reply = "ok"
            THEN Become(c, [IdleCall EXCEPT !.pc = "issue", !.user = u,
                                            !.roles = {"USER"}])
            ELSE Finish(c)
  /\ UNCHANGED <<sessions, claims, clock, uses>>
  /\ Observe

(* UserService.create, behind authenticate and authorizeRoles('ADMIN'):    *)
(* the roles are those of the presented access token.                      *)
UserCreateFind(c, t, e) ==
  /\ Idle(c) /\ UsersLeft
  /\ Delivered(t) /\ AccessJwtValid(t, clock) /\ "ADMIN" \in claims[t].roles
  /\ ~EmailTaken(e)
  /\ Become(c, [IdleCall EXCEPT !.pc = "create", !.email = e])
  /\ UNCHANGED <<users, sessions, claims, clock, uses>>
  /\ Observe

UserCreate(c) ==
  /\ call[c].pc = "create"
  /\ ~InsertConflicts(call[c].email)
  /\ \E u \in UserIds :
       /\ NextUser(u)
       /\ users' = [users EXCEPT ![u] = NewUser(call[c].email, None, {})]
  /\ Finish(c)
  /\ UNCHANGED <<sessions, claims, clock, uses>>
  /\ Observe

(* The unique index refuses the row (P2002): 409 for a request, exit code  *)
(* 1 for seedAdmin.                                                        *)
CreateConflict(c) ==
  /\ call[c].pc \in {"hash", "create", "seed"}
  /\ call[c].user = None
  /\ InsertConflicts(call[c].email)
  /\ Finish(c)
  /\ UNCHANGED <<users, sessions, claims, clock, uses>>
  /\ Observe

-----------------------------------------------------------------------------
(* AuthService.login: read the credentials, compare, issue.                *)

(* No such account, or one without a password: 401 with no change.         *)
LoginFind(c, e, p) ==
  /\ Idle(c) /\ TokensLeft
  /\ \E u \in UserIds :
       /\ FirstWithEmail(e, u)
       /\ users[u].password # None
       /\ Become(c, [IdleCall EXCEPT !.pc = "compare", !.user = u,
                                     !.roles = users[u].roles,
                                     !.accepted = CredentialsAccepted(u, p)])
  /\ UNCHANGED <<users, sessions, claims, clock, uses>>
  /\ Observe

UnansweredCompare(c) == \* fault: wrong credentials are not answered
  /\ call[c].pc = "compare" /\ call[c].accepted
  /\ Become(c, [call[c] EXCEPT !.pc = "issue", !.accepted = FALSE])
  /\ UNCHANGED <<users, sessions, claims, clock, uses>>
  /\ Observe
LoginCompare(c) ==
  /\ call[c].pc = "compare"
  /\ IF call[c].accepted
       THEN Become(c, [call[c] EXCEPT !.pc = "issue", !.accepted = FALSE])
       ELSE Finish(c)
  /\ UNCHANGED <<users, sessions, claims, clock, uses>>
  /\ Observe

-----------------------------------------------------------------------------
(* AuthService.refresh: verify the JWT, consume the session, read the      *)
(* account, issue.                                                         *)

(* A token the JWT library refuses is answered 401 with no change.         *)
RefreshVerify(c, t) ==
  /\ Idle(c) /\ TokensLeft
  /\ Delivered(t) /\ RefreshJwtValid(t, clock)
  /\ Become(c, [IdleCall EXCEPT !.pc = "consume", !.parent = t, !.at = clock])
  /\ UNCHANGED <<users, sessions, claims, clock, uses>>
  /\ Observe

RefreshConsume(c) ==
  /\ call[c].pc = "consume"
  /\ LET t == call[c].parent IN
     \E now \in ArgumentTimes(c), reply \in Replies :
       \/ /\ Consumable(t, now)
          /\ Revoke({t})
          /\ uses' = [uses EXCEPT ![t] = @ + 1]
          /\ IF reply = "ok"
               THEN Become(c, [IdleCall EXCEPT !.pc = "load", !.parent = t])
               ELSE Finish(c)
       \/ /\ ~Consumable(t, now)
          /\ Finish(c)
          /\ UNCHANGED <<sessions, uses>>
  /\ UNCHANGED <<users, claims, clock>>
  /\ Observe

UnansweredLoad(c) == \* fault: an unavailable account is not answered
  /\ call[c].pc = "load"
  /\ LET u == claims[call[c].parent].user IN
       /\ users[u].state = "ACTIVE"
       /\ Become(c, [call[c] EXCEPT !.pc = "issue", !.user = u,
                                    !.roles = users[u].roles])
  /\ UNCHANGED <<users, sessions, claims, clock, uses>>
  /\ Observe
RefreshLoad(c) ==
  /\ call[c].pc = "load"
  /\ LET u == claims[call[c].parent].user IN
     IF users[u].state = "ACTIVE"
       THEN Become(c, [call[c] EXCEPT !.pc = "issue", !.user = u,
                                      !.roles = users[u].roles])
       ELSE Finish(c)
  /\ UNCHANGED <<users, sessions, claims, clock, uses>>
  /\ Observe

(* AuthService.issueTokens: sign both tokens, then store the session.      *)
Root(c, t) == IF call[c].parent = None THEN t ELSE claims[call[c].parent].root
SentBeforeStored(c, t) == \* fault: the session is stored in the background
  [state |-> "delivered", user |-> call[c].user, roles |-> call[c].roles,
   iat |-> Seconds(clock), root |-> Root(c, t)]
Signed(c, t) ==
  [state |-> "signed", user |-> call[c].user, roles |-> call[c].roles,
   iat |-> Seconds(clock), root |-> Root(c, t)]

IssueSign(c) ==
  /\ call[c].pc = "issue"
  /\ \E t \in Tokens :
       /\ NextToken(t)
       /\ claims' = [claims EXCEPT ![t] = Signed(c, t)]
       /\ Become(c, [call[c] EXCEPT !.pc = "store", !.token = t, !.at = clock])
  /\ UNCHANGED <<users, sessions, clock, uses>>
  /\ Observe

IssueStore(c) ==
  /\ call[c].pc = "store"
  /\ LET t == call[c].token IN
     \E now \in ArgumentTimes(c), reply \in Replies :
       /\ sessions' = [sessions EXCEPT ![t] =
            [state |-> "live", user |-> call[c].user,
             expiresAt |-> SessionExpiry(now)]]
       /\ claims' = IF reply = "ok"
                      THEN [claims EXCEPT ![t].state = "delivered"]
                      ELSE claims
  /\ Finish(c)
  /\ UNCHANGED <<users, clock, uses>>
  /\ Observe

(* AuthService.logout: no verification, an unknown token changes nothing.  *)
Logout(t) ==
  /\ Delivered(t)
  /\ Revoke({t})
  /\ UNCHANGED <<users, claims, clock, call, uses>>
  /\ Observe

-----------------------------------------------------------------------------
(* Repository operations without a caller in the service layer yet.        *)

RevokeAllForUser(u) ==
  /\ Revoke({t \in Tokens : sessions[t].user = u})
  /\ UNCHANGED <<users, claims, clock, call, uses>>
  /\ Observe

DeleteExpired(before) ==
  /\ sessions' = [t \in Tokens |->
       IF sessions[t].state # "none" /\ sessions[t].expiresAt < before
         THEN [sessions[t] EXCEPT !.state = "gone"]
         ELSE sessions[t]]
  /\ UNCHANGED <<users, claims, clock, call, uses>>
  /\ Observe

-----------------------------------------------------------------------------
(* The seedAdmin script: a find and a write that no transaction joins.     *)

OnlyAdmin(rs) == {"ADMIN"} \* fault: the roles are replaced
SeedRoles(rs) == rs \cup {"ADMIN"}

SeedFind(c, p) ==
  /\ Persistent
  /\ Idle(c) /\ UsersLeft
  /\ Become(c, [IdleCall EXCEPT
       !.pc = "seed", !.email = AdminEmail, !.password = p,
       !.user = IF EmailTaken(AdminEmail)
                  THEN CHOOSE u \in WithEmail(AdminEmail) : TRUE ELSE None,
       !.roles = IF EmailTaken(AdminEmail)
                   THEN SeedRoles(users[CHOOSE u \in WithEmail(AdminEmail) :
                                          TRUE].roles)
                   ELSE SeedRoles({})])
  /\ UNCHANGED <<users, sessions, claims, clock, uses>>
  /\ Observe

SeedUpdate(c) ==
  /\ call[c].pc = "seed" /\ call[c].user # None
  /\ users' = [users EXCEPT ![call[c].user] =
       [@ EXCEPT !.state = "ACTIVE", !.password = call[c].password,
                 !.roles = call[c].roles]]
  /\ Finish(c)
  /\ UNCHANGED <<sessions, claims, clock, uses>>
  /\ Observe

SeedCreate(c) ==
  /\ call[c].pc = "seed" /\ call[c].user = None
  /\ ~InsertConflicts(call[c].email)
  /\ \E u \in UserIds :
       /\ NextUser(u)
       /\ users' = [users EXCEPT ![u] =
            NewUser(call[c].email, call[c].password, call[c].roles)]
  /\ Finish(c)
  /\ UNCHANGED <<sessions, claims, clock, uses>>
  /\ Observe

-----------------------------------------------------------------------------
(* The environment.                                                        *)

(* An operator disables or re-enables an account in the database.          *)
SetStatus(u, status) ==
  /\ Persistent
  /\ Exists(u)
  /\ users' = [users EXCEPT ![u].state = status]
  /\ UNCHANGED <<sessions, claims, clock, call, uses>>
  /\ Observe

(* A repository operation fails without taking effect: 500.                *)
DatabaseFailure(c) ==
  /\ Persistent
  /\ call[c].pc \in {"hash", "create", "consume", "load", "store", "seed"}
  /\ Finish(c)
  /\ UNCHANGED <<users, sessions, claims, clock, uses>>
  /\ Observe

(* Processes die with the calls they are handling.  The in-memory          *)
(* repositories live in the one process there is, and die with it.         *)
Crash(S) ==
  /\ call' = [c \in Calls |-> IF c \in S THEN IdleCall ELSE call[c]]
  /\ IF Persistent
       THEN UNCHANGED <<users, sessions>>
       ELSE /\ S = Calls
            /\ users' = [u \in UserIds |->
                 IF Exists(u) THEN [users[u] EXCEPT !.state = "gone"]
                 ELSE users[u]]
            /\ sessions' = [t \in Tokens |->
                 IF sessions[t].state \in {"live", "revoked"}
                   THEN [sessions[t] EXCEPT !.state = "gone"]
                   ELSE sessions[t]]
  /\ UNCHANGED <<claims, clock, uses>>
  /\ Observe

Tick ==
  /\ clock < MaxTime
  /\ clock' = clock + 1
  /\ UNCHANGED <<users, sessions, claims, call, uses>>
  /\ Observe

-----------------------------------------------------------------------------
Start(c) ==
  \/ \E e \in Emails, p \in Passwords : RegisterFind(c, e, p)
  \/ \E e \in Emails, p \in Passwords : LoginFind(c, e, p)
  \/ \E t \in Tokens : RefreshVerify(c, t)
  \/ \E t \in Tokens, e \in Emails : UserCreateFind(c, t, e)
  \/ \E p \in Passwords : SeedFind(c, p)

Continue(c) ==
  \/ RegisterCreate(c)
  \/ UserCreate(c)
  \/ CreateConflict(c)
  \/ LoginCompare(c)
  \/ RefreshConsume(c)
  \/ RefreshLoad(c)
  \/ IssueSign(c)
  \/ IssueStore(c)
  \/ SeedUpdate(c)
  \/ SeedCreate(c)

Environment ==
  \/ \E u \in UserIds, status \in {"ACTIVE", "DISABLED"} : SetStatus(u, status)
  \/ \E c \in Calls : DatabaseFailure(c)
  \/ \E S \in SUBSET Calls : Crash(S)
  \/ Tick

Next ==
  \/ \E c \in Calls : Start(c)
  \/ \E c \in Calls : Continue(c)
  \/ \E t \in Tokens : Logout(t)
  \/ \E u \in UserIds : RevokeAllForUser(u)
  \/ \E before \in 0 .. clock : DeleteExpired(before)
  \/ Environment

Spec == Init /\ [][Next]_vars

(* The event loop runs every ready continuation, and scrypt and the        *)
(* database answer or fail: a call that has begun goes on.                 *)
FairSpec == Spec /\ \A c \in Calls : WF_vars(Continue(c))

-----------------------------------------------------------------------------
(* The type invariant.                                                     *)

UserType == [state : UserStates, email : Emails \cup {None},
             password : Passwords \cup {None}, roles : SUBSET Roles]
SessionType == [state : SessionStates, user : UserIds \cup {None},
                expiresAt : Nat]
ClaimsType == [state : TokenStates, user : UserIds \cup {None},
               roles : SUBSET Roles, iat : Nat, root : Tokens \cup {None}]
CallType == [pc : Steps, email : Emails \cup {None},
             password : Passwords \cup {None}, user : UserIds \cup {None},
             accepted : BOOLEAN, roles : SUBSET Roles,
             parent : Tokens \cup {None}, token : Tokens \cup {None}, at : Nat]

(* Every variable holds a value of its type.                               *)
TypeOK ==
  /\ users \in [UserIds -> UserType]
  /\ sessions \in [Tokens -> SessionType]
  /\ claims \in [Tokens -> ClaimsType]
  /\ clock \in Nat
  /\ call \in [Calls -> CallType]
  /\ uses \in [Tokens -> Nat]
  /\ seen \in [Calls -> SUBSET UserIds]

-----------------------------------------------------------------------------
(* Safety.                                                                 *)

Live(t) == sessions[t].state = "live"
Ended(t) == sessions[t].state \in {"revoked", "gone"}
(* A refresh between the consumption of its token and its answer.          *)
Refreshing(c) == call[c].parent # None /\ call[c].pc \in {"load", "issue", "store"}
Family(c) == claims[call[c].parent].root

(* However many requests present the same refresh token, from however many *)
(* clients and replicas, at most one of them is granted (consume).         *)
SingleUse == \A t \in Tokens : uses[t] <= 1

(* Rotation never forks: the sessions and the unfinished refreshes that    *)
(* descend from one login never hold more than one place between them, so  *)
(* a login is worth one live refresh token at any time.                    *)
OneSessionPerLogin ==
  /\ \A s, t \in Tokens :
       Live(s) /\ Live(t) /\ claims[s].root = claims[t].root => s = t
  /\ \A t \in Tokens, c \in Calls :
       Live(t) /\ Refreshing(c) => claims[t].root # Family(c)
  /\ \A c, d \in Calls :
       Refreshing(c) /\ Refreshing(d) /\ Family(c) = Family(d) => c = d

(* A refresh token that a client was given is known to the repository: the *)
(* answer of issueTokens is sent only after the session is stored.         *)
DeliveredIsStored ==
  \A t \in Tokens : Delivered(t) => sessions[t].state # "none"

(* The stored expiry is computed after the JWT is signed and is not cut to *)
(* whole seconds, so a live session is never refused as expired, nor       *)
(* deleted as expired, while its JWT still verifies.                       *)
SessionOutlivesJwt ==
  \A t \in Tokens :
    /\ Live(t) /\ RefreshJwtValid(t, clock)
    => sessions[t].expiresAt > clock

(* Tokens are issued only to an account that was ACTIVE at some moment of  *)
(* the request, in spite of the awaits between the check and the answer.   *)
IssuedToActive ==
  \A c \in Calls : call[c].pc \in {"issue", "store"} => call[c].user \in seen[c]

(* With the unique index, no interleaving of register, user creation and   *)
(* seedAdmin leaves two accounts with one e-mail.                          *)
EmailUnique ==
  \A u, v \in UserIds :
    Exists(u) /\ Exists(v) /\ users[u].email = users[v].email => u = v

(* No token claims a role that its account does not have: roles are copied *)
(* from the account, and seedAdmin only adds to them.                      *)
TokenRolesHeld ==
  \A t \in Tokens :
    Delivered(t) => claims[t].roles \subseteq users[claims[t].user].roles

-----------------------------------------------------------------------------
(* The inductive strengthening of the session invariants.                  *)

(* What a call holds at each step of its handler.                          *)
CallShape(c) ==
  /\ call[c].pc \in {"compare", "issue", "store"} => call[c].user \in UserIds
  /\ call[c].pc = "compare" => call[c].parent = None
  /\ call[c].pc \in {"consume", "load"} => call[c].parent # None
  /\ call[c].parent # None => Delivered(call[c].parent)
  /\ call[c].pc = "store" =>
       /\ call[c].token \in Tokens
       /\ claims[call[c].token].state = "signed"
       /\ sessions[call[c].token].state = "none"
       /\ claims[call[c].token].root = Root(c, call[c].token)

(* What is known of a token at each stage of its life.                     *)
TokenShape(t) ==
  /\ claims[t].state = "unused" =>
       sessions[t].state = "none" /\ claims[t].root = None
  /\ claims[t].state # "unused" =>
       /\ claims[t].user \in UserIds
       /\ claims[t].root \in Tokens
       /\ claims[claims[t].root].state # "unused"
  /\ Ended(t) \/ uses[t] = 0

(* A login that has not stored its session yet is alone in its family.     *)
FreshFamily ==
  \A c \in Calls, t \in Tokens :
    call[c].pc = "store" /\ call[c].parent = None
      /\ claims[t].root = call[c].token => t = call[c].token

SessionInv ==
  /\ TypeOK
  /\ \A c \in Calls : CallShape(c)
  /\ \A t \in Tokens : TokenShape(t)
  /\ \A c, d \in Calls :
       call[c].pc = "store" /\ call[d].pc = "store"
         /\ call[c].token = call[d].token => c = d
  /\ FreshFamily
  /\ SingleUse
  /\ OneSessionPerLogin
  /\ DeliveredIsStored

-----------------------------------------------------------------------------
(* The inductive strengthening of the account and expiry invariants.       *)

Known(u) == users[u].state # "none"

(* What a call knows of accounts and of time at each step.  seedAdmin goes *)
(* on to write the roles it has read, with ADMIN; nobody else changes any. *)
CallKnows(c) ==
  /\ call[c].pc \in {"compare", "issue", "store"} =>
       Known(call[c].user) /\ call[c].roles \subseteq users[call[c].user].roles
  /\ \/ call[c].pc = "compare" /\ call[c].accepted
     \/ call[c].pc \in {"issue", "store"}
     => call[c].user \in seen[c]
  /\ call[c].pc = "seed" =>
       /\ Persistent
       /\ call[c].user # None =>
            /\ Exists(call[c].user)
            /\ call[c].roles = SeedRoles(users[call[c].user].roles)
  /\ call[c].pc = "store" =>
       claims[call[c].token].iat = Seconds(call[c].at) /\ call[c].at <= clock

(* Tokens are of accounts that exist, and are stored until they expire.    *)
TokenKnows(t) ==
  /\ claims[t].state # "unused" =>
       /\ Known(claims[t].user)
       /\ claims[t].roles \subseteq users[claims[t].user].roles
  /\ sessions[t].state # "none" =>
       (claims[t].iat + RefreshTtl) * TicksPerSecond <= sessions[t].expiresAt

AccountInv ==
  /\ \A c \in Calls : CallKnows(c)
  /\ \A t \in Tokens : TokenKnows(t)
  /\ Persistent => EmailUnique

-----------------------------------------------------------------------------
(* Action properties.                                                      *)

(* Consumption, logout, revocation and deletion are final: an ended        *)
(* session is never live again, and a refresh never takes it.              *)
StaysEnded == \A t \in Tokens : Ended(t) => Ended(t)' /\ uses'[t] = uses[t]
EndedForGood == [][StaysEnded]_vars

-----------------------------------------------------------------------------
(* Rotation as an implementation of the abstract promise.                  *)

LiveIn(f) == {t \in Tokens : Live(t) /\ claims[t].root = f}
RefreshingIn(f) == {c \in Calls : Refreshing(c) /\ Family(c) = f}

Opened(f) == claims[f].root = f /\ sessions[f].state # "none"

(* Whoever descends from a login has a login whose session was stored.     *)
FamilyInv ==
  \A t \in Tokens :
    claims[t].state # "unused" /\ claims[t].root # t => Opened(claims[t].root)

FamilyPhase == [f \in Tokens |->
  CASE LiveIn(f) # {}                                  -> "live"
    [] LiveIn(f) = {} /\ RefreshingIn(f) # {}          -> "rotating"
    [] LiveIn(f) \cup RefreshingIn(f) = {} /\ Opened(f)  -> "closed"
    [] OTHER                                           -> "new"]
FamilyToken == [f \in Tokens |->
  IF LiveIn(f) = {} THEN None ELSE CHOOSE t \in LiveIn(f) : TRUE]
SpentTokens == {t \in Tokens : Ended(t)}

Rotation == INSTANCE RotatingTokens WITH
  phase <- FamilyPhase, current <- FamilyToken, spent <- SpentTokens

(* Logins, refreshes, logouts and clean-ups together do what the abstract  *)
(* rotation does, and nothing else.                                        *)
ImplementsRotation == Rotation!Spec

(* A logout, or the revocation of a user's sessions, that finds the token  *)
(* a login is at ends that login for good, whatever refreshes are under    *)
(* way.  (One that finds a token a refresh has consumed ends nothing.)     *)
EndsLogin(f) ==
  \E t \in LiveIn(f) : Logout(t) \/ RevokeAllForUser(sessions[t].user)
LogoutIsFinal ==
  [][\A f \in Tokens :
       FamilyPhase[f] = "closed" \/ EndsLogin(f) => FamilyPhase'[f] = "closed"]_vars

-----------------------------------------------------------------------------
(* Liveness, under FairSpec.                                               *)

(* Every request that has begun is answered.                               *)
EveryCallEnds == \A c \in Calls : ~Idle(c) ~> Idle(c)

(* A family whose token was consumed does not stay in between: it has a    *)
(* new live session or it is closed.                                       *)
RotationSettles ==
  \A f \in Tokens : FamilyPhase[f] = "rotating" ~> FamilyPhase[f] # "rotating"

=============================================================================
