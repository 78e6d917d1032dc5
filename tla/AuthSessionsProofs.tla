------------------------- MODULE AuthSessionsProofs -------------------------
(***************************************************************************)
(* Proofs about AuthSessions, for any number of calls, accounts and tokens *)
(* and for both persistence adapters.  SessionInv is inductive; the safety *)
(* of rotation follows from it.  AccountInv is inductive with it: what     *)
(* calls and tokens know of accounts and of time; e-mails stay unique      *)
(* (where the database persists), tokens go to accounts seen ACTIVE and    *)
(* claim roles held, and sessions outlive their JWT.                       *)
(***************************************************************************)
EXTENDS AuthSessions, TLAPS

USE IdAssumption, NoneAssumption, EmailAssumption, TimeAssumption,
    PersistentAssumption

(* The record types a step writes.                                         *)
LEMMA IdleCallType == IdleCall \in CallType
BY DEF IdleCall, CallType, Steps

(* Whole seconds of a time of the clock are a natural number.              *)
LEMMA SecondsNat == \A time \in Nat : Seconds(time) \in Nat
BY SMT DEF Seconds

(* The expiry stored for a time of the clock is a time.                    *)
LEMMA ExpiryNat == \A time \in Nat : SessionExpiry(time) \in Nat
BY SMT DEF SessionExpiry

(* The clock readings a pending repository call may carry are times.       *)
LEMMA ArgumentTimesNat ==
  ASSUME TypeOK, NEW c \in Calls
  PROVE  ArgumentTimes(c) \subseteq Nat
<1>1. call[c].at \in Nat /\ clock \in Nat
  BY DEF TypeOK, CallType
<1>. QED  BY <1>1 DEF ArgumentTimes

(* Observing the accounts that are ACTIVE keeps the history well typed.    *)
LEMMA ObserveType ==
  ASSUME TypeOK, Observe
  PROVE  seen' \in [Calls -> SUBSET UserIds]
BY DEF TypeOK, Observe

(* Revoking a set of sessions touches nothing but the state of live ones.  *)
LEMMA RevokeEffect ==
  ASSUME TypeOK, NEW S, Revoke(S)
  PROVE  /\ sessions' \in [Tokens -> SessionType]
         /\ \A t \in Tokens :
              /\ sessions'[t].state \in {sessions[t].state, "revoked"}
              /\ sessions'[t].state # sessions[t].state =>
                   t \in S /\ sessions[t].state = "live"
              /\ t \in S => sessions'[t].state # "live"
<1>1. \A t \in Tokens : sessions[t] \in SessionType
  BY DEF TypeOK
<1>2. \A t \in Tokens :
        sessions'[t] = IF t \in S /\ sessions[t].state = "live"
                         THEN [sessions[t] EXCEPT !.state = "revoked"]
                         ELSE sessions[t]
  BY DEF Revoke
<1>3. \A t \in Tokens : sessions'[t] \in SessionType
  BY <1>1, <1>2 DEF SessionType, SessionStates
<1>4. sessions' \in [Tokens -> SessionType]
  BY <1>3 DEF Revoke
<1>. QED  BY <1>1, <1>2, <1>4 DEF SessionType

(* A call that only moves on in its handler, away from storing a session,  *)
(* and holds a place in a family only if it did before, keeps the part of  *)
(* SessionInv that is not typing.                                          *)
LEMMA LocalStep ==
  ASSUME SessionInv, TypeOK',
         NEW c \in Calls, UNCHANGED <<sessions, claims, uses>>,
         \A d \in Calls \ {c} : call'[d] = call[d],
         CallShape(c)', call'[c].pc # "store",
         Refreshing(c)' => Refreshing(c) /\ call'[c].parent = call[c].parent
  PROVE  SessionInv'
<1>1. \A d \in Calls : CallShape(d)'
  BY DEF SessionInv, CallShape, Delivered, Root
<1>2. \A t \in Tokens : TokenShape(t)'
  BY DEF SessionInv, TokenShape, Ended
<1>3. OneSessionPerLogin'
  BY DEF SessionInv, OneSessionPerLogin, Live, Refreshing, Family
<1>4. FreshFamily'
  BY DEF SessionInv, FreshFamily
<1>. QED  BY <1>1, <1>2, <1>3, <1>4
            DEF SessionInv, SingleUse, DeliveredIsStored, Delivered

(* Sessions that end, while no call changes, keep SessionInv.              *)
LEMMA EndingStep ==
  ASSUME SessionInv, TypeOK', UNCHANGED <<claims, call, uses>>,
         \A t \in Tokens :
           \/ sessions'[t].state = sessions[t].state
           \/ sessions[t].state # "none" /\ Ended(t)'
  PROVE  SessionInv'
<1>1. \A d \in Calls : CallShape(d)'
  BY DEF SessionInv, CallShape, Delivered, Root, Ended
<1>2. \A t \in Tokens : TokenShape(t)'
  BY DEF SessionInv, TokenShape, Ended
<1>3. OneSessionPerLogin'
  BY DEF SessionInv, OneSessionPerLogin, Live, Refreshing, Family, Ended
<1>4. DeliveredIsStored'
  BY DEF SessionInv, DeliveredIsStored, Delivered, Ended
<1>. QED  BY <1>1, <1>2, <1>3, <1>4 DEF SessionInv, SingleUse, FreshFamily

-----------------------------------------------------------------------------
(* Typing, action by action.                                               *)

(* Steps that begin a call keep every variable in its type.                *)
LEMMA StartType ==
  ASSUME SessionInv, NEW c \in Calls, Start(c)
  PROVE  TypeOK'
<1>. USE DEF SessionInv
<1>1. ASSUME NEW e \in Emails, NEW p \in Passwords, RegisterFind(c, e, p)
      PROVE  TypeOK'
  <2>1. call' \in [Calls -> CallType]
    BY <1>1, IdleCallType DEF RegisterFind, Become, TypeOK, CallType, Steps
  <2>. QED  BY <1>1, <2>1, ObserveType DEF RegisterFind, TypeOK
<1>2. ASSUME NEW e \in Emails, NEW p \in Passwords, LoginFind(c, e, p)
      PROVE  TypeOK'
  <2>1. PICK u \in UserIds :
          Become(c, [IdleCall EXCEPT !.pc = "compare", !.user = u,
                                     !.roles = users[u].roles,
                                     !.accepted = CredentialsAccepted(u, p)])
    BY <1>2 DEF LoginFind
  <2>2. users[u].roles \in SUBSET Roles
    BY DEF TypeOK, UserType
  <2>3. CredentialsAccepted(u, p) \in BOOLEAN
    BY DEF CredentialsAccepted
  <2>4. call' \in [Calls -> CallType]
    BY <2>1, <2>2, <2>3, IdleCallType, ZenonT(40) DEF Become, TypeOK, CallType, Steps
  <2>. QED  BY <1>2, <2>4, ObserveType DEF LoginFind, TypeOK
<1>3. ASSUME NEW t \in Tokens, RefreshVerify(c, t)
      PROVE  TypeOK'
  <2>1. call' \in [Calls -> CallType]
    BY <1>3, IdleCallType DEF RefreshVerify, Become, TypeOK, CallType, Steps
  <2>. QED  BY <1>3, <2>1, ObserveType DEF RefreshVerify, TypeOK
<1>4. ASSUME NEW t \in Tokens, NEW e \in Emails, UserCreateFind(c, t, e)
      PROVE  TypeOK'
  <2>1. call' \in [Calls -> CallType]
    BY <1>4, IdleCallType DEF UserCreateFind, Become, TypeOK, CallType, Steps
  <2>. QED  BY <1>4, <2>1, ObserveType DEF UserCreateFind, TypeOK
<1>5. ASSUME NEW p \in Passwords, SeedFind(c, p)
      PROVE  TypeOK'
  <2>. DEFINE found == CHOOSE u \in WithEmail(AdminEmail) : TRUE
              who == IF EmailTaken(AdminEmail) THEN found ELSE None
              rs == IF EmailTaken(AdminEmail)
                      THEN SeedRoles(users[found].roles) ELSE SeedRoles({})
  <2>1. EmailTaken(AdminEmail) => found \in UserIds
    BY DEF EmailTaken, WithEmail
  <2>2. who \in UserIds \cup {None}
    BY <2>1
  <2>3. rs \in SUBSET Roles
    BY <2>1 DEF TypeOK, UserType, SeedRoles, Roles
  <2>4. Become(c, [IdleCall EXCEPT !.pc = "seed", !.email = AdminEmail,
                                   !.password = p, !.user = who, !.roles = rs])
    BY <1>5 DEF SeedFind
  <2>. HIDE DEF who, rs
  <2>5. call' \in [Calls -> CallType]
    BY <2>2, <2>3, <2>4, IdleCallType DEF Become, TypeOK, CallType, Steps
  <2>. QED  BY <1>5, <2>5, ObserveType DEF SeedFind, TypeOK
<1>. QED  BY <1>1, <1>2, <1>3, <1>4, <1>5 DEF Start

(* A user row as create writes it is well typed.                           *)
LEMMA NewUserType ==
  \A e \in Emails \cup {None}, p \in Passwords \cup {None}, rs \in SUBSET Roles :
    NewUser(e, p, rs) \in UserType
BY DEF NewUser, UserType, UserStates

(* Steps that go on with a call keep every variable in its type.           *)
LEMMA ContinueType ==
  ASSUME SessionInv, NEW c \in Calls, Continue(c)
  PROVE  TypeOK'
<1>. USE DEF SessionInv
<1>0. call[c] \in CallType
  BY DEF TypeOK
<1>a. Finish(c) => call' \in [Calls -> CallType]
  BY IdleCallType DEF Finish, Become, TypeOK
<1>1. ASSUME RegisterCreate(c) PROVE TypeOK'
  <2>1. PICK u \in UserIds, reply \in Replies :
          /\ users' = [users EXCEPT
               ![u] = NewUser(call[c].email, call[c].password, {"USER"})]
          /\ IF reply = "ok"
               THEN Become(c, [IdleCall EXCEPT !.pc = "issue", !.user = u,
                                               !.roles = {"USER"}])
               ELSE Finish(c)
    BY <1>1 DEF RegisterCreate
  <2>2. users' \in [UserIds -> UserType]
    BY <1>0, <2>1, NewUserType DEF TypeOK, CallType, Roles
  <2>. DEFINE next == [IdleCall EXCEPT !.pc = "issue", !.user = u,
                                      !.roles = {"USER"}]
  <2>a. next \in CallType
    BY IdleCallType DEF CallType, Steps, Roles
  <2>b. Become(c, next) \/ Finish(c)
    BY <2>1
  <2>. HIDE DEF next
  <2>3. call' \in [Calls -> CallType]
    BY <1>a, <2>a, <2>b DEF Become, TypeOK
  <2>. QED  BY <1>1, <2>2, <2>3, ObserveType DEF RegisterCreate, TypeOK
<1>2. ASSUME UserCreate(c) PROVE TypeOK'
  <2>1. users' \in [UserIds -> UserType]
    BY <1>0, <1>2, NewUserType DEF UserCreate, TypeOK, CallType
  <2>. QED  BY <1>a, <1>2, <2>1, ObserveType DEF UserCreate, TypeOK
<1>3. ASSUME CreateConflict(c) PROVE TypeOK'
  BY <1>a, <1>3, ObserveType DEF CreateConflict, TypeOK
<1>4. ASSUME LoginCompare(c) PROVE TypeOK'
  <2>. DEFINE next == [call[c] EXCEPT !.pc = "issue", !.accepted = FALSE]
  <2>a. next \in CallType
    BY <1>0 DEF CallType, Steps
  <2>b. Become(c, next) \/ Finish(c)
    BY <1>4 DEF LoginCompare
  <2>. HIDE DEF next
  <2>1. call' \in [Calls -> CallType]
    BY <1>a, <2>a, <2>b DEF Become, TypeOK
  <2>. QED  BY <1>4, <2>1, ObserveType DEF LoginCompare, TypeOK
<1>5. ASSUME RefreshConsume(c) PROVE TypeOK'
  <2>. DEFINE t == call[c].parent
  <2>1. t \in Tokens
    BY <1>0, <1>5 DEF RefreshConsume, CallShape, CallType
  <2>2. sessions' \in [Tokens -> SessionType]
    BY <1>5, RevokeEffect DEF RefreshConsume, TypeOK
  <2>3. uses' \in [Tokens -> Nat]
    BY <1>5, <2>1 DEF RefreshConsume, TypeOK
  <2>. DEFINE next == [IdleCall EXCEPT !.pc = "load", !.parent = t]
  <2>a. next \in CallType
    BY <2>1, IdleCallType DEF CallType, Steps
  <2>b. Become(c, next) \/ Finish(c)
    BY <1>5 DEF RefreshConsume
  <2>. HIDE DEF next
  <2>4. call' \in [Calls -> CallType]
    BY <1>a, <2>a, <2>b DEF Become, TypeOK
  <2>. QED  BY <1>5, <2>2, <2>3, <2>4, ObserveType DEF RefreshConsume, TypeOK
<1>6. ASSUME RefreshLoad(c) PROVE TypeOK'
  <2>. DEFINE u == claims[call[c].parent].user
  <2>1. call[c].parent \in Tokens /\ claims[call[c].parent].state # "unused"
    BY <1>0, <1>6 DEF RefreshLoad, CallShape, CallType, Delivered
  <2>2. u \in UserIds
    BY <2>1 DEF TokenShape
  <2>3. users[u].roles \in SUBSET Roles
    BY <2>2 DEF TypeOK, UserType
  <2>. DEFINE next == [call[c] EXCEPT !.pc = "issue", !.user = u,
                                      !.roles = users[u].roles]
  <2>b. Become(c, next) \/ Finish(c)
    BY <1>6 DEF RefreshLoad
  <2>. HIDE DEF u
  <2>a. next \in CallType
    BY <1>0, <2>2, <2>3 DEF CallType, Steps
  <2>. HIDE DEF next
  <2>4. call' \in [Calls -> CallType]
    BY <1>a, <2>a, <2>b DEF Become, TypeOK
  <2>. QED  BY <1>6, <2>4, ObserveType DEF RefreshLoad, TypeOK
<1>7. ASSUME IssueSign(c) PROVE TypeOK'
  <2>1. PICK t \in Tokens :
          /\ claims' = [claims EXCEPT ![t] = Signed(c, t)]
          /\ Become(c, [call[c] EXCEPT !.pc = "store", !.token = t, !.at = clock])
    BY <1>7 DEF IssueSign
  <2>2. Root(c, t) \in Tokens
    <3>1. call[c].parent # None =>
            call[c].parent \in Tokens /\ claims[call[c].parent].state # "unused"
      BY <1>0 DEF CallShape, CallType, Delivered
    <3>. QED  BY <3>1 DEF Root, TokenShape
  <2>3. Seconds(clock) \in Nat
    BY SecondsNat DEF TypeOK
  <2>4. Signed(c, t) \in ClaimsType
    BY <1>0, <2>2, <2>3 DEF Signed, ClaimsType, CallType, TokenStates
  <2>5. claims' \in [Tokens -> ClaimsType]
    BY <2>1, <2>4 DEF TypeOK
  <2>6. call' \in [Calls -> CallType]
    BY <1>0, <2>1 DEF Become, TypeOK, CallType, Steps
  <2>. QED  BY <1>7, <2>5, <2>6, ObserveType DEF IssueSign, TypeOK
<1>8. ASSUME IssueStore(c) PROVE TypeOK'
  <2>1. call[c].token \in Tokens /\ call[c].user \in UserIds
    BY <1>8 DEF IssueStore, CallShape
  <2>2. PICK now \in ArgumentTimes(c), reply \in Replies :
          /\ sessions' = [sessions EXCEPT ![call[c].token] =
               [state |-> "live", user |-> call[c].user,
                expiresAt |-> SessionExpiry(now)]]
          /\ claims' = IF reply = "ok"
               THEN [claims EXCEPT ![call[c].token].state = "delivered"]
               ELSE claims
    BY <1>8 DEF IssueStore
  <2>3. SessionExpiry(now) \in Nat
    BY ArgumentTimesNat, ExpiryNat
  <2>4. sessions' \in [Tokens -> SessionType]
    BY <2>1, <2>2, <2>3 DEF TypeOK, SessionType, SessionStates
  <2>5. claims' \in [Tokens -> ClaimsType]
    BY <2>1, <2>2 DEF TypeOK, ClaimsType, TokenStates
  <2>. QED  BY <1>a, <1>8, <2>4, <2>5, ObserveType DEF IssueStore, TypeOK
<1>9. ASSUME SeedUpdate(c) PROVE TypeOK'
  <2>. DEFINE u == call[c].user
              row == [users[u] EXCEPT !.state = "ACTIVE",
                                      !.password = call[c].password,
                                      !.roles = call[c].roles]
  <2>a. u \in UserIds
    BY <1>0, <1>9 DEF SeedUpdate, CallType
  <2>c. users' = [users EXCEPT ![u] = row]
    BY <1>9 DEF SeedUpdate
  <2>d. call[c].password \in Passwords \cup {None} /\ call[c].roles \in SUBSET Roles
    BY <1>0 DEF CallType
  <2>. HIDE DEF u
  <2>e. users[u] \in UserType
    BY <2>a DEF TypeOK
  <2>b. row \in UserType
    BY <2>d, <2>e DEF UserType, UserStates
  <2>. HIDE DEF row
  <2>1. users' \in [UserIds -> UserType]
    BY <2>a, <2>b, <2>c DEF TypeOK
  <2>. QED  BY <1>a, <1>9, <2>1, ObserveType DEF SeedUpdate, TypeOK
<1>10. ASSUME SeedCreate(c) PROVE TypeOK'
  <2>1. users' \in [UserIds -> UserType]
    BY <1>0, <1>10, NewUserType DEF SeedCreate, TypeOK, CallType
  <2>. QED  BY <1>a, <1>10, <2>1, ObserveType DEF SeedCreate, TypeOK
<1>. QED
  BY <1>1, <1>2, <1>3, <1>4, <1>5, <1>6, <1>7, <1>8, <1>9, <1>10 DEF Continue

(* A session that ends is still well typed.                                *)
LEMMA EndedType ==
  ASSUME NEW s \in SessionType, NEW state \in SessionStates
  PROVE  [s EXCEPT !.state = state] \in SessionType
BY DEF SessionType

(* An account that changes its status is still well typed.                 *)
LEMMA StatusType ==
  ASSUME NEW u \in UserType, NEW state \in UserStates
  PROVE  [u EXCEPT !.state = state] \in UserType
BY DEF UserType

(* The environment keeps every variable in its type.                       *)
LEMMA EnvironmentType ==
  ASSUME SessionInv, Environment
  PROVE  TypeOK'
<1>. USE DEF SessionInv
<1>1. ASSUME NEW u \in UserIds, NEW status \in {"ACTIVE", "DISABLED"},
             SetStatus(u, status)
      PROVE  TypeOK'
  <2>1. users' \in [UserIds -> UserType]
    BY <1>1, SMTT(20) DEF SetStatus, TypeOK, UserType, UserStates
  <2>. QED  BY <1>1, <2>1, ObserveType DEF SetStatus, TypeOK
<1>2. ASSUME NEW c \in Calls, DatabaseFailure(c) PROVE TypeOK'
  <2>1. call' \in [Calls -> CallType]
    BY <1>2, IdleCallType DEF DatabaseFailure, Finish, Become, TypeOK
  <2>. QED  BY <1>2, <2>1, ObserveType DEF DatabaseFailure, TypeOK
<1>3. ASSUME NEW S \in SUBSET Calls, Crash(S) PROVE TypeOK'
  <2>1. call' \in [Calls -> CallType]
    BY <1>3, IdleCallType DEF Crash, TypeOK
  <2>2. users' \in [UserIds -> UserType]
    <3>1. \A u \in UserIds : [users[u] EXCEPT !.state = "gone"] \in UserType
      BY StatusType DEF TypeOK, UserStates
    <3>. QED  BY <1>3, <3>1 DEF Crash, TypeOK
  <2>3. sessions' \in [Tokens -> SessionType]
    <3>1. \A t \in Tokens : [sessions[t] EXCEPT !.state = "gone"] \in SessionType
      BY EndedType DEF TypeOK, SessionStates
    <3>. QED  BY <1>3, <3>1 DEF Crash, TypeOK
  <2>. QED  BY <1>3, <2>1, <2>2, <2>3, ObserveType DEF Crash, TypeOK
<1>4. ASSUME Tick PROVE TypeOK'
  <2>1. clock' \in Nat
    BY <1>4 DEF Tick, TypeOK
  <2>. QED  BY <1>4, <2>1, ObserveType DEF Tick, TypeOK
<1>. QED  BY <1>1, <1>2, <1>3, <1>4 DEF Environment

(* Logout, revocation and clean-up keep every variable in its type.        *)
LEMMA EndingType ==
  ASSUME SessionInv,
         \/ \E t \in Tokens : Logout(t)
         \/ \E u \in UserIds : RevokeAllForUser(u)
         \/ \E before \in 0 .. clock : DeleteExpired(before)
  PROVE  TypeOK'
<1>. USE DEF SessionInv
<1>1. ASSUME NEW t \in Tokens, Logout(t) PROVE TypeOK'
  <2>1. sessions' \in [Tokens -> SessionType]
    BY <1>1, RevokeEffect DEF Logout
  <2>. QED  BY <1>1, <2>1, ObserveType DEF Logout, TypeOK
<1>2. ASSUME NEW u \in UserIds, RevokeAllForUser(u) PROVE TypeOK'
  <2>1. sessions' \in [Tokens -> SessionType]
    BY <1>2, RevokeEffect DEF RevokeAllForUser
  <2>. QED  BY <1>2, <2>1, ObserveType DEF RevokeAllForUser, TypeOK
<1>3. ASSUME NEW before \in 0 .. clock, DeleteExpired(before) PROVE TypeOK'
  <2>1. sessions' \in [Tokens -> SessionType]
    <3>1. \A t \in Tokens : [sessions[t] EXCEPT !.state = "gone"] \in SessionType
      BY EndedType DEF TypeOK, SessionStates
    <3>. QED  BY <1>3, <3>1 DEF DeleteExpired, TypeOK
  <2>. QED  BY <1>3, <2>1, ObserveType DEF DeleteExpired, TypeOK
<1>. QED  BY <1>1, <1>2, <1>3

-----------------------------------------------------------------------------
(* Invariance, action by action.                                           *)

(* The initial state satisfies the invariant.                              *)
LEMMA InitInv == Init => SessionInv
<1>. SUFFICES ASSUME Init PROVE SessionInv
  OBVIOUS
<1>1. TypeOK
  BY IdleCallType DEF Init, TypeOK, UserType, SessionType, ClaimsType, NoUser,
     NoSession, NoClaims, UserStates, SessionStates, TokenStates
<1>2. \A c \in Calls : CallShape(c) /\ call[c].pc = "idle"
  BY DEF Init, CallShape, IdleCall
<1>3. \A t \in Tokens : TokenShape(t) /\ uses[t] = 0 /\ ~Live(t) /\ ~Delivered(t)
  BY DEF Init, TokenShape, Ended, NoClaims, NoSession, Live, Delivered
<1>4. \A c \in Calls : ~Refreshing(c)
  BY <1>2 DEF Refreshing
<1>. QED  BY <1>1, <1>2, <1>3, <1>4
            DEF SessionInv, SingleUse, OneSessionPerLogin, DeliveredIsStored,
                FreshFamily

(* Beginning a call preserves the invariant.                               *)
LEMMA StartInv ==
  ASSUME SessionInv, NEW c \in Calls, Start(c)
  PROVE  SessionInv'
<1>1. TypeOK'
  BY StartType
<1>2. PICK l : Become(c, l)
  BY DEF Start, RegisterFind, LoginFind, RefreshVerify, UserCreateFind, SeedFind
<1>3. /\ call'[c] = l
      /\ \A d \in Calls \ {c} : call'[d] = call[d]
  BY <1>2 DEF Become, SessionInv, TypeOK
<1>4. UNCHANGED <<sessions, claims, uses>>
  BY DEF Start, RegisterFind, LoginFind, RefreshVerify, UserCreateFind, SeedFind
<1>5. /\ call'[c].pc \in {"hash", "compare", "consume", "create", "seed"}
      /\ call'[c].pc = "compare" => call'[c].user \in UserIds
      /\ call'[c].pc # "consume" => call'[c].parent = None
      /\ call'[c].pc = "consume" =>
           call'[c].parent \in Tokens /\ Delivered(call'[c].parent)
  <2>1. ASSUME NEW e \in Emails, NEW p \in Passwords, RegisterFind(c, e, p)
        PROVE  call'[c].pc = "hash" /\ call'[c].parent = None
    BY <2>1 DEF RegisterFind, Become, SessionInv, TypeOK, IdleCall
  <2>2. ASSUME NEW e \in Emails, NEW p \in Passwords, LoginFind(c, e, p)
        PROVE  /\ call'[c].pc = "compare" /\ call'[c].parent = None
               /\ call'[c].user \in UserIds
    BY <2>2 DEF LoginFind, Become, SessionInv, TypeOK, IdleCall
  <2>3. ASSUME NEW t \in Tokens, RefreshVerify(c, t)
        PROVE  call'[c].pc = "consume" /\ call'[c].parent = t /\ Delivered(t)
    BY <2>3 DEF RefreshVerify, Become, SessionInv, TypeOK, IdleCall
  <2>4. ASSUME NEW t \in Tokens, NEW e \in Emails, UserCreateFind(c, t, e)
        PROVE  call'[c].pc = "create" /\ call'[c].parent = None
    BY <2>4 DEF UserCreateFind, Become, SessionInv, TypeOK, IdleCall
  <2>5. ASSUME NEW p \in Passwords, SeedFind(c, p)
        PROVE  call'[c].pc = "seed" /\ call'[c].parent = None
    BY <2>5 DEF SeedFind, Become, SessionInv, TypeOK, IdleCall
  <2>. QED  BY <2>1, <2>2, <2>3, <2>4, <2>5 DEF Start
<1>6. CallShape(c)'
  BY <1>4, <1>5 DEF CallShape, Delivered
<1>7. ~Refreshing(c)'
  BY <1>5 DEF Refreshing
<1>. QED  BY <1>1, <1>3, <1>4, <1>5, <1>6, <1>7, LocalStep

(* Answering, with the sessions as they were, preserves the invariant.     *)
LEMMA FinishInv ==
  ASSUME SessionInv, TypeOK', NEW c \in Calls, Finish(c),
         UNCHANGED <<sessions, claims, uses>>
  PROVE  SessionInv'
<1>1. call'[c] = IdleCall /\ \A d \in Calls \ {c} : call'[d] = call[d]
  BY DEF Finish, Become, SessionInv, TypeOK
<1>2. CallShape(c)' /\ ~Refreshing(c)' /\ call'[c].pc # "store"
  BY <1>1 DEF CallShape, Refreshing, IdleCall
<1>. QED  BY <1>1, <1>2, LocalStep

(* Going on to sign tokens, for an account that is known, preserves it.    *)
LEMMA IssueInv ==
  ASSUME SessionInv, TypeOK', NEW c \in Calls, NEW l, Become(c, l),
         UNCHANGED <<sessions, claims, uses>>,
         l.pc = "issue", l.user \in UserIds,
         \/ l.parent = None
         \/ l.parent = call[c].parent /\ call[c].pc \in {"load", "compare"},
         call[c].pc = "compare" => l.parent = call[c].parent /\ call[c].parent = None
  PROVE  SessionInv'
<1>1. call'[c] = l /\ \A d \in Calls \ {c} : call'[d] = call[d]
  BY DEF Become, SessionInv, TypeOK
<1>2. CallShape(c)' /\ call'[c].pc # "store"
  BY <1>1 DEF SessionInv, CallShape, Delivered
<1>3. Refreshing(c)' => Refreshing(c) /\ call'[c].parent = call[c].parent
  BY <1>1 DEF Refreshing
<1>. QED  BY <1>1, <1>2, <1>3, LocalStep

(* Consuming takes the place of the live session it ends.                  *)
LEMMA ConsumeInv ==
  ASSUME SessionInv, NEW c \in Calls, RefreshConsume(c)
  PROVE  SessionInv'
<1>. DEFINE t == call[c].parent
<1>1. TypeOK'
  BY ContinueType DEF Continue
<1>2. t \in Tokens /\ Delivered(t) /\ t # None
  BY DEF RefreshConsume, SessionInv, CallShape, TypeOK, CallType
<1>3. CASE UNCHANGED <<sessions, uses>> /\ Finish(c)
  BY <1>1, <1>3, FinishInv DEF RefreshConsume
<1>4. CASE /\ Live(t) /\ Revoke({t})
           /\ uses' = [uses EXCEPT ![t] = @ + 1]
           /\ \/ Become(c, [IdleCall EXCEPT !.pc = "load", !.parent = t])
              \/ Finish(c)
  <2>. USE DEF SessionInv
  <2>1. UNCHANGED claims
    BY DEF RefreshConsume
  <2>2. \A s \in Tokens \ {t} :
          sessions'[s].state = sessions[s].state /\ uses'[s] = uses[s]
    BY <1>2, <1>4, RevokeEffect DEF TypeOK
  <2>3. sessions'[t].state = "revoked" /\ uses'[t] = 1
    BY <1>2, <1>4, RevokeEffect DEF TypeOK, TokenShape, Ended, Live
  <2>4. /\ \A d \in Calls \ {c} : call'[d] = call[d]
        /\ call'[c].pc \in {"idle", "load"}
        /\ call'[c].pc = "load" => call'[c].parent = t
        /\ call'[c].pc = "idle" => call'[c].parent = None
    <3>. DEFINE next == [IdleCall EXCEPT !.pc = "load", !.parent = t]
    <3>1. /\ next.pc = "load" /\ next.parent = t
          /\ IdleCall.pc = "idle" /\ IdleCall.parent = None
      BY DEF IdleCall
    <3>2. Become(c, next) \/ Become(c, IdleCall)
      BY <1>4 DEF Finish
    <3>. HIDE DEF next
    <3>3. /\ call'[c] \in {next, IdleCall}
          /\ \A d \in Calls \ {c} : call'[d] = call[d]
      BY <3>2 DEF Become, TypeOK
    <3>. QED  BY <3>1, <3>3
  <2>5. \A d \in Calls : CallShape(d)'
    <3>1. CallShape(c)'
      BY <1>2, <2>1, <2>4 DEF CallShape, Delivered
    <3>2. ASSUME NEW d \in Calls \ {c} PROVE CallShape(d)'
      <4>1. CallShape(d) /\ call'[d] = call[d]
        BY <2>4
      <4>2. call[d].pc = "store" => call[d].token # t
        BY <1>2, <4>1 DEF CallShape, Delivered
      <4>3. call[d].pc = "store" =>
              sessions'[call[d].token].state = sessions[call[d].token].state
        BY <2>2, <4>1, <4>2 DEF CallShape
      <4>. HIDE DEF SessionInv
      <4>. QED  BY <2>1, <4>1, <4>3 DEF CallShape, Delivered, Root
    <3>. QED  BY <3>1, <3>2
  <2>6. \A s \in Tokens : TokenShape(s)'
    BY <1>2, <2>1, <2>2, <2>3 DEF TokenShape, Ended, Delivered
  <2>7. \A d, e \in Calls :
          call'[d].pc = "store" /\ call'[e].pc = "store"
            /\ call'[d].token = call'[e].token => d = e
    BY <2>4
  <2>8. OneSessionPerLogin'
    <3>1. \A s \in Tokens : Live(s)' => Live(s) /\ s # t
      BY <2>2, <2>3 DEF Live
    <3>2. \A d \in Calls \ {c} :
            Refreshing(d)' => Refreshing(d) /\ Family(d)' = Family(d)
      BY <2>1, <2>4 DEF Refreshing, Family
    <3>3. Refreshing(c)' => Family(c)' = claims[t].root
      BY <2>1, <2>4 DEF Refreshing, Family
    <3>. QED  BY <1>2, <1>4, <2>1, <3>1, <3>2, <3>3 DEF OneSessionPerLogin
  <2>9. SingleUse'
    BY <2>2, <2>3 DEF SingleUse
  <2>10. DeliveredIsStored'
    BY <2>1, <2>2, <2>3 DEF DeliveredIsStored, Delivered
  <2>11. FreshFamily'
    BY <2>1, <2>4 DEF FreshFamily
  <2>. QED  BY <1>1, <2>5, <2>6, <2>7, <2>8, <2>9, <2>10, <2>11
<1>. QED  BY <1>2, <1>3, <1>4 DEF RefreshConsume, Consumable, Live

(* Signing claims a token that nothing refers to yet.                      *)
LEMMA SignInv ==
  ASSUME SessionInv, NEW c \in Calls, IssueSign(c)
  PROVE  SessionInv'
<1>. USE DEF SessionInv
<1>1. TypeOK'
  BY ContinueType DEF Continue
<1>2. PICK t \in Tokens :
        /\ claims[t].state = "unused"
        /\ claims' = [claims EXCEPT ![t] = Signed(c, t)]
        /\ Become(c, [call[c] EXCEPT !.pc = "store", !.token = t, !.at = clock])
  BY DEF IssueSign, NextToken
<1>3. UNCHANGED <<sessions, uses>> /\ call[c].pc = "issue"
  BY DEF IssueSign
<1>4. /\ \A d \in Calls \ {c} : call'[d] = call[d]
      /\ call'[c].pc = "store" /\ call'[c].token = t
      /\ call'[c].parent = call[c].parent /\ call'[c].user = call[c].user
  BY <1>2 DEF Become, TypeOK, CallType
<1>5. /\ \A s \in Tokens \ {t} : claims'[s] = claims[s]
      /\ claims'[t].state = "signed"
      /\ claims'[t].user = call[c].user
      /\ claims'[t].root = Root(c, t)
  BY <1>2 DEF TypeOK, Signed
<1>6. call[c].user \in UserIds
  BY <1>3 DEF CallShape
<1>7. call[c].parent # None =>
        /\ call[c].parent \in Tokens \ {t} /\ Delivered(call[c].parent)
        /\ claims[call[c].parent].root \in Tokens \ {t}
        /\ claims[claims[call[c].parent].root].state # "unused"
  BY <1>2, <1>3 DEF CallShape, Delivered, TypeOK, CallType, TokenShape
<1>8. sessions[t].state = "none"
  BY <1>2 DEF TokenShape
<1>9. \A d \in Calls : call[d].pc = "store" =>
        call[d].token \in Tokens \ {t} /\ claims[call[d].token].state = "signed"
  BY <1>2 DEF CallShape
<1>10. \A d \in Calls : CallShape(d)'
  <2>1. \A d \in Calls : call[d].parent # None => call[d].parent \in Tokens \ {t}
    BY <1>2 DEF CallShape, Delivered, TypeOK, CallType
  <2>2. CallShape(c)'
    <3>1. /\ call'[c].user \in UserIds /\ call'[c].token \in Tokens
          /\ claims'[call'[c].token].state = "signed"
          /\ sessions'[call'[c].token].state = "none"
      BY <1>3, <1>4, <1>5, <1>6, <1>8
    <3>2. call'[c].parent # None =>
            /\ claims'[call'[c].parent] = claims[call[c].parent]
            /\ Delivered(call[c].parent)
      BY <1>4, <1>5, <1>7
    <3>3. claims'[call'[c].token].root = Root(c, t)
      BY <1>4, <1>5
    <3>4. Root(c, t) = IF call'[c].parent = None THEN t
                       ELSE claims'[call'[c].parent].root
      BY <1>4, <3>2 DEF Root
    <3>. HIDE DEF SessionInv
    <3>. QED  BY <1>4, <3>1, <3>2, <3>3, <3>4 DEF CallShape, Delivered, Root
  <2>3. ASSUME NEW d \in Calls \ {c} PROVE CallShape(d)'
    <3>1. CallShape(d) /\ call'[d] = call[d]
      BY <1>4
    <3>2. call[d].parent # None => claims'[call[d].parent] = claims[call[d].parent]
      BY <1>5, <2>1
    <3>3. call[d].pc = "store" =>
            /\ claims'[call[d].token] = claims[call[d].token]
            /\ sessions'[call[d].token] = sessions[call[d].token]
      BY <1>3, <1>5, <1>9
    <3>. HIDE DEF SessionInv
    <3>. QED  BY <3>1, <3>2, <3>3 DEF CallShape, Delivered, Root
  <2>. QED  BY <2>2, <2>3
<1>11. \A s \in Tokens : TokenShape(s)'
  BY <1>2, <1>3, <1>5, <1>6, <1>7 DEF TokenShape, Ended, Root
<1>12. OneSessionPerLogin'
  <2>1. \A s \in Tokens : Live(s)' => Live(s) /\ s # t
    BY <1>3, <1>8 DEF Live
  <2>2. \A d \in Calls : Refreshing(d)' <=> Refreshing(d)
    BY <1>3, <1>4 DEF Refreshing
  <2>3. \A d \in Calls : Refreshing(d) => Family(d)' = Family(d)
    <3>1. \A d \in Calls : Refreshing(d) => call[d].parent \in Tokens \ {t}
      BY <1>2 DEF Refreshing, CallShape, Delivered, TypeOK, CallType
    <3>. QED  BY <1>4, <1>5, <3>1 DEF Family
  <2>. QED  BY <1>5, <2>1, <2>2, <2>3 DEF OneSessionPerLogin
<1>13. DeliveredIsStored'
  BY <1>3, <1>5 DEF DeliveredIsStored, Delivered
<1>14. \A d, e \in Calls :
         call'[d].pc = "store" /\ call'[e].pc = "store"
           /\ call'[d].token = call'[e].token => d = e
  BY <1>4, <1>9
<1>15. FreshFamily'
  <2>1. \A s \in Tokens \ {t} : claims[s].root # t
    BY <1>2 DEF TokenShape
  <2>2. call[c].parent = None => claims'[t].root = t
    BY <1>5 DEF Root
  <2>3. \A d \in Calls : call[d].pc = "store" /\ call[d].parent = None =>
          claims'[t].root # call[d].token
    <3>1. SUFFICES ASSUME NEW d \in Calls, call[d].pc = "store",
                          call[d].parent = None
                   PROVE  Root(c, t) # call[d].token
      BY <1>5
    <3>2. CASE call[c].parent = None
      BY <1>9, <3>1, <3>2 DEF Root
    <3>3. CASE call[c].parent # None
      BY <1>7, <1>9, <3>1, <3>3 DEF Root, FreshFamily, Delivered
    <3>. QED  BY <3>2, <3>3
  <2>. QED  BY <1>4, <1>5, <2>1, <2>2, <2>3 DEF FreshFamily
<1>. QED  BY <1>1, <1>3, <1>10, <1>11, <1>12, <1>13, <1>14, <1>15 DEF SingleUse

(* Storing hands the place of the refresh, or a family that has no other   *)
(* member yet, to the new session.                                         *)
LEMMA StoreInv ==
  ASSUME SessionInv, NEW c \in Calls, IssueStore(c)
  PROVE  SessionInv'
<1>. USE DEF SessionInv
<1>. DEFINE t == call[c].token
<1>1. TypeOK'
  BY ContinueType DEF Continue
<1>2. /\ t \in Tokens /\ claims[t].state = "signed"
      /\ sessions[t].state = "none" /\ claims[t].root = Root(c, t)
      /\ call[c].pc = "store"
  BY DEF IssueStore, CallShape
<1>3. UNCHANGED uses
  BY DEF IssueStore
<1>4. /\ \A s \in Tokens \ {t} : sessions'[s] = sessions[s]
      /\ sessions'[t].state = "live"
  BY <1>2 DEF IssueStore, TypeOK
<1>5. /\ \A s \in Tokens \ {t} : claims'[s] = claims[s]
      /\ claims'[t].state \in {"signed", "delivered"}
      /\ \A s \in Tokens : /\ claims'[s].root = claims[s].root
                           /\ claims'[s].user = claims[s].user
  BY <1>2 DEF IssueStore, TypeOK, ClaimsType
<1>6. call'[c] = IdleCall /\ \A d \in Calls \ {c} : call'[d] = call[d]
  BY DEF IssueStore, Finish, Become, TypeOK
<1>7. \A d \in Calls \ {c} : call[d].pc = "store" => call[d].token # t
  BY <1>2
<1>8. \A d \in Calls : CallShape(d)'
  <2>1. CallShape(c)'
    BY <1>6 DEF CallShape, IdleCall
  <2>2. \A d \in Calls \ {c} : call[d].parent # None =>
          call[d].parent \in Tokens \ {t}
    BY <1>2 DEF CallShape, Delivered, TypeOK, CallType
  <2>3. \A d \in Calls \ {c} : CallShape(d)'
    BY <1>4, <1>5, <1>6, <1>7, <2>2 DEF CallShape, Delivered, Root
  <2>. QED  BY <2>1, <2>3
<1>9. \A s \in Tokens : TokenShape(s)'
  BY <1>2, <1>3, <1>4, <1>5 DEF TokenShape, Ended
<1>12. DeliveredIsStored'
  BY <1>4, <1>5 DEF DeliveredIsStored, Delivered
<1>13. OneSessionPerLogin'
  <2>. DEFINE f == claims[t].root
  <2>1. \A s \in Tokens : Live(s)' => s = t \/ Live(s)
    BY <1>4 DEF Live
  <2>2. \A d \in Calls : Refreshing(d)' =>
          d # c /\ Refreshing(d) /\ Family(d)' = Family(d)
    <3>1. \A d \in Calls : Refreshing(d) => call[d].parent \in Tokens
      BY DEF Refreshing, TypeOK, CallType
    <3>2. ~Refreshing(c)'
      BY <1>6 DEF Refreshing, IdleCall
    <3>. HIDE DEF SessionInv
    <3>. QED  BY <1>5, <1>6, <3>1, <3>2 DEF Refreshing, Family
  <2>3. \A s \in Tokens : Live(s) => claims[s].root # f
    <3>1. CASE call[c].parent = None
      BY <1>2, <3>1 DEF Root, FreshFamily, Live
    <3>2. CASE call[c].parent # None
      BY <1>2, <3>2 DEF Root, Refreshing, Family, OneSessionPerLogin
    <3>. QED  BY <3>1, <3>2
  <2>4. \A d \in Calls \ {c} : Refreshing(d) => Family(d) # f
    <3>1. CASE call[c].parent = None
      <4>1. \A d \in Calls : Refreshing(d) =>
              call[d].parent \in Tokens \ {t}
        BY <1>2 DEF Refreshing, CallShape, Delivered, TypeOK, CallType
      <4>. QED  BY <1>2, <3>1, <4>1 DEF Root, FreshFamily, Family
    <3>2. CASE call[c].parent # None
      BY <1>2, <3>2 DEF Root, Refreshing, Family, OneSessionPerLogin
    <3>. QED  BY <3>1, <3>2
  <2>. QED  BY <1>5, <2>1, <2>2, <2>3, <2>4 DEF OneSessionPerLogin
<1>14. FreshFamily'
  BY <1>5, <1>6 DEF FreshFamily, IdleCall
<1>. QED  BY <1>1, <1>3, <1>6, <1>8, <1>9, <1>12, <1>13, <1>14
            DEF SingleUse, IdleCall

(* Going on with a call preserves the invariant.                           *)
LEMMA ContinueInv ==
  ASSUME SessionInv, NEW c \in Calls, Continue(c)
  PROVE  SessionInv'
<1>. USE DEF SessionInv
<1>1. TypeOK'
  BY ContinueType
<1>2. CASE RegisterCreate(c)
  <2>1. PICK u \in UserIds :
          \/ Become(c, [IdleCall EXCEPT !.pc = "issue", !.user = u,
                                        !.roles = {"USER"}])
          \/ Finish(c)
    BY <1>2 DEF RegisterCreate
  <2>. DEFINE next == [IdleCall EXCEPT !.pc = "issue", !.user = u,
                                       !.roles = {"USER"}]
  <2>2. next.pc = "issue" /\ next.user = u /\ next.parent = None
    BY DEF IdleCall
  <2>3. call[c].pc = "hash" /\ UNCHANGED <<sessions, claims, uses>>
    BY <1>2 DEF RegisterCreate
  <2>4. Become(c, next) \/ Finish(c)
    BY <2>1
  <2>. HIDE DEF next, SessionInv
  <2>. QED  BY <1>1, <2>2, <2>3, <2>4, FinishInv, IssueInv
<1>3. CASE LoginCompare(c)
  <2>. DEFINE next == [call[c] EXCEPT !.pc = "issue", !.accepted = FALSE]
  <2>1. /\ call[c].pc = "compare" /\ UNCHANGED <<sessions, claims, uses>>
        /\ Become(c, next) \/ Finish(c)
    BY <1>3 DEF LoginCompare
  <2>2. /\ next.pc = "issue" /\ next.user \in UserIds
        /\ next.parent = call[c].parent
    BY <2>1 DEF TypeOK, CallType, CallShape
  <2>3. call[c].parent = None
    BY <2>1 DEF CallShape
  <2>. HIDE DEF next, SessionInv
  <2>. QED  BY <1>1, <2>1, <2>2, <2>3, FinishInv, IssueInv
<1>4. CASE RefreshLoad(c)
  <2>. DEFINE u == claims[call[c].parent].user
              next == [call[c] EXCEPT !.pc = "issue", !.user = u,
                                      !.roles = users[u].roles]
  <2>1. /\ call[c].pc = "load" /\ UNCHANGED <<sessions, claims, uses>>
        /\ Become(c, next) \/ Finish(c)
    BY <1>4 DEF RefreshLoad
  <2>2. u \in UserIds
    BY <2>1 DEF TypeOK, CallType, CallShape, TokenShape, Delivered
  <2>. HIDE DEF u
  <2>3. next.pc = "issue" /\ next.user = u /\ next.parent = call[c].parent
    BY DEF TypeOK, CallType
  <2>. HIDE DEF next, SessionInv
  <2>. QED  BY <1>1, <2>1, <2>2, <2>3, FinishInv, IssueInv
<1>5. CASE UserCreate(c) \/ CreateConflict(c) \/ SeedUpdate(c) \/ SeedCreate(c)
  <2>1. Finish(c) /\ UNCHANGED <<sessions, claims, uses>>
    BY <1>5 DEF UserCreate, CreateConflict, SeedUpdate, SeedCreate
  <2>. HIDE DEF SessionInv
  <2>. QED  BY <1>1, <2>1, FinishInv
<1>. QED
  BY <1>2, <1>3, <1>4, <1>5, ConsumeInv, SignInv, StoreInv DEF Continue

(* The environment preserves the invariant.                                *)
LEMMA EnvironmentInv ==
  ASSUME SessionInv, Environment
  PROVE  SessionInv'
<1>1. TypeOK'
  BY EnvironmentType
<1>2. ASSUME NEW c \in Calls, DatabaseFailure(c) PROVE SessionInv'
  BY <1>1, <1>2, FinishInv DEF DatabaseFailure
<1>3. ASSUME NEW S \in SUBSET Calls, Crash(S) PROVE SessionInv'
  <2>. USE DEF SessionInv
  <2>1. UNCHANGED <<claims, uses>>
    BY <1>3 DEF Crash
  <2>2. \A d \in Calls :
          \/ call'[d] = IdleCall
          \/ call'[d] = call[d] /\ UNCHANGED sessions
    BY <1>3 DEF Crash
  <2>3. \A t \in Tokens :
          \/ sessions'[t].state = sessions[t].state
          \/ /\ sessions[t].state \in {"live", "revoked"}
             /\ sessions'[t].state = "gone"
    BY <1>3 DEF Crash, TypeOK, SessionType
  <2>4. \A d \in Calls : CallShape(d)'
    BY <2>1, <2>2 DEF CallShape, Delivered, Root, IdleCall
  <2>5. \A t \in Tokens : TokenShape(t)'
    BY <2>1, <2>3 DEF TokenShape, Ended
  <2>6. OneSessionPerLogin'
    <3>1. \A t \in Tokens : Live(t)' => Live(t)
      BY <2>3 DEF Live
    <3>2. \A d \in Calls : Refreshing(d)' =>
            Refreshing(d) /\ Family(d)' = Family(d)
      BY <2>1, <2>2 DEF Refreshing, Family, IdleCall
    <3>. QED  BY <2>1, <3>1, <3>2 DEF OneSessionPerLogin
  <2>7. FreshFamily' /\ DeliveredIsStored'
    BY <2>1, <2>2, <2>3 DEF FreshFamily, DeliveredIsStored, Delivered, IdleCall
  <2>8. \A d, e \in Calls :
          call'[d].pc = "store" /\ call'[e].pc = "store"
            /\ call'[d].token = call'[e].token => d = e
    BY <2>2 DEF IdleCall
  <2>. QED  BY <1>1, <2>1, <2>4, <2>5, <2>6, <2>7, <2>8 DEF SingleUse
<1>4. ASSUME UNCHANGED <<sessions, claims, call, uses>> PROVE SessionInv'
  BY <1>1, <1>4, EndingStep
<1>. QED  BY <1>2, <1>3, <1>4 DEF Environment, SetStatus, Tick

(* Ending sessions preserves the invariant.                                *)
LEMMA EndingInv ==
  ASSUME SessionInv,
         \/ \E t \in Tokens : Logout(t)
         \/ \E u \in UserIds : RevokeAllForUser(u)
         \/ \E before \in 0 .. clock : DeleteExpired(before)
  PROVE  SessionInv'
<1>1. TypeOK'
  BY EndingType
<1>2. UNCHANGED <<claims, call, uses>>
  BY DEF Logout, RevokeAllForUser, DeleteExpired
<1>3. ASSUME NEW S, Revoke(S) PROVE SessionInv'
  <2>1. \A t \in Tokens :
          \/ sessions'[t].state = sessions[t].state
          \/ sessions[t].state # "none" /\ Ended(t)'
    BY <1>3, RevokeEffect DEF SessionInv, Ended
  <2>. QED  BY <1>1, <1>2, <2>1, EndingStep
<1>4. ASSUME NEW before \in 0 .. clock, DeleteExpired(before) PROVE SessionInv'
  <2>1. \A t \in Tokens :
          \/ sessions'[t].state = sessions[t].state
          \/ sessions[t].state # "none" /\ Ended(t)'
    BY <1>4 DEF DeleteExpired, Ended, SessionInv, TypeOK, SessionType
  <2>. QED  BY <1>1, <1>2, <2>1, EndingStep
<1>. QED  BY <1>3, <1>4 DEF Logout, RevokeAllForUser

(* Every step preserves the invariant, and so does a stuttering one.       *)
LEMMA NextInv == SessionInv /\ [Next]_vars => SessionInv'
<1>. SUFFICES ASSUME SessionInv, [Next]_vars PROVE SessionInv'
  OBVIOUS
<1>1. CASE UNCHANGED vars
  <2>1. TypeOK'
    BY <1>1 DEF SessionInv, TypeOK, vars
  <2>. QED  BY <1>1, <2>1, EndingStep DEF vars
<1>2. CASE Next
  BY <1>2, StartInv, ContinueInv, EndingInv, EnvironmentInv DEF Next
<1>. QED  BY <1>1, <1>2

-----------------------------------------------------------------------------
(* The theorems.                                                           *)

(* The strengthened invariant holds in every reachable state.              *)
THEOREM SessionInvariance == Spec => []SessionInv
BY InitInv, NextInv, PTL DEF Spec

(* Every variable keeps its type, whatever calls interleave.               *)
THEOREM TypeCorrectness == Spec => []TypeOK
<1>1. SessionInv => TypeOK
  BY DEF SessionInv
<1>. QED  BY <1>1, SessionInvariance, PTL

(* No refresh token is granted twice (auth.service.ts, refresh; consume in *)
(* both session repositories).                                             *)
THEOREM RefreshTokensAreSingleUse == Spec => []SingleUse
<1>1. SessionInv => SingleUse
  BY DEF SessionInv
<1>. QED  BY <1>1, SessionInvariance, PTL

(* One login never owns more than one live session or pending rotation.    *)
THEOREM RotationNeverForks == Spec => []OneSessionPerLogin
<1>1. SessionInv => OneSessionPerLogin
  BY DEF SessionInv
<1>. QED  BY <1>1, SessionInvariance, PTL

(* A client is never given a refresh token the repository does not know.   *)
THEOREM DeliveredTokensAreStored == Spec => []DeliveredIsStored
<1>1. SessionInv => DeliveredIsStored
  BY DEF SessionInv
<1>. QED  BY <1>1, SessionInvariance, PTL

(* A session that was consumed, revoked or deleted is never live again and *)
(* is never consumed again: logout and replay rejection are final.         *)
THEOREM EndedSessionsStayEnded == Spec => EndedForGood
<1>1. SessionInv /\ [Next]_vars => [StaysEnded]_vars
  <2>. SUFFICES ASSUME SessionInv, Next PROVE StaysEnded
    OBVIOUS
  <2>. USE DEF SessionInv
  <2>1. ASSUME NEW S, Revoke(S), UNCHANGED uses PROVE StaysEnded
    BY <2>1, RevokeEffect DEF StaysEnded, Ended
  <2>2. ASSUME UNCHANGED <<sessions, uses>> PROVE StaysEnded
    BY <2>2 DEF StaysEnded, Ended
  <2>3. ASSUME NEW c \in Calls, Start(c) PROVE StaysEnded
    BY <2>2, <2>3 DEF Start, RegisterFind, LoginFind, RefreshVerify,
       UserCreateFind, SeedFind
  <2>4. ASSUME NEW c \in Calls, RefreshConsume(c) PROVE StaysEnded
    <3>. DEFINE t == call[c].parent
    <3>1. t \in Tokens
      BY <2>4 DEF RefreshConsume, CallShape, TypeOK, CallType
    <3>2. CASE Live(t) /\ Revoke({t}) /\ uses' = [uses EXCEPT ![t] = @ + 1]
      BY <3>1, <3>2, RevokeEffect DEF StaysEnded, Ended, Live, TypeOK
    <3>3. CASE UNCHANGED <<sessions, uses>>
      BY <2>2, <3>3
    <3>. QED  BY <2>4, <3>2, <3>3 DEF RefreshConsume, Consumable, Live
  <2>5. ASSUME NEW c \in Calls, IssueStore(c) PROVE StaysEnded
    <3>1. call[c].token \in Tokens /\ sessions[call[c].token].state = "none"
      BY <2>5 DEF IssueStore, CallShape
    <3>2. /\ \A s \in Tokens \ {call[c].token} : sessions'[s] = sessions[s]
          /\ UNCHANGED uses
      BY <2>5 DEF IssueStore, TypeOK
    <3>. QED  BY <3>1, <3>2 DEF StaysEnded, Ended
  <2>6. ASSUME NEW c \in Calls, Continue(c) PROVE StaysEnded
    BY <2>2, <2>4, <2>5, <2>6 DEF Continue, RegisterCreate, UserCreate,
       CreateConflict, LoginCompare, RefreshLoad, IssueSign, SeedUpdate, SeedCreate
  <2>7. ASSUME NEW before \in 0 .. clock, DeleteExpired(before) PROVE StaysEnded
    BY <2>7 DEF DeleteExpired, StaysEnded, Ended, TypeOK, SessionType
  <2>8. ASSUME NEW S \in SUBSET Calls, Crash(S) PROVE StaysEnded
    BY <2>8 DEF Crash, StaysEnded, Ended, TypeOK, SessionType
  <2>. QED
    BY <2>1, <2>2, <2>3, <2>6, <2>7, <2>8 DEF Next, Logout, RevokeAllForUser,
       Environment, SetStatus, DatabaseFailure, Tick
<1>. QED  BY <1>1, SessionInvariance, PTL DEF Spec, EndedForGood

-----------------------------------------------------------------------------
(* Accounts.                                                               *)

(* What a step may do to accounts: those that exist keep their e-mail, may *)
(* gain ADMIN, and where the database persists stay; at most one account   *)
(* appears, and there its e-mail is one that nobody has.                   *)
UsersMove ==
  /\ \A u \in UserIds : Known(u) =>
       /\ Known(u)'
       /\ users'[u].email = users[u].email
       /\ users'[u].roles \in {users[u].roles, SeedRoles(users[u].roles)}
       /\ Persistent /\ Exists(u) => Exists(u)'
  /\ Persistent =>
       \A u \in UserIds : ~Exists(u) /\ Exists(u)' =>
         /\ ~EmailTaken(users'[u].email)
         /\ \A v \in UserIds : ~Exists(v) /\ Exists(v)' => u = v

(* A repository that creates an account makes such a move.                 *)
LEMMA CreateMoves ==
  ASSUME TypeOK, NEW e, NEW p, NEW rs, ~InsertConflicts(e),
         NEW u \in UserIds, NextUser(u),
         users' = [users EXCEPT ![u] = NewUser(e, p, rs)]
  PROVE  UsersMove
<1>1. ~Known(u)
  BY DEF NextUser, Known
<1>2. \A v \in UserIds \ {u} : users'[v] = users[v]
  BY DEF TypeOK
<1>3. users'[u].email = e
  BY DEF TypeOK, NewUser
<1>4. \A v \in UserIds : Known(v) => v # u
  BY <1>1
<1>5. \A v \in UserIds : ~Exists(v) /\ Exists(v)' => v = u
  BY <1>2 DEF Exists
<1>. QED  BY <1>2, <1>3, <1>4, <1>5 DEF UsersMove, Known, Exists, InsertConflicts

(* Accounts that do not change make it too.                                *)
LEMMA NothingMoves == UNCHANGED users => UsersMove
BY DEF UsersMove, Known, Exists

(* So does every step of a pending call: only the three creations and the  *)
(* update of seedAdmin write accounts.                                     *)
LEMMA ContinueMoves ==
  ASSUME SessionInv, AccountInv, NEW c \in Calls, Continue(c)
  PROVE  UsersMove
<1>0. TypeOK
  BY DEF SessionInv
<1>1. CASE RegisterCreate(c)
  BY <1>0, <1>1, CreateMoves DEF RegisterCreate
<1>2. CASE UserCreate(c)
  BY <1>0, <1>2, CreateMoves DEF UserCreate
<1>3. CASE SeedCreate(c)
  BY <1>0, <1>3, CreateMoves DEF SeedCreate
<1>4. CASE SeedUpdate(c)
  <2>. DEFINE u == call[c].user
  <2>1. u \in UserIds
    BY <1>0, <1>4 DEF SeedUpdate, TypeOK, CallType
  <2>2. Exists(u) /\ call[c].roles = SeedRoles(users[u].roles)
    BY <1>4 DEF SeedUpdate, AccountInv, CallKnows
  <2>3. \A v \in UserIds \ {u} : users'[v] = users[v]
    BY <1>0, <1>4 DEF SeedUpdate, TypeOK
  <2>4. /\ users'[u].email = users[u].email
        /\ users'[u].state = "ACTIVE"
        /\ users'[u].roles = SeedRoles(users[u].roles)
    BY <1>0, <1>4, <2>1, <2>2 DEF SeedUpdate, TypeOK, UserType
  <2>5. \A v \in UserIds : Exists(v)' => Exists(v)
    BY <2>2, <2>3 DEF Exists
  <2>. QED  BY <2>1, <2>2, <2>3, <2>4, <2>5 DEF UsersMove, Known, Exists
<1>. QED
  BY <1>1, <1>2, <1>3, <1>4, NothingMoves DEF Continue, CreateConflict,
     LoginCompare, RefreshConsume, RefreshLoad, IssueSign, IssueStore

(* So does the environment: a status changes outside this code, and a      *)
(* crash loses accounts only where nothing persists.                       *)
LEMMA EnvironmentMoves ==
  ASSUME SessionInv, Environment
  PROVE  UsersMove
<1>0. TypeOK
  BY DEF SessionInv
<1>1. ASSUME NEW u \in UserIds, NEW status \in {"ACTIVE", "DISABLED"},
             SetStatus(u, status)
      PROVE  UsersMove
  <2>1. \A v \in UserIds \ {u} : users'[v] = users[v]
    BY <1>0, <1>1 DEF SetStatus, TypeOK
  <2>2. /\ users'[u].email = users[u].email /\ users'[u].state = status
        /\ users'[u].roles = users[u].roles
    BY <1>0, <1>1 DEF SetStatus, TypeOK, UserType
  <2>3. Exists(u)
    BY <1>1 DEF SetStatus
  <2>4. \A v \in UserIds : Exists(v)' => Exists(v)
    BY <2>1, <2>3 DEF Exists
  <2>. QED  BY <2>1, <2>2, <2>3, <2>4 DEF UsersMove, Known, Exists
<1>2. ASSUME NEW S \in SUBSET Calls, Crash(S), ~Persistent PROVE UsersMove
  <2>1. \A u \in UserIds : users'[u] = IF Exists(u)
          THEN [users[u] EXCEPT !.state = "gone"] ELSE users[u]
    BY <1>2 DEF Crash
  <2>2. \A u \in UserIds :
          /\ users'[u].email = users[u].email
          /\ users'[u].roles = users[u].roles
          /\ Known(u) => Known(u)'
    BY <1>0, <2>1 DEF TypeOK, UserType, Known
  <2>. QED  BY <1>2, <2>2 DEF UsersMove
<1>. QED
  BY <1>1, <1>2, NothingMoves DEF Environment, DatabaseFailure, Crash, Tick

(* Every step does.                                                        *)
LEMMA NextMoves ==
  ASSUME SessionInv, AccountInv, Next
  PROVE  UsersMove
BY ContinueMoves, EnvironmentMoves, NothingMoves DEF Next, Start, RegisterFind,
   LoginFind, RefreshVerify, UserCreateFind, SeedFind, Logout, RevokeAllForUser,
   DeleteExpired

(* Hence e-mails stay unique.                                              *)
LEMMA EmailStep ==
  ASSUME TypeOK, UsersMove, Persistent, EmailUnique
  PROVE  EmailUnique'
<1>. SUFFICES ASSUME NEW u \in UserIds, NEW v \in UserIds, Exists(u)', Exists(v)',
                     users'[u].email = users'[v].email
              PROVE  u = v
  BY DEF EmailUnique
<1>1. \A w \in UserIds : Exists(w) => Known(w)
  BY DEF Exists, Known
<1>2. CASE Exists(u) /\ Exists(v)
  BY <1>1, <1>2 DEF UsersMove, EmailUnique
<1>3. ASSUME NEW w \in UserIds, NEW x \in UserIds, ~Exists(w), Exists(w)',
             Exists(x), users'[w].email = users'[x].email
      PROVE  FALSE
  BY <1>1, <1>3 DEF UsersMove, EmailTaken, WithEmail
<1>. QED  BY <1>2, <1>3 DEF UsersMove

-----------------------------------------------------------------------------
(* What calls know.                                                        *)

(* A token that has been signed keeps what it says, and time does not go   *)
(* back.                                                                   *)
ClaimsMove ==
  /\ \A t \in Tokens : claims[t].state # "unused" =>
       /\ claims'[t].state # "unused"
       /\ claims'[t].user = claims[t].user
       /\ claims'[t].roles = claims[t].roles
       /\ claims'[t].iat = claims[t].iat
       /\ claims'[t].root = claims[t].root
  /\ clock <= clock'

(* So it is at every step: signing writes only the claims of a token that  *)
(* nobody has signed yet.                                                  *)
LEMMA NextClaims ==
  ASSUME SessionInv, Next
  PROVE  ClaimsMove
<1>0. TypeOK
  BY DEF SessionInv
<1>1. ASSUME NEW c \in Calls, IssueSign(c) PROVE ClaimsMove
  <2>1. PICK t \in Tokens : /\ claims[t].state = "unused"
                            /\ claims' = [claims EXCEPT ![t] = Signed(c, t)]
    BY <1>1 DEF IssueSign, NextToken
  <2>2. \A s \in Tokens \ {t} : claims'[s] = claims[s]
    BY <1>0, <2>1 DEF TypeOK
  <2>3. clock' = clock /\ clock \in Nat
    BY <1>0, <1>1 DEF IssueSign, TypeOK
  <2>. QED  BY <2>1, <2>2, <2>3 DEF ClaimsMove
<1>2. ASSUME NEW c \in Calls, IssueStore(c) PROVE ClaimsMove
  <2>1. call[c].token \in Tokens
    BY <1>2 DEF IssueStore, SessionInv, CallShape
  <2>2. \/ claims' = [claims EXCEPT ![call[c].token].state = "delivered"]
        \/ claims' = claims
    BY <1>2 DEF IssueStore
  <2>3. clock' = clock /\ clock \in Nat
    BY <1>0, <1>2 DEF IssueStore, TypeOK
  <2>. QED  BY <1>0, <2>1, <2>2, <2>3 DEF ClaimsMove, TypeOK, ClaimsType
<1>3. ASSUME UNCHANGED claims, clock' \in {clock, clock + 1} PROVE ClaimsMove
  BY <1>0, <1>3 DEF ClaimsMove, TypeOK
<1>4. ASSUME NEW c \in Calls, Continue(c) PROVE ClaimsMove
  BY <1>1, <1>2, <1>3, <1>4 DEF Continue, RegisterCreate, UserCreate,
     CreateConflict, LoginCompare, RefreshConsume, RefreshLoad, SeedUpdate,
     SeedCreate
<1>. QED
  BY <1>3, <1>4 DEF Next, Start, RegisterFind, LoginFind, RefreshVerify,
     UserCreateFind, SeedFind, Logout, RevokeAllForUser, DeleteExpired,
     Environment, SetStatus, DatabaseFailure, Crash, Tick

(* The history keeps what it has seen of a call that goes on, and sees the *)
(* accounts that are ACTIVE after the step.                                *)
LEMMA Seen ==
  ASSUME Observe, NEW c \in Calls, call'[c].pc # "idle"
  PROVE  /\ seen[c] \subseteq seen'[c]
         /\ \A u \in UserIds : users'[u].state = "ACTIVE" => u \in seen'[c]
BY DEF Observe

(* A call that does not move knows what it knew.                           *)
LEMMA CallStays ==
  ASSUME SessionInv, AccountInv, UsersMove, ClaimsMove, Observe, TypeOK',
         NEW c \in Calls, call'[c] = call[c]
  PROVE  CallKnows(c)'
<1>0. CallKnows(c) /\ CallShape(c) /\ call[c] \in CallType
  BY DEF AccountInv, SessionInv, TypeOK
<1>1. CASE call[c].pc \in {"compare", "issue", "store"}
  <2>1. call[c].user \in UserIds
    BY <1>0, <1>1 DEF CallShape
  <2>2. Known(call[c].user)' /\ call[c].roles \subseteq users'[call[c].user].roles
    BY <1>0, <1>1, <2>1 DEF CallKnows, UsersMove, SeedRoles
  <2>3. seen[c] \subseteq seen'[c]
    BY <1>1, Seen
  <2>4. call[c].pc = "store" =>
          /\ claims'[call[c].token].iat = claims[call[c].token].iat
          /\ call[c].at <= clock'
    <3>1. call[c].at \in Nat /\ clock \in Nat /\ clock' \in Nat
      BY <1>0 DEF CallType, SessionInv, TypeOK
    <3>2. call[c].pc = "store" => claims'[call[c].token].iat = claims[call[c].token].iat
      BY <1>0 DEF CallShape, ClaimsMove
    <3>3. call[c].pc = "store" => call[c].at <= clock
      BY <1>0 DEF CallKnows
    <3>4. clock <= clock'
      BY DEF ClaimsMove
    <3>. QED  BY <3>1, <3>2, <3>3, <3>4
  <2>. QED  BY <1>0, <1>1, <2>2, <2>3, <2>4 DEF CallKnows
<1>2. CASE call[c].pc = "seed" /\ call[c].user # None
  <2>1. call[c].user \in UserIds
    BY <1>0, <1>2 DEF CallType
  <2>2. Exists(call[c].user)'
    BY <1>0, <1>2, <2>1 DEF CallKnows, UsersMove, Exists, Known
  <2>3. SeedRoles(users'[call[c].user].roles) = SeedRoles(users[call[c].user].roles)
    BY <1>0, <1>2, <2>1 DEF CallKnows, UsersMove, SeedRoles, Exists, Known
  <2>. QED  BY <1>0, <1>2, <2>2, <2>3 DEF CallKnows
<1>3. CASE call[c].pc \notin {"compare", "issue", "store"}
           /\ ~(call[c].pc = "seed" /\ call[c].user # None)
  BY <1>0, <1>3 DEF CallKnows
<1>. QED  BY <1>1, <1>2, <1>3

(* Nothing is to be known at the other steps of a handler.                 *)
LEMMA PlainCall ==
  ASSUME NEW c, call'[c].pc \in {"idle", "hash", "create", "consume", "load"}
  PROVE  CallKnows(c)'
BY DEF CallKnows

(* A call that starts knows what it has read.                              *)
LEMMA StartKnows ==
  ASSUME SessionInv, AccountInv, NEW c \in Calls, Start(c)
  PROVE  CallKnows(c)'
<1>0. TypeOK /\ c \in DOMAIN call
  BY DEF SessionInv, TypeOK
<1>1. ASSUME NEW e \in Emails, NEW p \in Passwords, RegisterFind(c, e, p)
      PROVE  CallKnows(c)'
  BY <1>0, <1>1, PlainCall DEF RegisterFind, Become, IdleCall
<1>2. ASSUME NEW e \in Emails, NEW p \in Passwords, LoginFind(c, e, p)
      PROVE  CallKnows(c)'
  <2>1. PICK u \in UserIds :
          /\ Exists(u)
          /\ Become(c, [IdleCall EXCEPT !.pc = "compare", !.user = u,
                                        !.roles = users[u].roles,
                                        !.accepted = CredentialsAccepted(u, p)])
    BY <1>2 DEF LoginFind, FirstWithEmail, WithEmail
  <2>2. /\ call'[c].pc = "compare" /\ call'[c].user = u
        /\ call'[c].roles = users[u].roles
        /\ call'[c].accepted = CredentialsAccepted(u, p)
    BY <1>0, <2>1 DEF Become, IdleCall
  <2>3. UNCHANGED users /\ Observe
    BY <1>2 DEF LoginFind
  <2>4. call'[c].accepted => u \in seen'[c]
    BY <2>2, <2>3, Seen DEF CredentialsAccepted
  <2>. QED  BY <2>1, <2>2, <2>3, <2>4 DEF CallKnows, Known, Exists
<1>3. ASSUME NEW t \in Tokens, RefreshVerify(c, t) PROVE CallKnows(c)'
  BY <1>0, <1>3, PlainCall DEF RefreshVerify, Become, IdleCall
<1>4. ASSUME NEW t \in Tokens, NEW e \in Emails, UserCreateFind(c, t, e)
      PROVE  CallKnows(c)'
  BY <1>0, <1>4, PlainCall DEF UserCreateFind, Become, IdleCall
<1>5. ASSUME NEW p \in Passwords, SeedFind(c, p) PROVE CallKnows(c)'
  <2>. DEFINE found == CHOOSE u \in WithEmail(AdminEmail) : TRUE
  <2>1. /\ call'[c].pc = "seed"
        /\ call'[c].user = IF EmailTaken(AdminEmail) THEN found ELSE None
        /\ call'[c].roles = IF EmailTaken(AdminEmail)
                              THEN SeedRoles(users[found].roles)
                              ELSE SeedRoles({})
    BY <1>0, <1>5 DEF SeedFind, Become, IdleCall
  <2>2. EmailTaken(AdminEmail) => Exists(found)
    BY DEF EmailTaken, WithEmail
  <2>3. Persistent /\ UNCHANGED users
    BY <1>5 DEF SeedFind
  <2>. HIDE DEF found
  <2>. QED  BY <2>1, <2>2, <2>3 DEF CallKnows, Exists
<1>. QED  BY <1>1, <1>2, <1>3, <1>4, <1>5 DEF Start

(* A pending call that makes a step knows what its next step needs.        *)
LEMMA ContinueKnows ==
  ASSUME SessionInv, AccountInv, NEW c \in Calls, Continue(c)
  PROVE  CallKnows(c)'
<1>0. /\ TypeOK /\ c \in DOMAIN call /\ call[c] \in CallType
      /\ CallShape(c) /\ CallKnows(c)
  BY DEF SessionInv, TypeOK, AccountInv
<1>a. Finish(c) => CallKnows(c)'
  BY <1>0, PlainCall DEF Finish, Become, IdleCall
<1>1. CASE RegisterCreate(c)
  <2>1. PICK u \in UserIds :
          /\ users' = [users EXCEPT
               ![u] = NewUser(call[c].email, call[c].password, {"USER"})]
          /\ \/ Become(c, [IdleCall EXCEPT !.pc = "issue", !.user = u,
                                           !.roles = {"USER"}])
             \/ Finish(c)
    BY <1>1 DEF RegisterCreate
  <2>2. users'[u].state = "ACTIVE" /\ users'[u].roles = {"USER"}
    BY <1>0, <2>1 DEF TypeOK, NewUser
  <2>3. ASSUME ~Finish(c) PROVE CallKnows(c)'
    <3>1. /\ call'[c].pc = "issue" /\ call'[c].user = u
          /\ call'[c].roles = {"USER"}
      BY <1>0, <2>1, <2>3 DEF Become, IdleCall
    <3>2. u \in seen'[c]
      BY <1>1, <2>2, <3>1, Seen DEF RegisterCreate
    <3>. QED  BY <2>2, <3>1, <3>2 DEF CallKnows, Known
  <2>. QED  BY <1>a, <2>3
<1>2. CASE LoginCompare(c)
  <2>1. CASE call[c].accepted
    <3>. DEFINE next == [call[c] EXCEPT !.pc = "issue", !.accepted = FALSE]
    <3>a. /\ next.pc = "issue" /\ next.user = call[c].user
          /\ next.roles = call[c].roles
      BY <1>0 DEF CallType
    <3>b. Become(c, next)
      BY <1>2, <2>1 DEF LoginCompare
    <3>. HIDE DEF next
    <3>1. /\ call'[c].pc = "issue" /\ call'[c].user = call[c].user
          /\ call'[c].roles = call[c].roles
      BY <1>0, <3>a, <3>b DEF Become
    <3>2. call[c].pc = "compare" /\ UNCHANGED users /\ Observe
      BY <1>2 DEF LoginCompare
    <3>3. seen[c] \subseteq seen'[c]
      BY <3>1, <3>2, Seen
    <3>. QED  BY <1>0, <2>1, <3>1, <3>2, <3>3 DEF CallKnows, Known
  <2>. QED  BY <1>a, <1>2, <2>1 DEF LoginCompare
<1>3. CASE RefreshConsume(c)
  <2>1. \/ Become(c, [IdleCall EXCEPT !.pc = "load", !.parent = call[c].parent])
        \/ Finish(c)
    BY <1>3 DEF RefreshConsume
  <2>. DEFINE next == [IdleCall EXCEPT !.pc = "load", !.parent = call[c].parent]
  <2>a. next.pc = "load" /\ IdleCall.pc = "idle"
    BY DEF IdleCall
  <2>b. Become(c, next) \/ Become(c, IdleCall)
    BY <2>1 DEF Finish
  <2>. HIDE DEF next
  <2>2. call'[c].pc \in {"idle", "load"}
    BY <1>0, <2>a, <2>b DEF Become
  <2>. QED  BY <2>2, PlainCall
<1>4. CASE RefreshLoad(c)
  <2>. DEFINE u == claims[call[c].parent].user
  <2>1. CASE users[u].state = "ACTIVE"
    <3>0. u \in UserIds
      BY <1>0, <1>4 DEF RefreshLoad, CallShape, CallType, SessionInv, TokenShape,
         Delivered
    <3>. DEFINE next == [call[c] EXCEPT !.pc = "issue", !.user = u,
                                        !.roles = users[u].roles]
    <3>b. Become(c, next)
      BY <1>4, <2>1 DEF RefreshLoad
    <3>. HIDE DEF u
    <3>a. next.pc = "issue" /\ next.user = u /\ next.roles = users[u].roles
      BY <1>0 DEF CallType
    <3>. HIDE DEF next
    <3>1. /\ call'[c].pc = "issue" /\ call'[c].user = u
          /\ call'[c].roles = users[u].roles
      BY <1>0, <3>a, <3>b DEF Become
    <3>2. UNCHANGED users /\ Observe
      BY <1>4 DEF RefreshLoad
    <3>3. u \in seen'[c]
      BY <2>1, <3>0, <3>1, <3>2, Seen
    <3>. QED  BY <2>1, <3>1, <3>2, <3>3 DEF CallKnows, Known
  <2>. QED  BY <1>a, <1>4, <2>1 DEF RefreshLoad
<1>5. CASE IssueSign(c)
  <2>1. PICK t \in Tokens :
          /\ claims' = [claims EXCEPT ![t] = Signed(c, t)]
          /\ Become(c, [call[c] EXCEPT !.pc = "store", !.token = t, !.at = clock])
    BY <1>5 DEF IssueSign
  <2>2. /\ call'[c].pc = "store" /\ call'[c].token = t /\ call'[c].at = clock
        /\ call'[c].user = call[c].user /\ call'[c].roles = call[c].roles
    BY <1>0, <2>1 DEF Become, CallType
  <2>3. claims'[t].iat = Seconds(clock)
    BY <1>0, <2>1 DEF TypeOK, Signed
  <2>4. call[c].pc = "issue" /\ UNCHANGED <<users, clock>> /\ Observe
    BY <1>5 DEF IssueSign
  <2>5. seen[c] \subseteq seen'[c]
    BY <2>2, <2>4, Seen
  <2>6. clock \in Nat
    BY <1>0 DEF TypeOK
  <2>. QED  BY <1>0, <2>2, <2>3, <2>4, <2>5, <2>6 DEF CallKnows, Known
<1>. QED
  BY <1>a, <1>1, <1>2, <1>3, <1>4, <1>5 DEF Continue, UserCreate, CreateConflict,
     IssueStore, SeedUpdate, SeedCreate

(* Every step keeps what the calls know.                                   *)
LEMMA NextKnows ==
  ASSUME SessionInv, AccountInv, Next
  PROVE  \A d \in Calls : CallKnows(d)'
<1>0. UsersMove /\ ClaimsMove /\ TypeOK /\ TypeOK'
  BY NextMoves, NextClaims, NextInv DEF SessionInv
<1>1. Observe
  BY DEF Next, Start, RegisterFind, LoginFind, RefreshVerify, UserCreateFind,
     SeedFind, Continue, RegisterCreate, UserCreate, CreateConflict, LoginCompare,
     RefreshConsume, RefreshLoad, IssueSign, IssueStore, SeedUpdate, SeedCreate,
     Logout, RevokeAllForUser, DeleteExpired, Environment, SetStatus,
     DatabaseFailure, Crash, Tick
<1>2. ASSUME NEW c \in Calls, NEW l, Become(c, l), CallKnows(c)', NEW d \in Calls
      PROVE  CallKnows(d)'
  <2>1. CASE d # c
    <3>1. call'[d] = call[d]
      BY <1>0, <1>2, <2>1 DEF Become, TypeOK
    <3>. QED  BY <1>0, <1>1, <3>1, CallStays
  <2>. QED  BY <1>2, <2>1
<1>3. ASSUME NEW c \in Calls, Start(c), NEW d \in Calls PROVE CallKnows(d)'
  <2>1. PICK l : Become(c, l)
    BY <1>3 DEF Start, RegisterFind, LoginFind, RefreshVerify, UserCreateFind,
       SeedFind
  <2>. QED  BY <1>2, <1>3, <2>1, StartKnows
<1>4. ASSUME NEW c \in Calls, Continue(c), NEW d \in Calls PROVE CallKnows(d)'
  <2>1. PICK l : Become(c, l)
    BY <1>4 DEF Continue, RegisterCreate, UserCreate, CreateConflict,
       LoginCompare, RefreshConsume, RefreshLoad, IssueSign, IssueStore,
       SeedUpdate, SeedCreate, Finish
  <2>. QED  BY <1>2, <1>4, <2>1, ContinueKnows
<1>5. ASSUME UNCHANGED call, NEW d \in Calls PROVE CallKnows(d)'
  BY <1>0, <1>1, <1>5, CallStays
<1>6. ASSUME NEW c \in Calls, DatabaseFailure(c), NEW d \in Calls
      PROVE  CallKnows(d)'
  <2>1. Become(c, IdleCall) /\ CallKnows(c)'
    BY <1>0, <1>6, PlainCall DEF DatabaseFailure, Finish, Become, TypeOK, IdleCall
  <2>. QED  BY <1>2, <2>1
<1>7. ASSUME NEW S \in SUBSET Calls, Crash(S), NEW d \in Calls
      PROVE  CallKnows(d)'
  <2>1. call'[d] = IdleCall \/ call'[d] = call[d]
    BY <1>7 DEF Crash
  <2>2. call'[d] = IdleCall => CallKnows(d)'
    BY PlainCall DEF IdleCall
  <2>. QED  BY <1>0, <1>1, <2>1, <2>2, CallStays
<1>. QED
  BY <1>3, <1>4, <1>5, <1>6, <1>7 DEF Next, Logout, RevokeAllForUser,
     DeleteExpired, Environment, SetStatus, Tick

-----------------------------------------------------------------------------
(* Tokens, and the time they are good for.                                 *)

(* Cutting a time to whole seconds takes off less than a second.           *)
LEMMA SecondsBound ==
  ASSUME NEW time \in Nat
  PROVE  /\ Seconds(time) \in Nat
         /\ Seconds(time) * TicksPerSecond <= time
         /\ time < (Seconds(time) + 1) * TicksPerSecond
<1>1. ASSUME NEW n \in Nat \ {0}
      PROVE  (time \div n) * n <= time /\ time < (time \div n + 1) * n
  BY SMT
<1>. QED  BY <1>1, SecondsNat DEF Seconds

(* More seconds are more ticks.                                            *)
LEMMA TicksMonotone ==
  ASSUME NEW a \in Nat, NEW b \in Nat, a <= b
  PROVE  a * TicksPerSecond <= b * TicksPerSecond
BY SMT

(* An expiry counted from a moment not before the signing covers the JWT.  *)
LEMMA ExpiryCovers ==
  ASSUME NEW at \in Nat, NEW now \in Nat, at <= now
  PROVE  (Seconds(at) + RefreshTtl) * TicksPerSecond <= SessionExpiry(now)
<1>1. Seconds(at) \in Nat /\ Seconds(at) * TicksPerSecond <= at
  BY SecondsBound
<1>2. \A s \in Nat : (s + RefreshTtl) * TicksPerSecond
                      = s * TicksPerSecond + RefreshTtl * TicksPerSecond
  BY SMT
<1>3. /\ Seconds(at) * TicksPerSecond \in Nat
      /\ RefreshTtl * TicksPerSecond \in Nat
  BY <1>1, SMT
<1>. HIDE TimeAssumption
<1>. QED  BY <1>1, <1>2, <1>3 DEF SessionExpiry

(* While the JWT verifies, a time that covers it has not come.             *)
LEMMA ValidIsEarly ==
  ASSUME NEW time \in Nat, NEW iat \in Nat, NEW expiry \in Nat,
         Seconds(time) < iat + RefreshTtl,
         (iat + RefreshTtl) * TicksPerSecond <= expiry
  PROVE  time < expiry
<1>1. Seconds(time) \in Nat /\ time < (Seconds(time) + 1) * TicksPerSecond
  BY SecondsBound
<1>2. (Seconds(time) + 1) * TicksPerSecond <= (iat + RefreshTtl) * TicksPerSecond
  BY <1>1, TicksMonotone
<1>3. /\ (Seconds(time) + 1) * TicksPerSecond \in Nat
      /\ (iat + RefreshTtl) * TicksPerSecond \in Nat
  BY <1>1, SMT
<1>. HIDE TimeAssumption
<1>. QED  BY <1>1, <1>2, <1>3

(* What a step may do to a stored session: end it, or store one for the    *)
(* token that a call has signed.                                           *)
LEMMA SessionMoves ==
  ASSUME SessionInv, Next, NEW t \in Tokens
  PROVE  \/ /\ sessions'[t].expiresAt = sessions[t].expiresAt
            /\ sessions'[t].state # "none" <=> sessions[t].state # "none"
         \/ \E c \in Calls : \E now \in ArgumentTimes(c) :
              /\ call[c].pc = "store" /\ t = call[c].token
              /\ sessions'[t].state = "live"
              /\ sessions'[t].expiresAt = SessionExpiry(now)
<1>. DEFINE Kept == /\ sessions'[t].expiresAt = sessions[t].expiresAt
                    /\ sessions'[t].state # "none" <=> sessions[t].state # "none"
<1>0. TypeOK /\ sessions[t] \in SessionType
  BY DEF SessionInv, TypeOK
<1>1. ASSUME UNCHANGED sessions PROVE Kept
  BY <1>1
<1>2. ASSUME NEW S, Revoke(S) PROVE Kept
  BY <1>0, <1>2 DEF Revoke, SessionType
<1>3. ASSUME NEW before \in 0 .. clock, DeleteExpired(before) PROVE Kept
  BY <1>0, <1>3 DEF DeleteExpired, SessionType
<1>4. ASSUME NEW S \in SUBSET Calls, Crash(S) PROVE Kept
  BY <1>0, <1>4 DEF Crash, SessionType
<1>5. ASSUME NEW c \in Calls, IssueStore(c), ~Kept
      PROVE  \E now \in ArgumentTimes(c) :
               /\ call[c].pc = "store" /\ t = call[c].token
               /\ sessions'[t].state = "live"
               /\ sessions'[t].expiresAt = SessionExpiry(now)
  <2>1. PICK now \in ArgumentTimes(c) :
          sessions' = [sessions EXCEPT ![call[c].token] =
            [state |-> "live", user |-> call[c].user,
             expiresAt |-> SessionExpiry(now)]]
    BY <1>5 DEF IssueStore
  <2>2. t = call[c].token
    BY <1>0, <1>5, <2>1 DEF TypeOK
  <2>3. /\ sessions'[t].expiresAt = SessionExpiry(now)
        /\ sessions'[t].state = "live"
    BY <1>0, <2>1, <2>2 DEF TypeOK
  <2>. QED  BY <1>5, <2>2, <2>3 DEF IssueStore
<1>6. ASSUME NEW c \in Calls, Start(c) PROVE Kept
  BY <1>1, <1>6 DEF Start, RegisterFind, LoginFind, RefreshVerify, UserCreateFind,
     SeedFind
<1>7. ASSUME NEW c \in Calls, Continue(c), ~IssueStore(c) PROVE Kept
  BY <1>1, <1>2, <1>7 DEF Continue, RegisterCreate, UserCreate, CreateConflict,
     LoginCompare, RefreshConsume, RefreshLoad, IssueSign, SeedUpdate, SeedCreate
<1>. HIDE DEF Kept
<1>8. Kept \/ \E c \in Calls : IssueStore(c) /\ ~Kept
  BY <1>1, <1>2, <1>3, <1>4, <1>6, <1>7 DEF Next, Logout, RevokeAllForUser,
     Environment, SetStatus, DatabaseFailure, Tick
<1>. QED  BY <1>5, <1>8 DEF Kept

(* Every step keeps what is known of tokens.                               *)
LEMMA NextTokens ==
  ASSUME SessionInv, AccountInv, Next
  PROVE  \A t \in Tokens : TokenKnows(t)'
<1>. SUFFICES ASSUME NEW t \in Tokens PROVE TokenKnows(t)'
  OBVIOUS
<1>0. /\ UsersMove /\ ClaimsMove /\ TypeOK /\ TypeOK'
      /\ TokenShape(t) /\ TokenKnows(t)
  BY NextMoves, NextClaims, NextInv DEF SessionInv, AccountInv
<1>1. claims'[t].state # "unused" =>
        /\ Known(claims[t].user)'
        /\ claims'[t].roles \subseteq users'[claims'[t].user].roles
  <2>1. CASE claims[t].state # "unused"
    <3>1. /\ claims'[t].user = claims[t].user /\ claims'[t].roles = claims[t].roles
          /\ claims[t].user \in UserIds
      BY <1>0, <2>1 DEF ClaimsMove, TokenShape
    <3>. QED  BY <1>0, <2>1, <3>1 DEF TokenKnows, UsersMove, SeedRoles, Known
  <2>2. ASSUME NEW c \in Calls, IssueSign(c), claims[t].state = "unused",
               claims'[t].state # "unused"
        PROVE  /\ Known(claims[t].user)'
               /\ claims'[t].roles \subseteq users'[claims'[t].user].roles
    <3>1. PICK s \in Tokens : claims' = [claims EXCEPT ![s] = Signed(c, s)]
      BY <2>2 DEF IssueSign
    <3>2. s = t
      BY <1>0, <2>2, <3>1 DEF TypeOK
    <3>3. claims'[t].user = call[c].user /\ claims'[t].roles = call[c].roles
      BY <1>0, <3>1, <3>2 DEF TypeOK, Signed
    <3>4. /\ Known(call[c].user)
          /\ call[c].roles \subseteq users[call[c].user].roles
          /\ UNCHANGED users
      BY <2>2 DEF IssueSign, AccountInv, CallKnows
    <3>. QED  BY <3>3, <3>4 DEF Known
  <2>3. ASSUME NEW c \in Calls, IssueStore(c), claims[t].state = "unused"
        PROVE  claims'[t].state = "unused"
    <3>1. call[c].token # t
      BY <2>3 DEF IssueStore, SessionInv, CallShape
    <3>. QED  BY <1>0, <2>3, <3>1 DEF IssueStore, TypeOK
  <2>4. CASE UNCHANGED claims /\ claims[t].state = "unused"
    BY <2>4
  <2>5. ASSUME NEW c \in Calls, Continue(c), ~IssueSign(c), ~IssueStore(c)
        PROVE  UNCHANGED claims
    BY <2>5 DEF Continue, RegisterCreate, UserCreate, CreateConflict, LoginCompare,
       RefreshConsume, RefreshLoad, SeedUpdate, SeedCreate
  <2>6. UNCHANGED claims \/ \E c \in Calls : IssueSign(c) \/ IssueStore(c)
    BY <2>5 DEF Next, Start, RegisterFind, LoginFind, RefreshVerify,
       UserCreateFind, SeedFind, Logout, RevokeAllForUser, DeleteExpired,
       Environment, SetStatus, DatabaseFailure, Crash, Tick
  <2>. QED  BY <2>1, <2>2, <2>3, <2>4, <2>6
<1>2. sessions'[t].state # "none" =>
        (claims'[t].iat + RefreshTtl) * TicksPerSecond <= sessions'[t].expiresAt
  <2>1. CASE /\ sessions'[t].expiresAt = sessions[t].expiresAt
             /\ sessions'[t].state # "none" <=> sessions[t].state # "none"
    <3>1. sessions[t].state # "none" => claims'[t].iat = claims[t].iat
      BY <1>0 DEF TokenShape, ClaimsMove
    <3>. QED  BY <1>0, <2>1, <3>1 DEF TokenKnows
  <2>2. ASSUME NEW c \in Calls, NEW now \in ArgumentTimes(c),
               call[c].pc = "store", t = call[c].token,
               sessions'[t].expiresAt = SessionExpiry(now)
        PROVE  (claims'[t].iat + RefreshTtl) * TicksPerSecond
                 <= sessions'[t].expiresAt
    <3>1. claims[t].iat = Seconds(call[c].at) /\ call[c].at <= clock
      BY <2>2 DEF AccountInv, CallKnows
    <3>2. claims'[t].iat = claims[t].iat
      BY <1>0, <2>2 DEF SessionInv, CallShape, ClaimsMove
    <3>3. call[c].at \in Nat /\ clock \in Nat
      BY <1>0 DEF TypeOK, CallType
    <3>4. now \in Nat /\ call[c].at <= now
      BY <2>2, <3>1, <3>3 DEF ArgumentTimes
    <3>5. (Seconds(call[c].at) + RefreshTtl) * TicksPerSecond <= SessionExpiry(now)
      BY <3>3, <3>4, ExpiryCovers
    <3>. QED  BY <2>2, <3>1, <3>2, <3>5
  <2>. QED  BY <2>1, <2>2, SessionMoves
<1>. QED  BY <1>1, <1>2 DEF TokenKnows

-----------------------------------------------------------------------------
(* The initial state satisfies the invariant of accounts and time.         *)
LEMMA InitAccounts == Init => AccountInv
<1>. SUFFICES ASSUME Init PROVE AccountInv
  OBVIOUS
<1>1. \A c \in Calls : CallKnows(c)
  BY DEF Init, CallKnows, IdleCall
<1>2. \A t \in Tokens : TokenKnows(t)
  BY DEF Init, TokenKnows, NoClaims, NoSession
<1>3. EmailUnique
  BY DEF Init, EmailUnique, Exists, NoUser
<1>. QED  BY <1>1, <1>2, <1>3 DEF AccountInv

(* Every step preserves it, and so does a stuttering one.                  *)
LEMMA AccountStep == SessionInv /\ AccountInv /\ [Next]_vars => AccountInv'
<1>. SUFFICES ASSUME SessionInv, AccountInv, [Next]_vars PROVE AccountInv'
  OBVIOUS
<1>1. CASE UNCHANGED vars
  <2>1. \A c \in Calls : CallKnows(c)'
    BY <1>1 DEF AccountInv, CallKnows, Known, Exists, vars
  <2>2. \A t \in Tokens : TokenKnows(t)'
    BY <1>1 DEF AccountInv, TokenKnows, Known, vars
  <2>3. Persistent => EmailUnique'
    BY <1>1 DEF AccountInv, EmailUnique, Exists, vars
  <2>. QED  BY <2>1, <2>2, <2>3 DEF AccountInv
<1>2. CASE Next
  <2>1. UsersMove /\ TypeOK
    BY <1>2, NextMoves DEF SessionInv
  <2>. QED  BY <1>2, <2>1, NextKnows, NextTokens, EmailStep DEF AccountInv
<1>. QED  BY <1>1, <1>2

(* What is known of accounts and of time holds in every reachable state.   *)
THEOREM AccountInvariance == Spec => []AccountInv
BY InitAccounts, AccountStep, SessionInvariance, PTL DEF Spec

(* Tokens are issued only to accounts that were ACTIVE during the request  *)
(* (auth.service.ts, register, login, refresh), for any interleaving.      *)
THEOREM TokensGoToActiveAccounts == Spec => []IssuedToActive
<1>1. AccountInv => IssuedToActive
  BY DEF AccountInv, CallKnows, IssuedToActive
<1>. QED  BY <1>1, AccountInvariance, PTL

(* With a unique index no two accounts have one e-mail, however many       *)
(* registrations, creations and runs of seedAdmin race.                    *)
THEOREM EmailsStayUnique ==
  ASSUME Persistent
  PROVE  Spec => []EmailUnique
<1>1. AccountInv => EmailUnique
  BY DEF AccountInv
<1>. QED  BY <1>1, AccountInvariance, PTL

(* No token that a client has claims a role its account does not have.     *)
THEOREM TokensClaimHeldRoles == Spec => []TokenRolesHeld
<1>1. AccountInv => TokenRolesHeld
  BY DEF AccountInv, TokenKnows, TokenRolesHeld, Delivered
<1>. QED  BY <1>1, AccountInvariance, PTL

(* A live session does not expire while its JWT verifies, although one is  *)
(* counted in ticks and the other in whole seconds.                        *)
THEOREM SessionsOutliveJwts == Spec => []SessionOutlivesJwt
<1>1. SessionInv /\ AccountInv => SessionOutlivesJwt
  <2>. SUFFICES ASSUME SessionInv, AccountInv, NEW t \in Tokens, Live(t),
                       RefreshJwtValid(t, clock)
                PROVE  sessions[t].expiresAt > clock
    BY DEF SessionOutlivesJwt
  <2>1. /\ clock \in Nat /\ claims[t].iat \in Nat
        /\ sessions[t].expiresAt \in Nat
    BY DEF SessionInv, TypeOK, ClaimsType, SessionType
  <2>2. /\ Seconds(clock) < claims[t].iat + RefreshTtl
        /\ (claims[t].iat + RefreshTtl) * TicksPerSecond <= sessions[t].expiresAt
    BY DEF RefreshJwtValid, Live, AccountInv, TokenKnows
  <2>3. clock < sessions[t].expiresAt
    BY <2>1, <2>2, ValidIsEarly
  <2>. QED  BY <2>1, <2>3
<1>. QED  BY <1>1, SessionInvariance, AccountInvariance, PTL

=============================================================================
