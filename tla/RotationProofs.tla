--------------------------- MODULE RotationProofs ---------------------------
(***************************************************************************)
(* AuthSessions implements RotatingTokens, for any number of calls,        *)
(* accounts and tokens: every step is an Open, a Begin, an End or a Close  *)
(* of families of tokens, or is not visible in them.  FamilyInv is what    *)
(* SessionInv lacks: a refreshed token descends from a login whose session *)
(* was stored.                                                             *)
(***************************************************************************)
EXTENDS AuthSessionsProofs

USE IdAssumption, NoneAssumption, EmailAssumption, TimeAssumption,
    PersistentAssumption

-----------------------------------------------------------------------------
(* Rotation implements RotatingTokens.                                     *)

(* A login whose session has been stored stays one.                        *)
LEMMA OpenedStays ==
  ASSUME SessionInv, Next, NEW f \in Tokens, Opened(f)
  PROVE  Opened(f)'
<1>1. claims[f].state # "unused"
  BY DEF SessionInv, TokenShape, Opened
<1>2. claims'[f].root = f
  BY <1>1, NextClaims DEF ClaimsMove, Opened
<1>3. sessions'[f].state # "none"
  BY SessionMoves DEF Opened
<1>. QED  BY <1>2, <1>3 DEF Opened

(* A token whose session was stored is of a login whose session was.       *)
LEMMA FamilyOpened ==
  ASSUME SessionInv, FamilyInv, NEW t \in Tokens, sessions[t].state # "none"
  PROVE  claims[t].root \in Tokens /\ Opened(claims[t].root)
<1>1. claims[t].state # "unused" /\ claims[t].root \in Tokens
  BY DEF SessionInv, TokenShape
<1>2. CASE claims[t].root = t
  BY <1>2 DEF Opened
<1>3. CASE claims[t].root # t
  BY <1>1, <1>3 DEF FamilyInv
<1>. QED  BY <1>1, <1>2, <1>3

(* So is a refresh that goes on.                                           *)
LEMMA RefreshingOpened ==
  ASSUME SessionInv, FamilyInv, NEW c \in Calls, call[c].parent # None
  PROVE  Family(c) \in Tokens /\ Opened(Family(c))
<1>1. call[c].parent \in Tokens /\ sessions[call[c].parent].state # "none"
  BY DEF SessionInv, TypeOK, CallType, CallShape, DeliveredIsStored
<1>. QED  BY <1>1, FamilyOpened DEF Family

(* Every step keeps descendants of a login to logins whose session was     *)
(* stored: a refresh descends from a session it has consumed.              *)
LEMMA FamilyStep ==
  ASSUME SessionInv, FamilyInv, Next
  PROVE  FamilyInv'
<1>. SUFFICES ASSUME NEW t \in Tokens, claims'[t].state # "unused",
                     claims'[t].root # t
              PROVE  Opened(claims[t].root)'
  BY DEF FamilyInv
<1>0. TypeOK /\ ClaimsMove
  BY NextClaims DEF SessionInv
<1>1. CASE claims[t].state # "unused"
  <2>1. PICK f \in Tokens : f = claims[t].root
    BY <1>1 DEF SessionInv, TokenShape
  <2>2. claims'[t].root = f
    BY <1>0, <1>1, <2>1 DEF ClaimsMove
  <2>3. Opened(f)
    BY <1>1, <2>1, <2>2 DEF FamilyInv
  <2>4. Opened(f)'
    BY <2>3, OpenedStays
  <2>. QED  BY <2>2, <2>4 DEF Opened
<1>2. CASE claims[t].state = "unused"
  <2>1. PICK c \in Calls : IssueSign(c) \/ IssueStore(c)
    <3>1. ASSUME NEW c \in Calls, Continue(c), ~IssueSign(c), ~IssueStore(c)
          PROVE  UNCHANGED claims
      BY <3>1 DEF Continue, RegisterCreate, UserCreate, CreateConflict,
         LoginCompare, RefreshConsume, RefreshLoad, SeedUpdate, SeedCreate
    <3>. QED
      BY <1>2, <3>1 DEF Next, Start, RegisterFind, LoginFind, RefreshVerify,
         UserCreateFind, SeedFind, Logout, RevokeAllForUser, DeleteExpired,
         Environment, SetStatus, DatabaseFailure, Crash, Tick
  <2>2. ~IssueStore(c)
    <3>1. SUFFICES ASSUME IssueStore(c) PROVE claims'[t].state = "unused"
      OBVIOUS
    <3>2. call[c].token # t
      BY <1>2, <3>1 DEF IssueStore, SessionInv, CallShape
    <3>. QED  BY <1>0, <1>2, <3>1, <3>2 DEF IssueStore, TypeOK
  <2>3. PICK s \in Tokens : claims' = [claims EXCEPT ![s] = Signed(c, s)]
    BY <2>1, <2>2 DEF IssueSign
  <2>4. claims'[t].root = Root(c, t)
    BY <1>0, <1>2, <2>3 DEF TypeOK, Signed
  <2>5. call[c].parent # None /\ claims'[t].root = Family(c)
    BY <2>4 DEF Root, Family
  <2>6. PICK f \in Tokens : f = Family(c) /\ Opened(f)
    BY <2>5, RefreshingOpened
  <2>7. Opened(f)'
    BY <2>6, OpenedStays
  <2>. QED  BY <2>5, <2>6, <2>7 DEF Opened
<1>. QED  BY <1>1, <1>2

(* Hence it holds in every reachable state.                                *)
LEMMA FamilyInvariance == Spec => []FamilyInv
<1>1. Init => FamilyInv
  BY DEF Init, FamilyInv, NoClaims
<1>2. SessionInv /\ FamilyInv /\ [Next]_vars => FamilyInv'
  <2>1. UNCHANGED vars /\ FamilyInv => FamilyInv'
    BY DEF FamilyInv, Opened, vars
  <2>. QED  BY <2>1, FamilyStep
<1>. QED  BY <1>1, <1>2, SessionInvariance, PTL DEF Spec

(* The family of a live session has it for its token, and no refresh.      *)
LEMMA LiveFamily ==
  ASSUME SessionInv, NEW t \in Tokens, NEW f \in Tokens, Live(t),
         claims[t].root = f
  PROVE  /\ LiveIn(f) = {t} /\ RefreshingIn(f) = {}
         /\ FamilyPhase[f] = "live" /\ FamilyToken[f] = t
<1>1. LiveIn(f) = {t} /\ RefreshingIn(f) = {}
  BY DEF LiveIn, RefreshingIn, SessionInv, OneSessionPerLogin
<1>2. FamilyPhase[f] = "live"
  BY <1>1 DEF FamilyPhase
<1>3. FamilyToken[f] = t
  BY <1>1 DEF FamilyToken
<1>. QED  BY <1>1, <1>2, <1>3

(* The other families have no token, and a phase of their own.             *)
LEMMA OtherFamily ==
  ASSUME NEW f \in Tokens, LiveIn(f) = {}
  PROVE  /\ FamilyToken[f] = None
         /\ RefreshingIn(f) # {} => FamilyPhase[f] = "rotating"
         /\ RefreshingIn(f) = {} /\ Opened(f) => FamilyPhase[f] = "closed"
         /\ RefreshingIn(f) = {} /\ ~Opened(f) => FamilyPhase[f] = "new"
<1>1. FamilyToken[f] = None
  BY DEF FamilyToken
<1>2. LiveIn(f) \cup RefreshingIn(f) = RefreshingIn(f)
  OBVIOUS
<1>3. FamilyPhase[f] =
        CASE LiveIn(f) # {} -> "live"
          [] LiveIn(f) = {} /\ RefreshingIn(f) # {} -> "rotating"
          [] RefreshingIn(f) = {} /\ Opened(f) -> "closed"
          [] OTHER -> "new"
  BY <1>2 DEF FamilyPhase
<1>4. ASSUME RefreshingIn(f) # {} PROVE FamilyPhase[f] = "rotating"
  BY <1>3, <1>4
<1>5. ASSUME RefreshingIn(f) = {}, Opened(f) PROVE FamilyPhase[f] = "closed"
  BY <1>3, <1>5
<1>6. ASSUME RefreshingIn(f) = {}, ~Opened(f) PROVE FamilyPhase[f] = "new"
  BY <1>3, <1>6
<1>. QED  BY <1>1, <1>4, <1>5, <1>6

(* The same of the state after a step.                                     *)
LEMMA LiveFamilyNext ==
  ASSUME SessionInv', NEW t \in Tokens, NEW f \in Tokens, Live(t)',
         claims'[t].root = f
  PROVE  /\ LiveIn(f)' = {t} /\ RefreshingIn(f)' = {}
         /\ FamilyPhase'[f] = "live" /\ FamilyToken'[f] = t
<1>1. LiveIn(f)' = {t} /\ RefreshingIn(f)' = {}
  BY DEF LiveIn, RefreshingIn, SessionInv, OneSessionPerLogin
<1>2. FamilyPhase'[f] = "live"
  BY <1>1 DEF FamilyPhase
<1>3. FamilyToken'[f] = t
  BY <1>1 DEF FamilyToken
<1>. QED  BY <1>1, <1>2, <1>3

(* The same of the state after a step.                                     *)
LEMMA OtherFamilyNext ==
  ASSUME NEW f \in Tokens, LiveIn(f)' = {}
  PROVE  /\ FamilyToken'[f] = None
         /\ RefreshingIn(f)' # {} => FamilyPhase'[f] = "rotating"
         /\ RefreshingIn(f)' = {} /\ Opened(f)' => FamilyPhase'[f] = "closed"
         /\ RefreshingIn(f)' = {} /\ ~Opened(f)' => FamilyPhase'[f] = "new"
<1>1. FamilyToken'[f] = None
  BY DEF FamilyToken
<1>2. LiveIn(f)' \cup RefreshingIn(f)' = RefreshingIn(f)'
  OBVIOUS
<1>3. FamilyPhase'[f] =
        CASE LiveIn(f)' # {} -> "live"
          [] LiveIn(f)' = {} /\ RefreshingIn(f)' # {} -> "rotating"
          [] RefreshingIn(f)' = {} /\ Opened(f)' -> "closed"
          [] OTHER -> "new"
  BY <1>2 DEF FamilyPhase
<1>4. ASSUME RefreshingIn(f)' # {} PROVE FamilyPhase'[f] = "rotating"
  BY <1>3, <1>4
<1>5. ASSUME RefreshingIn(f)' = {}, Opened(f)' PROVE FamilyPhase'[f] = "closed"
  BY <1>3, <1>5
<1>6. ASSUME RefreshingIn(f)' = {}, ~Opened(f)' PROVE FamilyPhase'[f] = "new"
  BY <1>3, <1>6
<1>. QED  BY <1>1, <1>4, <1>5, <1>6

(* A family whose members, refreshes and login stay as they are stays too. *)
LEMMA FamilyStays ==
  ASSUME NEW f \in Tokens, LiveIn(f)' = LiveIn(f),
         RefreshingIn(f)' = RefreshingIn(f), Opened(f)' <=> Opened(f)
  PROVE  FamilyPhase'[f] = FamilyPhase[f] /\ FamilyToken'[f] = FamilyToken[f]
<1>1. FamilyToken'[f] = FamilyToken[f]
  BY DEF FamilyToken
<1>2. CASE LiveIn(f) # {}
  <2>1. FamilyPhase[f] = "live"
    BY <1>2 DEF FamilyPhase
  <2>2. LiveIn(f)' # {}
    BY <1>2
  <2>3. FamilyPhase'[f] = "live"
    BY <2>2 DEF FamilyPhase
  <2>. QED  BY <1>1, <2>1, <2>3
<1>3. CASE LiveIn(f) = {}
  BY <1>3, OtherFamily, OtherFamilyNext
<1>. QED  BY <1>1, <1>2, <1>3

(* Phase and token of the families are functions.                          *)
LEMMA FamilyFunctions ==
  /\ FamilyPhase = [f \in Tokens |-> FamilyPhase[f]]
  /\ FamilyToken = [f \in Tokens |-> FamilyToken[f]]
  /\ FamilyPhase' = [f \in Tokens |-> FamilyPhase'[f]]
  /\ FamilyToken' = [f \in Tokens |-> FamilyToken'[f]]
BY DEF FamilyPhase, FamilyToken

(* Sessions that end and refreshes that break off close families.          *)
LEMMA EndingCloses ==
  ASSUME SessionInv, SessionInv', FamilyInv,
         \A t \in Tokens : claims'[t].root = claims[t].root,
         \A t \in Tokens : Live(t)' => Live(t),
         \A t \in Tokens : Ended(t)' <=> Ended(t) \/ (Live(t) /\ ~Live(t)'),
         \A t \in Tokens : sessions'[t].state # "none" <=> sessions[t].state # "none",
         \A c \in Calls : Refreshing(c)' => Refreshing(c) /\ Family(c)' = Family(c)
  PROVE  Rotation!Next
<1>. DEFINE F == {f \in Tokens : /\ FamilyPhase[f] \in {"live", "rotating"}
                                 /\ FamilyPhase'[f] = "closed"}
<1>1. \A f \in Tokens : /\ LiveIn(f)' \subseteq LiveIn(f)
                        /\ RefreshingIn(f)' \subseteq RefreshingIn(f)
                        /\ Opened(f)' <=> Opened(f)
  BY DEF LiveIn, RefreshingIn, Opened
<1>2. ASSUME NEW f \in Tokens, NEW t \in LiveIn(f)
      PROVE  /\ FamilyPhase[f] = "live" /\ FamilyToken[f] = t
             /\ \/ /\ t \in LiveIn(f)' /\ FamilyPhase'[f] = "live"
                   /\ FamilyToken'[f] = t
                \/ /\ t \notin LiveIn(f)' /\ FamilyPhase'[f] = "closed"
                   /\ FamilyToken'[f] = None
  <2>1. t \in Tokens /\ Live(t) /\ claims[t].root = f
    BY <1>2 DEF LiveIn
  <2>2. /\ LiveIn(f) = {t} /\ RefreshingIn(f) = {}
        /\ FamilyPhase[f] = "live" /\ FamilyToken[f] = t
    BY <2>1, LiveFamily
  <2>3. Opened(f)
    BY <2>1, FamilyOpened DEF Live
  <2>4. CASE t \in LiveIn(f)'
    <3>1. Live(t)' /\ claims'[t].root = f
      BY <2>4 DEF LiveIn
    <3>. QED  BY <2>1, <2>2, <2>4, <3>1, LiveFamilyNext
  <2>5. CASE t \notin LiveIn(f)'
    <3>1. LiveIn(f)' = {} /\ RefreshingIn(f)' = {} /\ Opened(f)'
      BY <1>1, <2>2, <2>3, <2>5
    <3>. QED  BY <2>2, <2>5, <3>1, OtherFamilyNext
  <2>. QED  BY <2>4, <2>5
<1>3. ASSUME NEW f \in Tokens, LiveIn(f) = {}
      PROVE  /\ FamilyToken[f] = None /\ FamilyToken'[f] = None
             /\ FamilyPhase[f] # "live"
             /\ \/ FamilyPhase'[f] = FamilyPhase[f]
                \/ FamilyPhase[f] = "rotating" /\ FamilyPhase'[f] = "closed"
  <2>1. LiveIn(f)' = {}
    BY <1>1, <1>3
  <2>2. CASE RefreshingIn(f)' # {}
    BY <1>1, <1>3, <2>1, <2>2, OtherFamily, OtherFamilyNext
  <2>3. CASE RefreshingIn(f)' = {} /\ RefreshingIn(f) # {}
    <3>1. PICK c \in Calls : Refreshing(c) /\ Family(c) = f
      BY <2>3 DEF RefreshingIn
    <3>2. Opened(f)
      BY <3>1, RefreshingOpened DEF Refreshing
    <3>. QED  BY <1>1, <1>3, <2>1, <2>3, <3>2, OtherFamily, OtherFamilyNext
  <2>4. CASE RefreshingIn(f)' = {} /\ RefreshingIn(f) = {}
    BY <1>1, <1>3, <2>1, <2>4, OtherFamily, OtherFamilyNext
  <2>. QED  BY <2>2, <2>3, <2>4
<1>4. \A f \in F : FamilyPhase[f] \in {"live", "rotating"}
  OBVIOUS
<1>5. FamilyPhase' = [f \in Tokens |-> IF f \in F THEN "closed" ELSE FamilyPhase[f]]
  <2>1. ASSUME NEW f \in Tokens
        PROVE  FamilyPhase'[f] = IF f \in F THEN "closed" ELSE FamilyPhase[f]
    BY <1>2, <1>3
  <2>. HIDE DEF F
  <2>. QED  BY <2>1, FamilyFunctions
<1>6. FamilyToken' = [f \in Tokens |-> IF f \in F THEN None ELSE FamilyToken[f]]
  <2>1. ASSUME NEW f \in Tokens
        PROVE  FamilyToken'[f] = IF f \in F THEN None ELSE FamilyToken[f]
    <3>1. CASE LiveIn(f) = {}
      BY <1>3, <3>1
    <3>2. CASE LiveIn(f) # {}
      <4>1. PICK t \in LiveIn(f) : TRUE
        BY <3>2
      <4>. QED  BY <1>2, <4>1
    <3>. QED  BY <3>1, <3>2
  <2>. HIDE DEF F
  <2>. QED  BY <2>1, FamilyFunctions
<1>7. SpentTokens' = SpentTokens \cup
        {FamilyToken[f] : f \in {g \in F : FamilyPhase[g] = "live"}}
  <2>1. ASSUME NEW t \in Tokens, Live(t), ~Live(t)'
        PROVE  \E f \in F : FamilyPhase[f] = "live" /\ FamilyToken[f] = t
    <3>1. PICK f \in Tokens : f = claims[t].root
      BY <2>1, FamilyOpened DEF Live
    <3>2. t \in LiveIn(f) /\ t \notin LiveIn(f)'
      BY <2>1, <3>1 DEF LiveIn
    <3>. QED  BY <1>2, <3>2
  <2>2. ASSUME NEW f \in F, FamilyPhase[f] = "live"
        PROVE  /\ FamilyToken[f] \in Tokens /\ Live(FamilyToken[f])
               /\ ~sessions'[FamilyToken[f]].state = "live"
    <3>1. PICK t \in LiveIn(f) : TRUE
      BY <1>3, <2>2
    <3>2. FamilyToken[f] = t /\ t \notin LiveIn(f)'
      BY <1>2, <2>2, <3>1
    <3>3. t \in Tokens /\ Live(t) /\ ~Live(t)'
      BY <3>1, <3>2 DEF LiveIn
    <3>. QED  BY <3>2, <3>3 DEF Live
  <2>. HIDE DEF F
  <2>3. ASSUME NEW t \in SpentTokens'
        PROVE  t \in SpentTokens \cup
                 {FamilyToken[f] : f \in {g \in F : FamilyPhase[g] = "live"}}
    BY <2>1, ZenonT(40) DEF SpentTokens
  <2>4. ASSUME NEW f \in F, FamilyPhase[f] = "live"
        PROVE  FamilyToken[f] \in SpentTokens'
    BY <2>2, <2>4 DEF SpentTokens, Live
  <2>5. SpentTokens \subseteq SpentTokens'
    BY DEF SpentTokens
  <2>. QED  BY <2>3, <2>4, <2>5
<1>8. F \in SUBSET Tokens
  OBVIOUS
<1>. HIDE DEF F
<1>9. Rotation!Close(F)
  BY <1>4, <1>5, <1>6, <1>7 DEF Rotation!Close
<1>. QED  BY <1>8, <1>9 DEF Rotation!Next

(* A granted refresh begins the rotation of its family.                    *)
LEMMA ConsumeBegins ==
  ASSUME SessionInv, SessionInv', NEW c \in Calls, NEW t \in Tokens,
         call[c].pc = "consume", call[c].parent = t, Live(t), Revoke({t}),
         Become(c, [IdleCall EXCEPT !.pc = "load", !.parent = t]),
         UNCHANGED claims
  PROVE  Rotation!Next
<1>. DEFINE next == [IdleCall EXCEPT !.pc = "load", !.parent = t]
<1>0. TypeOK /\ t # None
  BY DEF SessionInv
<1>1. PICK f \in Tokens : f = claims[t].root
  BY DEF SessionInv, TokenShape, Live
<1>2. /\ \A s \in Tokens \ {t} : sessions'[s].state = sessions[s].state
      /\ sessions'[t].state = "revoked"
  BY <1>0, RevokeEffect DEF Live
<1>3. /\ \A d \in Calls \ {c} : call'[d] = call[d]
      /\ Refreshing(c)' /\ Family(c)' = f /\ ~Refreshing(c)
  <2>1. next.pc = "load" /\ next.parent = t
    BY DEF IdleCall
  <2>. HIDE DEF next
  <2>2. /\ \A d \in Calls \ {c} : call'[d] = call[d]
        /\ call'[c] = next
    BY <1>0 DEF Become, TypeOK, next
  <2>. QED  BY <1>0, <1>1, <2>1, <2>2 DEF Refreshing, Family
<1>4. LiveIn(f) = {t} /\ FamilyPhase[f] = "live" /\ FamilyToken[f] = t
  BY <1>1, LiveFamily
<1>5. LiveIn(f)' = {} /\ c \in RefreshingIn(f)'
  BY <1>2, <1>3, <1>4 DEF LiveIn, RefreshingIn, Live
<1>6. FamilyPhase'[f] = "rotating" /\ FamilyToken'[f] = None
  BY <1>5, OtherFamilyNext
<1>7. ASSUME NEW g \in Tokens \ {f}
      PROVE  FamilyPhase'[g] = FamilyPhase[g] /\ FamilyToken'[g] = FamilyToken[g]
  <2>1. LiveIn(g)' = LiveIn(g)
    BY <1>1, <1>2 DEF LiveIn, Live
  <2>2. RefreshingIn(g)' = RefreshingIn(g)
    BY <1>3 DEF RefreshingIn, Refreshing, Family
  <2>3. Opened(g)' <=> Opened(g)
    BY <1>2 DEF Opened, Live
  <2>. QED  BY <2>1, <2>2, <2>3, FamilyStays
<1>8. FamilyPhase' = [FamilyPhase EXCEPT ![f] = "rotating"]
  BY <1>6, <1>7, FamilyFunctions
<1>9. FamilyToken' = [FamilyToken EXCEPT ![f] = None]
  BY <1>6, <1>7, FamilyFunctions
<1>10. SpentTokens' = SpentTokens \cup {FamilyToken[f]}
  BY <1>2, <1>4 DEF SpentTokens, Ended, Live
<1>11. Rotation!Begin(f)
  BY <1>4, <1>8, <1>9, <1>10 DEF Rotation!Begin
<1>. QED  BY <1>11 DEF Rotation!Next

(* Signing is not visible: nothing refers to the token yet.                *)
LEMMA SignStutters ==
  ASSUME SessionInv, NEW c \in Calls, IssueSign(c)
  PROVE  UNCHANGED Rotation!rotationVars
<1>0. TypeOK
  BY DEF SessionInv
<1>1. PICK t \in Tokens :
        /\ claims[t].state = "unused"
        /\ claims' = [claims EXCEPT ![t] = Signed(c, t)]
        /\ Become(c, [call[c] EXCEPT !.pc = "store", !.token = t, !.at = clock])
  BY DEF IssueSign, NextToken
<1>2. UNCHANGED sessions /\ call[c].pc = "issue"
  BY DEF IssueSign
<1>3. \A s \in Tokens \ {t} : claims'[s] = claims[s]
  BY <1>0, <1>1 DEF TypeOK
<1>4. /\ \A d \in Calls \ {c} : call'[d] = call[d]
      /\ call'[c].pc = "store" /\ call'[c].parent = call[c].parent
  BY <1>0, <1>1 DEF Become, TypeOK, CallType
<1>5. sessions[t].state = "none"
  BY <1>1 DEF SessionInv, TokenShape
<1>6. \A d \in Calls : call[d].parent # None => call[d].parent \in Tokens \ {t}
  BY <1>0, <1>1 DEF SessionInv, CallShape, Delivered, TypeOK, CallType
<1>7. ASSUME NEW g \in Tokens
      PROVE  FamilyPhase'[g] = FamilyPhase[g] /\ FamilyToken'[g] = FamilyToken[g]
  <2>1. LiveIn(g)' = LiveIn(g)
    BY <1>2, <1>3, <1>5 DEF LiveIn, Live
  <2>2. \A d \in Calls : Refreshing(d)' <=> Refreshing(d)
    BY <1>2, <1>4 DEF Refreshing
  <2>3. \A d \in Calls : Refreshing(d) => Family(d)' = Family(d)
    <3>1. \A d \in Calls : call'[d].parent = call[d].parent
      BY <1>4
    <3>. QED  BY <1>3, <1>6, <3>1 DEF Refreshing, Family
  <2>4. RefreshingIn(g)' = RefreshingIn(g)
    BY <2>2, <2>3 DEF RefreshingIn
  <2>5. Opened(g)' <=> Opened(g)
    BY <1>2, <1>3, <1>5 DEF Opened
  <2>. QED  BY <2>1, <2>4, <2>5, FamilyStays
<1>8. FamilyPhase' = FamilyPhase /\ FamilyToken' = FamilyToken
  BY <1>7, FamilyFunctions
<1>9. SpentTokens' = SpentTokens
  BY <1>2 DEF SpentTokens, Ended
<1>. QED  BY <1>8, <1>9 DEF Rotation!rotationVars

(* Storing a session opens the family of a login, or ends the rotation of  *)
(* the family of a refresh.                                                *)
LEMMA StoreHandsOver ==
  ASSUME SessionInv, SessionInv', NEW c \in Calls, IssueStore(c)
  PROVE  Rotation!Next
<1>0. TypeOK
  BY DEF SessionInv
<1>1. PICK t \in Tokens : /\ t = call[c].token /\ claims[t].state = "signed"
                         /\ sessions[t].state = "none"
                         /\ claims[t].root = Root(c, t)
                         /\ call[c].pc = "store"
  BY DEF IssueStore, SessionInv, CallShape
<1>2. PICK f \in Tokens : f = claims[t].root
  BY <1>1 DEF SessionInv, TokenShape
<1>3. /\ \A s \in Tokens \ {t} : sessions'[s] = sessions[s]
      /\ sessions'[t].state = "live"
  BY <1>0, <1>1 DEF IssueStore, TypeOK
<1>4. \A s \in Tokens : claims'[s].root = claims[s].root
  BY <1>0, <1>1 DEF IssueStore, TypeOK, ClaimsType
<1>5. call'[c] = IdleCall /\ \A d \in Calls \ {c} : call'[d] = call[d]
  BY <1>0 DEF IssueStore, Finish, Become, TypeOK
<1>6. FamilyPhase'[f] = "live" /\ FamilyToken'[f] = t
  <2>1. Live(t)' /\ claims'[t].root = f
    BY <1>2, <1>3, <1>4 DEF Live
  <2>. QED  BY <2>1, LiveFamilyNext
<1>7. Refreshing(c) => Family(c) = f
  BY <1>1, <1>2 DEF Refreshing, Family, Root
<1>8. \A d \in Calls : Refreshing(d) => call[d].parent \in Tokens
  BY <1>0 DEF Refreshing, TypeOK, CallType
<1>9. ASSUME NEW g \in Tokens \ {f}
      PROVE  FamilyPhase'[g] = FamilyPhase[g] /\ FamilyToken'[g] = FamilyToken[g]
  <2>1. LiveIn(g)' = LiveIn(g)
    BY <1>2, <1>3, <1>4 DEF LiveIn, Live
  <2>2. ~Refreshing(c)'
    BY <1>5 DEF Refreshing, IdleCall
  <2>3. \A d \in Calls \ {c} :
          /\ Refreshing(d)' <=> Refreshing(d)
          /\ Refreshing(d) => Family(d)' = Family(d)
    BY <1>4, <1>5, <1>8 DEF Refreshing, Family
  <2>4. RefreshingIn(g)' = RefreshingIn(g)
    BY <1>7, <2>2, <2>3 DEF RefreshingIn
  <2>5. Opened(g)' <=> Opened(g)
    BY <1>2, <1>3, <1>4 DEF Opened
  <2>. QED  BY <2>1, <2>4, <2>5, FamilyStays
<1>10. FamilyPhase' = [FamilyPhase EXCEPT ![f] = "live"]
  BY <1>6, <1>9, FamilyFunctions
<1>11. FamilyToken' = [FamilyToken EXCEPT ![f] = t]
  BY <1>6, <1>9, FamilyFunctions
<1>12. SpentTokens' = SpentTokens
  BY <1>1, <1>3 DEF SpentTokens, Ended
<1>13. Rotation!Fresh(t)
  <2>1. t \notin SpentTokens
    BY <1>1 DEF SpentTokens, Ended
  <2>2. ASSUME NEW g \in Tokens PROVE FamilyToken[g] # t
    <3>1. CASE LiveIn(g) = {}
      BY <3>1, OtherFamily
    <3>2. CASE LiveIn(g) # {}
      <4>1. PICK s \in Tokens : Live(s) /\ claims[s].root = g
        BY <3>2 DEF LiveIn
      <4>2. FamilyToken[g] = s
        BY <4>1, LiveFamily
      <4>. QED  BY <1>1, <4>1, <4>2 DEF Live
    <3>. QED  BY <3>1, <3>2
  <2>. QED  BY <2>1, <2>2 DEF Rotation!Fresh
<1>14. CASE call[c].parent = None
  <2>1. f = t
    BY <1>1, <1>2, <1>14 DEF Root
  <2>2. LiveIn(t) = {}
    BY <1>1, <1>14 DEF LiveIn, Live, SessionInv, FreshFamily
  <2>3. RefreshingIn(t) = {}
    <3>1. \A d \in Calls : Refreshing(d) =>
            call[d].parent \in Tokens /\ Delivered(call[d].parent)
      BY <1>8 DEF Refreshing, SessionInv, CallShape
    <3>2. \A s \in Tokens : claims[s].root = t => s = t
      BY <1>1, <1>14 DEF SessionInv, FreshFamily
    <3>. QED  BY <1>1, <3>1, <3>2 DEF RefreshingIn, Family, Delivered
  <2>4. ~Opened(t)
    BY <1>1 DEF Opened
  <2>5. FamilyPhase[t] = "new"
    BY <2>2, <2>3, <2>4, OtherFamily
  <2>6. Rotation!Open(t)
    BY <1>10, <1>11, <1>12, <1>13, <2>1, <2>5 DEF Rotation!Open
  <2>. QED  BY <2>6 DEF Rotation!Next
<1>15. CASE call[c].parent # None
  <2>1. Refreshing(c) /\ Family(c) = f
    BY <1>1, <1>7, <1>15 DEF Refreshing
  <2>2. c \in RefreshingIn(f) /\ LiveIn(f) = {}
    BY <2>1 DEF RefreshingIn, LiveIn, SessionInv, OneSessionPerLogin
  <2>3. FamilyPhase[f] = "rotating"
    BY <2>2, OtherFamily
  <2>4. Rotation!End(f, t)
    BY <1>10, <1>11, <1>12, <1>13, <2>3 DEF Rotation!End
  <2>. QED  BY <2>4 DEF Rotation!Next
<1>. QED  BY <1>14, <1>15

(* What a step other than signing and storing may do to sessions: end some *)
(* of them.                                                                *)
OnlyEnds ==
  /\ UNCHANGED claims
  /\ \A t \in Tokens :
       /\ Live(t)' => Live(t)
       /\ Ended(t)' <=> Ended(t) \/ (Live(t) /\ ~Live(t)')
       /\ sessions'[t].state # "none" <=> sessions[t].state # "none"

(* Revoking sessions does that, and so does leaving them alone.            *)
LEMMA RevokeEnds ==
  ASSUME TypeOK, UNCHANGED claims, UNCHANGED sessions \/ \E S : Revoke(S)
  PROVE  OnlyEnds
<1>1. CASE UNCHANGED sessions
  BY <1>1 DEF OnlyEnds, Live, Ended
<1>2. ASSUME NEW S, Revoke(S) PROVE OnlyEnds
  BY <1>2, RevokeEffect DEF OnlyEnds, Live, Ended
<1>. QED  BY <1>1, <1>2

(* What it may do to refreshes: break some of them off.                    *)
OnlyBreaksOff ==
  \A c \in Calls : Refreshing(c)' =>
    Refreshing(c) /\ call'[c].parent = call[c].parent

(* A call that goes on to a step outside a refresh, or on with the         *)
(* refresh it was at, does at most that.                                   *)
LEMMA BecomeBreaksOff ==
  ASSUME TypeOK, NEW c \in Calls, NEW l, Become(c, l),
         \/ l.parent = None \/ l.pc \notin {"load", "issue", "store"}
         \/ Refreshing(c) /\ l.parent = call[c].parent
  PROVE  OnlyBreaksOff
<1>1. call'[c] = l /\ \A d \in Calls \ {c} : call'[d] = call[d]
  BY DEF Become, TypeOK
<1>. QED  BY <1>1 DEF OnlyBreaksOff, Refreshing

(* So does a call that returns.                                            *)
LEMMA FinishBreaksOff ==
  ASSUME TypeOK, NEW c \in Calls, Finish(c)
  PROVE  OnlyBreaksOff
BY BecomeBreaksOff DEF Finish, IdleCall

(* So does one that starts: it has not consumed a session yet.             *)
LEMMA StartBreaksOff ==
  ASSUME TypeOK, NEW c \in Calls, Start(c)
  PROVE  OnlyBreaksOff
<1>1. ASSUME NEW t \in Tokens, RefreshVerify(c, t) PROVE OnlyBreaksOff
  <2>. DEFINE l == [IdleCall EXCEPT !.pc = "consume", !.parent = t, !.at = clock]
  <2>1. l.pc = "consume"
    BY DEF IdleCall
  <2>2. Become(c, l)
    BY <1>1 DEF RefreshVerify
  <2>. HIDE DEF l
  <2>. QED  BY <2>1, <2>2, BecomeBreaksOff
<1>2. ASSUME NEW l, Become(c, l), l.parent = None PROVE OnlyBreaksOff
  BY <1>2, BecomeBreaksOff
<1>3. ASSUME NEW e \in Emails, NEW p \in Passwords, RegisterFind(c, e, p)
      PROVE  OnlyBreaksOff
  BY <1>2, <1>3 DEF RegisterFind, IdleCall
<1>4. ASSUME NEW e \in Emails, NEW p \in Passwords, LoginFind(c, e, p)
      PROVE  OnlyBreaksOff
  BY <1>2, <1>4 DEF LoginFind, IdleCall
<1>5. ASSUME NEW t \in Tokens, NEW e \in Emails, UserCreateFind(c, t, e)
      PROVE  OnlyBreaksOff
  BY <1>2, <1>5 DEF UserCreateFind, IdleCall
<1>6. ASSUME NEW p \in Passwords, SeedFind(c, p) PROVE OnlyBreaksOff
  BY <1>2, <1>6 DEF SeedFind, IdleCall
<1>. QED  BY <1>1, <1>3, <1>4, <1>5, <1>6 DEF Start

(* A step that only ends sessions and breaks refreshes off closes the      *)
(* families of those, perhaps none.                                        *)
LEMMA EndsAndBreaksOff ==
  ASSUME SessionInv, SessionInv', FamilyInv, OnlyEnds, OnlyBreaksOff
  PROVE  Rotation!Next
<1>1. \A c \in Calls : Refreshing(c)' => Refreshing(c) /\ Family(c)' = Family(c)
  BY DEF OnlyEnds, OnlyBreaksOff, Family
<1>. QED  BY <1>1, EndingCloses DEF OnlyEnds

(* Every step of a pending call is a step of the abstract rotation, or     *)
(* none.                                                                   *)
LEMMA ContinueImplements ==
  ASSUME SessionInv, SessionInv', FamilyInv, NEW c \in Calls, Continue(c)
  PROVE  Rotation!Next \/ UNCHANGED Rotation!rotationVars
<1>0. TypeOK /\ call[c] \in CallType /\ CallShape(c)
  BY DEF SessionInv, TypeOK
<1>1. CASE RefreshConsume(c)
  <2>1. PICK t \in Tokens : t = call[c].parent
    BY <1>0, <1>1 DEF RefreshConsume, CallShape, CallType
  <2>2. UNCHANGED claims /\ call[c].pc = "consume"
    BY <1>1 DEF RefreshConsume
  <2>3. CASE /\ Live(t) /\ Revoke({t})
             /\ Become(c, [IdleCall EXCEPT !.pc = "load", !.parent = t])
    BY <2>1, <2>2, <2>3, ConsumeBegins
  <2>4. CASE Finish(c) /\ (UNCHANGED sessions \/ Revoke({t}))
    <3>1. OnlyEnds
      BY <1>0, <2>2, <2>4, RevokeEnds
    <3>. QED  BY <1>0, <2>4, <3>1, FinishBreaksOff, EndsAndBreaksOff
  <2>. QED  BY <1>1, <2>1, <2>3, <2>4 DEF RefreshConsume, Consumable, Live
<1>2. CASE IssueSign(c)
  BY <1>2, SignStutters
<1>3. CASE IssueStore(c)
  BY <1>3, StoreHandsOver
<1>4. ASSUME UNCHANGED <<sessions, claims>>, OnlyBreaksOff PROVE Rotation!Next
  BY <1>0, <1>4, RevokeEnds, EndsAndBreaksOff
<1>5. CASE RegisterCreate(c)
  <2>1. PICK u \in UserIds :
          \/ Become(c, [IdleCall EXCEPT !.pc = "issue", !.user = u,
                                        !.roles = {"USER"}])
          \/ Finish(c)
    BY <1>5 DEF RegisterCreate
  <2>. DEFINE next == [IdleCall EXCEPT !.pc = "issue", !.user = u,
                                       !.roles = {"USER"}]
  <2>2. next.parent = None
    BY DEF IdleCall
  <2>3. Become(c, next) \/ Finish(c)
    BY <2>1
  <2>. HIDE DEF next
  <2>. QED
    BY <1>0, <1>4, <1>5, <2>2, <2>3, BecomeBreaksOff, FinishBreaksOff
       DEF RegisterCreate
<1>6. CASE LoginCompare(c)
  <2>. DEFINE next == [call[c] EXCEPT !.pc = "issue", !.accepted = FALSE]
  <2>1. next.parent = None
    BY <1>0, <1>6 DEF LoginCompare, CallShape, CallType
  <2>2. Become(c, next) \/ Finish(c)
    BY <1>6 DEF LoginCompare
  <2>. HIDE DEF next
  <2>. QED
    BY <1>0, <1>4, <1>6, <2>1, <2>2, BecomeBreaksOff, FinishBreaksOff
       DEF LoginCompare
<1>7. CASE RefreshLoad(c)
  <2>. DEFINE u == claims[call[c].parent].user
              next == [call[c] EXCEPT !.pc = "issue", !.user = u,
                                      !.roles = users[u].roles]
  <2>1. next.parent = call[c].parent
    BY <1>0 DEF CallType
  <2>2. Become(c, next) \/ Finish(c)
    BY <1>7 DEF RefreshLoad
  <2>3. Refreshing(c)
    BY <1>0, <1>7 DEF RefreshLoad, CallShape, Refreshing
  <2>. HIDE DEF next
  <2>. QED
    BY <1>0, <1>4, <1>7, <2>1, <2>2, <2>3, BecomeBreaksOff, FinishBreaksOff
       DEF RefreshLoad
<1>8. CASE UserCreate(c) \/ CreateConflict(c) \/ SeedUpdate(c) \/ SeedCreate(c)
  BY <1>0, <1>4, <1>8, FinishBreaksOff DEF UserCreate, CreateConflict, SeedUpdate,
     SeedCreate
<1>. QED
  BY <1>1, <1>2, <1>3, <1>5, <1>6, <1>7, <1>8 DEF Continue

(* Every step is a step of the abstract rotation, or none.                 *)
LEMMA NextImplements ==
  ASSUME SessionInv, SessionInv', FamilyInv, Next
  PROVE  Rotation!Next \/ UNCHANGED Rotation!rotationVars
<1>0. TypeOK
  BY DEF SessionInv
<1>1. ASSUME NEW c \in Calls, Start(c) PROVE Rotation!Next
  <2>1. UNCHANGED <<sessions, claims>>
    BY <1>1 DEF Start, RegisterFind, LoginFind, RefreshVerify, UserCreateFind,
       SeedFind
  <2>. QED  BY <1>0, <1>1, <2>1, StartBreaksOff, RevokeEnds, EndsAndBreaksOff
<1>2. ASSUME UNCHANGED <<claims, call>>, UNCHANGED sessions \/ \E S : Revoke(S)
      PROVE  Rotation!Next
  <2>1. OnlyBreaksOff
    BY <1>2 DEF OnlyBreaksOff, Refreshing
  <2>. QED  BY <1>0, <1>2, <2>1, RevokeEnds, EndsAndBreaksOff
<1>3. ASSUME NEW before \in 0 .. clock, DeleteExpired(before)
      PROVE  Rotation!Next
  <2>1. OnlyBreaksOff
    BY <1>3 DEF DeleteExpired, OnlyBreaksOff, Refreshing
  <2>2. OnlyEnds
    BY <1>0, <1>3 DEF DeleteExpired, OnlyEnds, Live, Ended, TypeOK, SessionType,
       SessionStates
  <2>. QED  BY <2>1, <2>2, EndsAndBreaksOff
<1>4. ASSUME NEW S \in SUBSET Calls, Crash(S) PROVE Rotation!Next
  <2>1. OnlyBreaksOff
    BY <1>4 DEF Crash, OnlyBreaksOff, Refreshing, IdleCall
  <2>2. OnlyEnds
    BY <1>0, <1>4 DEF Crash, OnlyEnds, Live, Ended, TypeOK, SessionType
  <2>. QED  BY <2>1, <2>2, EndsAndBreaksOff
<1>5. ASSUME NEW c \in Calls, DatabaseFailure(c) PROVE Rotation!Next
  BY <1>0, <1>5, FinishBreaksOff, RevokeEnds, EndsAndBreaksOff DEF DatabaseFailure
<1>. QED
  BY <1>1, <1>2, <1>3, <1>4, <1>5, ContinueImplements DEF Next, Logout,
     RevokeAllForUser, Environment, SetStatus, Tick

(* The accounts, sessions and calls together implement the rotation that   *)
(* RotatingTokens promises, for any number of calls and tokens.            *)
THEOREM RotationIsImplemented == Spec => ImplementsRotation
<1>1. Init => Rotation!Init
  <2>. SUFFICES ASSUME Init PROVE Rotation!Init
    OBVIOUS
  <2>1. \A t \in Tokens : ~Live(t) /\ ~Ended(t) /\ ~Opened(t)
    BY DEF Init, NoSession, Live, Ended, Opened
  <2>2. \A c \in Calls : ~Refreshing(c)
    BY DEF Init, IdleCall, Refreshing
  <2>3. ASSUME NEW f \in Tokens PROVE FamilyPhase[f] = "new" /\ FamilyToken[f] = None
    <3>1. LiveIn(f) = {} /\ RefreshingIn(f) = {}
      BY <2>1, <2>2 DEF LiveIn, RefreshingIn
    <3>. QED  BY <2>1, <3>1, OtherFamily
  <2>4. SpentTokens = {}
    BY <2>1 DEF SpentTokens
  <2>. QED  BY <2>3, <2>4, FamilyFunctions DEF Rotation!Init
<1>2. SessionInv /\ SessionInv' /\ FamilyInv /\ [Next]_vars
        => [Rotation!Next]_(Rotation!rotationVars)
  <2>1. UNCHANGED vars => UNCHANGED Rotation!rotationVars
    <3>. SUFFICES ASSUME UNCHANGED vars PROVE UNCHANGED Rotation!rotationVars
      OBVIOUS
    <3>1. ASSUME NEW f \in Tokens
          PROVE  FamilyPhase'[f] = FamilyPhase[f] /\ FamilyToken'[f] = FamilyToken[f]
      <4>1. /\ LiveIn(f)' = LiveIn(f) /\ RefreshingIn(f)' = RefreshingIn(f)
            /\ Opened(f)' <=> Opened(f)
        BY DEF vars, LiveIn, RefreshingIn, Opened, Live, Refreshing, Family
      <4>. QED  BY <4>1, FamilyStays
    <3>2. SpentTokens' = SpentTokens
      BY DEF vars, SpentTokens, Ended
    <3>. QED  BY <3>1, <3>2, FamilyFunctions DEF Rotation!rotationVars
  <2>. QED  BY <2>1, NextImplements
<1>. QED
  BY <1>1, <1>2, SessionInvariance, FamilyInvariance, PTL
     DEF Spec, ImplementsRotation, Rotation!Spec

(* No step of the abstract rotation reopens a family.                      *)
LEMMA ClosedStaysClosed ==
  ASSUME NEW f \in Tokens, FamilyPhase[f] = "closed",
         Rotation!Next \/ UNCHANGED Rotation!rotationVars
  PROVE  FamilyPhase'[f] = "closed"
<1>. DEFINE phase == FamilyPhase
<1>1. phase = [g \in Tokens |-> phase[g]]
  BY FamilyFunctions
<1>. HIDE DEF phase
<1>2. CASE Rotation!Next
  <2>1. \/ \E g \in Tokens : phase[g] # "closed" /\ \E p : phase' = [phase EXCEPT ![g] = p]
        \/ \E F \in SUBSET Tokens :
             phase' = [g \in Tokens |-> IF g \in F THEN "closed" ELSE phase[g]]
    BY <1>2
    DEF phase, Rotation!Next, Rotation!Open, Rotation!Begin, Rotation!End, Rotation!Close
  <2>. QED  BY <1>1, <2>1 DEF phase
<1>3. CASE UNCHANGED Rotation!rotationVars
  BY <1>3 DEF Rotation!rotationVars
<1>. QED  BY <1>2, <1>3

(* Revoking the token a login is at ends it: the login has no other token, *)
(* and no refresh of it is under way.                                      *)
LEMMA EndsLoginCloses ==
  ASSUME SessionInv, FamilyInv, Next, NEW f \in Tokens, EndsLogin(f)
  PROVE  FamilyPhase'[f] = "closed"
<1>1. PICK t \in LiveIn(f) : Logout(t) \/ RevokeAllForUser(sessions[t].user)
  BY DEF EndsLogin
<1>2. t \in Tokens /\ Live(t) /\ claims[t].root = f
  BY DEF LiveIn
<1>3. LiveIn(f) = {t} /\ RefreshingIn(f) = {} /\ Opened(f)
  BY <1>2, LiveFamily, FamilyOpened DEF Live
<1>4. PICK S : Revoke(S) /\ t \in S /\ UNCHANGED <<claims, call>>
  BY <1>1, <1>2 DEF Logout, RevokeAllForUser
<1>5. ~Live(t)' /\ \A s \in Tokens : Live(s)' => Live(s)
  BY <1>2, <1>4, RevokeEffect DEF SessionInv, Live
<1>6. LiveIn(f)' = {}
  BY <1>3, <1>4, <1>5 DEF LiveIn, Live
<1>7. RefreshingIn(f)' = {}
  BY <1>3, <1>4 DEF RefreshingIn, Refreshing, Family
<1>8. Opened(f)'
  BY <1>3, OpenedStays
<1>. QED  BY <1>6, <1>7, <1>8, OtherFamilyNext

(* A logout, or a revocation, that finds the token a login is at ends the  *)
(* login for good, for any number of concurrent calls.                     *)
THEOREM LogoutsAreFinal == Spec => LogoutIsFinal
<1>. DEFINE Final == \A f \in Tokens :
       FamilyPhase[f] = "closed" \/ EndsLogin(f) => FamilyPhase'[f] = "closed"
<1>1. SessionInv /\ SessionInv' /\ FamilyInv /\ Next => Final
  BY NextImplements, ClosedStaysClosed, EndsLoginCloses
<1>2. SessionInv /\ SessionInv' /\ FamilyInv /\ [Next]_vars => [Final]_vars
  BY <1>1
<1>. QED
  BY <1>2, SessionInvariance, FamilyInvariance, PTL DEF Spec, LogoutIsFinal

=============================================================================
