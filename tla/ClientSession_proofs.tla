------------------------ MODULE ClientSession_proofs ------------------------
(***************************************************************************)
(* Proofs about ClientSession for any number of tabs, users, tokens,       *)
(* reloads and requests.  A token is created once, so no other tab holds   *)
(* the token of a new login; and a tab whose token changes owes a new      *)
(* restore, so the answer it waits for is one about the token it holds.    *)
(***************************************************************************)
EXTENDS ClientSession, TLAPS

LEMMA InitSession == Init => IInv
<1> SUFFICES ASSUME Init PROVE TypeOK /\ TokensCreated /\ Follows
  BY DEF IInv
<1>1. Idle \in Restore
  BY DEF Idle, Restore, MaybeToken
<1>2. TypeOK
  <2>1. MaxReloads \in Nat
    BY SessionAssumption
  <2>2. me \in [Tab -> Restore]
    BY <1>1 DEF Init
  <2>3. loading \in [Tab -> BOOLEAN] /\ due \in [Tab -> BOOLEAN]
    BY DEF Init
  <2>4. /\ token \in [Tab -> MaybeToken] /\ user \in [Tab -> MaybeUser]
        /\ login \in [Tab -> MaybeUser]
    BY DEF Init, MaybeToken, MaybeUser
  <2>5. stored \in MaybeToken /\ created \subseteq Token /\ live \subseteq Token
    BY DEF Init, MaybeToken
  <2>6. calls \subseteq Call
    BY DEF Init
  <2>7. reloads \in 0..MaxReloads
    BY <2>1 DEF Init
  <2> QED
    BY <2>2, <2>3, <2>4, <2>5, <2>6, <2>7 DEF TypeOK
<1>3. TokensCreated
  BY DEF Init, TokensCreated, Idle
<1> QED
  BY <1>2, <1>3 DEF Init, Follows

-----------------------------------------------------------------------------
(* A request to restore is well formed, whatever token it is sent with.    *)
LEMMA AbandonedType ==
  ASSUME TypeOK, NEW t \in Tab PROVE Abandoned(t) \subseteq Call
<1>1. me[t].sent \in MaybeToken
  BY DEF TypeOK, Restore
<1>2. <<t, me[t].sent, FALSE>> \in Call
  BY <1>1 DEF Call
<1> QED
  BY <1>2 DEF Abandoned

LEMMA SignOutType ==
  ASSUME TypeOK, NEW t \in Tab, SignOut(t)
  PROVE  /\ stored' \in MaybeToken /\ token' \in [Tab -> MaybeToken]
         /\ user' \in [Tab -> MaybeUser] /\ due' \in [Tab -> BOOLEAN]
<1>1. due' \in [Tab -> BOOLEAN]
  BY Zenon DEF SignOut, TypeOK
<1> QED
  BY <1>1 DEF SignOut, TypeOK, MaybeToken, MaybeUser

LEMMA TypeStep == TypeOK /\ TokensCreated /\ [Next]_vars => TypeOK'
<1> SUFFICES ASSUME TypeOK, TokensCreated, [Next]_vars PROVE TypeOK'
  OBVIOUS
<1> USE SessionAssumption DEF tabVars
<1>0. Idle \in Restore
  BY DEF Idle, Restore, MaybeToken
<1>1. CASE UNCHANGED vars
  BY <1>1 DEF vars, TypeOK
<1>2. ASSUME NEW t \in Tab, RunEffect(t) PROVE TypeOK'
  <2>1. [on |-> TRUE, sent |-> stored, found |-> FALSE] \in Restore
    BY DEF TypeOK, Restore
  <2>2. me' \in [Tab -> Restore]
    BY <1>0, <1>2, <2>1 DEF RunEffect, TypeOK
  <2>3. loading' \in [Tab -> BOOLEAN] /\ due' \in [Tab -> BOOLEAN]
    BY <1>2, Zenon DEF RunEffect, TypeOK
  <2> QED
    BY <1>2, <2>2, <2>3, AbandonedType DEF RunEffect, TypeOK
<1>3. ASSUME NEW t \in Tab, Restored(t) PROVE TypeOK'
  <2>1. me[t].sent \in Token
    BY <1>3 DEF Restored, TypeOK, TokensCreated
  <2> QED
    BY <1>0, <1>3, <2>1 DEF Restored, TypeOK, MaybeUser
<1>4. ASSUME NEW t \in Tab, RestoreFails(t) PROVE TypeOK'
  BY <1>0, <1>4, SignOutType DEF RestoreFails, TypeOK
<1>5. ASSUME NEW t \in Tab, SendCall(t) PROVE TypeOK'
  <2>1. <<t, stored, FALSE>> \in Call
    BY DEF TypeOK, Call
  <2> QED
    BY <1>5, <2>1 DEF SendCall, TypeOK
<1>6. ASSUME NEW c \in calls, AnswerCall(c) PROVE TypeOK'
  BY <1>6 DEF AnswerCall, TypeOK
<1>7. ASSUME NEW c \in calls, RefuseCall(c) PROVE TypeOK'
  <2>1. <<c[1], c[2], TRUE>> \in Call
    BY DEF TypeOK, Call
  <2> QED
    BY <1>7, <2>1 DEF RefuseCall, TypeOK
<1>8. ASSUME NEW t \in Tab, NEW u \in User, SubmitLogin(t, u) PROVE TypeOK'
  BY <1>8 DEF SubmitLogin, TypeOK, MaybeUser
<1>9. ASSUME NEW t \in Tab, NEW k \in Token, LoggedIn(t, k) PROVE TypeOK'
  BY <1>9 DEF LoggedIn, TypeOK, MaybeUser, MaybeToken
<1>10. ASSUME NEW t \in Tab, LoginRefused(t) PROVE TypeOK'
  BY <1>10, SignOutType DEF LoginRefused, TypeOK, MaybeUser
<1>11. ASSUME NEW t \in Tab, LoginFails(t) PROVE TypeOK'
  BY <1>11 DEF LoginFails, TypeOK, MaybeUser
<1>12. ASSUME NEW t \in Tab, Logout(t) PROVE TypeOK'
  BY <1>0, <1>12, AbandonedType DEF Logout, TypeOK, MaybeUser, MaybeToken
<1>13. ASSUME NEW t \in Tab, Reload(t) PROVE TypeOK'
  BY <1>0, <1>13 DEF Reload, TypeOK, MaybeUser
<1>14. ASSUME NEW k \in Token, Expire(k) PROVE TypeOK'
  BY <1>14 DEF Expire, TypeOK
<1>15. ASSUME NEW c \in calls, Unauthorized(c) PROVE TypeOK'
  <2>1. c[1] \in Tab
    BY DEF TypeOK, Call
  <2> QED
    BY <1>15, <2>1, SignOutType DEF Unauthorized, TypeOK
<1>16. ASSUME NEW t \in Tab, FindUser(t) PROVE TypeOK'
  BY <1>16 DEF FindUser, TypeOK, Restore
<1> QED
  BY <1>1, <1>2, <1>3, <1>4, <1>5, <1>6, <1>7, <1>8, <1>9, <1>10, <1>11, <1>12, <1>13,
     <1>14, <1>15, <1>16 DEF Next, TabStep

-----------------------------------------------------------------------------
LEMMA TokensStep == TypeOK /\ TokensCreated /\ [Next]_vars => TokensCreated'
<1> SUFFICES ASSUME TypeOK, TokensCreated, [Next]_vars PROVE TokensCreated'
  OBVIOUS
<1> USE SessionAssumption DEF tabVars, Idle
<1>1. CASE UNCHANGED vars
  BY <1>1 DEF vars, TokensCreated
<1>2. ASSUME NEW t \in Tab, RunEffect(t) PROVE TokensCreated'
  BY <1>2 DEF RunEffect, TypeOK, TokensCreated
<1>3. ASSUME NEW t \in Tab, Restored(t) PROVE TokensCreated'
  BY <1>3 DEF Restored, TypeOK, TokensCreated
<1>4. ASSUME NEW t \in Tab, RestoreFails(t) PROVE TokensCreated'
  BY <1>4 DEF RestoreFails, SignOut, TypeOK, TokensCreated
<1>5. ASSUME NEW t \in Tab, SendCall(t) PROVE TokensCreated'
  BY <1>5 DEF SendCall, TokensCreated
<1>6. ASSUME NEW c \in calls, AnswerCall(c) PROVE TokensCreated'
  BY <1>6 DEF AnswerCall, TokensCreated
<1>7. ASSUME NEW c \in calls, RefuseCall(c) PROVE TokensCreated'
  BY <1>7 DEF RefuseCall, TokensCreated
<1>8. ASSUME NEW t \in Tab, NEW u \in User, SubmitLogin(t, u) PROVE TokensCreated'
  BY <1>8 DEF SubmitLogin, TokensCreated
<1>9. ASSUME NEW t \in Tab, NEW k \in Token, LoggedIn(t, k) PROVE TokensCreated'
  BY <1>9 DEF LoggedIn, TypeOK, TokensCreated
<1>10. ASSUME NEW t \in Tab, LoginRefused(t) PROVE TokensCreated'
  BY <1>10 DEF LoginRefused, SignOut, TypeOK, TokensCreated
<1>11. ASSUME NEW t \in Tab, LoginFails(t) PROVE TokensCreated'
  BY <1>11 DEF LoginFails, TokensCreated
<1>12. ASSUME NEW t \in Tab, Logout(t) PROVE TokensCreated'
  BY <1>12 DEF Logout, TypeOK, TokensCreated
<1>13. ASSUME NEW t \in Tab, Reload(t) PROVE TokensCreated'
  BY <1>13 DEF Reload, TypeOK, TokensCreated
<1>14. ASSUME NEW k \in Token, Expire(k) PROVE TokensCreated'
  BY <1>14 DEF Expire, TokensCreated
<1>15. ASSUME NEW c \in calls, Unauthorized(c) PROVE TokensCreated'
  BY <1>15 DEF Unauthorized, SignOut, TypeOK, TokensCreated, Call
<1>16. ASSUME NEW t \in Tab, FindUser(t) PROVE TokensCreated'
  BY <1>16 DEF FindUser, TypeOK, Restore, TokensCreated
<1> QED
  BY <1>1, <1>2, <1>3, <1>4, <1>5, <1>6, <1>7, <1>8, <1>9, <1>10, <1>11, <1>12, <1>13,
     <1>14, <1>15, <1>16 DEF Next, TabStep

-----------------------------------------------------------------------------
(* Once the stored token is gone nothing is claimed of the tabs that hold  *)
(* it; a tab that signs out owes a restore, or owed none before.           *)
LEMMA SignOutFollows ==
  ASSUME TypeOK, Follows, NEW t \in Tab, SignOut(t), UNCHANGED <<loading, me>>
  PROVE  Follows'
BY DEF SignOut, TypeOK, Follows

LEMMA FollowsStep == IInv /\ [Next]_vars => Follows'
<1> SUFFICES ASSUME TypeOK, TokensCreated, Follows, [Next]_vars PROVE Follows'
  BY DEF IInv
<1> USE SessionAssumption DEF tabVars, Idle
<1>1. CASE UNCHANGED vars
  BY <1>1 DEF vars, Follows
<1>2. ASSUME NEW t \in Tab, RunEffect(t) PROVE Follows'
  BY <1>2 DEF RunEffect, TypeOK, Follows
<1>3. ASSUME NEW t \in Tab, Restored(t) PROVE Follows'
  <2>1. me[t].on
    BY <1>3 DEF Restored, TokensCreated
  <2> QED
    BY <1>3, <2>1 DEF Restored, TypeOK, Follows
<1>4. ASSUME NEW t \in Tab, RestoreFails(t) PROVE Follows'
  BY <1>4 DEF RestoreFails, SignOut, TypeOK, Follows
<1>5. ASSUME NEW t \in Tab, SendCall(t) PROVE Follows'
  BY <1>5 DEF SendCall, Follows
<1>6. ASSUME NEW c \in calls, AnswerCall(c) PROVE Follows'
  BY <1>6 DEF AnswerCall, Follows
<1>7. ASSUME NEW c \in calls, RefuseCall(c) PROVE Follows'
  BY <1>7 DEF RefuseCall, Follows
<1>8. ASSUME NEW t \in Tab, NEW u \in User, SubmitLogin(t, u) PROVE Follows'
  BY <1>8 DEF SubmitLogin, Follows
<1>9. ASSUME NEW t \in Tab, NEW k \in Token, LoggedIn(t, k) PROVE Follows'
  <2>1. \A s \in Tab \ {t} : token'[s] # stored'
    BY <1>9 DEF LoggedIn, TypeOK, TokensCreated
  <2> QED
    BY <1>9, <2>1 DEF LoggedIn, TypeOK, Follows
<1>10. ASSUME NEW t \in Tab, LoginRefused(t) PROVE Follows'
  BY <1>10, SignOutFollows DEF LoginRefused
<1>11. ASSUME NEW t \in Tab, LoginFails(t) PROVE Follows'
  BY <1>11 DEF LoginFails, Follows
<1>12. ASSUME NEW t \in Tab, Logout(t) PROVE Follows'
  BY <1>12 DEF Logout, Shown, TypeOK, Follows
<1>13. ASSUME NEW t \in Tab, Reload(t) PROVE Follows'
  BY <1>13 DEF Reload, TypeOK, Follows
<1>14. ASSUME NEW k \in Token, Expire(k) PROVE Follows'
  BY <1>14 DEF Expire, Follows
<1>15. ASSUME NEW c \in calls, Unauthorized(c) PROVE Follows'
  <2>1. c[1] \in Tab
    BY DEF TypeOK, Call
  <2> QED
    BY <1>15, <2>1, SignOutFollows DEF Unauthorized
<1>16. ASSUME NEW t \in Tab, FindUser(t) PROVE Follows'
  BY <1>16 DEF FindUser, TypeOK, Restore, Follows
<1> QED
  BY <1>1, <1>2, <1>3, <1>4, <1>5, <1>6, <1>7, <1>8, <1>9, <1>10, <1>11, <1>12, <1>13,
     <1>14, <1>15, <1>16 DEF Next, TabStep

-----------------------------------------------------------------------------
(* The session of every tab follows its token.                             *)
THEOREM SessionInvariant == Spec => []IInv
<1>1. IInv /\ [Next]_vars => IInv'
  BY TypeStep, TokensStep, FollowsStep DEF IInv
<1> QED
  BY InitSession, <1>1, PTL DEF Spec

(* A tab that holds the stored token and waits for nothing shows the user  *)
(* of that token: the answer to an older restore never takes his place.    *)
THEOREM OwnerShown == Spec => []SettledShowsOwner
<1>1. IInv => SettledShowsOwner
  BY DEF IInv, Follows, SettledShowsOwner, Settled
<1> QED
  BY <1>1, SessionInvariant, PTL
=============================================================================
