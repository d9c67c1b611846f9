--------------------------- MODULE ClientSession ---------------------------
(***************************************************************************)
(* The session of the browser: tabs that share one token in localStorage   *)
(* and each keep a copy of it, the user it belongs to, and requests on     *)
(* their way.  A request carries the stored token of the moment it is      *)
(* sent; whatever 401 comes back, however late, signs out.  The server     *)
(* decides what it answers before the answer arrives, and tokens and       *)
(* logins may change in between.                                           *)
(*                                                                         *)
(* An effect runs some time after the render that owes it, and answers may *)
(* come in between; renders that follow one another before the effect ran  *)
(* count as one.  The click on "log out" runs its effect at once.          *)
(***************************************************************************)
EXTENDS Naturals, FiniteSets

CONSTANTS
  Tab, User, NoUser,
  Token,        \* the tokens logins may create; each is created once,
  Owner,        \* for its user
  NoToken,
  MaxReloads,   \* bound on reloads, all tabs together
  MaxCalls      \* bound on requests on their way, restore calls not counted

ASSUME SessionAssumption ==
  /\ NoUser \notin User /\ NoToken \notin Token /\ MaxReloads \in Nat /\ MaxCalls \in Nat
  /\ Owner \in [Token -> User]

MaybeToken == Token \cup {NoToken}
MaybeUser == User \cup {NoUser}

(* The restore call a tab waits for, or none.                              *)
Idle == [on |-> FALSE, sent |-> NoToken, found |-> FALSE]
Restore == [on : BOOLEAN, sent : MaybeToken, found : BOOLEAN]

(* A request whose answer matters by a 401 only: its tab, the token it     *)
(* carries, and whether the server has refused it.                         *)
Call == Tab \X MaybeToken \X BOOLEAN

VARIABLES
  stored,     \* localStorage.atrium_token
  created,    \* tokens created so far
  live,       \* tokens the server accepts
  token,      \* state of each tab: token, user, loading
  user,
  loading,
  due,        \* the restore effect of the tab has yet to run
  me,         \* the GET /me it waits for; .found: the server has found the user
  login,      \* the user whose POST /login is on its way
  calls,      \* other requests on their way; equal ones count as one
  reloads

tabVars == <<token, user, loading, due, me>>
vars == <<stored, created, live, tabVars, login, calls, reloads>>

TypeOK ==
  /\ stored \in MaybeToken /\ created \subseteq Token /\ live \subseteq Token
  /\ token \in [Tab -> MaybeToken] /\ user \in [Tab -> MaybeUser]
  /\ loading \in [Tab -> BOOLEAN] /\ due \in [Tab -> BOOLEAN]
  /\ me \in [Tab -> Restore] /\ login \in [Tab -> MaybeUser]
  /\ calls \subseteq Call
  /\ reloads \in 0..MaxReloads

(* The first visit, without a token.                                       *)
Init ==
  /\ stored = NoToken /\ created = {} /\ live = {}
  /\ token = [t \in Tab |-> NoToken] /\ user = [t \in Tab |-> NoUser]
  /\ loading = [t \in Tab |-> TRUE] /\ due = [t \in Tab |-> TRUE]
  /\ me = [t \in Tab |-> Idle] /\ login = [t \in Tab |-> NoUser]
  /\ calls = {} /\ reloads = 0

-----------------------------------------------------------------------------
(* The tab's pages, behind ProtectedRoute                                  *)
Shown(t) == ~loading[t] /\ user[t] # NoUser

(* Cleanup: the answer of the old restore call is ignored, unless it is a  *)
(* 401.                                                                    *)
Abandoned(t) == IF me[t].on /\ ~me[t].found THEN {<<t, me[t].sent, FALSE>>} ELSE {}

(* Mutant: a restore without a token leaves the page loading.              *)
RunEffectLoading(t) ==
  /\ due[t] /\ due' = [due EXCEPT ![t] = FALSE]
  /\ calls' = calls \cup Abandoned(t)
  /\ me' = [me EXCEPT ![t] = IF token[t] = NoToken THEN Idle
              ELSE [on |-> TRUE, sent |-> stored, found |-> FALSE]]
  /\ UNCHANGED <<stored, created, live, token, user, loading, login, reloads>>

(* The restore effect: without a token there is nothing to wait for; the   *)
(* call carries the stored token, which another tab may have changed.      *)
RunEffect(t) ==
  /\ due[t] /\ due' = [due EXCEPT ![t] = FALSE]
  /\ calls' = calls \cup Abandoned(t)
  /\ me' = [me EXCEPT ![t] = IF token[t] = NoToken THEN Idle
              ELSE [on |-> TRUE, sent |-> stored, found |-> FALSE]]
  /\ loading' = [loading EXCEPT ![t] = loading[t] /\ token[t] # NoToken]
  /\ UNCHANGED <<stored, created, live, token, user, login, reloads>>

(* onUnauthorized and logout()                                             *)
SignOut(t) ==
  /\ stored' = NoToken
  /\ token' = [token EXCEPT ![t] = NoToken]
  /\ user' = [user EXCEPT ![t] = NoUser]
  /\ due' = [due EXCEPT ![t] = due[t] \/ token[t] # NoToken]

(* The server accepts the token and finds its user.                        *)
FindUser(t) ==
  /\ me[t].on /\ me[t].sent \in live
  /\ me' = [me EXCEPT ![t].found = TRUE]
  /\ UNCHANGED <<stored, created, live, token, user, loading, due, login, calls, reloads>>

(* Mutant: the answer is not matched with the effect that asked for it.    *)
RestoredAny(t) ==
  /\ \/ me[t].found /\ user' = [user EXCEPT ![t] = Owner[me[t].sent]]
     \/ \E k \in live : <<t, k, FALSE>> \in calls /\ user' = [user EXCEPT ![t] = Owner[k]]
  /\ me' = [me EXCEPT ![t] = Idle]
  /\ loading' = [loading EXCEPT ![t] = FALSE]
  /\ UNCHANGED <<stored, created, live, token, due, login, calls, reloads>>

Restored(t) ==
  /\ me[t].found
  /\ me' = [me EXCEPT ![t] = Idle]
  /\ user' = [user EXCEPT ![t] = Owner[me[t].sent]]
  /\ loading' = [loading EXCEPT ![t] = FALSE]
  /\ UNCHANGED <<stored, created, live, token, due, login, calls, reloads>>

(* A 401, any other status, or no answer at all: every failure signs out.  *)
RestoreFails(t) ==
  /\ me[t].on
  /\ SignOut(t)
  /\ me' = [me EXCEPT ![t] = Idle]
  /\ loading' = [loading EXCEPT ![t] = FALSE]
  /\ UNCHANGED <<created, live, login, calls, reloads>>

(* A page asks the server for something.                                   *)
SendCall(t) ==
  /\ Shown(t) /\ Cardinality(calls) < MaxCalls
  /\ calls' = calls \cup {<<t, stored, FALSE>>}
  /\ UNCHANGED <<stored, created, live, tabVars, login, reloads>>

(* Success, a failure other than a 401 whatever the token, or no answer.   *)
AnswerCall(c) ==
  /\ c \in calls /\ calls' = calls \ {c}
  /\ UNCHANGED <<stored, created, live, tabVars, login, reloads>>

(* The server decides on a 401: no token, one that is not accepted, or,    *)
(* with any token, a database that fails when the caller is looked up.     *)
RefuseCall(c) ==
  /\ c \in calls /\ ~c[3]
  /\ calls' = (calls \ {c}) \cup {<<c[1], c[2], TRUE>>}
  /\ UNCHANGED <<stored, created, live, tabVars, login, reloads>>

(* The 401 arrives, also the one to an abandoned restore call.             *)
Unauthorized(c) ==
  /\ c \in calls /\ c[3]
  /\ calls' = calls \ {c}
  /\ SignOut(c[1])
  /\ UNCHANGED <<created, live, loading, me, login, reloads>>

-----------------------------------------------------------------------------
(* The login form, shown also while the session is being restored.  The    *)
(* tokens bound the logins: nobody submits one that no token is left for.  *)
TokenLeft(u) == \E k \in Token \ created : Owner[k] = u

SubmitLogin(t, u) ==
  /\ ~Shown(t) /\ login[t] = NoUser /\ TokenLeft(u)
  /\ login' = [login EXCEPT ![t] = u]
  /\ UNCHANGED <<stored, created, live, tabVars, calls, reloads>>

(* Mutant: the restore effect runs on mount only.                          *)
LoggedInOnce(t, k) ==
  /\ Owner[k] = login[t] /\ k \notin created
  /\ login' = [login EXCEPT ![t] = NoUser]
  /\ created' = created \cup {k} /\ live' = live \cup {k}
  /\ stored' = k
  /\ token' = [token EXCEPT ![t] = k]
  /\ user' = [user EXCEPT ![t] = login[t]]
  /\ UNCHANGED <<loading, due, me, calls, reloads>>

LoggedIn(t, k) ==
  /\ Owner[k] = login[t] /\ k \notin created
  /\ login' = [login EXCEPT ![t] = NoUser]
  /\ created' = created \cup {k} /\ live' = live \cup {k}
  /\ stored' = k
  /\ token' = [token EXCEPT ![t] = k]
  /\ user' = [user EXCEPT ![t] = login[t]]
  /\ due' = [due EXCEPT ![t] = TRUE]
  /\ UNCHANGED <<loading, me, calls, reloads>>

(* Wrong password: a 401 like any other.                                   *)
LoginRefused(t) ==
  /\ login[t] # NoUser
  /\ login' = [login EXCEPT ![t] = NoUser]
  /\ SignOut(t)
  /\ UNCHANGED <<created, live, loading, me, calls, reloads>>

LoginFails(t) ==
  /\ login[t] # NoUser
  /\ login' = [login EXCEPT ![t] = NoUser]
  /\ UNCHANGED <<stored, created, live, tabVars, calls, reloads>>

Logout(t) ==
  /\ Shown(t)
  /\ stored' = NoToken
  /\ token' = [token EXCEPT ![t] = NoToken]
  /\ user' = [user EXCEPT ![t] = NoUser]
  /\ due' = [due EXCEPT ![t] = FALSE]
  /\ me' = [me EXCEPT ![t] = Idle] /\ calls' = calls \cup Abandoned(t)
  /\ UNCHANGED <<created, live, loading, login, reloads>>

(* The tab starts again; what was on its way reaches nobody.               *)
Reload(t) ==
  /\ reloads < MaxReloads
  /\ reloads' = reloads + 1
  /\ token' = [token EXCEPT ![t] = stored]
  /\ user' = [user EXCEPT ![t] = NoUser]
  /\ loading' = [loading EXCEPT ![t] = TRUE] /\ due' = [due EXCEPT ![t] = TRUE]
  /\ me' = [me EXCEPT ![t] = Idle] /\ login' = [login EXCEPT ![t] = NoUser]
  /\ calls' = {c \in calls : c[1] # t}
  /\ UNCHANGED <<stored, created, live>>

(* Twelve hours after the login, or with the account deleted.              *)
Expire(k) ==
  /\ k \in live /\ live' = live \ {k}
  /\ UNCHANGED <<stored, created, tabVars, login, calls, reloads>>

TabStep(t) ==
  \/ RunEffect(t) \/ FindUser(t) \/ Restored(t) \/ RestoreFails(t)
  \/ SendCall(t) \/ Logout(t) \/ Reload(t)
  \/ \E u \in User : SubmitLogin(t, u)
  \/ \E k \in Token : LoggedIn(t, k)
  \/ LoginRefused(t) \/ LoginFails(t)

Next ==
  \/ \E t \in Tab : TabStep(t)
  \/ \E c \in calls : AnswerCall(c) \/ RefuseCall(c) \/ Unauthorized(c)
  \/ \E k \in Token : Expire(k)

(* Effects run, and a request ends in some way.                            *)
Fairness == \A t \in Tab : WF_vars(RunEffect(t)) /\ WF_vars(Restored(t) \/ RestoreFails(t))

Spec == Init /\ [][Next]_vars
FairSpec == Spec /\ Fairness

-----------------------------------------------------------------------------
(* A tab that holds the stored token and waits for nothing shows the user  *)
(* of that token, whatever restore calls of earlier tokens were still on   *)
(* their way when it signed in.                                            *)
Settled(t) == ~due[t] /\ ~me[t].on
SettledShowsOwner ==
  \A t \in Tab : Settled(t) /\ token[t] = stored /\ stored # NoToken =>
    ~loading[t] /\ user[t] = Owner[stored]

(* The spinner of ProtectedRoute ends, however often the token changes.    *)
RestoreEnds == \A t \in Tab : loading[t] ~> ~loading[t]

-----------------------------------------------------------------------------
(* The inductive invariant: a tab that has the stored token waits for the  *)
(* user of that token, or shows him.                                       *)
TokensCreated ==
  /\ live \subseteq created
  /\ \A t \in Tab : {token[t], me[t].sent} \subseteq created \cup {NoToken}
  /\ \A t \in Tab : me[t].found => me[t].on /\ me[t].sent # NoToken
  /\ stored \in created \cup {NoToken}

Follows ==
  \A t \in Tab : ~due[t] =>
    /\ loading[t] => me[t].on
    /\ token[t] = stored /\ stored # NoToken =>
         IF me[t].on THEN me[t].sent = stored ELSE user[t] = Owner[stored]

IInv == TypeOK /\ TokensCreated /\ Follows
=============================================================================
