------------------------------ MODULE Sessions ------------------------------
(***************************************************************************)
(* Sessions: the refresh tokens of services/auth_service.py, the routes    *)
(* that use them, and the client that keeps and renews them                *)
(* (core/api_client.dart, core/token_store.dart, auth_store.dart).         *)
(*                                                                         *)
(* One user on one client.  The client makes several API calls at a time;  *)
(* the server serves each in a worker thread with a database session of    *)
(* its own.  A step is what lies between two database operations or two    *)
(* awaits of the client: a SELECT, or an UPDATE or INSERT with its commit. *)
(* The process may be killed at any point, answers may be lost, and the    *)
(* rate limiter may refuse a refresh.  What is under way when a session    *)
(* ends goes on, also into the next session.                               *)
(*                                                                         *)
(* A token is a number: a refresh token and the access token issued with   *)
(* it.  The server stores no access token; whether one is past its exp     *)
(* when it is presented is left open.                                      *)
(***************************************************************************)
EXTENDS Integers, FiniteSets

CONSTANTS
    Calls,           \* the API calls the client may have open at a time
    MaxTokens        \* bound: the refresh tokens issued

ASSUME SessionsAssumption == MaxTokens \in Nat /\ IsFiniteSet(Calls)

Tokens == 1..MaxTokens
NoToken == 0

(* Client side: nothing going on; 401 received; the answer of a refresh or *)
(* a login (ok), or of a refresh (not ok); the session to be left.  Server *)
(* side: a request to authorise; a login's insert; a logout; a refresh     *)
(* before its SELECT, its UPDATE, its INSERT.                              *)
ServerSide == {"sent", "login", "logout", "reads", "revokes", "issues"}
Points     == {"idle", "refused", "renewed", "granted", "expired", "leaving"}
                 \cup ServerSide

(* token: what the request at hand presents.  body: the token that logout  *)
(* is to revoke, NoToken for other calls.  login: the call is a login, or  *)
(* the profile request that ends one.                                      *)
Call == [at : Points, token : Tokens \cup {NoToken},
         body : Tokens \cup {NoToken}, login : BOOLEAN]

VARIABLES
    row,             \* row[k]: row k of refresh_tokens, or "none"
    parent,          \* history: the token that k was issued for, or NoToken
    overdue,         \* refresh tokens past expires_at
    active,          \* User.is_active
    store,           \* the client's TokenStore
    signedIn,        \* AuthStore.status is authenticated
    call,            \* call[c]: where API call c stands
    cut              \* history: the tokens whose exchange was cut short

vars == <<row, parent, overdue, active, store, signedIn, call, cut>>

Issued == {k \in Tokens : row[k] # "none"}
Idle   == [at |-> "idle", token |-> NoToken, body |-> NoToken, login |-> FALSE]

TypeOK == /\ row \in [Tokens -> {"none", "live", "revoked"}]
          /\ parent \in [Tokens -> Tokens \cup {NoToken}]
          /\ \A k \in Tokens : parent[k] # NoToken => parent[k] < k /\ k \in Issued
          /\ overdue \subseteq Issued
          /\ store \in Issued \cup {NoToken}
          /\ call \in [Calls -> Call]
          /\ active \in BOOLEAN /\ signedIn \in BOOLEAN
          /\ cut \subseteq Issued \cup {NoToken}

-----------------------------------------------------------------------------
At(c, point)   == call[c].at = point
Goto(c, point) == call' = [call EXCEPT ![c].at = point]
Database       == <<row, parent, overdue, active>>
Client         == <<store, signedIn>>

(* A call that comes to its end, well or not.  AuthStore.logout has then   *)
(* still to leave the session.                                             *)
Ended(d)   == IF d.body # NoToken THEN [d EXCEPT !.at = "leaving"] ELSE Idle
Returns(c) == call' = [call EXCEPT ![c] = Ended(call[c])]

(* INSERT of a new refresh token, committed. *)
Insert(k, from) ==
    /\ k = Cardinality(Issued) + 1
    /\ row' = [row EXCEPT ![k] = "live"]
    /\ parent' = [parent EXCEPT ![k] = from]
    /\ UNCHANGED <<overdue, active>>

(* Room for the tokens that open calls may come to be issued: a login two, *)
(* of which the second by the refresh of its profile request, others one.  *)
RoomForLogin == Cardinality(Issued) + Cardinality(Calls) < MaxTokens
RoomForCall  ==
    Cardinality(Issued) + Cardinality({d \in Calls : At(d, "login")})
        + Cardinality({d \in Calls : call[d].at \in {"login", "granted", "sent", "refused",
                                                     "reads", "revokes", "issues"}}) < MaxTokens

-----------------------------------------------------------------------------
(* The login screen is there while nobody is signed in, whatever of the    *)
(* last session is still under way, and takes one login at a time.  The    *)
(* server accepts the password of an active account.                       *)
Login(c) ==
    /\ At(c, "idle") /\ ~signedIn /\ (\A d \in Calls : ~call[d].login)
    /\ RoomForLogin /\ active
    /\ call' = [call EXCEPT ![c].at = "login", ![c].login = TRUE]
    /\ UNCHANGED <<Database, Client, cut>>

IssueTokens(c) ==
    /\ At(c, "login")
    /\ \E k \in Tokens : /\ Insert(k, NoToken)
                         /\ call' = [call EXCEPT ![c].at = "granted", ![c].token = k]
    /\ UNCHANGED <<Client, cut>>

(* AuthStore.login stores the session and asks for the profile with it. *)
StoreLogin(c) ==
    /\ At(c, "granted")
    /\ store' = call[c].token
    /\ Goto(c, "sent")
    /\ UNCHANGED <<Database, signedIn, cut>>

(* ApiClient._request presents the stored access token.  Logout names the  *)
(* stored refresh token in its body; it is offered to who is signed in.    *)
Send(c) ==
    /\ At(c, "idle") /\ store # NoToken /\ RoomForCall
    /\ \E body \in {NoToken} \cup (IF signedIn THEN {store} ELSE {}) :
          call' = [call EXCEPT ![c] =
              [at |-> "sent", token |-> store, body |-> body, login |-> FALSE]]
    /\ UNCHANGED <<Database, Client, cut>>

(* get_current_user finds a valid access token of an active account.  The  *)
(* profile completes a login.                                              *)
Serve(c) ==
    /\ At(c, "sent") /\ active /\ call[c].body = NoToken
    /\ signedIn' = (signedIn \/ call[c].login)
    /\ Returns(c)
    /\ UNCHANGED <<Database, store, cut>>

AdmitLogout(c) ==
    /\ At(c, "sent") /\ active /\ call[c].body # NoToken
    /\ Goto(c, "logout")
    /\ UNCHANGED <<Database, Client, cut>>

(* 401: the access token has expired, or the account is disabled.  The     *)
(* client tries to refresh.                                                *)
Refuse(c) ==
    /\ At(c, "sent")
    /\ Goto(c, "refused")
    /\ UNCHANGED <<Database, Client, cut>>

(* logout revokes the token it is given, live or not. *)
Logout(c) ==
    /\ At(c, "logout")
    /\ row' = [row EXCEPT ![call[c].body] = "revoked"]
    /\ Returns(c)
    /\ UNCHANGED <<parent, overdue, active, Client, cut>>

(* logoutSilently, whatever the store holds by now. *)
Leave(c) ==
    /\ At(c, "leaving")
    /\ store' = NoToken /\ signedIn' = FALSE
    /\ call' = [call EXCEPT ![c] = Idle]
    /\ UNCHANGED <<Database, cut>>

-----------------------------------------------------------------------------
(* Faulty variant: with an empty store, waits for a session to appear.     *)
AwaitSession(c) ==
    /\ At(c, "refused") /\ store # NoToken
    /\ call' = [call EXCEPT ![c].at = "reads", ![c].token = store]
    /\ UNCHANGED <<Database, Client, cut>>

(* _tryRefresh sends what the store holds now. *)
TryRefresh(c) ==
    /\ At(c, "refused")
    /\ \/ store = NoToken /\ Returns(c)
       \/ /\ store # NoToken
          /\ call' = [call EXCEPT ![c].at = "reads", ![c].token = store]
    /\ UNCHANGED <<Database, Client, cut>>

(* Faulty variant: the SELECT does not ask for revoked_at IS NULL.         *)
ReadsAnyRow(c) ==
    LET k == call[c].token IN
    /\ At(c, "reads")
    /\ Goto(c, IF k \notin overdue /\ active THEN "revokes" ELSE "expired")
    /\ UNCHANGED <<Database, Client, cut>>

RefreshReads(c) ==
    LET k == call[c].token IN
    /\ At(c, "reads")
    /\ Goto(c, IF row[k] = "live" /\ k \notin overdue /\ active
               THEN "revokes" ELSE "expired")
    /\ UNCHANGED <<Database, Client, cut>>

(* Faulty variant: the token is not revoked.                               *)
RotatesNothing(c) ==
    /\ At(c, "revokes")
    /\ Goto(c, "issues")
    /\ UNCHANGED <<Database, Client, cut>>

(* Rotate: the UPDATE is by primary key and tests nothing again. *)
RefreshRevokes(c) ==
    /\ At(c, "revokes")
    /\ row' = [row EXCEPT ![call[c].token] = "revoked"]
    /\ Goto(c, "issues")
    /\ UNCHANGED <<parent, overdue, active, Client, cut>>

(* Faulty variant: the insert is not committed when the answer is sent.    *)
AnswersEarly(c) ==
    /\ At(c, "issues")
    /\ call' = [call EXCEPT ![c].at = "renewed", ![c].token = Cardinality(Issued) + 1]
    /\ UNCHANGED <<Database, Client, cut>>

RefreshIssues(c) ==
    /\ At(c, "issues")
    /\ \E k \in Tokens :
          /\ Insert(k, call[c].token)
          /\ call' = [call EXCEPT ![c].at = "renewed", ![c].token = k]
    /\ UNCHANGED <<Client, cut>>

(* Faulty variant: the new session is used but not stored.                 *)
RenewalNotStored(c) ==
    /\ At(c, "renewed")
    /\ Returns(c)
    /\ UNCHANGED <<Database, Client, cut>>

(* The client stores the new session, over whatever the store holds.  It   *)
(* then sends the same http.Request again, which is finalized by the first *)
(* sending: the library throws, and the call ends.                         *)
StoreSession(c) ==
    /\ At(c, "renewed")
    /\ store' = call[c].token
    /\ Returns(c)
    /\ UNCHANGED <<Database, signedIn, cut>>

(* Any answer but 200 clears the store, whatever it holds by now, and then *)
(* has logoutSilently leave the session.                                   *)
AuthExpired(c) ==
    /\ At(c, "expired")
    /\ store' = NoToken
    /\ Goto(c, "leaving")
    /\ UNCHANGED <<Database, signedIn, cut>>

-----------------------------------------------------------------------------
(* rate_limit refuses a refresh; for the client that is an answer as any.  *)
Throttle(c) ==
    /\ At(c, "reads")
    /\ Goto(c, "expired")
    /\ UNCHANGED <<Database, Client, cut>>

(* The process is killed: what was committed stays, the requests are gone, *)
(* and _tryRefresh, login and logout swallow the exception.                *)
Crash ==
    /\ \E c \in Calls : call[c].at \in ServerSide
    /\ call' = [c \in Calls |-> IF call[c].at \in ServerSide THEN Ended(call[c])
                                ELSE call[c]]
    /\ cut' = cut \cup {call[c].token : c \in {d \in Calls : At(d, "issues")}}
    /\ UNCHANGED <<Database, Client>>

(* The answer to a refresh or a login is lost on its way. *)
LoseAnswer(c) ==
    /\ At(c, "renewed") \/ At(c, "granted")
    /\ cut' = cut \cup {parent[call[c].token]}
    /\ Returns(c)
    /\ UNCHANGED <<Database, Client>>

(* Time passes: refresh tokens expire.  They all have the same lifetime,   *)
(* so the older ones have expired, too.                                    *)
Expire ==
    /\ \E k \in Issued : overdue' = overdue \cup {j \in Issued : j <= k}
    /\ UNCHANGED <<row, parent, active, Client, call, cut>>

Disable ==
    /\ active /\ active' = FALSE
    /\ UNCHANGED <<row, parent, overdue, Client, call, cut>>

-----------------------------------------------------------------------------
Init == /\ row = [k \in Tokens |-> "none"]
        /\ parent = [k \in Tokens |-> NoToken]
        /\ overdue = {} /\ active = TRUE
        /\ store = NoToken /\ signedIn = FALSE /\ cut = {}
        /\ call = [c \in Calls |-> Idle]

(* What moves a call on once the client has made it. *)
Step(c) == \/ IssueTokens(c) \/ StoreLogin(c) \/ Serve(c) \/ AdmitLogout(c)
           \/ Refuse(c) \/ Logout(c) \/ Leave(c)
           \/ TryRefresh(c) \/ RefreshReads(c) \/ RefreshRevokes(c)
           \/ RefreshIssues(c) \/ StoreSession(c) \/ AuthExpired(c)

Next == \/ \E c \in Calls : Login(c) \/ Send(c) \/ Step(c) \/ Throttle(c) \/ LoseAnswer(c)
        \/ Crash \/ Expire \/ Disable

(* The threads of the server and the futures of the client are run. *)
Fairness == \A c \in Calls : WF_vars(Step(c))

Spec == Init /\ [][Next]_vars /\ Fairness

-----------------------------------------------------------------------------
(* "rotate: one-time use" (auth_service.py:92): a token that was exchanged *)
(* for another is revoked before the other exists, and stays so, whatever  *)
(* overlaps and wherever the process is killed.                            *)
SpentBeforeReplaced ==
    \A k \in Issued : parent[k] # NoToken => row[parent[k]] = "revoked"

(* Overlapping refreshes can exchange one token several times, since each  *)
(* reads it before another revokes it (auth_service.py:78-93); but never   *)
(* more often than there were calls open, and never later.                 *)
SiblingsBounded ==
    \A k \in Issued :
       Cardinality({j \in Issued : parent[j] = k}) <= Cardinality(Calls)

(* A call that is about to put another token in the place of the stored    *)
(* one, or to remove the one it had revoked.                               *)
Mending(c) ==
    \/ At(c, "issues")  /\ call[c].token = store
    \/ At(c, "renewed") /\ parent[call[c].token] = store
    \/ At(c, "leaving") /\ call[c].body = store

(* However renewals of one session, its end and the next login overlap,    *)
(* the client is never left with a token that the server has revoked: the  *)
(* stored one is live, or the call that spent it is about to replace or    *)
(* remove it.  The exception is a token whose exchange was cut short after *)
(* its revocation, by a kill of the process or the loss of the answer      *)
(* (auth_service.py:92-108, api_client.dart:63-82).                        *)
StoredIsAlive ==
    store # NoToken =>
        \/ row[store] = "live"
        \/ \E c \in Calls : Mending(c)
        \/ store \in cut

(* Every call ends: a call refreshes once (api_client.dart:51-59).         *)
CallsEnd == \A c \in Calls : call[c].at # "idle" ~> call[c].at = "idle"
=============================================================================
