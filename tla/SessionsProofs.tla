--------------------------- MODULE SessionsProofs ---------------------------
(***************************************************************************)
(* What TLAPS proves of Sessions for any number of concurrent calls and    *)
(* any number of tokens.                                                   *)
(***************************************************************************)
EXTENDS Sessions, FiniteSetTheorems, TLAPS

USE SessionsAssumption

-----------------------------------------------------------------------------
(* The inductive invariant of the server: tokens are handed out in order,  *)
(* what a call presents was issued, and a refresh that is about to insert  *)
(* has spent its token.                                                    *)

InOrder == \E n \in 0..MaxTokens : Issued = 1..n

(* The points at which a call presents a token, or brings one. *)
Presenting == Points \ {"idle", "login", "leaving"}

CallOK(c) ==
    /\ call[c].token \in Issued \cup {NoToken} /\ call[c].body \in Issued \cup {NoToken}
    /\ call[c].at \in Presenting => call[c].token \in Issued
    /\ call[c].at = "logout" => call[c].body # NoToken
    /\ call[c].at = "issues" => row[call[c].token] = "revoked"

CallsOK == \A c \in Calls : CallOK(c)

ServerInv == TypeOK /\ InOrder /\ CallsOK /\ SpentBeforeReplaced

(* What was issued stays, and what was revoked stays revoked. *)
Grows == /\ Issued \subseteq Issued'
         /\ \A k \in Tokens : row[k] = "revoked" => row'[k] = "revoked"
         /\ \A k \in Issued : parent'[k] = parent[k]

(* A call that does not move stays as it should be. *)
LEMMA OthersKept ==
    ASSUME TypeOK, CallsOK, Grows, NEW d \in Calls, call'[d] = call[d]
    PROVE  CallOK(d)'
<1>1. CallOK(d) /\ call[d] \in Call
  BY DEF CallsOK, TypeOK
<1>2. call[d].at = "issues" => call[d].token \in Tokens
  BY <1>1 DEF CallOK, Presenting, Points, ServerSide, Issued
<1>3. QED
  BY <1>1, <1>2 DEF CallOK, Grows

(* A new token is the next number. *)
LEMMA InsertKeeps ==
    ASSUME TypeOK, InOrder, SpentBeforeReplaced,
           NEW k \in Tokens, NEW from \in Issued \cup {NoToken}, Insert(k, from),
           from # NoToken => row[from] = "revoked"
    PROVE  /\ k \notin Issued /\ Issued' = Issued \cup {k} /\ row'[k] = "live"
           /\ \A j \in Issued : j < k
           /\ InOrder' /\ Grows /\ SpentBeforeReplaced'
           /\ row' \in [Tokens -> {"none", "live", "revoked"}]
           /\ parent' \in [Tokens -> Tokens \cup {NoToken}] /\ parent'[k] = from
           /\ \A j \in Tokens : parent'[j] # NoToken => parent'[j] < j /\ j \in Issued'
<1>1. PICK n \in 0..MaxTokens : Issued = 1..n
  BY DEF InOrder
<1>2. Cardinality(Issued) = n
  BY <1>1, FS_Interval
<1>3. k = n + 1
  BY <1>2 DEF Insert
<1>4. /\ row' = [row EXCEPT ![k] = "live"]
      /\ parent' = [parent EXCEPT ![k] = from]
  BY DEF Insert
<1>5. /\ row' \in [Tokens -> {"none", "live", "revoked"}]
      /\ parent' \in [Tokens -> Tokens \cup {NoToken}]
      /\ row'[k] = "live" /\ parent'[k] = from
      /\ \A j \in Tokens \ {k} : row'[j] = row[j] /\ parent'[j] = parent[j]
  BY <1>4 DEF TypeOK, Issued
<1>6. k \notin Issued /\ Issued' = Issued \cup {k} /\ Issued' = 1..(n + 1)
  BY <1>1, <1>3, <1>5 DEF Issued, Tokens
<1>7. InOrder'
  BY <1>3, <1>6 DEF InOrder, Tokens
<1>8. \A j \in Issued : j < k
  BY <1>1, <1>3
<1>9. row[k] = "none"
  BY <1>6 DEF Issued
<1>10. Grows
  BY <1>5, <1>6, <1>9 DEF Grows, Issued
<1>11. \A j \in Tokens : parent'[j] # NoToken => parent'[j] < j /\ j \in Issued'
  BY <1>5, <1>6, <1>8 DEF TypeOK
<1>12. SpentBeforeReplaced'
  <2>1. ASSUME NEW j \in Issued', parent'[j] # NoToken
        PROVE  row'[parent'[j]] = "revoked"
    <3>1. CASE j = k
      BY <2>1, <3>1, <1>5, <1>10 DEF Grows, Issued
    <3>2. CASE j # k
      <4>1. j \in Issued /\ parent'[j] = parent[j] /\ parent[j] \in Tokens
        BY <2>1, <3>2, <1>5, <1>6 DEF TypeOK, Issued
      <4>2. QED
        BY <2>1, <4>1, <1>10 DEF SpentBeforeReplaced, Grows
    <3>3. QED
      BY <3>1, <3>2
  <2>2. QED
    BY <2>1 DEF SpentBeforeReplaced
<1>13. QED
  BY <1>5, <1>6, <1>7, <1>8, <1>10, <1>11, <1>12

(* Revoking issued tokens disturbs nothing. *)
LEMMA RevokeKeeps ==
    ASSUME TypeOK, InOrder, SpentBeforeReplaced, NEW k \in Issued,
           row' = [row EXCEPT ![k] = "revoked"], parent' = parent
    PROVE  /\ Issued' = Issued /\ InOrder' /\ Grows /\ SpentBeforeReplaced'
           /\ row' \in [Tokens -> {"none", "live", "revoked"}] /\ row'[k] = "revoked"
<1>1. /\ row' \in [Tokens -> {"none", "live", "revoked"}] /\ row'[k] = "revoked"
      /\ \A j \in Tokens \ {k} : row'[j] = row[j]
  BY DEF TypeOK, Issued
<1>2. Issued' = Issued
  BY <1>1 DEF Issued
<1>3. Grows
  BY <1>1, <1>2 DEF Grows
<1>4. SpentBeforeReplaced'
  BY <1>2, <1>3 DEF SpentBeforeReplaced, Grows, TypeOK
<1>5. QED
  BY <1>1, <1>2, <1>3, <1>4 DEF InOrder

(* A step that leaves the rows alone needs only its call and store looked  *)
(* at.                                                                     *)
LEMMA RowsSame ==
    ASSUME ServerInv, row' = row, parent' = parent
    PROVE  Issued' = Issued /\ InOrder' /\ Grows /\ SpentBeforeReplaced'
BY DEF ServerInv, Grows, InOrder, Issued, SpentBeforeReplaced

(* Every action that is not a crash moves one call, and keeps the          *)
(* invariant if that call is as it should be afterwards.                   *)
LEMMA MoveKeeps ==
    ASSUME ServerInv, NEW c \in Calls, NEW new \in Call,
           call' = [call EXCEPT ![c] = new], CallOK(c)', Grows,
           InOrder', SpentBeforeReplaced',
           row' \in [Tokens -> {"none", "live", "revoked"}],
           parent' \in [Tokens -> Tokens \cup {NoToken}],
           \A j \in Tokens : parent'[j] # NoToken => parent'[j] < j /\ j \in Issued',
           UNCHANGED <<overdue, active>>,
           store' \in Issued' \cup {NoToken}, signedIn' \in BOOLEAN,
           cut' \subseteq Issued' \cup {NoToken}
    PROVE  ServerInv'
<1>1. call' \in [Calls -> Call] /\ \A d \in Calls \ {c} : call'[d] = call[d]
  BY DEF ServerInv, TypeOK
<1>2. CallsOK'
  BY <1>1, OthersKept DEF ServerInv, CallsOK
<1>3. overdue' \subseteq Issued' /\ active' \in BOOLEAN
  BY DEF ServerInv, TypeOK, Grows
<1>4. QED
  BY <1>1, <1>2, <1>3 DEF ServerInv, TypeOK

LEMMA QuietMoveKeeps ==
    ASSUME ServerInv, NEW c \in Calls, NEW new \in Call,
           call' = [call EXCEPT ![c] = new], CallOK(c)',
           UNCHANGED Database, store' \in Issued \cup {NoToken}, signedIn' \in BOOLEAN,
           cut' \subseteq Issued \cup {NoToken}
    PROVE  ServerInv'
<1>1. UNCHANGED <<row, parent, overdue, active>>
  BY DEF Database
<1>2. Issued' = Issued /\ InOrder' /\ Grows /\ SpentBeforeReplaced'
  BY <1>1, RowsSame
<1>3. /\ row' \in [Tokens -> {"none", "live", "revoked"}]
      /\ parent' \in [Tokens -> Tokens \cup {NoToken}]
      /\ \A j \in Tokens : parent'[j] # NoToken => parent'[j] < j /\ j \in Issued'
  BY <1>1, <1>2 DEF ServerInv, TypeOK
<1>4. QED
  BY <1>1, <1>2, <1>3, MoveKeeps

LEMMA CallTypes ==
    ASSUME ServerInv, NEW c \in Calls
    PROVE  /\ call \in [Calls -> Call] /\ call[c] \in Call /\ Idle \in Call
           /\ CallOK(c) /\ Issued \subseteq Tokens /\ NoToken \notin Tokens
           /\ store \in Issued \cup {NoToken} /\ signedIn \in BOOLEAN
           /\ cut \subseteq Issued \cup {NoToken}
BY DEF ServerInv, TypeOK, CallsOK, Issued, Tokens, NoToken, Idle, Call, Points, ServerSide

(* A call that ends keeps what it names. *)
LEMMA EndedIsACall ==
    ASSUME ServerInv, NEW c \in Calls
    PROVE  /\ Ended(call[c]) \in Call /\ Ended(call[c]).at \in {"idle", "leaving"}
           /\ Ended(call[c]).token \in {call[c].token, NoToken}
           /\ Ended(call[c]).body \in {call[c].body, NoToken}
<1>1. CASE call[c].body # NoToken
  <2> DEFINE new == [call[c] EXCEPT !.at = "leaving"]
  <2>1. /\ new \in Call /\ new.at = "leaving" /\ new.token = call[c].token
        /\ new.body = call[c].body
    BY CallTypes DEF Call, Points
  <2>2. Ended(call[c]) = new
    BY <1>1 DEF Ended
  <2>3. QED
    BY <2>1, <2>2
<1>2. CASE call[c].body = NoToken
  <2>1. Ended(call[c]) = Idle
    BY <1>2 DEF Ended
  <2>2. Idle.at = "idle" /\ Idle.token = NoToken /\ Idle.body = NoToken
    BY DEF Idle
  <2>3. QED
    BY <2>1, <2>2, CallTypes
<1>3. QED
  BY <1>1, <1>2

(* A call that is over owes nothing. *)
LEMMA OverOK ==
    ASSUME ServerInv, NEW c \in Calls, Issued \subseteq Issued',
           call'[c].at \in {"idle", "leaving"},
           call'[c].token \in {call[c].token, NoToken},
           call'[c].body \in {call[c].body, NoToken}
    PROVE  CallOK(c)'
BY CallTypes DEF CallOK, Presenting

LEMMA ReturnsKeeps ==
    ASSUME ServerInv, NEW c \in Calls, Returns(c), UNCHANGED Database,
           store' \in Issued \cup {NoToken}, signedIn' \in BOOLEAN,
           cut' \subseteq Issued \cup {NoToken}
    PROVE  ServerInv'
<1> DEFINE new == Ended(call[c])
<1>1. call' = [call EXCEPT ![c] = new] /\ call'[c] = new /\ new \in Call
  BY CallTypes, EndedIsACall DEF Returns
<1>2. Issued' = Issued
  BY DEF Database, Issued
<1>3. CallOK(c)'
  BY <1>1, <1>2, EndedIsACall, OverOK
<1> HIDE DEF new
<1>4. QED
  BY <1>1, <1>3, QuietMoveKeeps

(* Going to another point with the same token. *)
LEMMA GotoKeeps ==
    ASSUME ServerInv, NEW c \in Calls, NEW point \in Presenting \ {"issues"},
           Goto(c, point), call[c].at \in Presenting,
           point = "logout" => call[c].body # NoToken,
           UNCHANGED Database, store' \in Issued \cup {NoToken}, signedIn' = signedIn,
           cut' = cut
    PROVE  ServerInv'
<1> DEFINE new == [call[c] EXCEPT !.at = point]
<1>1. /\ new \in Call /\ new.at = point /\ new.token = call[c].token
      /\ new.body = call[c].body
  BY CallTypes DEF Call, Presenting
<1>2. call' = [call EXCEPT ![c] = new] /\ call'[c] = new
  BY CallTypes DEF Goto
<1> HIDE DEF new
<1>3. Issued' = Issued
  BY DEF Database, Issued
<1>4. CallOK(c)'
  BY <1>1, <1>2, <1>3, CallTypes DEF CallOK, Presenting
<1>5. QED
  BY <1>1, <1>2, <1>4, CallTypes, QuietMoveKeeps

-----------------------------------------------------------------------------
(* The actions. *)

LEMMA LoginKeeps ==
    ASSUME ServerInv, NEW c \in Calls, Login(c)
    PROVE  ServerInv'
<1> DEFINE new == [call[c] EXCEPT !.at = "login", !.login = TRUE]
<1>1. /\ new \in Call /\ new.at = "login" /\ new.token = call[c].token
      /\ new.body = call[c].body
  BY CallTypes DEF Call, Points, ServerSide
<1>2. call' = [call EXCEPT ![c] = new] /\ call'[c] = new
  BY CallTypes DEF Login
<1>3. Issued' = Issued /\ UNCHANGED Database /\ UNCHANGED <<store, signedIn, cut>>
  BY DEF Login, Database, Issued, Client
<1> HIDE DEF new
<1>4. CallOK(c)'
  BY <1>1, <1>2, <1>3, CallTypes DEF CallOK, Presenting
<1>5. QED
  BY <1>1, <1>2, <1>3, <1>4, CallTypes, QuietMoveKeeps

LEMMA IssueTokensKeeps ==
    ASSUME ServerInv, NEW c \in Calls, IssueTokens(c)
    PROVE  ServerInv'
<1>1. PICK k \in Tokens :
         /\ Insert(k, NoToken)
         /\ call' = [call EXCEPT ![c].at = "granted", ![c].token = k]
  BY DEF IssueTokens
<1> DEFINE new == [call[c] EXCEPT !.at = "granted", !.token = k]
<1>2. /\ Issued' = Issued \cup {k} /\ InOrder' /\ Grows /\ SpentBeforeReplaced'
      /\ row' \in [Tokens -> {"none", "live", "revoked"}]
      /\ parent' \in [Tokens -> Tokens \cup {NoToken}]
      /\ \A j \in Tokens : parent'[j] # NoToken => parent'[j] < j /\ j \in Issued'
  BY <1>1, InsertKeeps DEF ServerInv
<1>3. /\ new \in Call /\ new.at = "granted" /\ new.token = k
      /\ new.body = call[c].body
  BY CallTypes DEF Call, Points
<1>4. call' = [call EXCEPT ![c] = new] /\ call'[c] = new
  BY <1>1, CallTypes
<1> HIDE DEF new
<1>5. CallOK(c)'
  BY <1>2, <1>3, <1>4, CallTypes DEF CallOK
<1>6. UNCHANGED <<store, signedIn, cut>> /\ UNCHANGED <<overdue, active>>
  BY <1>1 DEF IssueTokens, Client, Insert
<1>7. store' \in Issued' \cup {NoToken} /\ cut' \subseteq Issued' \cup {NoToken}
  BY <1>2, <1>6, CallTypes
<1>8. QED
  BY <1>2, <1>3, <1>4, <1>5, <1>6, <1>7, CallTypes, MoveKeeps

LEMMA SendKeeps ==
    ASSUME ServerInv, NEW c \in Calls, Send(c)
    PROVE  ServerInv'
<1>1. PICK body \in {NoToken, store} : call' = [call EXCEPT ![c] =
         [at |-> "sent", token |-> store, body |-> body, login |-> FALSE]]
  BY DEF Send
<1> DEFINE new == [at |-> "sent", token |-> store, body |-> body, login |-> FALSE]
<1>2. store \in Issued /\ body \in Issued \cup {NoToken}
  BY CallTypes DEF Send
<1>3. new \in Call
  BY <1>2, CallTypes DEF Call, Points, ServerSide
<1>4. call' = [call EXCEPT ![c] = new] /\ call'[c] = new
  BY <1>1, CallTypes
<1>5. Issued' = Issued /\ UNCHANGED Database /\ UNCHANGED <<store, signedIn, cut>>
  BY DEF Send, Database, Issued, Client
<1>6. CallOK(c)'
  BY <1>2, <1>4, <1>5 DEF CallOK
<1> HIDE DEF new
<1>7. QED
  BY <1>2, <1>3, <1>4, <1>5, <1>6, CallTypes, QuietMoveKeeps

LEMMA LogoutKeeps ==
    ASSUME ServerInv, NEW c \in Calls, Logout(c)
    PROVE  ServerInv'
<1> DEFINE new == Ended(call[c])
<1>1. call[c].body \in Issued
  BY CallTypes DEF Logout, At, CallOK
<1>2. /\ Issued' = Issued /\ InOrder' /\ Grows /\ SpentBeforeReplaced'
      /\ row' \in [Tokens -> {"none", "live", "revoked"}]
  BY <1>1, RevokeKeeps DEF Logout, ServerInv
<1>3. call' = [call EXCEPT ![c] = new] /\ call'[c] = new /\ new \in Call
  BY CallTypes, EndedIsACall DEF Logout, Returns
<1>4. CallOK(c)'
  BY <1>2, <1>3, EndedIsACall, OverOK
<1> HIDE DEF new
<1>5. UNCHANGED <<store, signedIn, cut, parent, overdue, active>>
  BY DEF Logout, Client
<1>6. /\ parent' \in [Tokens -> Tokens \cup {NoToken}]
      /\ \A j \in Tokens : parent'[j] # NoToken => parent'[j] < j /\ j \in Issued'
  BY <1>2, <1>5 DEF ServerInv, TypeOK
<1>7. QED
  BY <1>2, <1>3, <1>4, <1>5, <1>6, CallTypes, MoveKeeps

LEMMA LeaveKeeps ==
    ASSUME ServerInv, NEW c \in Calls, Leave(c)
    PROVE  ServerInv'
<1>1. call' = [call EXCEPT ![c] = Idle] /\ call'[c] = Idle /\ Idle \in Call
  BY CallTypes DEF Leave
<1>2. /\ UNCHANGED Database /\ Issued' = Issued /\ cut' = cut
      /\ store' = NoToken /\ signedIn' = FALSE
  BY DEF Leave, Database, Issued
<1>3. Idle.at = "idle" /\ Idle.token = NoToken /\ Idle.body = NoToken
  BY DEF Idle
<1>4. CallOK(c)'
  BY <1>1, <1>2, <1>3, OverOK
<1>5. QED
  BY <1>1, <1>2, <1>4, CallTypes, QuietMoveKeeps

LEMMA TryRefreshKeeps ==
    ASSUME ServerInv, NEW c \in Calls, TryRefresh(c)
    PROVE  ServerInv'
<1>0. UNCHANGED Database /\ UNCHANGED <<store, signedIn, cut>> /\ Issued' = Issued
  BY DEF TryRefresh, Database, Client, Issued
<1>1. CASE store = NoToken
  BY <1>0, <1>1, CallTypes, ReturnsKeeps DEF TryRefresh
<1>2. CASE store # NoToken
  <2> DEFINE new == [call[c] EXCEPT !.at = "reads", !.token = store]
  <2>1. store \in Issued
    BY <1>2, CallTypes
  <2>2. /\ new \in Call /\ new.at = "reads" /\ new.token = store
        /\ new.body = call[c].body
    BY <2>1, CallTypes DEF Call, Points, ServerSide
  <2>3. call' = [call EXCEPT ![c] = new] /\ call'[c] = new
    BY <1>2, CallTypes DEF TryRefresh
  <2> HIDE DEF new
  <2>4. CallOK(c)'
    BY <1>0, <2>1, <2>2, <2>3, CallTypes DEF CallOK, Presenting
  <2>5. QED
    BY <1>0, <2>1, <2>2, <2>3, <2>4, CallTypes, QuietMoveKeeps
<1>3. QED
  BY <1>1, <1>2

LEMMA RefreshRevokesKeeps ==
    ASSUME ServerInv, NEW c \in Calls, RefreshRevokes(c)
    PROVE  ServerInv'
<1> DEFINE new == [call[c] EXCEPT !.at = "issues"]
<1>1. call[c].token \in Issued
  BY CallTypes DEF RefreshRevokes, At, CallOK, Presenting, Points, ServerSide
<1>2. /\ Issued' = Issued /\ InOrder' /\ Grows /\ SpentBeforeReplaced'
      /\ row' \in [Tokens -> {"none", "live", "revoked"}]
      /\ row'[call[c].token] = "revoked"
  BY <1>1, RevokeKeeps DEF RefreshRevokes, ServerInv
<1>3. /\ new \in Call /\ new.at = "issues" /\ new.token = call[c].token
      /\ new.body = call[c].body
  BY CallTypes DEF Call, Points, ServerSide
<1>4. call' = [call EXCEPT ![c] = new] /\ call'[c] = new
  BY CallTypes DEF RefreshRevokes, Goto
<1> HIDE DEF new
<1>5. CallOK(c)'
  BY <1>1, <1>2, <1>3, <1>4, CallTypes DEF CallOK
<1>6. UNCHANGED <<store, signedIn, cut, parent, overdue, active>>
  BY DEF RefreshRevokes, Client
<1>7. /\ parent' \in [Tokens -> Tokens \cup {NoToken}]
      /\ \A j \in Tokens : parent'[j] # NoToken => parent'[j] < j /\ j \in Issued'
  BY <1>2, <1>6 DEF ServerInv, TypeOK
<1>8. QED
  BY <1>2, <1>3, <1>4, <1>5, <1>6, <1>7, CallTypes, MoveKeeps

LEMMA RefreshIssuesKeeps ==
    ASSUME ServerInv, NEW c \in Calls, RefreshIssues(c)
    PROVE  ServerInv'
<1>1. PICK k \in Tokens :
         /\ Insert(k, call[c].token)
         /\ call' = [call EXCEPT ![c].at = "renewed", ![c].token = k]
  BY DEF RefreshIssues
<1> DEFINE new == [call[c] EXCEPT !.at = "renewed", !.token = k]
<1>2. call[c].token \in Issued /\ row[call[c].token] = "revoked"
  BY CallTypes DEF RefreshIssues, At, CallOK, Presenting, Points, ServerSide
<1>3. /\ Issued' = Issued \cup {k} /\ InOrder' /\ Grows /\ SpentBeforeReplaced'
      /\ row' \in [Tokens -> {"none", "live", "revoked"}]
      /\ parent' \in [Tokens -> Tokens \cup {NoToken}]
      /\ \A j \in Tokens : parent'[j] # NoToken => parent'[j] < j /\ j \in Issued'
  BY <1>1, <1>2, InsertKeeps DEF ServerInv
<1>4. /\ new \in Call /\ new.at = "renewed" /\ new.token = k
      /\ new.body = call[c].body
  BY CallTypes DEF Call, Points
<1>5. call' = [call EXCEPT ![c] = new] /\ call'[c] = new
  BY <1>1, CallTypes
<1> HIDE DEF new
<1>6. CallOK(c)'
  BY <1>3, <1>4, <1>5, CallTypes DEF CallOK
<1>7. UNCHANGED <<store, signedIn, cut>> /\ UNCHANGED <<overdue, active>>
  BY <1>1 DEF RefreshIssues, Client, Insert
<1>8. store' \in Issued' \cup {NoToken} /\ cut' \subseteq Issued' \cup {NoToken}
  BY <1>3, <1>7, CallTypes
<1>9. QED
  BY <1>3, <1>4, <1>5, <1>6, <1>7, <1>8, CallTypes, MoveKeeps

(* What a call brings was issued, and what that was issued for, too. *)
LEMMA BroughtIsIssued ==
    ASSUME ServerInv, NEW c \in Calls, call[c].at \in {"renewed", "granted"}
    PROVE  call[c].token \in Issued /\ parent[call[c].token] \in Issued \cup {NoToken}
<1>1. call[c].token \in Issued
  BY CallTypes DEF CallOK, Presenting, Points, ServerSide
<1>2. parent[call[c].token] \in Tokens \cup {NoToken}
  BY <1>1, CallTypes DEF ServerInv, TypeOK
<1>3. parent[call[c].token] # NoToken => row[parent[call[c].token]] = "revoked"
  BY <1>1 DEF ServerInv, SpentBeforeReplaced
<1>4. QED
  BY <1>1, <1>2, <1>3 DEF Issued

LEMMA CrashKeeps ==
    ASSUME ServerInv, Crash
    PROVE  ServerInv'
<1>1. UNCHANGED <<row, parent, overdue, active, store, signedIn>>
  BY DEF Crash, Database, Client
<1>2. Issued' = Issued /\ InOrder' /\ Grows /\ SpentBeforeReplaced'
  BY <1>1, RowsSame
<1>3. \A c \in Calls :
         call'[c] = IF call[c].at \in ServerSide THEN Ended(call[c]) ELSE call[c]
  BY DEF Crash
<1>4. ASSUME NEW c \in Calls
      PROVE  CallOK(c)' /\ call'[c] \in Call
  <2>1. CASE call'[c] = Ended(call[c])
    BY <1>2, <2>1, EndedIsACall, OverOK
  <2>2. CASE call'[c] = call[c]
    BY <1>2, <2>2, CallTypes, OthersKept DEF ServerInv
  <2>3. QED
    BY <1>3, <2>1, <2>2
<1>5. call' \in [Calls -> Call]
  BY <1>4 DEF Crash
<1>6. cut' \subseteq Issued' \cup {NoToken}
  <2>1. ASSUME NEW c \in Calls, At(c, "issues")
        PROVE  call[c].token \in Issued
    BY <2>1, CallTypes DEF At, CallOK, Presenting, Points, ServerSide
  <2>2. cut \subseteq Issued \cup {NoToken}
    BY DEF ServerInv, TypeOK
  <2>3. QED
    BY <1>2, <2>1, <2>2 DEF Crash
<1>7. QED
  BY <1>1, <1>2, <1>4, <1>5, <1>6 DEF ServerInv, TypeOK, CallsOK

LEMMA TimeKeeps ==
    ASSUME ServerInv, Expire \/ Disable \/ UNCHANGED vars
    PROVE  ServerInv'
<1>1. UNCHANGED <<row, parent, store, signedIn, call, cut>>
  BY DEF Expire, Disable, Client, vars
<1>2. Issued' = Issued /\ InOrder' /\ Grows /\ SpentBeforeReplaced'
  BY <1>1, RowsSame
<1>3. overdue' \subseteq Issued /\ active' \in BOOLEAN
  BY DEF ServerInv, TypeOK, Expire, Disable, vars
<1>4. CallsOK'
  BY <1>1, <1>2, OthersKept DEF ServerInv, CallsOK
<1>5. QED
  BY <1>1, <1>2, <1>3, <1>4 DEF ServerInv, TypeOK

LEMMA StepKeeps ==
    ASSUME ServerInv, NEW c \in Calls, Step(c)
    PROVE  ServerInv'
<1>1. CASE Serve(c)
  BY <1>1, CallTypes, ReturnsKeeps DEF Serve
<1>2. CASE AdmitLogout(c)
  BY <1>2, CallTypes, GotoKeeps DEF AdmitLogout, At, Presenting, Points, ServerSide, Client
<1>3. CASE Refuse(c)
  BY <1>3, CallTypes, GotoKeeps DEF Refuse, At, Presenting, Points, ServerSide, Client
<1>4. CASE RefreshReads(c)
  BY <1>4, CallTypes, GotoKeeps DEF RefreshReads, At, Presenting, Points, ServerSide, Client
<1>5. CASE StoreLogin(c)
  BY <1>5, CallTypes, BroughtIsIssued, GotoKeeps
     DEF StoreLogin, At, Presenting, Points, ServerSide
<1>6. CASE StoreSession(c)
  BY <1>6, CallTypes, BroughtIsIssued, ReturnsKeeps DEF StoreSession, At
<1>7. CASE AuthExpired(c)
  <2> DEFINE new == [call[c] EXCEPT !.at = "leaving"]
  <2>1. /\ new \in Call /\ new.at = "leaving" /\ new.token = call[c].token
        /\ new.body = call[c].body
    BY CallTypes DEF Call, Points
  <2>2. call' = [call EXCEPT ![c] = new] /\ call'[c] = new
    BY <1>7, CallTypes DEF AuthExpired, Goto
  <2>3. /\ UNCHANGED Database /\ Issued' = Issued /\ store' = NoToken
        /\ UNCHANGED <<signedIn, cut>>
    BY <1>7 DEF AuthExpired, Database, Issued
  <2> HIDE DEF new
  <2>4. CallOK(c)'
    BY <2>1, <2>2, <2>3, OverOK
  <2>5. QED
    BY <2>1, <2>2, <2>3, <2>4, CallTypes, QuietMoveKeeps
<1>8. QED
  BY <1>1, <1>2, <1>3, <1>4, <1>5, <1>6, <1>7, IssueTokensKeeps, LogoutKeeps, LeaveKeeps,
     TryRefreshKeeps, RefreshRevokesKeeps, RefreshIssuesKeeps DEF Step

LEMMA NextKeeps ==
    ASSUME ServerInv, [Next]_vars
    PROVE  ServerInv'
<1>1. ASSUME NEW c \in Calls, Throttle(c)
      PROVE  ServerInv'
  BY <1>1, CallTypes, GotoKeeps DEF Throttle, At, Presenting, Points, ServerSide, Client
<1>2. ASSUME NEW c \in Calls, LoseAnswer(c)
      PROVE  ServerInv'
  <2>1. cut' = cut \cup {parent[call[c].token]} /\ Returns(c) /\ UNCHANGED Database
        /\ UNCHANGED <<store, signedIn>>
    BY <1>2 DEF LoseAnswer, Client
  <2>2. parent[call[c].token] \in Issued \cup {NoToken}
    BY <1>2, BroughtIsIssued DEF LoseAnswer, At
  <2>3. QED
    BY <2>1, <2>2, CallTypes, ReturnsKeeps
<1>3. QED
  BY <1>1, <1>2, LoginKeeps, SendKeeps, StepKeeps, CrashKeeps, TimeKeeps DEF Next

LEMMA ServerInvAlways == Spec => []ServerInv
<1>1. Init => ServerInv
  <2>1. SUFFICES ASSUME Init PROVE ServerInv
    OBVIOUS
  <2>2. Issued = {}
    BY <2>1 DEF Init, Issued
  <2>3. InOrder
    BY <2>2 DEF InOrder
  <2>4. \A c \in Calls : call[c] = Idle /\ Idle \in Call
    BY <2>1 DEF Init, Idle, Call, Points, ServerSide, NoToken
  <2>5. CallsOK
    BY <2>4 DEF CallsOK, CallOK, Idle, Presenting, NoToken
  <2>6. TypeOK
    BY <2>1, <2>2, <2>4 DEF Init, TypeOK
  <2>7. QED
    BY <2>2, <2>3, <2>5, <2>6 DEF ServerInv, SpentBeforeReplaced
<1>2. QED
  BY <1>1, NextKeeps, PTL DEF Spec

(* Whatever overlaps, is lost or is killed, rows, tokens and calls keep    *)
(* their types; a token, for one, descends from an older one.              *)
THEOREM TypesKept == Spec => []TypeOK
<1>1. ServerInv => TypeOK
  BY DEF ServerInv
<1>2. QED
  BY <1>1, ServerInvAlways, PTL

(* However many refreshes overlap and wherever the process is killed, a    *)
(* token that was exchanged is revoked.                                    *)
THEOREM AlwaysSpentFirst == Spec => []SpentBeforeReplaced
<1>1. ServerInv => SpentBeforeReplaced
  BY DEF ServerInv
<1>2. QED
  BY <1>1, ServerInvAlways, PTL
-----------------------------------------------------------------------------
(* The steps of one call that issue no token: what such a step leaves      *)
(* alone, and what it presents, revokes and stores.                        *)

QuietMove(c) ==
    \/ Login(c) \/ StoreLogin(c) \/ Send(c) \/ Serve(c) \/ AdmitLogout(c) \/ Refuse(c)
    \/ Logout(c) \/ Leave(c) \/ TryRefresh(c) \/ RefreshReads(c) \/ RefreshRevokes(c)
    \/ StoreSession(c) \/ AuthExpired(c) \/ Throttle(c) \/ LoseAnswer(c)

RowsQuiet(c) ==
    /\ Issued' = Issued /\ parent' = parent
    /\ \A k \in Issued \ {call[c].token, call[c].body} : row'[k] = row[k]
    /\ store' \in {store, NoToken, call[c].token}

CallQuiet(c) ==
    /\ \A d \in Calls \ {c} : call'[d] = call[d]
    /\ call'[c].at \notin {"renewed", "granted"}
    /\ call'[c].at = "revokes" => RefreshReads(c)
    /\ call'[c].at = "issues" => call[c].at = "revokes" /\ call'[c].token = call[c].token
    /\ call'[c].token \in {call[c].token, store, NoToken}
    /\ call'[c].body \in {call[c].body, store, NoToken}

LEMMA GotoIs ==
    ASSUME ServerInv, NEW c \in Calls, NEW point, Goto(c, point)
    PROVE  /\ \A d \in Calls \ {c} : call'[d] = call[d]
           /\ call'[c].at = point /\ call'[c].token = call[c].token
           /\ call'[c].body = call[c].body
<1> DEFINE new == [call[c] EXCEPT !.at = point]
<1>1. new.at = point /\ new.token = call[c].token /\ new.body = call[c].body
  BY CallTypes DEF Call
<1>2. call'[c] = new /\ \A d \in Calls \ {c} : call'[d] = call[d]
  BY CallTypes DEF Goto
<1> HIDE DEF new
<1>3. QED
  BY <1>1, <1>2

LEMMA ReturnsIs ==
    ASSUME ServerInv, NEW c \in Calls, Returns(c)
    PROVE  /\ \A d \in Calls \ {c} : call'[d] = call[d]
           /\ call'[c] = Ended(call[c])
           /\ call'[c].at \in {"idle", "leaving"}
           /\ call'[c].token \in {call[c].token, NoToken}
           /\ call'[c].body \in {call[c].body, NoToken}
BY CallTypes, EndedIsACall DEF Returns

LEMMA QuietRows ==
    ASSUME ServerInv, NEW c \in Calls, QuietMove(c)
    PROVE  RowsQuiet(c)
<1>1. CASE Logout(c)
  <2>1. call[c].body \in Issued
    BY <1>1, CallTypes DEF Logout, At, CallOK
  <2>2. Issued' = Issued /\ parent' = parent
    BY <1>1, <2>1, RevokeKeeps DEF Logout, ServerInv
  <2>3. QED
    BY <1>1, <2>2, CallTypes DEF Logout, RowsQuiet, Client, ServerInv, TypeOK
<1>2. CASE RefreshRevokes(c)
  <2>1. call[c].token \in Issued
    BY <1>2, CallTypes DEF RefreshRevokes, At, CallOK, Presenting, Points, ServerSide
  <2>2. Issued' = Issued /\ parent' = parent
    BY <1>2, <2>1, RevokeKeeps DEF RefreshRevokes, ServerInv
  <2>3. QED
    BY <1>2, <2>2, CallTypes DEF RefreshRevokes, RowsQuiet, Client, ServerInv, TypeOK
<1>3. CASE ~Logout(c) /\ ~RefreshRevokes(c)
  <2>1. UNCHANGED Database
    BY <1>3 DEF QuietMove, Login, StoreLogin, Send, Serve, AdmitLogout, Refuse, Leave,
                TryRefresh, RefreshReads, StoreSession, AuthExpired, Throttle, LoseAnswer
  <2>2. store' \in {store, NoToken, call[c].token}
    BY <1>3 DEF QuietMove, Login, StoreLogin, Send, Serve, AdmitLogout, Refuse, Leave,
                TryRefresh, RefreshReads, StoreSession, AuthExpired, Throttle, LoseAnswer,
                Client
  <2>3. QED
    BY <2>1, <2>2 DEF Database, RowsQuiet, Issued
<1>4. QED
  BY <1>1, <1>2, <1>3

LEMMA QuietCalls ==
    ASSUME ServerInv, NEW c \in Calls, QuietMove(c)
    PROVE  CallQuiet(c)
<1>1. CASE Login(c)
  <2> DEFINE new == [call[c] EXCEPT !.at = "login", !.login = TRUE]
  <2>1. new.at = "login" /\ new.token = call[c].token /\ new.body = call[c].body
    BY CallTypes DEF Call
  <2>2. call'[c] = new /\ \A d \in Calls \ {c} : call'[d] = call[d]
    BY <1>1, CallTypes DEF Login
  <2> HIDE DEF new
  <2>3. QED
    BY <2>1, <2>2 DEF CallQuiet
<1>2. CASE Send(c)
  <2>1. PICK body \in {NoToken, store} : call' = [call EXCEPT ![c] =
           [at |-> "sent", token |-> store, body |-> body, login |-> FALSE]]
    BY <1>2 DEF Send
  <2>2. /\ call'[c] = [at |-> "sent", token |-> store, body |-> body, login |-> FALSE]
        /\ \A d \in Calls \ {c} : call'[d] = call[d]
    BY <2>1, CallTypes
  <2>3. QED
    BY <2>2 DEF CallQuiet
<1>3. CASE \E point \in {"sent", "logout", "refused", "expired", "leaving"} : Goto(c, point)
  BY <1>3, GotoIs DEF CallQuiet
<1>4. CASE Returns(c)
  BY <1>4, ReturnsIs DEF CallQuiet
<1>5. CASE Leave(c)
  BY <1>5, CallTypes DEF Leave, CallQuiet, Idle
<1>6. CASE TryRefresh(c) /\ store # NoToken
  <2> DEFINE new == [call[c] EXCEPT !.at = "reads", !.token = store]
  <2>1. new.at = "reads" /\ new.token = store /\ new.body = call[c].body
    BY CallTypes DEF Call
  <2>2. call'[c] = new /\ \A d \in Calls \ {c} : call'[d] = call[d]
    BY <1>6, CallTypes DEF TryRefresh
  <2> HIDE DEF new
  <2>3. QED
    BY <2>1, <2>2 DEF CallQuiet
<1>7. CASE RefreshReads(c)
  <2>1. PICK point \in {"revokes", "expired"} : Goto(c, point)
    BY <1>7 DEF RefreshReads
  <2>2. QED
    BY <1>7, <2>1, GotoIs DEF CallQuiet
<1>8. CASE RefreshRevokes(c)
  BY <1>8, GotoIs DEF RefreshRevokes, At, CallQuiet
<1>9. QED
  BY <1>1, <1>2, <1>3, <1>4, <1>5, <1>6, <1>7, <1>8
     DEF QuietMove, StoreLogin, Serve, AdmitLogout, Refuse, Logout, TryRefresh,
         StoreSession, AuthExpired, Throttle, LoseAnswer

-----------------------------------------------------------------------------
(* A token is exchanged once for every call that read it live, and a token *)
(* that was exchanged is not read live again: the exchanges made and the   *)
(* exchanges under way are together no more than the calls.                *)

Siblings(k)   == {j \in Issued : parent[j] = k}
Exchanging(k) == {c \in Calls : call[c].at \in {"revokes", "issues"} /\ call[c].token = k}

SiblingRoom ==
    \A k \in Issued :
       Cardinality(Siblings(k)) + Cardinality(Exchanging(k)) <= Cardinality(Calls)

LEMMA SiblingCounts ==
    ASSUME InOrder, NEW k
    PROVE  /\ IsFiniteSet(Siblings(k)) /\ Cardinality(Siblings(k)) \in Nat
           /\ IsFiniteSet(Exchanging(k)) /\ Cardinality(Exchanging(k)) \in Nat
           /\ Cardinality(Exchanging(k)) <= Cardinality(Calls)
<1>1. PICK n \in 0..MaxTokens : Issued = 1..n
  BY DEF InOrder
<1>2. IsFiniteSet(Issued)
  BY <1>1, FS_Interval
<1>3. Siblings(k) \in SUBSET Issued /\ Exchanging(k) \in SUBSET Calls
  BY DEF Siblings, Exchanging
<1>4. QED
  BY <1>2, <1>3, FS_Subset, FS_CardinalityType

(* A step that begins no exchange and issues nothing takes no room. *)
LEMMA NoExchangeBegins ==
    ASSUME InOrder, SiblingRoom, Issued' = Issued, parent' = parent,
           \A c \in Calls : call'[c].at \in {"revokes", "issues"} =>
              call[c].at \in {"revokes", "issues"} /\ call'[c].token = call[c].token
    PROVE  SiblingRoom'
<1>1. ASSUME NEW k \in Issued
      PROVE  Cardinality(Siblings(k)') + Cardinality(Exchanging(k)') <= Cardinality(Calls)
  <2>1. Siblings(k)' = Siblings(k) /\ Exchanging(k)' \in SUBSET Exchanging(k)
    BY DEF Siblings, Exchanging
  <2>2. /\ Cardinality(Exchanging(k)') \in Nat
        /\ Cardinality(Exchanging(k)') <= Cardinality(Exchanging(k))
    BY <2>1, SiblingCounts, FS_Subset, FS_CardinalityType
  <2>3. Cardinality(Siblings(k)) + Cardinality(Exchanging(k)) <= Cardinality(Calls)
    BY DEF SiblingRoom
  <2>4. Cardinality(Calls) \in Nat
    BY FS_CardinalityType
  <2>5. QED
    BY <2>1, <2>2, <2>3, <2>4, SiblingCounts
<1>2. QED
  BY <1>1 DEF SiblingRoom

(* A token that is read live has not been exchanged. *)
LEMMA ReadsKeepRoom ==
    ASSUME ServerInv, SiblingRoom, NEW c \in Calls, RefreshReads(c)
    PROVE  SiblingRoom'
<1> DEFINE next == IF row[call[c].token] = "live" /\ call[c].token \notin overdue /\ active
                   THEN "revokes" ELSE "expired"
<1>1. /\ Issued' = Issued /\ parent' = parent /\ row' = row
      /\ call' = [call EXCEPT ![c] = [call[c] EXCEPT !.at = next]]
  BY DEF RefreshReads, Goto, Database, Issued
<1>2. /\ call'[c].at = next /\ call'[c].token = call[c].token
      /\ \A d \in Calls \ {c} : call'[d] = call[d]
  BY <1>1, CallTypes DEF Call
<1>3. InOrder
  BY DEF ServerInv
<1>4. CASE next = "expired"
  <2>1. \A d \in Calls : call'[d].at \in {"revokes", "issues"} =>
           call[d].at \in {"revokes", "issues"} /\ call'[d].token = call[d].token
    BY <1>2, <1>4
  <2>2. QED
    BY <1>1, <1>3, <2>1, NoExchangeBegins
<1>5. CASE next # "expired"
  <2>1. row[call[c].token] = "live"
    BY <1>5
  <2>2. ASSUME NEW k \in Issued
        PROVE  Cardinality(Siblings(k)') + Cardinality(Exchanging(k)') <= Cardinality(Calls)
    <3>1. Siblings(k)' = Siblings(k)
      BY <1>1 DEF Siblings
    <3>2. CASE k = call[c].token
      <4>1. Siblings(k) = {}
        BY <2>1, <3>2, CallTypes DEF Siblings, ServerInv, SpentBeforeReplaced
      <4>2. Exchanging(k)' \in SUBSET Calls
        BY DEF Exchanging
      <4>3. QED
        BY <3>1, <4>1, <4>2, FS_EmptySet, FS_Subset, FS_CardinalityType
    <3>3. CASE k # call[c].token
      <4>1. Exchanging(k)' = Exchanging(k)
        BY <1>2, <3>3 DEFS Exchanging, RefreshReads, At
      <4>2. QED
        BY <3>1, <4>1 DEF SiblingRoom
    <3>4. QED
      BY <3>2, <3>3
  <2>3. QED
    BY <1>1, <2>2 DEF SiblingRoom
<1>6. QED
  BY <1>4, <1>5

(* A new token has no siblings of its own yet. *)
LEMMA NewHasNoSiblings ==
    ASSUME ServerInv, NEW k \in Tokens, k \notin Issued, Issued' = Issued \cup {k},
           \A j \in Issued : j < k,
           \A j \in Tokens : parent'[j] # NoToken => parent'[j] < j
    PROVE  Siblings(k)' = {}
<1>1. \A j \in Issued' : j \in Tokens /\ j <= k
  BY DEF Tokens, Issued
<1>2. \A j \in Issued' : parent'[j] # k
  BY <1>1 DEF Tokens, NoToken
<1>3. QED
  BY <1>2 DEF Siblings

LEMMA LoginsKeepRoom ==
    ASSUME ServerInv, SiblingRoom, NEW c \in Calls, IssueTokens(c)
    PROVE  SiblingRoom'
<1>1. PICK k \in Tokens : Insert(k, NoToken)
  BY DEF IssueTokens
<1>2. /\ k \notin Issued /\ Issued' = Issued \cup {k} /\ Grows /\ parent'[k] = NoToken
      /\ \A j \in Issued : j < k
      /\ \A j \in Tokens : parent'[j] # NoToken => parent'[j] < j /\ j \in Issued'
  BY <1>1, InsertKeeps DEF ServerInv
<1>3. Siblings(k)' = {}
  BY <1>2, NewHasNoSiblings
<1>4. /\ call'[c].at = "granted" /\ call[c].at = "login"
      /\ \A d \in Calls \ {c} : call'[d] = call[d]
  BY CallTypes DEF IssueTokens, At, Call
<1>5. \A j \in Issued' : Exchanging(j)' = Exchanging(j)
  BY <1>4 DEF Exchanging
<1>6. \A j \in Issued : Siblings(j)' = Siblings(j)
  BY <1>2, CallTypes DEF Siblings, Grows
<1>7. ASSUME NEW j \in Issued'
      PROVE  Cardinality(Siblings(j)') + Cardinality(Exchanging(j)') <= Cardinality(Calls)
  <2>1. CASE j \in Issued
    BY <2>1, <1>5, <1>6 DEF SiblingRoom
  <2>2. CASE j = k
    BY <2>2, <1>3, <1>5, SiblingCounts, FS_EmptySet DEF ServerInv
  <2>3. QED
    BY <1>2, <2>1, <2>2
<1>8. QED
  BY <1>7 DEF SiblingRoom

(* What was being exchanged has been exchanged. *)
LEMMA RefreshesKeepRoom ==
    ASSUME ServerInv, SiblingRoom, NEW c \in Calls, RefreshIssues(c)
    PROVE  SiblingRoom'
<1>0. call[c].token \in Issued
  BY CallTypes DEF RefreshIssues, At, CallOK, Presenting, Points, ServerSide
<1> PICK from \in Issued : from = call[c].token
  BY <1>0
<1>1. PICK k \in Tokens :
         /\ Insert(k, from)
         /\ call' = [call EXCEPT ![c] = [call[c] EXCEPT !.at = "renewed", !.token = k]]
  BY DEF RefreshIssues
<1>2. row[from] = "revoked" /\ c \in Exchanging(from)
  BY CallTypes DEF RefreshIssues, At, CallOK, Presenting, Points, ServerSide, Exchanging
<1>3. /\ k \notin Issued /\ Issued' = Issued \cup {k} /\ Grows /\ parent'[k] = from
      /\ \A j \in Issued : j < k
      /\ \A j \in Tokens : parent'[j] # NoToken => parent'[j] < j /\ j \in Issued'
  BY <1>1, <1>2, InsertKeeps DEF ServerInv
<1>4. call'[c].at = "renewed" /\ \A d \in Calls \ {c} : call'[d] = call[d]
  BY <1>1, CallTypes DEF Call
<1>5. Siblings(k)' = {}
  BY <1>3, NewHasNoSiblings
<1>6. /\ Siblings(from)' = Siblings(from) \cup {k} /\ k \notin Siblings(from)
      /\ Exchanging(from)' = Exchanging(from) \ {c}
  <2>1. Siblings(from)' = Siblings(from) \cup {k} /\ k \notin Siblings(from)
    BY <1>3 DEF Siblings, Grows
  <2>2. Exchanging(from)' = Exchanging(from) \ {c}
    BY <1>4 DEF Exchanging
  <2>3. QED
    BY <2>1, <2>2
<1>7. \A j \in Issued \ {from} : /\ Siblings(j)' = Siblings(j)
                                 /\ Exchanging(j)' = Exchanging(j)
  BY <1>3, <1>4 DEF Siblings, Exchanging, Grows
<1>8. ASSUME NEW j \in Issued'
      PROVE  Cardinality(Siblings(j)') + Cardinality(Exchanging(j)') <= Cardinality(Calls)
  <2>1. CASE j \in Issued \ {from}
    BY <2>1, <1>7 DEF SiblingRoom
  <2>2. CASE j = from
    <3>1. /\ Cardinality(Siblings(from)') = Cardinality(Siblings(from)) + 1
          /\ Cardinality(Exchanging(from)') = Cardinality(Exchanging(from)) - 1
      <4>1. IsFiniteSet(Siblings(from)) /\ IsFiniteSet(Exchanging(from))
        BY SiblingCounts DEF ServerInv
      <4>2. Cardinality(Siblings(from) \cup {k}) = Cardinality(Siblings(from)) + 1
        BY <1>6, <4>1, FS_AddElement
      <4>3. Cardinality(Exchanging(from) \ {c}) = Cardinality(Exchanging(from)) - 1
        BY <1>2, <4>1, FS_RemoveElement
      <4>4. QED
        BY <1>6, <4>2, <4>3
    <3>2. Cardinality(Siblings(from)) + Cardinality(Exchanging(from)) <= Cardinality(Calls)
      BY <1>2 DEF SiblingRoom
    <3>3. Cardinality(Siblings(from)) \in Nat /\ Cardinality(Exchanging(from)) \in Nat
      BY SiblingCounts DEF ServerInv
    <3>4. QED
      BY <2>2, <3>1, <3>2, <3>3, FS_CardinalityType
  <2>3. CASE j = k
    <3>1. Exchanging(k)' \in SUBSET Calls
      BY DEF Exchanging
    <3>2. QED
      BY <2>3, <3>1, <1>5, FS_EmptySet, FS_Subset, FS_CardinalityType
  <2>4. QED
    BY <1>3, <2>1, <2>2, <2>3
<1>9. QED
  BY <1>8 DEF SiblingRoom

LEMMA RoomKept ==
    ASSUME ServerInv, SiblingRoom, [Next]_vars
    PROVE  SiblingRoom'
<1>1. InOrder
  BY DEF ServerInv
<1>2. CASE \E c \in Calls : RefreshReads(c) \/ RefreshIssues(c) \/ IssueTokens(c)
  BY <1>2, ReadsKeepRoom, LoginsKeepRoom, RefreshesKeepRoom
<1>3. ASSUME NEW c \in Calls, QuietMove(c), ~RefreshReads(c)
      PROVE  SiblingRoom'
  <2>1. RowsQuiet(c) /\ CallQuiet(c)
    BY <1>3, QuietRows, QuietCalls
  <2>2. \A d \in Calls : call'[d].at \in {"revokes", "issues"} =>
           call[d].at \in {"revokes", "issues"} /\ call'[d].token = call[d].token
    BY <1>3, <2>1 DEF CallQuiet
  <2>3. QED
    BY <1>1, <2>1, <2>2, NoExchangeBegins DEF RowsQuiet
<1>4. CASE Crash
  <2>1. \A d \in Calls : call'[d] = Ended(call[d]) \/ call'[d] = call[d]
    BY <1>4 DEF Crash
  <2>2. \A d \in Calls : Ended(call[d]).at \in {"idle", "leaving"}
    BY EndedIsACall
  <2>3. Issued' = Issued /\ parent' = parent
    BY <1>4 DEF Crash, Database, Issued
  <2>4. \A d \in Calls : call'[d].at \in {"revokes", "issues"} => call'[d] = call[d]
    BY <2>1, <2>2
  <2>5. QED
    BY <1>1, <2>3, <2>4, NoExchangeBegins
<1>5. CASE Expire \/ Disable \/ UNCHANGED vars
  BY <1>1, <1>5, NoExchangeBegins DEF Expire, Disable, vars, Issued
<1>6. QED
  BY <1>2, <1>3, <1>4, <1>5 DEF Next, Step, QuietMove

LEMMA RoomAtFirst == Init => SiblingRoom
<1>1. SUFFICES ASSUME Init PROVE SiblingRoom
  OBVIOUS
<1>2. Issued = {}
  BY <1>1 DEF Init, Issued
<1>3. QED
  BY <1>2 DEF SiblingRoom

(* Overlapping refreshes exchange a token at most once for every call that *)
(* may be open, whatever is lost or killed in between.                     *)
THEOREM AlwaysSiblingsBounded == Spec => []SiblingsBounded
<1>1. ASSUME ServerInv, SiblingRoom
      PROVE  SiblingsBounded
  <2>1. ASSUME NEW k \in Issued
        PROVE  Cardinality(Siblings(k)) <= Cardinality(Calls)
    <3>1. Cardinality(Siblings(k)) \in Nat /\ Cardinality(Exchanging(k)) \in Nat
      BY <1>1, SiblingCounts DEF ServerInv
    <3>2. Cardinality(Siblings(k)) + Cardinality(Exchanging(k)) <= Cardinality(Calls)
      BY <1>1 DEF SiblingRoom
    <3>3. QED
      BY <3>1, <3>2, FS_CardinalityType
  <2>2. QED
    BY <2>1 DEF SiblingsBounded, Siblings
<1>2. ServerInv /\ SiblingRoom /\ [Next]_vars => SiblingRoom'
  BY RoomKept
<1>3. QED
  BY <1>1, <1>2, RoomAtFirst, ServerInvAlways, PTL DEF Spec

-----------------------------------------------------------------------------
(* A session that a call brings is new: its token is live, and neither the *)
(* store nor another call has it.                                          *)

IsNew(c) ==
    call[c].at \in {"renewed", "granted"} =>
        /\ row[call[c].token] = "live" /\ call[c].token # store
        /\ \A d \in Calls \ {c} : call[d].token # call[c].token /\ call[d].body # call[c].token

NewsAreNew == \A c \in Calls : IsNew(c)

LEMMA QuietKeepsNew ==
    ASSUME ServerInv, NewsAreNew, NEW c \in Calls, QuietMove(c)
    PROVE  NewsAreNew'
<1>1. RowsQuiet(c) /\ CallQuiet(c)
  BY QuietRows, QuietCalls
<1>2. IsNew(c)'
  BY <1>1 DEF CallQuiet, IsNew
<1>3. ASSUME NEW d \in Calls \ {c}
      PROVE  IsNew(d)'
  <2>1. CASE call[d].at \notin {"renewed", "granted"}
    BY <1>1, <2>1 DEF CallQuiet, IsNew
  <2>2. CASE call[d].at \in {"renewed", "granted"}
    <3>1. call[d].token \in Issued /\ call[d].token # NoToken
      BY <2>2, BroughtIsIssued, CallTypes
    <3>2. /\ row[call[d].token] = "live" /\ call[d].token # store
          /\ call[c].token # call[d].token /\ call[c].body # call[d].token
      BY <2>2 DEF NewsAreNew, IsNew
    <3>3. row'[call[d].token] = "live" /\ call[d].token # store'
      BY <1>1, <3>1, <3>2 DEF RowsQuiet
    <3>4. call'[d] = call[d]
      BY <1>1 DEF CallQuiet
    <3>5. call'[c].token # call[d].token /\ call'[c].body # call[d].token
      BY <1>1, <3>1, <3>2 DEF CallQuiet
    <3>6. ASSUME NEW e \in Calls \ {d}
          PROVE  call'[e].token # call[d].token /\ call'[e].body # call[d].token
      <4>1. CASE e = c
        BY <3>5, <4>1
      <4>2. CASE e # c
        BY <1>1, <2>2, <4>2 DEF CallQuiet, NewsAreNew, IsNew
      <4>3. QED
        BY <4>1, <4>2
    <3>7. QED
      BY <3>3, <3>4, <3>6 DEF IsNew
  <2>3. QED
    BY <2>1, <2>2
<1>4. QED
  BY <1>2, <1>3 DEF NewsAreNew

(* A step that issues token k leaves the other tokens as they are and      *)
(* gives k to its own call.                                                *)
Issues(c, k) ==
    /\ k \notin Issued /\ k # NoToken /\ Issued' = Issued \cup {k} /\ row'[k] = "live"
    /\ \A j \in Issued : row'[j] = row[j] /\ parent'[j] = parent[j]
    /\ \A d \in Calls \ {c} : call'[d] = call[d]
    /\ call'[c].at \in {"renewed", "granted"} /\ call'[c].token = k
    /\ call'[c].body = call[c].body
    /\ call[c].at = "issues" => call'[c].at = "renewed" /\ parent'[k] = call[c].token
    /\ UNCHANGED <<store, cut>>

LEMMA IssuingIs ==
    ASSUME ServerInv, NEW c \in Calls, IssueTokens(c) \/ RefreshIssues(c)
    PROVE  \E k \in Tokens : Issues(c, k)
<1>1. ASSUME NEW k \in Tokens, NEW from \in Issued \cup {NoToken}, Insert(k, from),
             from # NoToken => row[from] = "revoked"
      PROVE  /\ k \notin Issued /\ k # NoToken /\ Issued' = Issued \cup {k}
             /\ row'[k] = "live" /\ parent'[k] = from
             /\ \A j \in Issued : row'[j] = row[j] /\ parent'[j] = parent[j]
  <2>1. /\ k \notin Issued /\ Issued' = Issued \cup {k} /\ row'[k] = "live"
        /\ parent'[k] = from
    BY <1>1, InsertKeeps DEF ServerInv
  <2>2. \A j \in Issued : row'[j] = row[j] /\ parent'[j] = parent[j]
    BY <1>1, <2>1, CallTypes DEF Insert, ServerInv, TypeOK
  <2>3. QED
    BY <2>1, <2>2, CallTypes
<1>2. ASSUME NEW k, NEW point, call' = [call EXCEPT ![c].at = point, ![c].token = k]
      PROVE  /\ \A d \in Calls \ {c} : call'[d] = call[d]
             /\ call'[c].at = point /\ call'[c].token = k /\ call'[c].body = call[c].body
  <2> DEFINE new == [call[c] EXCEPT !.at = point, !.token = k]
  <2>1. new.at = point /\ new.token = k /\ new.body = call[c].body
    BY CallTypes DEF Call
  <2>2. call'[c] = new /\ \A d \in Calls \ {c} : call'[d] = call[d]
    BY <1>2, CallTypes
  <2> HIDE DEF new
  <2>3. QED
    BY <2>1, <2>2
<1>3. UNCHANGED <<store, cut>>
  BY DEF IssueTokens, RefreshIssues, Client
<1>4. CASE IssueTokens(c)
  <2>1. PICK k \in Tokens :
           /\ Insert(k, NoToken)
           /\ call' = [call EXCEPT ![c].at = "granted", ![c].token = k]
    BY <1>4 DEF IssueTokens
  <2>2. call[c].at = "login"
    BY <1>4 DEF IssueTokens, At
  <2>3. QED
    BY <1>1, <1>2, <1>3, <2>1, <2>2 DEF Issues
<1>5. CASE RefreshIssues(c)
  <2>1. PICK k \in Tokens :
           /\ Insert(k, call[c].token)
           /\ call' = [call EXCEPT ![c].at = "renewed", ![c].token = k]
    BY <1>5 DEF RefreshIssues
  <2>2. call[c].token \in Issued /\ row[call[c].token] = "revoked"
    BY <1>5, CallTypes DEF RefreshIssues, At, CallOK, Presenting, Points, ServerSide
  <2>3. /\ k \notin Issued /\ k # NoToken /\ Issued' = Issued \cup {k}
        /\ row'[k] = "live" /\ parent'[k] = call[c].token
        /\ \A j \in Issued : row'[j] = row[j] /\ parent'[j] = parent[j]
    BY <1>1, <2>1, <2>2
  <2>4. /\ \A d \in Calls \ {c} : call'[d] = call[d]
        /\ call'[c].at = "renewed" /\ call'[c].token = k /\ call'[c].body = call[c].body
    BY <1>2, <2>1
  <2>5. QED
    BY <1>3, <2>1, <2>3, <2>4 DEF Issues
<1>6. QED
  BY <1>4, <1>5

LEMMA IssuingKeepsNew ==
    ASSUME ServerInv, NewsAreNew, NEW c \in Calls, IssueTokens(c) \/ RefreshIssues(c)
    PROVE  NewsAreNew'
<1>1. PICK k \in Tokens : Issues(c, k)
  BY IssuingIs
<1>2. store # k /\ store' = store
  BY <1>1, CallTypes DEF Issues
<1>3. \A d \in Calls : call[d].token # k /\ call[d].body # k
  BY <1>1, CallTypes DEF CallOK, Issues
<1>4. IsNew(c)'
  BY <1>1, <1>2, <1>3 DEF IsNew, Issues
<1>5. ASSUME NEW d \in Calls \ {c}, call[d].at \in {"renewed", "granted"}
      PROVE  IsNew(d)'
  <2>1. call[d].token \in Issued
    BY <1>5, BroughtIsIssued
  <2>2. /\ row[call[d].token] = "live" /\ call[d].token # store
        /\ \A e \in Calls \ {d} : call[e].token # call[d].token /\ call[e].body # call[d].token
    BY <1>5 DEF NewsAreNew, IsNew
  <2>3. \A e \in Calls \ {d} : call'[e].token # call[d].token /\ call'[e].body # call[d].token
    BY <1>1, <2>1, <2>2 DEF Issues
  <2>4. QED
    BY <1>1, <1>2, <2>1, <2>2, <2>3 DEF IsNew, Issues
<1>6. QED
  BY <1>1, <1>4, <1>5 DEF NewsAreNew, IsNew, Issues

LEMMA CrashKeepsNew ==
    ASSUME ServerInv, NewsAreNew, Crash
    PROVE  NewsAreNew'
<1>1. UNCHANGED <<row, store>>
  BY DEF Crash, Database, Client
<1>2. \A d \in Calls :
         call'[d] = IF call[d].at \in ServerSide THEN Ended(call[d]) ELSE call[d]
  BY DEF Crash
<1>3. \A d \in Calls : /\ call'[d].token \in {call[d].token, NoToken}
                       /\ call'[d].body \in {call[d].body, NoToken}
                       /\ call'[d].at \in {"renewed", "granted"} => call'[d] = call[d]
  BY <1>2, EndedIsACall
<1>4. ASSUME NEW d \in Calls, call'[d].at \in {"renewed", "granted"}
      PROVE  IsNew(d)'
  <2>1. call'[d] = call[d] /\ call[d].token # NoToken
    BY <1>3, <1>4, BroughtIsIssued, CallTypes
  <2>2. /\ row[call[d].token] = "live" /\ call[d].token # store
        /\ \A e \in Calls \ {d} : call[e].token # call[d].token /\ call[e].body # call[d].token
    BY <1>4, <2>1 DEF NewsAreNew, IsNew
  <2>3. \A e \in Calls \ {d} : call'[e].token # call[d].token /\ call'[e].body # call[d].token
    BY <1>3, <2>1, <2>2
  <2>4. QED
    BY <1>1, <2>1, <2>2, <2>3 DEF IsNew
<1>5. QED
  BY <1>4 DEF NewsAreNew, IsNew

LEMMA NewsKept ==
    ASSUME ServerInv, NewsAreNew, [Next]_vars
    PROVE  NewsAreNew'
<1>1. CASE Expire \/ Disable \/ UNCHANGED vars
  <2>1. UNCHANGED <<row, store, call>>
    BY <1>1 DEF Expire, Disable, vars, Client
  <2>2. QED
    BY <2>1 DEF NewsAreNew, IsNew
<1>2. QED
  BY <1>1, QuietKeepsNew, IssuingKeepsNew, CrashKeepsNew DEF Next, Step, QuietMove

-----------------------------------------------------------------------------
(* The stored token.                                                       *)

Ailing == store # NoToken /\ row[store] # "live"

(* A stored token that is not live, and for which nothing was cut short,   *)
(* is being mended.                                                        *)
Mended == Ailing => (store \in cut \/ \E c \in Calls : Mending(c))

LEMMA MendedIsAlive == StoredIsAlive <=> Mended
BY DEF StoredIsAlive, Mended, Ailing

(* A call that does not move goes on mending. *)
LEMMA OthersMend ==
    ASSUME ServerInv, NEW d \in Calls, call'[d] = call[d], store' = store,
           \A k \in Issued : parent'[k] = parent[k], Mending(d)
    PROVE  Mending(d)'
<1>1. CASE At(d, "renewed")
  <2>1. call[d].token \in Issued
    BY <1>1, BroughtIsIssued DEF At
  <2>2. QED
    BY <1>1, <2>1 DEF Mending, At
<1>2. CASE ~At(d, "renewed")
  BY <1>2 DEF Mending, At
<1>3. QED
  BY <1>1, <1>2

(* A step keeps the stored token well if its own call goes on mending what *)
(* it mended, or that is cut short, and mends what it spoils.              *)
LEMMA MoveKeepsWell ==
    ASSUME ServerInv, Mended, NEW c \in Calls, store' = store, cut \subseteq cut',
           \A d \in Calls \ {c} : call'[d] = call[d],
           \A k \in Issued : parent'[k] = parent[k],
           Ailing' => Ailing \/ Mending(c)',
           Mending(c) => Mending(c)' \/ store \in cut'
    PROVE  Mended'
<1>1. SUFFICES ASSUME Ailing'
               PROVE  store \in cut' \/ \E d \in Calls : Mending(d)'
  BY DEF Mended
<1>2. CASE Mending(c)'
  BY <1>2
<1>3. CASE ~Mending(c)'
  <2>1. Ailing
    BY <1>1, <1>3
  <2>2. CASE store \in cut
    BY <2>2
  <2>3. CASE \E d \in Calls : Mending(d)
    <3>1. PICK d \in Calls : Mending(d)
      BY <2>3
    <3>2. CASE d = c
      BY <1>3, <3>1, <3>2
    <3>3. CASE d # c
      BY <3>1, <3>3, OthersMend
    <3>4. QED
      BY <3>2, <3>3
  <2>4. QED
    BY <2>1, <2>2, <2>3 DEF Mended
<1>4. QED
  BY <1>2, <1>3

(* Steps that revoke nothing, store nothing and take nobody from mending.  *)
LEMMA IdleMoves ==
    ASSUME ServerInv, Mended, NEW c \in Calls,
           \/ Login(c) \/ Send(c) \/ Serve(c) \/ AdmitLogout(c) \/ Refuse(c)
           \/ TryRefresh(c) \/ RefreshReads(c) \/ Throttle(c)
    PROVE  Mended'
<1>1. call[c].at \in {"idle", "sent", "refused", "reads"}
  BY DEF Login, Send, Serve, AdmitLogout, Refuse, TryRefresh, RefreshReads, Throttle, At
<1>2. ~Mending(c)
  BY <1>1 DEF Mending, At
<1>3. UNCHANGED <<row, parent, store, cut>>
  BY DEF Login, Send, Serve, AdmitLogout, Refuse, TryRefresh, RefreshReads, Throttle,
         Database, Client
<1>4. \A d \in Calls \ {c} : call'[d] = call[d]
  BY QuietCalls DEF QuietMove, CallQuiet
<1>5. QED
  BY <1>2, <1>3, <1>4, MoveKeepsWell DEF Ailing

(* A token that is revoked while it is stored is mended by who revoked it. *)
LEMMA RevokingMends ==
    ASSUME ServerInv, Mended, NEW c \in Calls, Logout(c) \/ RefreshRevokes(c)
    PROVE  Mended'
<1>1. call[c].at \in {"logout", "revokes"} /\ ~Mending(c)
  BY DEF Logout, RefreshRevokes, At, Mending
<1>2. UNCHANGED <<parent, store, cut>> /\ \A d \in Calls \ {c} : call'[d] = call[d]
  <2>1. UNCHANGED <<parent, store, cut>>
    BY DEF Logout, RefreshRevokes, Client
  <2>2. QED
    BY <2>1, QuietCalls DEF QuietMove, CallQuiet
<1>3. ASSUME Ailing', ~Ailing
      PROVE  Mending(c)'
  <2>1. store \in Tokens /\ row[store] = "live" /\ row'[store] # "live"
    BY <1>2, <1>3, CallTypes DEF Ailing
  <2>2. CASE Logout(c)
    <3>1. call[c].body = store /\ call[c].body # NoToken
      BY <2>1, <2>2, <1>2, <1>3 DEF Logout, ServerInv, TypeOK, Ailing
    <3>2. call'[c] = [call[c] EXCEPT !.at = "leaving"]
      BY <2>2, <3>1, CallTypes DEF Logout, Returns, Ended
    <3>3. call'[c].at = "leaving" /\ call'[c].body = store
      BY <3>1, <3>2, CallTypes DEF Call
    <3>4. QED
      BY <1>2, <3>3 DEF Mending, At
  <2>3. CASE RefreshRevokes(c)
    <3>1. call[c].token = store
      BY <2>1, <2>3 DEF RefreshRevokes, ServerInv, TypeOK
    <3>2. call'[c].at = "issues" /\ call'[c].token = store
      BY <2>3, <3>1, GotoIs DEF RefreshRevokes
    <3>3. QED
      BY <1>2, <3>2 DEF Mending, At
  <2>4. QED
    BY <2>2, <2>3
<1>4. QED
  BY <1>1, <1>2, <1>3, MoveKeepsWell

(* What a call brings is stored live; an emptied store is well.            *)
LEMMA StoringIsWell ==
    ASSUME ServerInv, NewsAreNew, NEW c \in Calls,
           StoreLogin(c) \/ StoreSession(c) \/ Leave(c) \/ AuthExpired(c)
    PROVE  Mended'
<1>1. CASE StoreLogin(c) \/ StoreSession(c)
  <2>1. call[c].at \in {"renewed", "granted"} /\ store' = call[c].token /\ row' = row
    BY <1>1 DEF StoreLogin, StoreSession, At, Database
  <2>2. row[call[c].token] = "live"
    BY <2>1 DEF NewsAreNew, IsNew
  <2>3. QED
    BY <2>1, <2>2 DEF Mended, Ailing
<1>2. CASE Leave(c) \/ AuthExpired(c)
  BY <1>2 DEF Leave, AuthExpired, Mended, Ailing
<1>3. QED
  BY <1>1, <1>2

LEMMA IssuingMends ==
    ASSUME ServerInv, Mended, NEW c \in Calls, IssueTokens(c) \/ RefreshIssues(c)
    PROVE  Mended'
<1>1. PICK k \in Tokens : Issues(c, k)
  BY IssuingIs
<1>2. Ailing' => Ailing
  BY <1>1, CallTypes DEF Ailing, Issues
<1>3. ASSUME Mending(c)
      PROVE  Mending(c)'
  <2>1. call[c].at = "issues" /\ call[c].token = store
    BY <1>3 DEF Mending, At, IssueTokens, RefreshIssues
  <2>2. QED
    BY <1>1, <2>1 DEF Mending, At, Issues
<1>4. QED
  BY <1>1, <1>2, <1>3, MoveKeepsWell DEF Issues

(* The loss of an answer and a kill are what cuts an exchange short.       *)
LEMMA LossIsNoted ==
    ASSUME ServerInv, Mended, NEW c \in Calls, LoseAnswer(c)
    PROVE  Mended'
<1>1. /\ UNCHANGED <<row, parent, store>> /\ cut' = cut \cup {parent[call[c].token]}
      /\ call[c].at \in {"renewed", "granted"}
  BY DEF LoseAnswer, Database, Client, At
<1>2. \A d \in Calls \ {c} : call'[d] = call[d]
  BY QuietCalls DEF QuietMove, CallQuiet
<1>3. Mending(c) => store \in cut'
  BY <1>1 DEF Mending, At
<1>4. QED
  BY <1>1, <1>2, <1>3, MoveKeepsWell DEF Ailing

LEMMA KillIsNoted ==
    ASSUME ServerInv, Mended, Crash
    PROVE  Mended'
<1>1. UNCHANGED <<row, parent, store>> /\ cut \subseteq cut'
  BY DEF Crash, Database, Client
<1>2. SUFFICES ASSUME Ailing, store \notin cut'
               PROVE  \E c \in Calls : Mending(c)'
  BY <1>1 DEF Mended, Ailing
<1>3. PICK c \in Calls : Mending(c)
  BY <1>1, <1>2 DEF Mended
<1>4. ~At(c, "issues")
  BY <1>2, <1>3 DEF Crash, Mending, At
<1>5. call[c].at \notin ServerSide
  BY <1>3, <1>4 DEF Mending, At, ServerSide
<1>6. call'[c] = call[c]
  BY <1>5 DEF Crash
<1>7. QED
  BY <1>1, <1>3, <1>6, OthersMend

LEMMA WellKept ==
    ASSUME ServerInv, NewsAreNew, Mended, [Next]_vars
    PROVE  Mended'
<1>1. CASE Expire \/ Disable \/ UNCHANGED vars
  <2>1. UNCHANGED <<row, parent, store, call, cut>>
    BY <1>1 DEF Expire, Disable, vars, Client
  <2>2. QED
    BY <2>1 DEF Mended, Ailing, Mending, At
<1>2. QED
  BY <1>1, IdleMoves, RevokingMends, StoringIsWell, IssuingMends, LossIsNoted, KillIsNoted
     DEF Next, Step

(* However renewals, logouts and logins overlap, and whatever is lost or   *)
(* killed, the stored token is live, or the call that spent it is about to *)
(* replace or remove it, or its exchange was cut short.                    *)
THEOREM StoredAlwaysAlive == Spec => []StoredIsAlive
<1>1. Init => NewsAreNew /\ Mended
  BY DEF Init, NewsAreNew, IsNew, Idle, Mended, Ailing
<1>2. ServerInv /\ NewsAreNew /\ Mended /\ [Next]_vars => NewsAreNew' /\ Mended'
  BY NewsKept, WellKept
<1>3. Mended => StoredIsAlive
  BY MendedIsAlive
<1>4. QED
  BY <1>1, <1>2, <1>3, ServerInvAlways, PTL DEF Spec
=============================================================================
