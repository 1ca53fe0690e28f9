--------------------------- MODULE SessionsProofs ---------------------------
(***************************************************************************)
(* Theorems about Sessions for any number of users, names, sessions and    *)
(* concurrent requests.                                                    *)
(***************************************************************************)
EXTENDS Sessions, TLAPS

\* A request that will write or issue something for a user has one; the steps of
\* a login and of a change carry the password they proved or set.
RequestsNamed ==
    \A c \in Clients :
        /\ op[c].step \in {"touch", "sign", "insert", "refresh", "change", "revoke"}
               => op[c].user \in Users
        /\ op[c].step \in {"touch", "sign", "insert"} => op[c].password # 0
        /\ op[c].step = "logout" => op[c].token \in Tokens

Inv == TypeOK /\ RequestsNamed

\* A registration that counted no user has been running while every user there is
\* was created.
CountedNone ==
    \A c \in Clients : op[c].step = "create" => LiveUsers \subseteq since[c]

\* A login that has passed the stamp finds it, as long as its user exists; and a
\* user a request knows of is no longer an unused id.
LoginStamped ==
    \A c \in Clients :
        /\ op[c].step \in {"touch", "sign", "insert"} => user[op[c].user] # NoUser
        /\ op[c].step \in {"sign", "insert"} /\ op[c].byLogin /\ Exists(op[c].user)
               => user[op[c].user].loggedIn

-----------------------------------------------------------------------------
LEMMA NullIsNoId == None \notin Users /\ None \notin Tokens
  BY SessionsAssumption

LEMMA InitInv == Init => Inv
<1> SUFFICES ASSUME Init PROVE Inv OBVIOUS
<1>1. NoUser \in UserRows /\ NoToken \in TokenRows BY DEF UserRows, TokenRows
<1>2. Idle \in Op BY SessionsAssumption DEF Idle, Op, MaybeUser, MaybeToken
<1>3. TypeOK BY <1>1, <1>2, SessionsAssumption DEF Init, TypeOK
<1>4. RequestsNamed BY DEF Init, RequestsNamed, Idle
<1> QED BY <1>3, <1>4 DEF Inv

Steps == {"idle", "create", "touch", "sign", "insert", "refresh", "logout", "change",
          "revoke"}

\* The records the actions make of a request in flight.
LEMMA StepOfOp ==
  ASSUME NEW o \in Op, NEW step \in Steps
  PROVE  LET r == [o EXCEPT !.step = step]
         IN /\ r \in Op /\ r.step = step /\ r.user = o.user /\ r.token = o.token
            /\ r.password = o.password /\ r.byLogin = o.byLogin
  BY DEF Op, Steps

LEMMA IdleOp == Idle \in Op /\ Idle.step = "idle" /\ Idle.byLogin = FALSE
  BY SessionsAssumption DEF Idle, Op, MaybeUser, MaybeToken

LEMMA LiveUser ==
  ASSUME TypeOK, NEW u \in Users, Exists(u)
  PROVE  user[u] \in [status : {"LIVE"}, code : Codes, email : Emails,
                      active : BOOLEAN, password : 1 .. MaxPasswords,
                      loggedIn : BOOLEAN]
  BY DEF TypeOK, Exists, UserRows, NoUser, GoneUser, None

LEMMA LiveToken ==
  ASSUME TypeOK, NEW t \in Tokens, token[t].status = "LIVE"
  PROVE  token[t] \in [status : {"LIVE"}, user : Users, proved : 1 .. MaxPasswords,
                       revoked : BOOLEAN, expired : BOOLEAN, byLogin : BOOLEAN,
                       late : BOOLEAN]
  BY DEF TypeOK, TokenRows, NoToken, None

LEMMA RowsOf ==
  /\ NoUser \in UserRows /\ GoneUser \in UserRows /\ NoToken \in TokenRows
  /\ NoUser.status = None /\ GoneUser.status = "DELETED" /\ NoToken.status = None
  BY DEF UserRows, TokenRows, NoUser, GoneUser, NoToken

-----------------------------------------------------------------------------
\* A request whose only effect is on itself keeps the types.
LEMMA RequestMoves ==
  ASSUME Inv, NEW c \in Clients, NEW r \in Op,
         op' = [op EXCEPT ![c] = r],
         r.step \in {"touch", "sign", "insert", "refresh", "change", "revoke"}
             => r.user \in Users,
         r.step \in {"touch", "sign", "insert"} => r.password # 0,
         r.step = "logout" => r.token \in Tokens
  PROVE  op' \in [Clients -> Op] /\ RequestsNamed'
<1>1. op \in [Clients -> Op] BY DEF Inv, TypeOK
<1>2. \A d \in Clients : op'[d] = IF d = c THEN r ELSE op[d] BY <1>1
<1> QED BY <1>1, <1>2 DEF Inv, RequestsNamed

LEMMA StartsKeepInv ==
  ASSUME Inv, NEW c \in Clients, Accept(c)
  PROVE  Inv'
<1>a. op \in [Clients -> Op] /\ since \in [Clients -> SUBSET Users]
  BY DEF Inv, TypeOK
<1>b. since' \in [Clients -> SUBSET Users] /\ UNCHANGED <<user, token, access, ended>>
  BY <1>a DEF Accept, ReadRegister, ReadLogin, ReadRefresh, ReadLogout, ReadChange, Start
<1>1. CASE ReadRegister(c)
  <2> DEFINE r == [Idle EXCEPT !.step = "create"]
  <2>1. op' = [op EXCEPT ![c] = r] BY <1>1 DEF ReadRegister, Start
  <2>r. r \in Op /\ r.step = "create" BY IdleOp DEF Op
  <2> HIDE DEF r
  <2>2. op' \in [Clients -> Op] /\ RequestsNamed' BY <2>1, <2>r, RequestMoves
  <2> QED BY <2>2, <1>b DEF Inv, TypeOK
<1>2. ASSUME NEW login, ReadLogin(c, login) PROVE Inv'
  <2>1. PICK u \in NamedBy(login) :
          op' = [op EXCEPT ![c] = [Idle EXCEPT !.step = "touch", !.user = u,
                                      !.password = user[u].password, !.byLogin = TRUE]]
    BY <1>2 DEF ReadLogin, Start
  <2> DEFINE r == [Idle EXCEPT !.step = "touch", !.user = u,
                               !.password = user[u].password, !.byLogin = TRUE]
  <2>2. u \in Users /\ user[u].password \in 1 .. MaxPasswords
    BY LiveUser DEF NamedBy, LiveUsers, Inv
  <2>p. user[u].password \in 0 .. MaxPasswords /\ user[u].password # 0
    BY <2>2, SessionsAssumption
  <2>r. r \in Op /\ r.step = "touch" /\ r.user = u /\ r.password # 0
    <3>1. PICK p \in 0 .. MaxPasswords : p = user[u].password BY <2>p
    <3>2. r = [Idle EXCEPT !.step = "touch", !.user = u, !.password = p,
                           !.byLogin = TRUE]
      BY <3>1
    <3> HIDE DEF r
    <3> QED BY <3>1, <3>2, <2>2, <2>p, IdleOp DEF Op, MaybeUser
  <2>o. op' = [op EXCEPT ![c] = r] BY <2>1
  <2> HIDE DEF r
  <2>3. op' \in [Clients -> Op] /\ RequestsNamed' BY <2>o, <2>2, <2>r, RequestMoves
  <2> QED BY <2>3, <1>b DEF Inv, TypeOK
<1>3. ASSUME NEW t \in Tokens, ReadRefresh(c, t) PROVE Inv'
  <2>1. token[t].user \in Users BY <1>3, LiveToken DEF ReadRefresh, Found, Inv
  <2> DEFINE r == [Idle EXCEPT !.step = "refresh", !.user = token[t].user]
  <2>2. op' = [op EXCEPT ![c] = r] BY <1>3 DEF ReadRefresh, Start
  <2>r. r \in Op /\ r.step = "refresh" /\ r.user \in Users BY <2>1, IdleOp DEF Op, MaybeUser
  <2> HIDE DEF r
  <2>3. op' \in [Clients -> Op] /\ RequestsNamed' BY <2>2, <2>r, RequestMoves
  <2> QED BY <2>3, <1>b DEF Inv, TypeOK
<1>4. ASSUME NEW t \in Tokens, ReadLogout(c, t) PROVE Inv'
  <2> DEFINE r == [Idle EXCEPT !.step = "logout", !.token = t]
  <2>1. op' = [op EXCEPT ![c] = r] BY <1>4 DEF ReadLogout, Start
  <2>r. r \in Op /\ r.step = "logout" /\ r.token = t BY IdleOp DEF Op, MaybeToken
  <2> HIDE DEF r
  <2>2. op' \in [Clients -> Op] /\ RequestsNamed' BY <2>1, <2>r, RequestMoves
  <2> QED BY <2>2, <1>b DEF Inv, TypeOK
<1>5. ASSUME NEW u \in Users, ReadChange(c, u) PROVE Inv'
  <2> DEFINE r == [Idle EXCEPT !.step = "change", !.user = u]
  <2>1. op' = [op EXCEPT ![c] = r] BY <1>5 DEF ReadChange, Start
  <2>r. r \in Op /\ r.step = "change" /\ r.user = u BY IdleOp DEF Op, MaybeUser
  <2> HIDE DEF r
  <2>2. op' \in [Clients -> Op] /\ RequestsNamed' BY <2>1, <2>r, RequestMoves
  <2> QED BY <2>2, <1>b DEF Inv, TypeOK
<1> QED BY <1>1, <1>2, <1>3, <1>4, <1>5 DEF Accept

\* A row of rtu.users that is inserted or changed is a row.
LEMMA InsertedUser ==
  ASSUME TypeOK, NEW u \in Users, NEW code \in Codes, NEW email \in Emails,
         NEW isActive \in BOOLEAN, InsertUser(u, code, email, isActive)
  PROVE  user' \in [Users -> UserRows] /\ UNCHANGED <<token, access, ended>>
<1>1. NewUser(u, code, email, isActive) \in UserRows
  BY SessionsAssumption DEF NewUser, UserRows
<1> QED BY <1>1 DEF InsertUser, TypeOK

LEMMA TouchedUser ==
  ASSUME TypeOK, NEW u \in Users, Exists(u)
  PROVE  /\ [user EXCEPT ![u].loggedIn = TRUE] \in [Users -> UserRows]
         /\ user[u].password < MaxPasswords =>
               [user EXCEPT ![u].password = @ + 1] \in [Users -> UserRows]
         /\ \A isActive \in BOOLEAN :
               [user EXCEPT ![u].active = isActive] \in [Users -> UserRows]
<1>1. user[u] \in [status : {"LIVE"}, code : Codes, email : Emails,
                   active : BOOLEAN, password : 1 .. MaxPasswords, loggedIn : BOOLEAN]
  BY LiveUser
<1>2. [user[u] EXCEPT !.loggedIn = TRUE] \in UserRows BY <1>1 DEF UserRows
<1>3. \A isActive \in BOOLEAN : [user[u] EXCEPT !.active = isActive] \in UserRows
  BY <1>1 DEF UserRows
<1>4. user[u].password < MaxPasswords =>
         [user[u] EXCEPT !.password = user[u].password + 1] \in UserRows
  <2>1. user[u].password \in 1 .. MaxPasswords BY <1>1
  <2>2. user[u].password < MaxPasswords => user[u].password + 1 \in 1 .. MaxPasswords
    BY <2>1, SessionsAssumption
  <2> QED BY <1>1, <2>2 DEF UserRows
<1> QED BY <1>2, <1>3, <1>4 DEF TypeOK

LEMMA MarkedToken ==
  ASSUME TypeOK, NEW t \in Tokens, token[t].status = "LIVE"
  PROVE  /\ [token[t] EXCEPT !.revoked = TRUE] \in TokenRows
         /\ [token[t] EXCEPT !.expired = TRUE] \in TokenRows
         /\ [token[t] EXCEPT !.revoked = TRUE].revoked = TRUE
<1>1. token[t] \in [status : {"LIVE"}, user : Users, proved : 1 .. MaxPasswords,
                    revoked : BOOLEAN, expired : BOOLEAN, byLogin : BOOLEAN,
                    late : BOOLEAN]
  BY LiveToken
<1> QED BY <1>1 DEF TokenRows

LEMMA ServesKeepInv ==
  ASSUME Inv, NEW c \in Clients, Serve(c)
  PROVE  Inv'
<1>a. /\ op \in [Clients -> Op] /\ op[c] \in Op /\ TypeOK
      /\ since \in [Clients -> SUBSET Users]
  BY DEF Inv, TypeOK
<1>1. ASSUME NEW u \in Users, CreateFirst(c, u) PROVE Inv'
  <2> DEFINE r == [Idle EXCEPT !.step = "sign", !.user = u, !.password = 1]
  <2>1. op' = [op EXCEPT ![c] = r] /\ since' \in [Clients -> SUBSET Users]
    BY <1>1, <1>a DEF CreateFirst, SeeCreation
  <2>r. r \in Op /\ r.step = "sign" /\ r.user = u /\ r.password # 0
    <3>1. PICK p \in 0 .. MaxPasswords : p = 1 BY SessionsAssumption
    <3>2. r = [Idle EXCEPT !.step = "sign", !.user = u, !.password = p] BY <3>1
    <3>3. p # 0 BY <3>1
    <3> HIDE DEF r
    <3> QED BY <3>2, <3>3, IdleOp DEF Op, MaybeUser
  <2> HIDE DEF r
  <2>2. op' \in [Clients -> Op] /\ RequestsNamed' BY <2>1, <2>r, RequestMoves
  <2>3. user' \in [Users -> UserRows] /\ UNCHANGED <<token, access, ended>>
    BY <1>1, <1>a, InsertedUser DEF CreateFirst
  <2> QED BY <2>1, <2>2, <2>3, <1>a DEF Inv, TypeOK
<1>2. CASE TouchLastLogin(c)
  <2> DEFINE r == [op[c] EXCEPT !.step = "sign"]
  <2>1. op' = [op EXCEPT ![c] = r] /\ UNCHANGED <<token, access, since, ended>>
    BY <1>2, <1>a DEF TouchLastLogin, Continue
  <2>u. op[c].user \in Users /\ op[c].password # 0
    BY <1>2 DEF TouchLastLogin, Inv, RequestsNamed
  <2>r. r \in Op /\ r.step = "sign" /\ r.user = op[c].user /\ r.password = op[c].password
    BY <1>a DEF Op
  <2> HIDE DEF r
  <2>2. op' \in [Clients -> Op] /\ RequestsNamed' BY <2>1, <2>r, <2>u, RequestMoves
  <2>3. user' \in [Users -> UserRows]
    BY <1>2, <1>a, <2>u, TouchedUser DEF TouchLastLogin, TypeOK
  <2> QED BY <2>1, <2>2, <2>3, <1>a DEF Inv, TypeOK
<1>3. CASE SignAccess(c)
  <2> DEFINE r == [op[c] EXCEPT !.step = "insert"]
  <2>1. op' = [op EXCEPT ![c] = r] /\ UNCHANGED <<user, token, access, since, ended>>
    BY <1>3, <1>a DEF SignAccess, Continue
  <2>u. op[c].user \in Users /\ op[c].password # 0
    BY <1>3 DEF SignAccess, Inv, RequestsNamed
  <2>r. r \in Op /\ r.step = "insert" /\ r.user = op[c].user
        /\ r.password = op[c].password
    BY <1>a DEF Op
  <2> HIDE DEF r
  <2>2. op' \in [Clients -> Op] /\ RequestsNamed' BY <2>1, <2>r, <2>u, RequestMoves
  <2> QED BY <2>1, <2>2, <1>a DEF Inv, TypeOK
<1>i. ASSUME op' = [op EXCEPT ![c] = Idle]
      PROVE  op' \in [Clients -> Op] /\ RequestsNamed'
  BY <1>i, IdleOp, RequestMoves
<1>4. ASSUME NEW t \in Tokens, InsertToken(c, t) PROVE Inv'
  <2>1. /\ op' = [op EXCEPT ![c] = Idle] /\ UNCHANGED <<user, since, ended>>
        /\ token' = [token EXCEPT ![t] = NewToken(op[c])]
        /\ access' = access \union {op[c].user} /\ op[c].step = "insert"
    BY <1>4 DEF InsertToken, Answer
  <2>2. op[c].user \in Users /\ op[c].password # 0 BY <2>1 DEF Inv, RequestsNamed
  <2>3. NewToken(op[c]) \in TokenRows
    <3>1. op[c].password \in 1 .. MaxPasswords /\ op[c].byLogin \in BOOLEAN
      BY <2>2, <1>a, SessionsAssumption DEF Op
    <3>2. (op[c].password < ended[op[c].user]) \in BOOLEAN OBVIOUS
    <3> QED BY <3>1, <3>2, <2>2 DEF NewToken, TokenRows
  <2> QED BY <2>1, <2>2, <2>3, <1>i, <1>a DEF Inv, TypeOK
<1>5. CASE Refresh(c)
  <2>1. op[c].user \in Users BY <1>5 DEF Refresh, Inv, RequestsNamed
  <2> QED BY <1>5, <2>1, <1>i, <1>a DEF Refresh, Answer, Inv, TypeOK
<1>6. CASE Revoke(c)
  <2>1. op[c].token \in Tokens BY <1>6 DEF Revoke, Inv, RequestsNamed
  <2>2. token' \in [Tokens -> TokenRows]
    BY <1>6, <2>1, <1>a, MarkedToken DEF Revoke, TypeOK
  <2> QED BY <1>6, <2>2, <1>i, <1>a DEF Revoke, Answer, Inv, TypeOK
<1>7. CASE SetPassword(c)
  <2> DEFINE p == user[op[c].user].password + 1
             r == [op[c] EXCEPT !.step = "revoke", !.password = p]
  <2>1. op' = [op EXCEPT ![c] = r] /\ UNCHANGED <<token, access, since, ended>>
    BY <1>7, <1>a DEF SetPassword
  <2>u. op[c].user \in Users /\ Exists(op[c].user)
        /\ user[op[c].user].password < MaxPasswords
    BY <1>7 DEF SetPassword, Inv, RequestsNamed
  <2>p. p \in 0 .. MaxPasswords
    <3>1. user[op[c].user].password \in 1 .. MaxPasswords BY <2>u, <1>a, LiveUser
    <3> QED BY <3>1, <2>u, SessionsAssumption
  <2> HIDE DEF p
  <2>r. r \in Op /\ r.step = "revoke" /\ r.user = op[c].user BY <1>a, <2>p DEF Op
  <2> HIDE DEF r
  <2>2. op' \in [Clients -> Op] /\ RequestsNamed' BY <2>1, <2>r, <2>u, RequestMoves
  <2>3. user' \in [Users -> UserRows]
    <3>1. user' = [user EXCEPT ![op[c].user].password = @ + 1] BY <1>7 DEF SetPassword
    <3>2. PICK v \in Users : v = op[c].user BY <2>u
    <3>3. [user EXCEPT ![v].password = @ + 1] \in [Users -> UserRows]
      BY <3>2, <2>u, <1>a, TouchedUser
    <3> QED BY <3>1, <3>2, <3>3
  <2> QED BY <2>1, <2>2, <2>3, <1>a DEF Inv, TypeOK
<1>8. CASE RevokeAll(c)
  <2>1. op[c].user \in Users BY <1>8 DEF RevokeAll, Inv, RequestsNamed
  <2>2. token' \in [Tokens -> TokenRows]
    BY <1>8, <1>a, MarkedToken DEF RevokeAll, RevokedSessionsOf, TypeOK
  <2>3. ended' \in [Users -> 0 .. MaxPasswords]
    BY <1>8, <2>1, <1>a DEF RevokeAll, Later, TypeOK, Op
  <2> QED BY <1>8, <2>2, <2>3, <1>i, <1>a DEF RevokeAll, Answer, Inv, TypeOK
<1>9. CASE Disconnect(c)
  BY <1>9, <1>i, <1>a DEF Disconnect, Answer, Inv, TypeOK
<1> QED BY <1>1, <1>2, <1>3, <1>4, <1>5, <1>6, <1>7, <1>8, <1>9 DEF Serve

LEMMA UsersKeepInv ==
  ASSUME Inv, NEW u \in Users,
         \/ CreateUser(u)
         \/ PatchUser(u)
         \/ \E isActive \in BOOLEAN : SetUserActive(u, isActive)
         \/ Purge(u)
         \/ AccessExpires(u)
  PROVE  Inv'
<1>a. TypeOK /\ op' = op BY DEF Inv, CreateUser, PatchUser, SetUserActive, Purge,
                               AccessExpires
<1>b. RequestsNamed' BY <1>a DEF Inv, RequestsNamed
<1>1. CASE CreateUser(u)
  <2>1. user' \in [Users -> UserRows] /\ UNCHANGED <<token, access, ended>>
    BY <1>1, <1>a, InsertedUser DEF CreateUser
  <2>2. since' \in [Clients -> SUBSET Users] BY <1>1, <1>a DEF CreateUser, TypeOK
  <2> QED BY <2>1, <2>2, <1>a, <1>b DEF Inv, TypeOK
<1>2. CASE PatchUser(u)
  <2>1. PICK code \in Codes, email \in Emails, isActive \in BOOLEAN,
             password \in {user[u].password, user[u].password + 1} :
          /\ password <= MaxPasswords
          /\ user' = PatchedUser(u, code, email, isActive, password)
    BY <1>2 DEF PatchUser
  <2>2. user[u] \in [status : {"LIVE"}, code : Codes, email : Emails,
                     active : BOOLEAN, password : 1 .. MaxPasswords,
                     loggedIn : BOOLEAN]
    BY <1>2, <1>a, LiveUser DEF PatchUser
  <2>3. password \in 1 .. MaxPasswords
    <3>1. user[u].password \in 1 .. MaxPasswords BY <2>2
    <3> QED BY <2>1, <3>1, SessionsAssumption
  <2>4. [user[u] EXCEPT !.code = code, !.email = email, !.active = isActive,
                        !.password = password] \in UserRows
    BY <2>2, <2>3 DEF UserRows
  <2>5. user' \in [Users -> UserRows] BY <2>1, <2>4, <1>a DEF PatchedUser, TypeOK
  <2> QED BY <2>5, <1>2, <1>a, <1>b DEF PatchUser, Inv, TypeOK
<1>3. ASSUME NEW isActive \in BOOLEAN, SetUserActive(u, isActive) PROVE Inv'
  <2>1. user' \in [Users -> UserRows]
    BY <1>3, <1>a, TouchedUser DEF SetUserActive
  <2> QED BY <2>1, <1>3, <1>a, <1>b DEF SetUserActive, Inv, TypeOK
<1>4. CASE Purge(u)
  BY <1>4, <1>a, <1>b, RowsOf DEF Purge, Inv, TypeOK
<1>5. CASE AccessExpires(u)
  BY <1>5, <1>a, <1>b DEF AccessExpires, Inv, TypeOK
<1> QED BY <1>1, <1>2, <1>3, <1>4, <1>5

LEMMA ExpiryKeepsInv ==
  ASSUME Inv, NEW t \in Tokens, RefreshExpires(t)
  PROVE  Inv'
BY MarkedToken DEF RefreshExpires, Inv, TypeOK, RequestsNamed

LEMMA NextKeepsInv == Inv /\ [Next]_vars => Inv'
<1> SUFFICES ASSUME Inv, [Next]_vars PROVE Inv' OBVIOUS
<1>1. CASE UNCHANGED vars BY <1>1 DEF vars, Inv, TypeOK, RequestsNamed
<1>2. CASE Next
  BY <1>2, StartsKeepInv, ServesKeepInv, UsersKeepInv, ExpiryKeepsInv DEF Next
<1> QED BY <1>1, <1>2

\* Rows, access tokens and requests stay in their domains.
THEOREM SessionsTypeCorrect == Spec => []TypeOK
<1>1. Inv => TypeOK BY DEF Inv
<1> QED BY InitInv, NextKeepsInv, <1>1, PTL DEF Spec

-----------------------------------------------------------------------------
(* What a step can do to rtu.users. *)

UserInserted(u) ==
    /\ user[u] = NoUser
    /\ \E code \in Codes, email \in Emails, isActive \in BOOLEAN :
           NamesFree(u, code, email) /\ user' = [user EXCEPT ![u] =
                                                  NewUser(u, code, email, isActive)]
    /\ \A d \in Clients : op[d].step = "create" /\ op'[d].step = "create" =>
           since'[d] = since[d] \union {u}

UserChanged(u) ==
    /\ Exists(u)
    /\ \E x \in UserRows :
           /\ user' = [user EXCEPT ![u] = x]
           /\ x.status = "LIVE"
           /\ user[u].loggedIn => x.loggedIn
           /\ \/ x.code = user[u].code /\ x.email = user[u].email
              \/ NamesFree(u, x.code, x.email)

UserPurged(u) ==
    /\ Exists(u)
    /\ user' = [user EXCEPT ![u] = GoneUser]
    /\ token' = [t \in Tokens |-> IF token[t].status = "LIVE" /\ token[t].user = u
                                  THEN NoToken ELSE token[t]]

LEMMA UserMoves ==
  ASSUME Inv, [Next]_vars
  PROVE  \/ user' = user
         \/ \E u \in Users : UserInserted(u) \/ UserChanged(u) \/ UserPurged(u)
<1>a. /\ TypeOK /\ op \in [Clients -> Op]
      /\ user \in [Users -> UserRows] /\ since \in [Clients -> SUBSET Users]
  BY DEF Inv, TypeOK
<1>1. ASSUME NEW c \in Clients, NEW u \in Users, CreateFirst(c, u)
      PROVE  UserInserted(u)
  <2>1. \A d \in Clients : op[d].step = "create" => op[d] # Idle BY IdleOp
  <2>2. /\ since' = [d \in Clients |-> IF op[d] = Idle THEN since[d]
                                                       ELSE since[d] \union {u}]
        /\ \E code \in Codes, email \in Emails : InsertUser(u, code, email, TRUE)
    BY <1>1 DEF CreateFirst, SeeCreation
  <2> QED BY <2>1, <2>2 DEF UserInserted, InsertUser
<1>2. ASSUME NEW u \in Users, CreateUser(u) PROVE UserInserted(u)
  <2>1. \A d \in Clients : op[d].step = "create" => op[d] # Idle BY IdleOp
  <2> QED BY <1>2, <2>1 DEF CreateUser, UserInserted, InsertUser
<1>3. ASSUME NEW u \in Users, Exists(u), NEW x, user' = [user EXCEPT ![u] = x],
             x \in UserRows, x.status = "LIVE", user[u].loggedIn => x.loggedIn,
             \/ x.code = user[u].code /\ x.email = user[u].email
             \/ NamesFree(u, x.code, x.email)
      PROVE  UserChanged(u)
  BY <1>3 DEF UserChanged
<1>4. ASSUME NEW c \in Clients, TouchLastLogin(c)
      PROVE  user' = user \/ \E u \in Users : UserChanged(u)
  <2> DEFINE u == op[c].user
             x == [user[u] EXCEPT !.loggedIn = TRUE]
  <2>1. u \in Users BY <1>4 DEF TouchLastLogin, Inv, RequestsNamed
  <2>2. CASE ~Exists(u) BY <1>4, <2>2 DEF TouchLastLogin
  <2>3. CASE Exists(u)
    <3>1. user[u] \in [status : {"LIVE"}, code : Codes, email : Emails,
                       active : BOOLEAN, password : 1 .. MaxPasswords,
                       loggedIn : BOOLEAN]
      BY <2>1, <2>3, <1>a, LiveUser
    <3>2. /\ x \in UserRows /\ x.status = "LIVE" /\ x.loggedIn = TRUE
          /\ x.code = user[u].code /\ x.email = user[u].email
      BY <3>1 DEF UserRows
    <3>3. user' = [user EXCEPT ![u] = x] BY <1>4, <2>3 DEF TouchLastLogin
    <3> QED BY <1>3, <2>1, <2>3, <3>2, <3>3
  <2> QED BY <2>2, <2>3
<1>5. ASSUME NEW c \in Clients, SetPassword(c) PROVE \E u \in Users : UserChanged(u)
  <2> DEFINE u == op[c].user
             x == [user[u] EXCEPT !.password = user[u].password + 1]
  <2>1. /\ u \in Users /\ Exists(u) /\ user[u].password < MaxPasswords
        /\ user' = [user EXCEPT ![u] = x]
    BY <1>5 DEF SetPassword, Inv, RequestsNamed
  <2>2. user[u] \in [status : {"LIVE"}, code : Codes, email : Emails,
                     active : BOOLEAN, password : 1 .. MaxPasswords,
                     loggedIn : BOOLEAN]
    BY <2>1, <1>a, LiveUser
  <2>3. user[u].password + 1 \in 1 .. MaxPasswords
    <3>1. user[u].password \in 1 .. MaxPasswords BY <2>2
    <3> QED BY <3>1, <2>1, SessionsAssumption
  <2>4. /\ x \in UserRows /\ x.status = "LIVE" /\ x.loggedIn = user[u].loggedIn
        /\ x.code = user[u].code /\ x.email = user[u].email
    BY <2>2, <2>3 DEF UserRows
  <2> QED BY <1>3, <2>1, <2>4
<1>6. ASSUME NEW u \in Users, PatchUser(u) PROVE UserChanged(u)
  <2>1. PICK code \in Codes, email \in Emails, isActive \in BOOLEAN,
             password \in {user[u].password, user[u].password + 1} :
          /\ password <= MaxPasswords
          /\ NamesFree(u, code, email)
          /\ user' = PatchedUser(u, code, email, isActive, password)
    BY <1>6 DEF PatchUser
  <2> DEFINE x == [user[u] EXCEPT !.code = code, !.email = email,
                                  !.active = isActive, !.password = password]
  <2>2. Exists(u) /\ user[u] \in [status : {"LIVE"}, code : Codes, email : Emails,
                     active : BOOLEAN, password : 1 .. MaxPasswords,
                     loggedIn : BOOLEAN]
    BY <1>6, <1>a, LiveUser DEF PatchUser
  <2>3. password \in 1 .. MaxPasswords
    <3>1. user[u].password \in 1 .. MaxPasswords BY <2>2
    <3> QED BY <2>1, <3>1, SessionsAssumption
  <2>4. /\ x \in UserRows /\ x.status = "LIVE" /\ x.loggedIn = user[u].loggedIn
        /\ x.code = code /\ x.email = email
    BY <2>2, <2>3 DEF UserRows
  <2>5. user' = [user EXCEPT ![u] = x] BY <2>1, <1>a DEF PatchedUser
  <2> QED BY <1>3, <2>1, <2>2, <2>4, <2>5
<1>7. ASSUME NEW u \in Users, NEW isActive \in BOOLEAN, SetUserActive(u, isActive)
      PROVE  UserChanged(u)
  <2> DEFINE x == [user[u] EXCEPT !.active = isActive]
  <2>1. Exists(u) /\ user' = [user EXCEPT ![u] = x] BY <1>7 DEF SetUserActive
  <2>2. user[u] \in [status : {"LIVE"}, code : Codes, email : Emails,
                     active : BOOLEAN, password : 1 .. MaxPasswords,
                     loggedIn : BOOLEAN]
    BY <2>1, <1>a, LiveUser
  <2>3. /\ x \in UserRows /\ x.status = "LIVE" /\ x.loggedIn = user[u].loggedIn
        /\ x.code = user[u].code /\ x.email = user[u].email
    BY <2>2 DEF UserRows
  <2> QED BY <1>3, <2>1, <2>3
<1>8. ASSUME NEW u \in Users, Purge(u) PROVE UserPurged(u)
  BY <1>8 DEF Purge, UserPurged
<1>9. ASSUME NEW c \in Clients, Accept(c) PROVE user' = user
  BY <1>9 DEF Accept, ReadRegister, ReadLogin, ReadRefresh, ReadLogout, ReadChange
<1>10. ASSUME NEW c \in Clients,
              \/ SignAccess(c) \/ Refresh(c) \/ Revoke(c) \/ RevokeAll(c) \/ Disconnect(c)
              \/ \E t \in Tokens : InsertToken(c, t)
       PROVE  user' = user
  BY <1>10 DEF SignAccess, Refresh, Revoke, RevokeAll, Disconnect, InsertToken
<1> QED
  BY <1>1, <1>2, <1>4, <1>5, <1>6, <1>7, <1>8, <1>9, <1>10
  DEF Next, Serve, vars, AccessExpires, RefreshExpires

-----------------------------------------------------------------------------
LEMMA NextKeepsNames == Inv /\ NamesUnique /\ [Next]_vars => NamesUnique'
<1> SUFFICES ASSUME Inv, NamesUnique, [Next]_vars PROVE NamesUnique' OBVIOUS
<1>a. user \in [Users -> UserRows] BY DEF Inv, TypeOK
<1>1. ASSUME NEW u \in Users, UserInserted(u) PROVE NamesUnique'
  <2>1. PICK code \in Codes, email \in Emails, isActive \in BOOLEAN :
          /\ NamesFree(u, code, email)
          /\ user' = [user EXCEPT ![u] = NewUser(u, code, email, isActive)]
    BY <1>1 DEF UserInserted
  <2>2. /\ \A v \in Users \ {u} : user'[v] = user[v]
        /\ user'[u].code = code /\ user'[u].email = email
    BY <2>1, <1>a DEF NewUser
  <2> QED BY <2>1, <2>2 DEF NamesUnique, NamesFree, LiveUsers, Exists
<1>2. ASSUME NEW u \in Users, UserChanged(u) PROVE NamesUnique'
  <2>1. PICK x \in UserRows :
          /\ user' = [user EXCEPT ![u] = x]
          /\ \/ x.code = user[u].code /\ x.email = user[u].email
             \/ NamesFree(u, x.code, x.email)
    BY <1>2 DEF UserChanged
  <2>2. (\A v \in Users \ {u} : user'[v] = user[v]) /\ user'[u] = x /\ Exists(u)
    BY <2>1, <1>2, <1>a DEF UserChanged
  <2> QED BY <2>1, <2>2 DEF NamesUnique, NamesFree, LiveUsers, Exists
<1>3. ASSUME NEW u \in Users, UserPurged(u) PROVE NamesUnique'
  <2>1. (\A v \in Users \ {u} : user'[v] = user[v]) /\ user'[u].status = "DELETED"
    BY <1>3, <1>a, RowsOf DEF UserPurged
  <2> QED BY <2>1 DEF NamesUnique, LiveUsers, Exists
<1>4. CASE user' = user BY <1>4 DEF NamesUnique, LiveUsers, Exists
<1> QED BY <1>1, <1>2, <1>3, <1>4, UserMoves

\* No two users share a code or an email, deactivated ones included.
THEOREM NamesStayUnique == Spec => []NamesUnique
<1>1. Init => NamesUnique BY RowsOf DEF Init, NamesUnique, LiveUsers, Exists, None
<1> QED BY InitInv, NextKeepsInv, <1>1, NextKeepsNames, PTL DEF Spec

-----------------------------------------------------------------------------
LEMMA NextKeepsCount == Inv /\ CountedNone /\ [Next]_vars => CountedNone'
<1> SUFFICES ASSUME Inv, CountedNone, [Next]_vars,
                    NEW c \in Clients, op'[c].step = "create"
             PROVE  LiveUsers' \subseteq since'[c]
  BY DEF CountedNone
<1>a. /\ op \in [Clients -> Op] /\ user \in [Users -> UserRows]
      /\ since \in [Clients -> SUBSET Users]
  BY DEF Inv, TypeOK
<1>1. CASE op[c].step # "create"
  <2>1. ReadRegister(c)
    <3>1. ASSUME NEW d \in Clients, Serve(d) PROVE op'[c].step # "create"
      <4>1. op'[c] = op[c] \/ op'[c] = Idle \/
            op'[c].step \in {"sign", "insert", "revoke"}
        <5>1. CASE d # c
          BY <3>1, <5>1, <1>a DEF Serve, CreateFirst, SeeCreation, TouchLastLogin,
             SignAccess, InsertToken, Refresh, Revoke, SetPassword, RevokeAll,
             Disconnect, Continue, Answer
        <5>2. CASE d = c
          <6>1. op[c] \in Op BY <1>a
          <6>2. ASSUME NEW u \in Users, CreateFirst(c, u) PROVE op'[c].step = "sign"
            <7>1. op' = [op EXCEPT ![c] = [Idle EXCEPT !.step = "sign", !.user = u,
                                                       !.password = 1]]
              BY <6>2 DEF CreateFirst, SeeCreation
            <7> QED BY <7>1, <1>a, IdleOp DEF Op
          <6>3. CASE TouchLastLogin(c) \/ SignAccess(c)
            BY <6>3, <6>1, <1>a DEF TouchLastLogin, SignAccess, Continue, Op
          <6>4. CASE SetPassword(c)
            BY <6>4, <6>1, <1>a DEF SetPassword, Op
          <6>5. CASE \/ \E t \in Tokens : InsertToken(c, t)
                     \/ Refresh(c) \/ Revoke(c) \/ RevokeAll(c) \/ Disconnect(c)
            BY <6>5, <1>a DEF InsertToken, Refresh, Revoke, RevokeAll, Disconnect, Answer
          <6> QED BY <3>1, <5>2, <6>2, <6>3, <6>4, <6>5 DEF Serve
        <5> QED BY <5>1, <5>2
      <4> QED BY <4>1, <1>1, IdleOp
    <3>2. ASSUME NEW d \in Clients, Accept(d), ~ReadRegister(c)
          PROVE  op'[c].step # "create"
      <4>1. CASE d # c
        BY <3>2, <4>1, <1>1, <1>a DEF Accept, ReadRegister, ReadLogin, ReadRefresh,
           ReadLogout, ReadChange, Start
      <4>2. CASE d = c
        <5>1. ASSUME NEW login, ReadLogin(c, login) PROVE op'[c].step = "touch"
          <6>1. \E u \in Users : \E p : op' = [op EXCEPT ![c] =
                   [Idle EXCEPT !.step = "touch", !.user = u, !.password = p,
                                !.byLogin = TRUE]]
            BY <5>1 DEF ReadLogin, Start, NamedBy, LiveUsers
          <6> QED BY <6>1, <1>a, IdleOp DEF Op
        <5>2. ASSUME NEW t \in Tokens, ReadRefresh(c, t) PROVE op'[c].step = "refresh"
          BY <5>2, <1>a, IdleOp DEF ReadRefresh, Start, Op
        <5>3. ASSUME NEW t \in Tokens, ReadLogout(c, t) PROVE op'[c].step = "logout"
          BY <5>3, <1>a, IdleOp DEF ReadLogout, Start, Op
        <5>4. ASSUME NEW u \in Users, ReadChange(c, u) PROVE op'[c].step = "change"
          BY <5>4, <1>a, IdleOp DEF ReadChange, Start, Op
        <5> QED BY <3>2, <4>2, <5>1, <5>2, <5>3, <5>4 DEF Accept
      <4> QED BY <4>1, <4>2
    <3>3. CASE op' = op BY <3>3, <1>1
    <3> QED
      BY <3>1, <3>2, <3>3
      DEF Next, vars, CreateUser, PatchUser, SetUserActive, Purge, AccessExpires,
          RefreshExpires
  <2> QED BY <2>1 DEF ReadRegister, Counted, LiveUsers, Exists
<1>2. CASE op[c].step = "create"
  <2>1. LiveUsers \subseteq since[c] BY <1>2 DEF CountedNone
  <2>2. since[c] \subseteq since'[c]
    <3>1. op[c] # Idle BY <1>2, IdleOp
    <3>2. ASSUME NEW d \in Clients, Accept(d) PROVE since'[c] = since[c]
      <4>1. d # c
        BY <3>1, <3>2 DEF Accept, ReadRegister, ReadLogin, ReadRefresh, ReadLogout,
           ReadChange, Start
      <4> QED BY <4>1, <3>2, <1>a DEF Accept, ReadRegister, ReadLogin, ReadRefresh,
              ReadLogout, ReadChange, Start
    <3>3. ASSUME NEW d \in Clients, Serve(d) PROVE since[c] \subseteq since'[c]
      BY <3>3, <1>a DEF Serve, CreateFirst, SeeCreation, TouchLastLogin, SignAccess,
         InsertToken, Refresh, Revoke, SetPassword, RevokeAll, Disconnect, Continue,
         Answer
    <3> QED
      BY <3>2, <3>3, <1>a
      DEF Next, vars, CreateUser, PatchUser, SetUserActive, Purge, AccessExpires,
          RefreshExpires
  <2>3. ASSUME NEW u \in Users, UserInserted(u) PROVE LiveUsers' \subseteq since'[c]
    <3>1. since'[c] = since[c] \union {u} BY <2>3, <1>2 DEF UserInserted
    <3>2. \A v \in Users \ {u} : user'[v] = user[v]
      BY <2>3, <1>a DEF UserInserted
    <3> QED BY <2>1, <3>1, <3>2 DEF LiveUsers, Exists
  <2>4. ASSUME NEW u \in Users, UserChanged(u) \/ UserPurged(u)
        PROVE  LiveUsers' \subseteq LiveUsers
    <3>1. Exists(u) /\ \A v \in Users \ {u} : user'[v] = user[v]
      BY <2>4, <1>a DEF UserChanged, UserPurged
    <3> QED BY <3>1 DEF LiveUsers, Exists
  <2>5. CASE user' = user BY <2>1, <2>2, <2>5 DEF LiveUsers, Exists
  <2> QED BY <2>1, <2>2, <2>3, <2>4, <2>5, UserMoves
<1> QED BY <1>1, <1>2

\* Registration is closed once a user exists: a registration that adds a second
\* one has overlapped the creation of every user there is.
THEOREM RegistrationCloses == Spec => RegistrationClosed
<1>1. Init => CountedNone BY IdleOp DEF Init, CountedNone
<1>2. CountedNone /\ [Next]_vars =>
        [\A c \in Clients :
           op[c].step = "create" /\ op'[c].step = "sign" => LiveUsers \subseteq since[c]]_vars
  BY DEF CountedNone
<1> QED BY InitInv, NextKeepsInv, <1>1, <1>2, NextKeepsCount, PTL
        DEF Spec, RegistrationClosed

-----------------------------------------------------------------------------
(* What a step can do to a session. *)

LEMMA TokenMoves ==
  ASSUME Inv, [Next]_vars, NEW t \in Tokens, token'[t].status = "LIVE"
  PROVE  \/ /\ token[t].status = "LIVE"
            /\ token'[t].user = token[t].user /\ token'[t].byLogin = token[t].byLogin
            /\ token'[t].proved = token[t].proved /\ token'[t].late = token[t].late
            /\ token[t].revoked => token'[t].revoked
         \/ \E c \in Clients : InsertToken(c, t) /\ token'[t] = NewToken(op[c])
<1>a. TypeOK /\ token \in [Tokens -> TokenRows] BY DEF Inv, TypeOK
<1>1. ASSUME NEW c \in Clients, NEW s \in Tokens, InsertToken(c, s)
      PROVE  token'[t] = token[t] \/ (s = t /\ token'[t] = NewToken(op[c]))
  BY <1>1, <1>a DEF InsertToken
<1>m. ASSUME token[t].status = "LIVE",
             \/ token'[t] = [token[t] EXCEPT !.revoked = TRUE]
             \/ token'[t] = [token[t] EXCEPT !.expired = TRUE]
      PROVE  /\ token'[t].user = token[t].user /\ token'[t].byLogin = token[t].byLogin
             /\ token'[t].proved = token[t].proved /\ token'[t].late = token[t].late
             /\ token[t].revoked => token'[t].revoked
  BY <1>m, <1>a, LiveToken
<1>2. ASSUME NEW c \in Clients, Revoke(c)
      PROVE  token'[t] = token[t] \/ (token[t].status = "LIVE" /\
                                      token'[t] = [token[t] EXCEPT !.revoked = TRUE])
  <2>1. op[c].token \in Tokens BY <1>2 DEF Revoke, Inv, RequestsNamed
  <2> QED BY <1>2, <2>1, <1>a DEF Revoke
<1>3. ASSUME NEW c \in Clients, RevokeAll(c)
      PROVE  token'[t] = token[t] \/ (token[t].status = "LIVE" /\
                                      token'[t] = [token[t] EXCEPT !.revoked = TRUE])
  BY <1>3 DEF RevokeAll, RevokedSessionsOf
<1>4. ASSUME NEW s \in Tokens, RefreshExpires(s)
      PROVE  token'[t] = token[t] \/ (token[t].status = "LIVE" /\
                                      token'[t] = [token[t] EXCEPT !.expired = TRUE])
  BY <1>4, <1>a DEF RefreshExpires
<1>5. ASSUME NEW u \in Users, Purge(u) PROVE token'[t] = token[t]
  <2>1. NoToken.status # "LIVE" BY RowsOf DEF None
  <2> QED BY <1>5, <2>1 DEF Purge
<1>6. ASSUME NEW c \in Clients,
             \/ \E u \in Users : CreateFirst(c, u)
             \/ TouchLastLogin(c) \/ SignAccess(c) \/ Refresh(c) \/ SetPassword(c)
             \/ Disconnect(c) \/ Accept(c)
      PROVE  token' = token
  BY <1>6 DEF CreateFirst, InsertUser, TouchLastLogin, SignAccess, Refresh, SetPassword,
     Disconnect, Accept, ReadRegister, ReadLogin, ReadRefresh, ReadLogout, ReadChange
<1>7. ASSUME NEW u \in Users,
             \/ CreateUser(u) \/ PatchUser(u) \/ AccessExpires(u)
             \/ \E isActive \in BOOLEAN : SetUserActive(u, isActive)
      PROVE  token' = token
  BY <1>7 DEF CreateUser, InsertUser, PatchUser, AccessExpires, SetUserActive
<1>8. \/ token'[t] = token[t]
      \/ \E c \in Clients : InsertToken(c, t) /\ token'[t] = NewToken(op[c])
      \/ token[t].status = "LIVE" /\ token'[t] = [token[t] EXCEPT !.revoked = TRUE]
      \/ token[t].status = "LIVE" /\ token'[t] = [token[t] EXCEPT !.expired = TRUE]
  BY <1>1, <1>2, <1>3, <1>4, <1>5, <1>6, <1>7 DEF Next, Serve, vars
<1>9. CASE token'[t] = token[t] BY <1>9
<1> QED BY <1>8, <1>9, <1>m

-----------------------------------------------------------------------------
LEMMA NextKeepsEnded == Inv /\ ChangeEndsSessions /\ [Next]_vars => ChangeEndsSessions'
<1> SUFFICES ASSUME Inv, ChangeEndsSessions, [Next]_vars, NEW t \in Tokens,
                    token'[t].status = "LIVE", ~token'[t].revoked, ~token'[t].late
             PROVE  token'[t].proved >= ended'[token'[t].user]
  BY DEF ChangeEndsSessions
<1>a. TypeOK /\ ended \in [Users -> 0 .. MaxPasswords] BY DEF Inv, TypeOK
<1>1. CASE token[t].status = "LIVE" /\ token'[t].user = token[t].user /\
           token'[t].proved = token[t].proved /\ token'[t].late = token[t].late /\
           (token[t].revoked => token'[t].revoked)
  <2> DEFINE u == token[t].user
  <2>1. u \in Users BY <1>1, <1>a, LiveToken
  <2>2. token[t].proved >= ended[u] BY <1>1 DEF ChangeEndsSessions
  <2>3. ended'[u] = ended[u]
    <3>1. ASSUME NEW c \in Clients, RevokeAll(c) PROVE ended'[u] = ended[u]
      <4>1. op[c].user # u
        <5>1. SUFFICES ASSUME op[c].user = u PROVE FALSE OBVIOUS
        <5>2. token'[t] = [token[t] EXCEPT !.revoked = TRUE]
          BY <5>1, <3>1, <1>1 DEF RevokeAll, RevokedSessionsOf
        <5>3. token'[t].revoked = TRUE BY <5>2, <1>1, <1>a, MarkedToken
        <5> QED BY <5>3
      <4> QED BY <4>1, <3>1, <1>a DEF RevokeAll
    <3> QED
      BY <3>1 DEF Next, vars, Serve, Accept, CreateFirst, InsertUser, TouchLastLogin,
         SignAccess, InsertToken, Refresh, Revoke, SetPassword, Disconnect,
         ReadRegister, ReadLogin, ReadRefresh, ReadLogout, ReadChange, CreateUser,
         PatchUser, SetUserActive, Purge, AccessExpires, RefreshExpires
  <2> QED BY <2>2, <2>3, <1>1
<1>2. ASSUME NEW c \in Clients, InsertToken(c, t), token'[t] = NewToken(op[c])
      PROVE  token'[t].proved >= ended'[token'[t].user]
  <2>1. ended' = ended /\ op[c].user \in Users /\ op[c] \in Op
    BY <1>2, <1>a DEF InsertToken, Inv, RequestsNamed, TypeOK
  <2>2. /\ token'[t].user = op[c].user /\ token'[t].proved = op[c].password
        /\ ~(op[c].password < ended[op[c].user])
    <3>1. PICK late : late = (op[c].password < ended[op[c].user]) OBVIOUS
    <3>e. NewToken(op[c]) =
            [status |-> "LIVE", user |-> op[c].user, proved |-> op[c].password,
             revoked |-> FALSE, expired |-> FALSE, byLogin |-> op[c].byLogin,
             late |-> late]
      BY <3>1, Zenon DEF NewToken
    <3>2. /\ token'[t].user = op[c].user /\ token'[t].proved = op[c].password
          /\ token'[t].late = late
      BY <1>2, <3>e
    <3>3. ~late BY <3>2
    <3> QED BY <3>1, <3>2, <3>3
  <2>3. op[c].password \in Nat /\ ended[op[c].user] \in Nat
    BY <2>1, <1>a, SessionsAssumption DEF Op
  <2> QED BY <2>1, <2>2, <2>3
<1> QED BY <1>1, <1>2, TokenMoves

\* After a password change no session that proved an older password can be
\* refreshed, unless it was inserted after the revocation.
THEOREM ChangesEndSessions == Spec => []ChangeEndsSessions
<1>1. Init => ChangeEndsSessions BY RowsOf DEF Init, ChangeEndsSessions, None
<1> QED BY InitInv, NextKeepsInv, <1>1, NextKeepsEnded, PTL DEF Spec

-----------------------------------------------------------------------------
\* An id that was used is never unused again, and a row that exists was there.
LEMMA KnownUser ==
  ASSUME Inv, [Next]_vars, NEW u \in Users, user[u] # NoUser
  PROVE  /\ user'[u] # NoUser
         /\ user'[u].status = "LIVE" =>
               Exists(u) /\ (user[u].loggedIn => user'[u].loggedIn)
<1>a. user \in [Users -> UserRows] BY DEF Inv, TypeOK
<1>1. ASSUME NEW v \in Users, UserInserted(v) PROVE user'[u] = user[u]
  BY <1>1, <1>a DEF UserInserted
<1>2. ASSUME NEW v \in Users, UserChanged(v)
      PROVE  \/ user'[u] = user[u]
             \/ /\ Exists(u) /\ user'[u].status = "LIVE"
                /\ user[u].loggedIn => user'[u].loggedIn
  BY <1>2, <1>a DEF UserChanged
<1>3. ASSUME NEW v \in Users, UserPurged(v)
      PROVE  user'[u] = user[u] \/ user'[u] = GoneUser
  BY <1>3, <1>a DEF UserPurged
<1> QED BY <1>1, <1>2, <1>3, UserMoves, RowsOf DEF Exists, None

LEMMA NextKeepsStamp == Inv /\ LoginStamped /\ [Next]_vars => LoginStamped'
<1> SUFFICES ASSUME Inv, LoginStamped, [Next]_vars, NEW c \in Clients,
                    op'[c].step \in {"touch", "sign", "insert"}
             PROVE  /\ user'[op'[c].user] # NoUser
                    /\ op'[c].step \in {"sign", "insert"} /\ op'[c].byLogin
                          /\ user'[op'[c].user].status = "LIVE"
                             => user'[op'[c].user].loggedIn
  BY DEF LoginStamped, Exists
<1>a. op \in [Clients -> Op] /\ op[c] \in Op /\ TypeOK BY DEF Inv, TypeOK
<1>1. CASE op'[c] = op[c]
  <2>1. op[c].user \in Users /\ user[op[c].user] # NoUser
    BY <1>1 DEF Inv, RequestsNamed, LoginStamped
  <2> QED BY <2>1, <1>1, KnownUser DEF LoginStamped
<1>2. ASSUME NEW u \in Users, CreateFirst(c, u)
      PROVE  op'[c].user = u /\ ~op'[c].byLogin /\ user'[u] # NoUser
  <2>1. op' = [op EXCEPT ![c] = [Idle EXCEPT !.step = "sign", !.user = u,
                                             !.password = 1]]
    BY <1>2 DEF CreateFirst, SeeCreation
  <2>2. op'[c].user = u /\ ~op'[c].byLogin BY <2>1, <1>a, IdleOp DEF Op
  <2>3. user'[u].status = "LIVE"
    BY <1>2, <1>a DEF CreateFirst, InsertUser, NewUser, TypeOK
  <2> QED BY <2>2, <2>3, RowsOf DEF None
<1>3. ASSUME NEW login, ReadLogin(c, login)
      PROVE  op'[c].step = "touch" /\ user'[op'[c].user] # NoUser
  <2>1. PICK u \in NamedBy(login) : \E p : op' = [op EXCEPT ![c] =
           [Idle EXCEPT !.step = "touch", !.user = u, !.password = p, !.byLogin = TRUE]]
    BY <1>3 DEF ReadLogin, Start
  <2>2. op'[c].step = "touch" /\ op'[c].user = u BY <2>1, <1>a, IdleOp DEF Op
  <2>3. user' = user /\ user[u].status = "LIVE"
    BY <1>3 DEF ReadLogin, NamedBy, LiveUsers, Exists
  <2> QED BY <2>2, <2>3, RowsOf DEF None
<1>4. CASE TouchLastLogin(c)
  <2>1. /\ op'[c].user = op[c].user /\ op[c].step = "touch"
        /\ op[c].user \in Users
    BY <1>4, <1>a DEF TouchLastLogin, Continue, Op, Inv, RequestsNamed
  <2>2. user[op[c].user] # NoUser BY <2>1 DEF LoginStamped
  <2>3. Exists(op[c].user) => user'[op[c].user].loggedIn
    <3>1. Exists(op[c].user) => user[op[c].user] \in [status : {"LIVE"}, code : Codes,
             email : Emails, active : BOOLEAN, password : 1 .. MaxPasswords,
             loggedIn : BOOLEAN]
      BY <2>1, <1>a, LiveUser
    <3> QED BY <1>4, <2>1, <3>1, <1>a DEF TouchLastLogin, TypeOK
  <2> QED BY <2>1, <2>2, <2>3, KnownUser
<1>5. CASE SignAccess(c)
  <2>1. /\ op'[c].user = op[c].user /\ op'[c].byLogin = op[c].byLogin
        /\ op[c].step = "sign" /\ op[c].user \in Users /\ user' = user
    BY <1>5, <1>a DEF SignAccess, Continue, Op, Inv, RequestsNamed
  <2> QED BY <2>1 DEF LoginStamped, Exists
<1>6. \/ op'[c] = op[c]
      \/ \E u \in Users : CreateFirst(c, u)
      \/ \E login : ReadLogin(c, login)
      \/ TouchLastLogin(c) \/ SignAccess(c)
  <2>1. ASSUME NEW d \in Clients, Accept(d)
        PROVE  op'[c] = op[c] \/ \E login : ReadLogin(c, login)
    <3>1. CASE d # c
      BY <2>1, <3>1, <1>a DEF Accept, ReadRegister, ReadLogin, ReadRefresh, ReadLogout,
         ReadChange, Start
    <3>2. CASE d = c
      <4>1. CASE ReadRegister(c)
        BY <4>1, <1>a, IdleOp DEF ReadRegister, Start, Op
      <4>2. ASSUME NEW t \in Tokens, ReadRefresh(c, t) PROVE op'[c].step = "refresh"
        BY <4>2, <1>a, IdleOp DEF ReadRefresh, Start, Op
      <4>3. ASSUME NEW t \in Tokens, ReadLogout(c, t) PROVE op'[c].step = "logout"
        BY <4>3, <1>a, IdleOp DEF ReadLogout, Start, Op
      <4>4. ASSUME NEW u \in Users, ReadChange(c, u) PROVE op'[c].step = "change"
        BY <4>4, <1>a, IdleOp DEF ReadChange, Start, Op
      <4> QED BY <2>1, <3>2, <4>1, <4>2, <4>3, <4>4 DEF Accept
    <3> QED BY <3>1, <3>2
  <2>2. ASSUME NEW d \in Clients, Serve(d)
        PROVE  \/ op'[c] = op[c]
               \/ \E u \in Users : CreateFirst(c, u)
               \/ TouchLastLogin(c) \/ SignAccess(c)
    <3>1. CASE d # c
      BY <2>2, <3>1, <1>a DEF Serve, CreateFirst, SeeCreation, TouchLastLogin,
         SignAccess, InsertToken, Refresh, Revoke, SetPassword, RevokeAll, Disconnect,
         Continue, Answer
    <3>2. CASE d = c
      <4>1. CASE SetPassword(c) BY <4>1, <1>a DEF SetPassword, Op
      <4>2. CASE \/ \E t \in Tokens : InsertToken(c, t)
                 \/ Refresh(c) \/ Revoke(c) \/ RevokeAll(c) \/ Disconnect(c)
        BY <4>2, <1>a, IdleOp DEF InsertToken, Refresh, Revoke, RevokeAll, Disconnect,
           Answer
      <4> QED BY <2>2, <3>2, <4>1, <4>2 DEF Serve
    <3> QED BY <3>1, <3>2
  <2> QED
    BY <2>1, <2>2 DEF Next, vars, CreateUser, PatchUser, SetUserActive, Purge,
       AccessExpires, RefreshExpires
<1> QED BY <1>1, <1>2, <1>3, <1>4, <1>5, <1>6

LEMMA NextKeepsOwned ==
  Inv /\ LoginStamped /\ SessionsOwned /\ [Next]_vars => SessionsOwned'
<1> SUFFICES ASSUME Inv, LoginStamped, SessionsOwned, [Next]_vars, NEW t \in Tokens,
                    token'[t].status = "LIVE"
             PROVE  /\ user'[token'[t].user].status = "LIVE"
                    /\ token'[t].byLogin => user'[token'[t].user].loggedIn
  BY DEF SessionsOwned, Exists
<1>a. TypeOK /\ user \in [Users -> UserRows] BY DEF Inv, TypeOK
<1>1. CASE /\ token[t].status = "LIVE" /\ token'[t].user = token[t].user
           /\ token'[t].byLogin = token[t].byLogin
  <2>t. token[t].user \in Users BY <1>1, <1>a, LiveToken
  <2>u. PICK u \in Users : u = token[t].user BY <2>t
  <2>1. /\ u \in Users /\ Exists(u) /\ user[u].status = "LIVE"
        /\ token[t].byLogin => user[u].loggedIn
    BY <1>1, <2>u DEF SessionsOwned, Exists
  <2>2. user[u] # NoUser BY <2>1, RowsOf DEF None
  <2>3. user'[u].status = "LIVE"
    <3>1. ASSUME NEW v \in Users, UserInserted(v) PROVE user'[u] = user[u]
      BY <3>1, <2>1, <2>2, <1>a DEF UserInserted
    <3>2. ASSUME NEW v \in Users, UserChanged(v) PROVE user'[u].status = "LIVE"
      BY <3>2, <2>1, <1>a DEF UserChanged
    <3>3. ASSUME NEW v \in Users, UserPurged(v) PROVE user'[u] = user[u]
      <4>1. v # u
        <5>1. v = u => token'[t] = NoToken BY <3>3, <1>1, <2>u DEF UserPurged
        <5> QED BY <5>1, RowsOf DEF None
      <4> QED BY <4>1, <3>3, <2>1, <1>a DEF UserPurged
    <3> QED BY <3>1, <3>2, <3>3, <2>1, UserMoves DEF Exists
  <2>4. user[u].loggedIn => user'[u].loggedIn BY <2>1, <2>2, <2>3, KnownUser
  <2> QED BY <2>1, <2>3, <2>4, <2>u, <1>1
<1>2. ASSUME NEW c \in Clients, InsertToken(c, t), token'[t] = NewToken(op[c])
      PROVE  /\ user'[token'[t].user].status = "LIVE"
             /\ token'[t].byLogin => user'[token'[t].user].loggedIn
  <2>1. /\ user' = user /\ op[c].step = "insert" /\ Exists(op[c].user)
        /\ token'[t].user = op[c].user /\ token'[t].byLogin = op[c].byLogin
    BY <1>2 DEF InsertToken, NewToken
  <2> QED BY <2>1 DEF LoginStamped, Exists
<1> QED BY <1>1, <1>2, TokenMoves

\* A session never outlives its user, and a login that opened one left its stamp.
THEOREM SessionsKeepOwners == Spec => []SessionsOwned
<1>1. Init => SessionsOwned BY RowsOf DEF Init, SessionsOwned, None
<1>2. Init => LoginStamped BY IdleOp DEF Init, LoginStamped
<1> QED BY InitInv, NextKeepsInv, <1>1, <1>2, NextKeepsStamp, NextKeepsOwned, PTL
        DEF Spec
=============================================================================
