------------------------------ MODULE Sessions ------------------------------
(***************************************************************************)
(* Users, their passwords and their refresh sessions.                      *)
(*                                                                         *)
(* Every handler of the authentication service is a chain of statements,   *)
(* each its own commit: the first registration counts the users and then   *)
(* inserts one, a login reads the user, stamps last_login_at, reads the    *)
(* user again for the access token and inserts the refresh token, a        *)
(* password change replaces the hash and then revokes the sessions.  A     *)
(* step of one request is an action here, and any other request may run    *)
(* between two of them.                                                    *)
(*                                                                         *)
(* A password is the number of the change that set it: the first is 1.     *)
(* Access tokens are not stored by the service; access holds the users     *)
(* that have been given one that has not expired.                          *)
(***************************************************************************)
EXTENDS Naturals

CONSTANTS
    Users,          \* ids of rtu.users, never used twice
    Codes,          \* employee codes
    Emails,         \* email addresses, in the lower case they are stored in
    Tokens,         \* bound: ids of rtu.refresh_tokens at one time
    Clients,        \* concurrent HTTP requests
    MaxPasswords,   \* bound: passwords one user gets
    Requests        \* bound: the kinds of request the clients send

None == "NULL"

ASSUME SessionsAssumption ==
    /\ MaxPasswords \in Nat \ {0}
    /\ None \notin Users \union Codes \union Emails \union Tokens

VARIABLES
    user,           \* rtu.users
    token,          \* rtu.refresh_tokens
    access,         \* users with an access token that has not expired
    op,             \* the requests in flight
    since,          \* history: users created while the request has been running
    ended           \* history: the newest password whose change has revoked

vars == <<user, token, access, op, since, ended>>

MaybeUser == Users \union {None}
MaybeToken == Tokens \union {None}

NoUser == [status |-> None, code |-> None, email |-> None, active |-> FALSE,
           password |-> 0, loggedIn |-> FALSE]
GoneUser == [NoUser EXCEPT !.status = "DELETED"]
UserRows ==
    {NoUser, GoneUser} \union
    [status : {"LIVE"}, code : Codes, email : Emails,
     active : BOOLEAN, password : 1 .. MaxPasswords, loggedIn : BOOLEAN]

\* proved: the password its request has verified; late: history, the row was
\* inserted after a revocation it would have been covered by.
NoToken == [status |-> None, user |-> None, proved |-> 0, revoked |-> FALSE,
            expired |-> FALSE, byLogin |-> FALSE, late |-> FALSE]
TokenRows ==
    {NoToken} \union
    [status : {"LIVE"}, user : Users, proved : 1 .. MaxPasswords,
     revoked : BOOLEAN, expired : BOOLEAN, byLogin : BOOLEAN, late : BOOLEAN]

\* A field a step does not use is NULL, FALSE or 0.
Idle == [step |-> "idle", user |-> None, token |-> None, password |-> 0,
         byLogin |-> FALSE]
Op == [step : {"idle", "create", "touch", "sign", "insert", "refresh", "logout",
               "change", "revoke"},
       user : MaybeUser, token : MaybeToken, password : 0 .. MaxPasswords,
       byLogin : BOOLEAN]

-----------------------------------------------------------------------------
Exists(u) == user[u].status = "LIVE"

LiveUsers == {u \in Users : Exists(u)}

\* CountUsers: the deactivated ones are counted too.
CountActiveOnly == {u \in LiveUsers : user[u].active}
Counted == LiveUsers

\* GetUserByLogin: a login names a user by code or by email.
NamedBy(login) == {u \in LiveUsers : login \in {user[u].code, user[u].email}}

\* The unique indexes on employee_code and email, over every row.
NamesFreeAmongActive(u, code, email) ==
    \A v \in LiveUsers \ {u} :
        user[v].active => user[v].code # code /\ user[v].email # email
NamesFree(u, code, email) ==
    \A v \in LiveUsers \ {u} : user[v].code # code /\ user[v].email # email

\* GetRefreshTokenByHash joins the user of the token.
Found(t) == token[t].status = "LIVE" /\ Exists(token[t].user)

Init ==
    /\ user = [u \in Users |-> NoUser]
    /\ token = [t \in Tokens |-> NoToken]
    /\ access = {}
    /\ op = [c \in Clients |-> Idle]
    /\ since = [c \in Clients |-> {}]
    /\ ended = [u \in Users |-> 0]

\* A request begins, goes on to its next step, or is answered.
Start(c, kind, o) ==
    /\ kind \in Requests
    /\ op[c] = Idle
    /\ op' = [op EXCEPT ![c] = o]
    /\ since' = [since EXCEPT ![c] = {}]

Continue(c, step) ==
    /\ op' = [op EXCEPT ![c].step = step]
    /\ UNCHANGED since

Answer(c) ==
    /\ op' = [op EXCEPT ![c] = Idle]
    /\ UNCHANGED since

\* RequireAccessToken: any user with a valid access token passes, none is stored.
ValidAccess(u) == u \in access
Authenticated == \E u \in Users : ValidAccess(u)

\* CreateUser: the insert behind a registration and behind POST /users.
NewUser(u, code, email, isActive) ==
    [status |-> "LIVE", code |-> code, email |-> email, active |-> isActive,
     password |-> 1, loggedIn |-> FALSE]

InsertUser(u, code, email, isActive) ==
    /\ user[u] = NoUser
    /\ NamesFree(u, code, email)
    /\ user' = [user EXCEPT ![u] = NewUser(u, code, email, isActive)]
    /\ UNCHANGED <<token, access, ended>>

\* What the requests in flight have seen happen: history only.
SeeCreation(c, u, o) ==
    /\ op' = [op EXCEPT ![c] = o]
    /\ since' = [d \in Clients |-> IF op[d] = Idle THEN since[d]
                                                   ELSE since[d] \union {u}]

-----------------------------------------------------------------------------
\* The first registration: count, insert, session.
ReadRegister(c) ==
    /\ Counted = {}
    /\ Start(c, "register", [Idle EXCEPT !.step = "create"])
    /\ UNCHANGED <<user, token, access, ended>>

CreateFirst(c, u) ==
    /\ op[c].step = "create"
    /\ \E code \in Codes, email \in Emails : InsertUser(u, code, email, TRUE)
    /\ SeeCreation(c, u, [Idle EXCEPT !.step = "sign", !.user = u, !.password = 1])

-----------------------------------------------------------------------------
\* A login with a wrong password, or of a deactivated user, ends here.
ReadLogin(c, login) ==
    \E u \in NamedBy(login) :
        /\ user[u].active
        /\ Start(c, "login", [Idle EXCEPT !.step = "touch", !.user = u,
                                 !.password = user[u].password, !.byLogin = TRUE])
        /\ UNCHANGED <<user, token, access, ended>>

\* A login that goes on without the stamp.
TouchLastLoginSkipped(c) ==
    /\ op[c].step = "touch"
    /\ Continue(c, "sign")
    /\ UNCHANGED <<user, token, access, ended>>
\* The UPDATE may match no row; its count is not looked at.
TouchLastLogin(c) ==
    LET u == op[c].user IN
    /\ op[c].step = "touch"
    /\ user' = IF Exists(u) THEN [user EXCEPT ![u].loggedIn = TRUE] ELSE user
    /\ Continue(c, "sign")
    /\ UNCHANGED <<token, access, ended>>

\* signAccess and the view of the answer: the user must still exist.
SignAccess(c) ==
    /\ op[c].step = "sign"
    /\ Exists(op[c].user)
    /\ Continue(c, "insert")
    /\ UNCHANGED <<user, token, access, ended>>

NewToken(o) ==
    [status |-> "LIVE", user |-> o.user, proved |-> o.password, revoked |-> FALSE,
     expired |-> FALSE, byLogin |-> o.byLogin, late |-> o.password < ended[o.user]]

\* The id of a session that is gone is a new one when nobody holds it any more.
IdFree(t) == token[t] = NoToken /\ \A d \in Clients : op[d].token # t

\* CreateRefreshToken under the foreign key of user_id.  The access token signed
\* before reaches the client only now.
InsertTokenUnchecked(c, t) ==
    /\ op[c].step = "insert"
    /\ IdFree(t)
    /\ token' = [token EXCEPT ![t] = NewToken(op[c])]
    /\ access' = access \union {op[c].user}
    /\ Answer(c)
    /\ UNCHANGED <<user, ended>>
InsertToken(c, t) ==
    /\ op[c].step = "insert"
    /\ Exists(op[c].user)
    /\ IdFree(t)
    /\ token' = [token EXCEPT ![t] = NewToken(op[c])]
    /\ access' = access \union {op[c].user}
    /\ Answer(c)
    /\ UNCHANGED <<user, ended>>

-----------------------------------------------------------------------------
\* A refresh does not rotate the session; it may be revoked before the answer.
ReadRefresh(c, t) ==
    /\ Found(t)
    /\ ~token[t].revoked
    /\ ~token[t].expired
    /\ user[token[t].user].active
    /\ Start(c, "refresh", [Idle EXCEPT !.step = "refresh", !.user = token[t].user])
    /\ UNCHANGED <<user, token, access, ended>>

\* TouchMeta writes only the address of the client, then signAccess.
Refresh(c) ==
    /\ op[c].step = "refresh"
    /\ Exists(op[c].user)
    /\ access' = access \union {op[c].user}
    /\ Answer(c)
    /\ UNCHANGED <<user, token, ended>>

\* Revoked and expired sessions may be logged out as well.
ReadLogout(c, t) ==
    /\ Found(t)
    /\ Start(c, "logout", [Idle EXCEPT !.step = "logout", !.token = t])
    /\ UNCHANGED <<user, token, access, ended>>

Revoke(c) ==
    LET t == op[c].token IN
    /\ op[c].step = "logout"
    /\ token' = IF token[t].status = "LIVE" THEN [token EXCEPT ![t].revoked = TRUE]
                                            ELSE token
    /\ Answer(c)
    /\ UNCHANGED <<user, access, ended>>

-----------------------------------------------------------------------------
\* The old password is verified on a row read before the UPDATE.
ReadChange(c, u) ==
    /\ ValidAccess(u)
    /\ Exists(u)
    /\ user[u].active
    /\ Start(c, "change", [Idle EXCEPT !.step = "change", !.user = u])
    /\ UNCHANGED <<user, token, access, ended>>

SetPassword(c) ==
    LET u == op[c].user IN
    /\ op[c].step = "change"
    /\ Exists(u)
    /\ user[u].password < MaxPasswords
    /\ user' = [user EXCEPT ![u].password = @ + 1]
    /\ op' = [op EXCEPT ![c].step = "revoke", ![c].password = user[u].password + 1]
    /\ UNCHANGED <<token, access, since, ended>>

Later(m, n) == IF m > n THEN m ELSE n

\* RevokeRefreshTokensForUser; a condition turned round ends the ended ones.
RevokedSessionsAgain(u) ==
    [t \in Tokens |-> IF token[t].status = "LIVE" /\ token[t].user = u /\ token[t].revoked
                      THEN [token[t] EXCEPT !.revoked = TRUE] ELSE token[t]]
RevokedSessionsOf(u) ==
    [t \in Tokens |-> IF token[t].status = "LIVE" /\ token[t].user = u
                      THEN [token[t] EXCEPT !.revoked = TRUE] ELSE token[t]]

RevokeAll(c) ==
    LET u == op[c].user IN
    /\ op[c].step = "revoke"
    /\ token' = RevokedSessionsOf(u)
    /\ ended' = [ended EXCEPT ![u] = Later(@, op[c].password)]
    /\ Answer(c)
    /\ UNCHANGED <<user, access>>

-----------------------------------------------------------------------------
\* POST, PATCH, DELETE, restore and purge of /users: one statement each.
CreateUser(u) ==
    /\ "users" \in Requests
    /\ Authenticated
    /\ \E code \in Codes, email \in Emails, isActive \in BOOLEAN :
           InsertUser(u, code, email, isActive)
    /\ since' = [d \in Clients |-> IF op[d] = Idle THEN since[d]
                                                   ELSE since[d] \union {u}]
    /\ UNCHANGED op

\* A password set by PATCH revokes nothing.
PatchedUser(u, code, email, isActive, password) ==
    [user EXCEPT ![u].code = code, ![u].email = email, ![u].active = isActive,
                 ![u].password = password]

PatchUserAcceptsNull(u) ==
    /\ "users" \in Requests
    /\ Authenticated
    /\ Exists(u)
    /\ \E email \in Emails \union {None} :
           user' = PatchedUser(u, user[u].code, email, user[u].active, user[u].password)
    /\ UNCHANGED <<token, access, op, since, ended>>
PatchUser(u) ==
    /\ "users" \in Requests
    /\ Authenticated
    /\ Exists(u)
    /\ \E code \in Codes, email \in Emails, isActive \in BOOLEAN,
          password \in {user[u].password, user[u].password + 1} :
           /\ password <= MaxPasswords
           /\ NamesFree(u, code, email)
           /\ user' = PatchedUser(u, code, email, isActive, password)
    /\ UNCHANGED <<token, access, op, since, ended>>

\* DELETE and POST restore: sessions and access tokens are left alone.
SetUserActive(u, isActive) ==
    /\ "users" \in Requests
    /\ Authenticated
    /\ Exists(u)
    /\ user' = [user EXCEPT ![u].active = isActive]
    /\ UNCHANGED <<token, access, op, since, ended>>

\* The foreign key of the refresh tokens cascades.
Purge(u) ==
    /\ "users" \in Requests
    /\ Authenticated
    /\ Exists(u)
    /\ user' = [user EXCEPT ![u] = GoneUser]
    /\ token' = [t \in Tokens |-> IF token[t].status = "LIVE" /\ token[t].user = u
                                  THEN NoToken
                                  ELSE token[t]]
    /\ UNCHANGED <<access, op, since, ended>>

-----------------------------------------------------------------------------
\* JWT_ACCESS_TTL and JWT_REFRESH_TTL run out.
AccessExpires(u) ==
    /\ u \in access
    /\ access' = access \ {u}
    /\ UNCHANGED <<user, token, op, since, ended>>

RefreshExpires(t) ==
    /\ token[t].status = "LIVE"
    /\ ~token[t].expired
    /\ token' = [token EXCEPT ![t].expired = TRUE]
    /\ UNCHANGED <<user, access, op, since, ended>>

\* An error answer, a client that has gone or a process that stops: what the
\* earlier statements committed stays.
Disconnect(c) ==
    /\ op[c] # Idle
    /\ Answer(c)
    /\ UNCHANGED <<user, token, access, ended>>

Serve(c) ==
    \/ \E u \in Users : CreateFirst(c, u)
    \/ TouchLastLogin(c)
    \/ SignAccess(c)
    \/ \E t \in Tokens : InsertToken(c, t)
    \/ Refresh(c)
    \/ Revoke(c)
    \/ SetPassword(c)
    \/ RevokeAll(c)
    \/ Disconnect(c)

Accept(c) ==
    \/ ReadRegister(c)
    \/ \E login \in Codes \union Emails : ReadLogin(c, login)
    \/ \E t \in Tokens : ReadRefresh(c, t)
    \/ \E t \in Tokens : ReadLogout(c, t)
    \/ \E u \in Users : ReadChange(c, u)

Next ==
    \/ \E c \in Clients : Accept(c) \/ Serve(c)
    \/ \E u \in Users : CreateUser(u)
    \/ \E u \in Users : PatchUser(u)
    \/ \E u \in Users, isActive \in BOOLEAN : SetUserActive(u, isActive)
    \/ \E u \in Users : Purge(u)
    \/ \E u \in Users : AccessExpires(u)
    \/ \E t \in Tokens : RefreshExpires(t)

Spec == Init /\ [][Next]_vars

-----------------------------------------------------------------------------
(* Properties *)

\* The rows, the access tokens and the requests in flight stay in their domains.
TypeOK ==
    /\ user \in [Users -> UserRows]
    /\ token \in [Tokens -> TokenRows]
    /\ access \subseteq Users
    /\ op \in [Clients -> Op]
    /\ since \in [Clients -> SUBSET Users]
    /\ ended \in [Users -> 0 .. MaxPasswords]

\* auth.go:201: "revokes every refresh session".  After the two statements of a
\* password change no session that proved an older password can be refreshed,
\* whatever logins, other changes and PATCHes ran in between - except one whose
\* login had verified the old password and was inserted after the revocation.
ChangeEndsSessions ==
    \A t \in Tokens :
        token[t].status = "LIVE" /\ ~token[t].revoked /\ ~token[t].late
            => token[t].proved >= ended[token[t].user]

\* auth.go:91: registration is "closed once any user exists", also when every
\* user is deactivated.  A registration that adds a second user has overlapped
\* the creation of every user there is.
RegistrationClosed ==
    [][\A c \in Clients :
           op[c].step = "create" /\ op'[c].step = "sign" => LiveUsers \subseteq since[c]]_vars

\* user.go:77 deactivates and restores; a name taken while its owner was
\* deactivated would be ambiguous after the restore.
NamesUnique ==
    \A u, v \in LiveUsers :
        u # v => user[u].code # user[v].code /\ user[u].email # user[v].email

\* A refresh session never outlives its user, and one that a login opened shows
\* in last_login_at, although four statements lie between the check of the
\* password and the insert.
SessionsOwned ==
    \A t \in Tokens :
        token[t].status = "LIVE" =>
            /\ Exists(token[t].user)
            /\ token[t].byLogin => user[token[t].user].loggedIn
=============================================================================
