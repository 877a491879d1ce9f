---------------------------- MODULE AuthSession ---------------------------
(***************************************************************************)
(* Accounts, session tokens and what a request is allowed to do:           *)
(* internal/db/users.go, pkg/auth (jwt.go, middleware.go, context.go),     *)
(* pkg/pamauth and internal/handlers/auth.go, with the command useradd.    *)
(*                                                                         *)
(* A session is a signed token in the browser's cookie and nothing in the  *)
(* server.  Whatever it says, a request acts with the row that the         *)
(* middleware loads by the token's user id.  Rows are disabled, promoted   *)
(* and removed by hand, with SQL: no code of this repository does it.      *)
(*                                                                         *)
(* The module has no specification: UserSettings composes it with what     *)
(* requests do once they are let in.                                       *)
(***************************************************************************)
EXTENDS Naturals

CONSTANTS
    Clients,    \* browsers, each with a cookie and one request at a time
    Names,      \* user names
    MaxUsers,   \* bound: accounts created in one behaviour
    Routes,     \* what requests ask for
    AdminOnly,  \* those that RequireAdmin guards
    None        \* no name, no token, no user, nobody

Ids     == 1..MaxUsers
Persons == Ids   \* who an account was created for: nobody has two

ASSUME AuthAssumption ==
    /\ MaxUsers \in Nat
    /\ AdminOnly \subseteq Routes
    /\ None \notin Names /\ None \notin Persons
    /\ None \notin Clients /\ None \notin Routes
    /\ None \notin [id : Ids, person : Persons, admin : BOOLEAN]

VARIABLES
    users,    \* the users table
    nextId,   \* its AUTOINCREMENT counter
    jar,      \* the session cookie of each browser
    req       \* requests in progress

accounts == <<users, nextId>>
sessions == <<jar, req>>

\* person is not in the code: it tells an account from a later one that has
\* its id or its name.
NoUser == [name |-> None, person |-> None, admin |-> FALSE, disabled |-> FALSE]

\* seen is not in the code: what the account in the token was allowed at some
\* moment between the request's arrival and the middleware's look at its row.
Idle == [pc |-> "idle", route |-> None, token |-> None, user |-> None, seen |-> {}]

AuthInit ==
    /\ users = [i \in Ids |-> NoUser] /\ nextId = 1
    /\ jar = [c \in Clients |-> None]
    /\ req = [c \in Clients |-> Idle]

---------------------------------------------------------------------------
(* Accounts *)

Exists(i) == users[i] # NoUser

\* What a row allows: anything, what any user may do, or nothing.
Grants(row) ==
    IF row = NoUser \/ row.disabled THEN {} ELSE IF row.admin THEN {"admin", "user"} ELSE {"user"}

\* Requests that have not loaded the row yet will see the change.
Witnessed(rows) ==
    req' = [c \in Clients |->
              IF req[c].pc = "verified"
              THEN [req[c] EXCEPT !.seen = @ \union Grants(rows[req[c].token.id])]
              ELSE req[c]]

\* Mutant: rowids are reused, as without AUTOINCREMENT.
CreateUserReusing(n, admin) ==
    /\ nextId \in Ids
    /\ \A i \in Ids : users[i].name # n
    /\ LET new == CHOOSE i \in Ids : \A j \in Ids : Exists(j) => j < i IN
          users' = [users EXCEPT ![new] = [name |-> n, person |-> nextId,
                                           admin |-> admin, disabled |-> FALSE]]
    /\ nextId' = nextId + 1
    /\ Witnessed(users')
    /\ UNCHANGED jar

\* useradd.  UNIQUE(username); ids are never handed out twice (AUTOINCREMENT).
CreateUser(n, admin) ==
    /\ nextId \in Ids
    /\ \A i \in Ids : users[i].name # n
    /\ users' = [users EXCEPT ![nextId] = [name |-> n, person |-> nextId,
                                           admin |-> admin, disabled |-> FALSE]]
    /\ nextId' = nextId + 1
    /\ Witnessed(users')
    /\ UNCHANGED jar

\* disabled_at or is_admin is set or cleared by hand.
EditUser(i, admin, disabled) ==
    /\ Exists(i)
    /\ users' = [users EXCEPT ![i].admin = admin, ![i].disabled = disabled]
    /\ Witnessed(users')
    /\ UNCHANGED <<nextId, jar>>

\* DELETE FROM users by hand.
RemoveUser(i) ==
    /\ Exists(i)
    /\ users' = [users EXCEPT ![i] = NoUser]
    /\ UNCHANGED <<nextId, jar, req>>

---------------------------------------------------------------------------
(* Sessions *)

At(c, pc) == req[c].pc = pc

Return(c) == req' = [req EXCEPT ![c] = Idle]

(***************************************************************************)
(* Verify, with either backend: the row, not disabled, then the password,  *)
(* which takes bcrypt a quarter of a second and PAM up to ten.  What it    *)
(* refuses changes nothing.                                                *)
(***************************************************************************)
LoginVerify(c) == \E i \in Ids :
    /\ At(c, "idle") /\ Grants(users[i]) # {}
    /\ req' = [req EXCEPT ![c].pc = "issue",
                          ![c].token = [id |-> i, person |-> users[i].person,
                                        admin |-> users[i].admin]]
    /\ UNCHANGED <<accounts, jar>>

\* The row it was verified by makes the token, whatever happened to the account.
LoginIssue(c) ==
    /\ At(c, "issue")
    /\ jar' = [jar EXCEPT ![c] = req[c].token]
    /\ Return(c)
    /\ UNCHANGED accounts

\* The cookie is cleared, and the server keeps nothing that it could end.  A token
\* that has expired or was signed with a key that is gone is as good as none.
Logout(c) ==
    /\ At(c, "idle") /\ jar[c] # None
    /\ jar' = [jar EXCEPT ![c] = None]
    /\ UNCHANGED <<accounts, req>>

\* The middleware's first half: cookie and signature.
VerifyToken(c) == \E route \in Routes :
    /\ At(c, "idle") /\ jar[c] # None
    /\ req' = [req EXCEPT ![c] = [pc |-> "verified", route |-> route, token |-> jar[c],
                                  user |-> None,
                                  seen |-> Grants(users[jar[c].id])]]
    /\ UNCHANGED <<accounts, jar>>

Needs(route) == IF route \in AdminOnly THEN "admin" ELSE "user"

\* Mutant: the token's claims decide who is an administrator.
LoadUserClaiming(c) ==
    /\ At(c, "verified")
    /\ LET row == users[req[c].token.id]
           ok  == Grants(row) # {} /\ (Needs(req[c].route) = "admin" => req[c].token.admin)
       IN IF ok THEN req' = [req EXCEPT ![c].pc = "serving", ![c].user = row.person]
          ELSE Return(c)
    /\ UNCHANGED <<accounts, jar>>

\* The second half: the row of the token's user id, not disabled, and for an
\* administrator's route an administrator's.  Otherwise 401 or 403.
LoadUser(c) ==
    /\ At(c, "verified")
    /\ LET row == users[req[c].token.id] IN
          IF Needs(req[c].route) \in Grants(row)
          THEN req' = [req EXCEPT ![c].pc = "serving", ![c].user = row.person]
          ELSE Return(c)
    /\ UNCHANGED <<accounts, jar>>

\* An account is created, edited or removed.
Administer ==
    \/ \E n \in Names, admin \in BOOLEAN : CreateUser(n, admin)
    \/ \E i \in Ids, admin, disabled \in BOOLEAN : EditUser(i, admin, disabled)

Authenticate(c) == LoginVerify(c) \/ LoadUser(c)

\* What needs no statement on the database.
Browse(c) == LoginIssue(c) \/ Logout(c) \/ VerifyToken(c)
---------------------------------------------------------------------------
(* Properties *)

Rows == {NoUser} \union
        [name : Names, person : Persons, admin : BOOLEAN, disabled : BOOLEAN]

Tokens == [id : Ids, person : Persons, admin : BOOLEAN]

Requests ==
    [pc : {"idle", "issue", "verified", "serving"}, route : Routes \union {None},
     token : Tokens \union {None}, user : Persons \union {None},
     seen : SUBSET {"admin", "user"}]

AuthTypeOK ==
    /\ users \in [Ids -> Rows]
    /\ nextId \in 1..(MaxUsers + 1)
    /\ jar \in [Clients -> Tokens \union {None}]
    /\ req \in [Clients -> Requests]
    /\ \A c \in Clients : ~At(c, "idle") => req[c].token # None

(***************************************************************************)
(* A request is served as the person who typed the password, never as a    *)
(* later holder of that account's number or name: removed and created      *)
(* again, an account is another one.                                       *)
(***************************************************************************)
SessionIsOwn == \A c \in Clients :
    At(c, "serving") => req[c].user = req[c].token.person

(***************************************************************************)
(* What a request is served for, its account was allowed at some moment    *)
(* after the request had arrived, whatever the token says and whatever was *)
(* true when it was issued: who is disabled, demoted or removed has lost   *)
(* it with the next request.                                               *)
(***************************************************************************)
AuthorityIsCurrent == \A c \in Clients :
    At(c, "serving") => Needs(req[c].route) \in req[c].seen
===========================================================================
