------------------------ MODULE UserSettings_proofs -----------------------
(***************************************************************************)
(* Proofs about UserSettings, for any number of browsers, names and        *)
(* accounts.                                                               *)
(*                                                                         *)
(* The inductive invariant is IInv.  Ids are never handed out twice, so an *)
(* id stands for a person: in the table, in every token and in every row   *)
(* of settings.  Sound says of one request what the middleware has found   *)
(* out about it so far.                                                    *)
(***************************************************************************)
EXTENDS UserSettings, TLAPS

\* What is known of a request r when the accounts are us.
Sound(r, us) ==
    /\ r \in Requests
    /\ r.pc # "idle" => r.token \in Tokens
    /\ r.token # None => r.token.person = r.token.id
    /\ r.pc = "serving" => r.user = r.token.id /\ Needs(r.route) \in r.seen
    /\ r.pc = "verified" => Grants(us[r.token.id]) \subseteq r.seen

AccountsOK ==
    /\ users \in [Ids -> Rows]
    /\ nextId \in 1..(MaxUsers + 1)
    /\ \A i \in Ids : Exists(i) => users[i].person = i /\ i < nextId

JarOK ==
    /\ jar \in [Clients -> Tokens \union {None}]
    /\ \A c \in Clients : jar[c] # None => jar[c].person = jar[c].id

RequestsOK ==
    /\ req \in [Clients -> Requests]
    /\ \A c \in Clients : Sound(req[c], users)

StoredOK ==
    /\ stored \in [Ids -> Persons \union {None}]
    /\ \A i \in Ids : stored[i] \in {None, i}

TxOK ==
    /\ tx \in {NoTx} \union [by : Clients, stage : {"deleted", "inserted"}]
    /\ ~Free => Serves(tx.by, "set")

IInv == AccountsOK /\ JarOK /\ RequestsOK /\ StoredOK /\ TxOK

---------------------------------------------------------------------------
(* What rows and records are *)

\* Absence is not a row, and None is none of the things it stands for.
LEMMA NoneIsNothing ==
    /\ None \notin Tokens /\ None \notin Persons /\ None \notin Clients
    /\ None \notin Names
  BY AuthAssumption DEF Tokens

\* The empty request is a request, and sound whatever the accounts are.
LEMMA IdleSound ==
    ASSUME NEW us PROVE Idle \in Requests /\ Sound(Idle, us)
  BY DEF Idle, Requests, Sound

\* A browser that returns to idle leaves the requests sound.
LEMMA ReturnSound ==
    ASSUME RequestsOK, NEW c \in Clients, Return(c), users' = users
    PROVE  RequestsOK'
  <1>1. Sound(Idle, users) /\ Idle \in Requests
    BY IdleSound
  <1>2. req' = [req EXCEPT ![c] = Idle]
    BY DEF Return
  <1>3. req' \in [Clients -> Requests]
    BY <1>1, <1>2 DEF RequestsOK
  <1>4. ASSUME NEW d \in Clients PROVE Sound(req'[d], users')
    BY <1>1, <1>2, <1>4 DEF RequestsOK
  <1> QED
    BY <1>3, <1>4 DEF RequestsOK

\* One request moves on, soundly.
LEMMA MoveSound ==
    ASSUME RequestsOK, NEW c \in Clients, NEW r, Sound(r, users),
           req' = [req EXCEPT ![c] = r], users' = users
    PROVE  RequestsOK'
  <1>1. r \in Requests
    BY DEF Sound
  <1>2. req' \in [Clients -> Requests]
    BY <1>1 DEF RequestsOK
  <1>3. ASSUME NEW d \in Clients PROVE Sound(req'[d], users')
    BY <1>3 DEF RequestsOK
  <1> QED
    BY <1>2, <1>3 DEF RequestsOK

\* The transaction belongs to a request that is served: no other matters to it.
LEMMA TxOfAnother ==
    ASSUME TxOK, RequestsOK, NEW c \in Clients, NEW r, UNCHANGED tx,
           req' = [req EXCEPT ![c] = r], tx = NoTx \/ ~At(c, "serving")
    PROVE  TxOK'
  <1>1. CASE tx = NoTx
    BY <1>1 DEF TxOK, Free, NoTx
  <1>2. CASE tx # NoTx /\ ~At(c, "serving")
    <2>1. tx.by \in Clients /\ Serves(tx.by, "set")
      BY <1>2 DEF TxOK, Free
    <2>2. tx.by # c
      BY <2>1, <1>2 DEF Serves
    <2>3. req'[tx.by] = req[tx.by]
      BY <2>1, <2>2 DEF RequestsOK
    <2> QED
      BY <2>1, <2>3, <1>2 DEF TxOK, Free, Serves, At
  <1> QED
    BY <1>1, <1>2

---------------------------------------------------------------------------
(* The initial state *)

LEMMA InitInvariant == Init => IInv
  <1> SUFFICES ASSUME Init PROVE IInv
    OBVIOUS
  <1> USE DEF Init, AuthInit
  <1>1. AccountsOK
    BY AuthAssumption DEF AccountsOK, Rows, Exists, Ids
  <1>2. JarOK
    BY DEF JarOK
  <1>3. RequestsOK
    <2>1. Sound(Idle, users) /\ Idle \in Requests
      BY IdleSound
    <2> QED
      BY <2>1 DEF RequestsOK
  <1>4. StoredOK
    BY DEF StoredOK
  <1>5. TxOK
    BY DEF TxOK, Free
  <1> QED
    BY <1>1, <1>2, <1>3, <1>4, <1>5 DEF IInv

---------------------------------------------------------------------------
(* Accounts *)

\* Requests that the change of the accounts is shown to stay sound.
LEMMA WitnessedSound ==
    ASSUME RequestsOK, NEW us, Witnessed(us), us = users', us \in [Ids -> Rows]
    PROVE  /\ RequestsOK'
           /\ \A c \in Clients : req'[c].pc = req[c].pc /\ req'[c].route = req[c].route
  <1> DEFINE Told(c) == [req[c] EXCEPT !.seen = @ \union Grants(us[req[c].token.id])]
             New(c)  == IF req[c].pc = "verified" THEN Told(c) ELSE req[c]
  <1>1. req' = [c \in Clients |-> New(c)]
    BY DEF Witnessed
  <1>2. ASSUME NEW c \in Clients
        PROVE  Sound(New(c), us) /\ New(c).pc = req[c].pc /\ New(c).route = req[c].route
    <2>1. req[c] \in Requests /\ Sound(req[c], users)
      BY <1>2 DEF RequestsOK
    <2>2. CASE req[c].pc # "verified"
      BY <2>1, <2>2 DEF Sound
    <2>3. CASE req[c].pc = "verified"
      <3>1. Grants(us[req[c].token.id]) \subseteq {"admin", "user"}
        BY DEF Grants
      <3>2. Told(c) \in Requests
        BY <2>1, <3>1 DEF Requests
      <3>3. /\ Told(c).pc = req[c].pc /\ Told(c).token = req[c].token
            /\ Told(c).route = req[c].route
            /\ Told(c).seen = req[c].seen \union Grants(us[req[c].token.id])
        BY <2>1 DEF Requests
      <3> HIDE DEF Told
      <3>4. New(c) = Told(c)
        BY <2>3
      <3> QED
        BY <2>1, <2>3, <3>2, <3>3, <3>4 DEF Sound
    <2> QED
      BY <2>2, <2>3
  <1>3. \A c \in Clients : New(c) \in Requests
    BY <1>2 DEF Sound
  <1> HIDE DEF New
  <1>4. req' \in [Clients -> Requests] /\ \A c \in Clients : req'[c] = New(c)
    BY <1>1, <1>3
  <1> QED
    BY <1>2, <1>4 DEF RequestsOK

\* The transaction is nobody's while accounts change.
LEMMA AdministerInvariant ==
    ASSUME IInv, Administer, Free, UNCHANGED <<stored, tx>> PROVE IInv'
  <1> USE DEF IInv
  <1>1. StoredOK'
    BY DEF StoredOK
  <1>2. TxOK'
    BY DEF TxOK, Free
  <1>3. CASE \E n \in Names, admin \in BOOLEAN : CreateUser(n, admin)
    <2> PICK n \in Names, admin \in BOOLEAN : CreateUser(n, admin)
      BY <1>3
    <2> DEFINE row == [name |-> n, person |-> nextId, admin |-> admin, disabled |-> FALSE]
    <2>1. /\ nextId \in Ids /\ nextId' = nextId + 1
          /\ users' = [users EXCEPT ![nextId] = row] /\ Witnessed(users') /\ jar' = jar
      BY DEF CreateUser
    <2>2. row \in Rows /\ row.person = nextId
      BY <2>1 DEF Rows, Persons
    <2> HIDE DEF row
    <2>3. users' \in [Ids -> Rows]
      BY <2>1, <2>2 DEF AccountsOK
    <2>4. AccountsOK'
      <3>1. nextId' \in 1..(MaxUsers + 1)
        BY <2>1, AuthAssumption DEF Ids
      <3>2. ASSUME NEW i \in Ids, Exists(i)' PROVE users'[i].person = i /\ i < nextId'
        <4>1. CASE i = nextId
          BY <4>1, <2>1, <2>2 DEF AccountsOK, Ids
        <4>2. CASE i # nextId
          BY <4>2, <3>2, <2>1 DEF AccountsOK, Exists, Ids
        <4> QED
          BY <4>1, <4>2
      <3> QED
        BY <2>3, <3>1, <3>2 DEF AccountsOK
    <2>5. JarOK'
      BY <2>1 DEF JarOK
    <2>6. RequestsOK'
      BY <2>1, <2>3, WitnessedSound
    <2> QED
      BY <1>1, <1>2, <2>4, <2>5, <2>6
  <1>4. CASE \E i \in Ids, admin, disabled \in BOOLEAN : EditUser(i, admin, disabled)
    <2> PICK i \in Ids, admin \in BOOLEAN, disabled \in BOOLEAN : EditUser(i, admin, disabled)
      BY <1>4
    <2> DEFINE row == [users[i] EXCEPT !.admin = admin, !.disabled = disabled]
    <2>1. /\ users' = [users EXCEPT ![i].admin = admin, ![i].disabled = disabled]
          /\ Exists(i) /\ Witnessed(users') /\ jar' = jar /\ nextId' = nextId
      BY DEF EditUser
    <2>2. users[i] \in [name : Names, person : Persons, admin : BOOLEAN, disabled : BOOLEAN]
      BY <2>1 DEF AccountsOK, Rows, Exists
    <2>3. users' = [users EXCEPT ![i] = row]
      BY <2>1, <2>2 DEF AccountsOK
    <2>4. row \in Rows /\ row.person = users[i].person
      BY <2>2 DEF Rows
    <2> HIDE DEF row
    <2>5. users' \in [Ids -> Rows]
      BY <2>3, <2>4 DEF AccountsOK
    <2>6. AccountsOK'
      <3>1. ASSUME NEW j \in Ids, Exists(j)' PROVE users'[j].person = j /\ j < nextId'
        <4>1. CASE j = i
          BY <4>1, <2>1, <2>3, <2>4 DEF AccountsOK
        <4>2. CASE j # i
          BY <4>2, <3>1, <2>1, <2>3 DEF AccountsOK, Exists
        <4> QED
          BY <4>1, <4>2
      <3> QED
        BY <2>1, <2>5, <3>1 DEF AccountsOK
    <2>7. JarOK'
      BY <2>1 DEF JarOK
    <2>8. RequestsOK'
      BY <2>1, <2>5, WitnessedSound
    <2> QED
      BY <1>1, <1>2, <2>6, <2>7, <2>8
  <1> QED
    BY <1>3, <1>4 DEF Administer

\* A removed row grants nothing, and takes at most its own setting with it.
LEMMA RemoveOwnerInvariant ==
    ASSUME IInv, NEW i \in Ids, RemoveOwner(i) PROVE IInv'
  <1> USE DEF IInv
  <1> PICK cascade \in BOOLEAN :
        /\ RemoveUser(i) /\ Free
        /\ stored' = IF cascade THEN [stored EXCEPT ![i] = None] ELSE stored
        /\ UNCHANGED tx
    BY DEF RemoveOwner
  <1>1. users' = [users EXCEPT ![i] = NoUser] /\ UNCHANGED <<nextId, jar, req>>
    BY DEF RemoveUser
  <1>2. NoUser \in Rows /\ Grants(NoUser) = {}
    BY DEF Rows, Grants
  <1>3. users' \in [Ids -> Rows]
    BY <1>1, <1>2 DEF AccountsOK
  <1>4. ASSUME NEW j \in Ids
        PROVE  users'[j] = NoUser \/ users'[j] = users[j]
    BY <1>1 DEF AccountsOK
  <1>5. AccountsOK'
    BY <1>1, <1>3, <1>4 DEF AccountsOK, Exists
  <1>6. JarOK'
    BY <1>1 DEF JarOK
  <1>7. RequestsOK'
    <2>1. ASSUME NEW c \in Clients PROVE Sound(req[c], users')
      <3>1. Sound(req[c], users) /\ req[c] \in Requests
        BY <2>1 DEF RequestsOK
      <3>2. CASE req[c].pc = "verified"
        <4>1. req[c].token.id \in Ids
          BY <3>1, <3>2 DEF Sound, Tokens
        <4>2. Grants(users'[req[c].token.id]) \subseteq req[c].seen
          BY <1>2, <1>4, <3>1, <3>2, <4>1 DEF Sound
        <4> QED
          BY <3>1, <4>2 DEF Sound
      <3>3. CASE req[c].pc # "verified"
        BY <3>1, <3>3 DEF Sound
      <3> QED
        BY <3>2, <3>3
    <2> QED
      BY <1>1, <2>1 DEF RequestsOK
  <1>8. StoredOK'
    BY DEF StoredOK
  <1>9. TxOK'
    BY DEF TxOK, Free
  <1> QED
    BY <1>5, <1>6, <1>7, <1>8, <1>9

---------------------------------------------------------------------------
(* Sessions *)

\* A password was checked: the token will name the row, which is the person's.
LEMMA LoginVerifyInvariant ==
    ASSUME IInv, NEW c \in Clients, LoginVerify(c), Free, UNCHANGED <<stored, tx>>
    PROVE  IInv'
  <1> USE DEF IInv
  <1> PICK i \in Ids :
        /\ At(c, "idle") /\ Grants(users[i]) # {}
        /\ req' = [req EXCEPT ![c].pc = "issue",
                              ![c].token = [id |-> i, person |-> users[i].person,
                                            admin |-> users[i].admin]]
        /\ UNCHANGED <<accounts, jar>>
    BY DEF LoginVerify
  <1> DEFINE token == [id |-> i, person |-> users[i].person, admin |-> users[i].admin]
             r == [req[c] EXCEPT !.pc = "issue", !.token = token]
  <1>1. Exists(i) /\ users[i].person = i
    BY DEF Grants, Exists, AccountsOK
  <1>2. users[i] \in [name : Names, person : Persons, admin : BOOLEAN, disabled : BOOLEAN]
    BY <1>1 DEF AccountsOK, Rows, Exists
  <1>3. token \in Tokens /\ token.person = token.id
    BY <1>1, <1>2 DEF Tokens
  <1>4. req[c] \in Requests
    BY DEF RequestsOK
  <1> HIDE DEF token
  <1>5. r \in Requests /\ r.pc = "issue" /\ r.token = token
    BY <1>3, <1>4 DEF Requests
  <1>6. req' = [req EXCEPT ![c] = r]
    BY <1>4 DEF RequestsOK, token
  <1> HIDE DEF r
  <1>7. Sound(r, users)
    BY <1>3, <1>5 DEF Sound
  <1>8. RequestsOK'
    BY <1>6, <1>7, MoveSound DEF accounts
  <1> QED
    BY <1>8 DEF accounts, AccountsOK, Exists, JarOK, StoredOK, TxOK, Free

\* The row is loaded: what it grants now was among what it granted since.
LEMMA LoadUserInvariant ==
    ASSUME IInv, NEW c \in Clients, LoadUser(c), Free, UNCHANGED <<stored, tx>>
    PROVE  IInv'
  <1> USE DEF IInv
  <1> DEFINE row == users[req[c].token.id]
             r == [req[c] EXCEPT !.pc = "serving", !.user = row.person]
  <1>1. req[c].pc = "verified" /\ UNCHANGED <<accounts, jar>>
    BY DEF LoadUser, At
  <1>2. Sound(req[c], users) /\ req[c] \in Requests
    BY DEF RequestsOK
  <1>3. req[c].token \in Tokens /\ req[c].token.id \in Ids
    BY <1>1, <1>2 DEF Sound, Tokens
  <1>4. RequestsOK'
    <2>1. CASE Needs(req[c].route) \in Grants(row)
      <3>1. req' = [req EXCEPT ![c].pc = "serving", ![c].user = row.person]
        BY <2>1 DEF LoadUser
      <3>2. Exists(req[c].token.id)
        BY <2>1 DEF Grants, Exists
      <3>3. row.person = req[c].token.id /\ row.person \in Persons
        BY <3>2, <1>3 DEF AccountsOK, Persons
      <3>4. Needs(req[c].route) \in req[c].seen
        BY <1>1, <1>2, <2>1 DEF Sound
      <3>5. req' = [req EXCEPT ![c] = r]
        BY <3>1, <1>2 DEF RequestsOK
      <3> HIDE DEF row
      <3>6. /\ r \in Requests /\ r.pc = "serving" /\ r.user = row.person
            /\ r.token = req[c].token /\ r.route = req[c].route /\ r.seen = req[c].seen
        BY <1>2, <3>3 DEF Requests
      <3> HIDE DEF r
      <3>7. Sound(r, users)
        BY <1>1, <1>2, <1>3, <3>3, <3>4, <3>6 DEF Sound
      <3> QED
        BY <1>1, <3>5, <3>7, MoveSound DEF accounts
    <2>2. CASE Needs(req[c].route) \notin Grants(row)
      <3>1. Return(c)
        BY <2>2 DEF LoadUser
      <3> QED
        BY <3>1, <1>1, ReturnSound DEF accounts
    <2> QED
      BY <2>1, <2>2
  <1> QED
    BY <1>1, <1>4 DEF accounts, AccountsOK, Exists, JarOK, StoredOK, TxOK, Free

\* The cookie gets the token that the row made.
LEMMA LoginIssueInvariant ==
    ASSUME IInv, NEW c \in Clients, LoginIssue(c), UNCHANGED <<stored, tx>>
    PROVE  IInv'
  <1> USE DEF IInv
  <1>1. At(c, "issue") /\ jar' = [jar EXCEPT ![c] = req[c].token] /\ Return(c)
        /\ UNCHANGED accounts
    BY DEF LoginIssue
  <1>2. Sound(req[c], users) /\ req[c].pc = "issue"
    BY <1>1 DEF RequestsOK, At
  <1>3. req[c].token \in Tokens /\ (req[c].token # None => req[c].token.person = req[c].token.id)
    BY <1>2 DEF Sound
  <1>4. JarOK'
    BY <1>1, <1>3 DEF JarOK
  <1>5. RequestsOK'
    BY <1>1, ReturnSound DEF accounts
  <1>6. TxOK'
    BY <1>1, <1>2, TxOfAnother DEF Return, At
  <1> QED
    BY <1>1, <1>4, <1>5, <1>6 DEF accounts, AccountsOK, Exists, StoredOK

\* The request carries what the cookie says, and nothing has been looked up yet.
LEMMA VerifyTokenInvariant ==
    ASSUME IInv, NEW c \in Clients, VerifyToken(c), UNCHANGED <<stored, tx>>
    PROVE  IInv'
  <1> USE DEF IInv
  <1> PICK route \in Routes :
        /\ At(c, "idle") /\ jar[c] # None
        /\ req' = [req EXCEPT ![c] = [pc |-> "verified", route |-> route, token |-> jar[c],
                                      user |-> None, seen |-> Grants(users[jar[c].id])]]
        /\ UNCHANGED <<accounts, jar>>
    BY DEF VerifyToken
  <1> DEFINE r == [pc |-> "verified", route |-> route, token |-> jar[c],
                   user |-> None, seen |-> Grants(users[jar[c].id])]
  <1>1. jar[c] \in Tokens /\ jar[c].person = jar[c].id
    BY DEF JarOK
  <1>2. Grants(users[jar[c].id]) \subseteq {"admin", "user"}
    BY DEF Grants
  <1>3. r \in Requests
    BY <1>1, <1>2 DEF Requests
  <1>4. Sound(r, users)
    BY <1>1, <1>3 DEF Sound
  <1>5. req' = [req EXCEPT ![c] = r]
    OBVIOUS
  <1> HIDE DEF r
  <1>6. RequestsOK'
    BY <1>4, <1>5, MoveSound DEF accounts
  <1>7. TxOK'
    BY <1>5, TxOfAnother DEF At
  <1> QED
    BY <1>6, <1>7 DEF accounts, AccountsOK, Exists, JarOK, StoredOK

LEMMA LogoutInvariant ==
    ASSUME IInv, NEW c \in Clients, Logout(c), UNCHANGED <<stored, tx>>
    PROVE  IInv'
  BY DEF IInv, Logout, accounts, AccountsOK, Exists, JarOK, RequestsOK, StoredOK, TxOK, Free,
         Serves, At

---------------------------------------------------------------------------
(* Settings *)

\* A request that answers and leaves the accounts, the cookies and other
\* people's settings as they are.
LEMMA AnswerInvariant ==
    ASSUME IInv, NEW c \in Clients, Return(c), UNCHANGED <<accounts, jar>>,
           StoredOK', tx' = NoTx
    PROVE  IInv'
  <1>1. RequestsOK'
    BY ReturnSound DEF IInv, accounts
  <1> QED
    BY <1>1 DEF IInv, accounts, AccountsOK, Exists, JarOK, TxOK, Free

\* One that had no transaction answers.
LEMMA LeaveInvariant ==
    ASSUME IInv, NEW c \in Clients, Return(c), UNCHANGED <<accounts, jar, stored, tx>>,
           tx = NoTx \/ tx.by # c
    PROVE  IInv'
  <1> USE DEF IInv
  <1>1. RequestsOK'
    BY ReturnSound DEF accounts
  <1>2. TxOK'
    <2>1. CASE tx = NoTx
      BY <2>1 DEF TxOK, Free
    <2>2. CASE tx # NoTx
      <3>1. tx.by \in Clients /\ Serves(tx.by, "set") /\ tx.by # c
        BY <2>2 DEF TxOK, Free
      <3>2. req'[tx.by] = req[tx.by]
        BY <3>1 DEF Return, RequestsOK
      <3> QED
        BY <2>2, <3>1, <3>2 DEF TxOK, Free, Serves, At
    <2> QED
      BY <2>1, <2>2
  <1> QED
    BY <1>1, <1>2 DEF accounts, AccountsOK, Exists, JarOK, StoredOK

\* The owner of a request that is served is its user.
LEMMA OwnerIsUser ==
    ASSUME IInv, NEW c \in Clients, At(c, "serving")
    PROVE  Owner(c) \in Ids /\ req[c].user = Owner(c) /\ Owner(c) # None
  <1>1. Sound(req[c], users) /\ req[c].pc = "serving"
    BY DEF IInv, RequestsOK, At
  <1>2. req[c].token \in Tokens /\ req[c].user = req[c].token.id
    BY <1>1 DEF Sound
  <1> QED
    BY <1>2, NoneIsNothing DEF Owner, Tokens, Persons

LEMMA SettingsInvariant ==
    ASSUME IInv, NEW c \in Clients,
           \/ Serve(c) \/ ReadSetting(c) \/ DeleteSetting(c)
           \/ SetDeletes(c) \/ SetInserts(c) \/ SetCommits(c)
           \/ Abandon(c)
    PROVE  IInv'
  <1>1. CASE Serve(c)
    <2>1. At(c, "serving") /\ req[c].route = "admin"
      BY <1>1 DEF Serve, Serves
    <2>2. tx = NoTx \/ tx.by # c
      BY <2>1 DEF IInv, TxOK, Free, Serves
    <2> QED
      BY <1>1, <2>2, LeaveInvariant DEF Serve
  <1>2. CASE ReadSetting(c)
    BY <1>2, LeaveInvariant DEF ReadSetting, Free
  <1>3. CASE DeleteSetting(c)
    <2>1. StoredOK'
      BY <1>3 DEF DeleteSetting, IInv, StoredOK
    <2> QED
      BY <1>3, <2>1, AnswerInvariant DEF DeleteSetting, Free
  <1>4. CASE SetDeletes(c)
    <2>1. TxOK'
      BY <1>4 DEF SetDeletes, TxOK, Free, NoTx, Serves, At, sessions
    <2> QED
      BY <1>4, <2>1 DEF SetDeletes, IInv, accounts, sessions, AccountsOK, Exists, JarOK,
                        RequestsOK, StoredOK
  <1>5. CASE SetInserts(c)
    <2>1. CASE Exists(Owner(c))
      <3>1. /\ tx = [by |-> c, stage |-> "deleted"]
            /\ tx' = [tx EXCEPT !.stage = "inserted"] /\ UNCHANGED <<accounts, sessions, stored>>
        BY <1>5, <2>1 DEF SetInserts
      <3>2. tx' = [by |-> c, stage |-> "inserted"]
        BY <3>1
      <3>3. tx # NoTx /\ tx.by = c
        BY <3>1, NoneIsNothing DEF NoTx
      <3>4. Serves(c, "set")
        BY <3>3 DEF IInv, TxOK, Free
      <3>5. TxOK'
        BY <3>1, <3>2, <3>4 DEF TxOK, Free, Serves, At, sessions
      <3> QED
        BY <3>1, <3>5 DEF IInv, accounts, sessions, AccountsOK, Exists, JarOK,
                          RequestsOK, StoredOK
    <2>2. CASE ~Exists(Owner(c))
      <3>1. Rollback(c)
        BY <1>5, <2>2 DEF SetInserts
      <3>2. StoredOK'
        BY <3>1 DEF Rollback, IInv, StoredOK
      <3> QED
        BY <3>1, <3>2, AnswerInvariant DEF Rollback
    <2> QED
      BY <2>1, <2>2
  <1>6. CASE SetCommits(c)
    <2>1. tx # NoTx /\ tx.by = c
      BY <1>6, NoneIsNothing DEF SetCommits, NoTx
    <2>2. At(c, "serving")
      BY <2>1 DEF IInv, TxOK, Free, Serves
    <2>3. StoredOK'
      <3>1. stored' = [stored EXCEPT ![Owner(c)] = Owner(c)] /\ Owner(c) \in Ids
        BY <1>6, <2>2, OwnerIsUser DEF SetCommits
      <3> HIDE DEF Owner
      <3> QED
        BY <3>1 DEF IInv, StoredOK, Persons
    <2> QED
      BY <1>6, <2>3, AnswerInvariant DEF SetCommits
  <1>7. CASE Abandon(c)
    <2>1. StoredOK'
      BY <1>7 DEF Abandon, IInv, StoredOK
    <2>2. CASE tx.by = c
      BY <1>7, <2>1, <2>2, AnswerInvariant DEF Abandon
    <2>3. CASE tx.by # c
      BY <1>7, <2>3, LeaveInvariant DEF Abandon
    <2> QED
      BY <2>2, <2>3
  <1> QED
    BY <1>1, <1>2, <1>3, <1>4, <1>5, <1>6, <1>7

LEMMA RestartInvariant ==
    ASSUME IInv, Restart PROVE IInv'
  <1>1. Sound(Idle, users) /\ Idle \in Requests
    BY IdleSound
  <1>2. RequestsOK'
    BY <1>1 DEF Restart, RequestsOK, accounts
  <1> QED
    BY <1>2 DEF Restart, IInv, accounts, AccountsOK, Exists, JarOK, StoredOK, TxOK, Free

LEMMA StepInvariant ==
    ASSUME IInv, [Next]_vars PROVE IInv'
  <1>1. CASE Administer /\ Free /\ UNCHANGED <<stored, tx>>
    BY <1>1, AdministerInvariant
  <1>2. CASE \E i \in Ids : RemoveOwner(i)
    BY <1>2, RemoveOwnerInvariant
  <1>3. ASSUME NEW c \in Clients, Authenticate(c) /\ Free /\ UNCHANGED <<stored, tx>>
        PROVE  IInv'
    BY <1>3, LoginVerifyInvariant, LoadUserInvariant DEF Authenticate
  <1>4. ASSUME NEW c \in Clients, Browse(c) /\ UNCHANGED <<stored, tx>>
        PROVE  IInv'
    BY <1>4, LoginIssueInvariant, LogoutInvariant, VerifyTokenInvariant DEF Browse
  <1>5. ASSUME NEW c \in Clients,
               \/ Serve(c) \/ ReadSetting(c) \/ DeleteSetting(c)
               \/ SetDeletes(c) \/ SetInserts(c) \/ SetCommits(c)
               \/ Abandon(c)
        PROVE  IInv'
    BY <1>5, SettingsInvariant
  <1>6. CASE Restart
    BY <1>6, RestartInvariant
  <1>7. CASE UNCHANGED vars
    BY <1>7 DEF vars, accounts, sessions, IInv, AccountsOK, Exists, JarOK, RequestsOK,
                StoredOK, TxOK, Free, Serves, At
  <1> QED
    BY <1>1, <1>2, <1>3, <1>4, <1>5, <1>6, <1>7 DEF Next

\* The inductive invariant holds in every behaviour.
THEOREM Invariant == Spec => []IInv
  BY InitInvariant, StepInvariant, PTL DEF Spec

---------------------------------------------------------------------------
(* The properties *)

\* Accounts, cookies, requests and settings are in their sets, and only a
\* request that is served has a transaction open: users.go, settings.go.
THEOREM TypeCorrect == Spec => []TypeOK
  <1>1. IInv => TypeOK
    <2> SUFFICES ASSUME IInv PROVE TypeOK
      OBVIOUS
    <2>1. ASSUME NEW c \in Clients, ~At(c, "idle") PROVE req[c].token # None
      BY <2>1, NoneIsNothing DEF IInv, RequestsOK, Sound, At
    <2> QED
      BY <2>1 DEF IInv, AccountsOK, JarOK, RequestsOK, StoredOK, TxOK, TypeOK, AuthTypeOK
  <1> QED
    BY <1>1, Invariant, PTL

\* However many accounts come and go, a request is served as the person who
\* typed the password: Issue, Verify and the middleware's GetUserByID.
THEOREM SessionIsOwnCorrect == Spec => []SessionIsOwn
  <1>1. IInv => SessionIsOwn
    BY NoneIsNothing DEF IInv, RequestsOK, Sound, SessionIsOwn, At
  <1> QED
    BY <1>1, Invariant, PTL

\* A request is served for what its account was allowed after it had arrived:
\* Middleware and RequireAdmin look at the row, not at the token.
THEOREM AuthorityIsCurrentCorrect == Spec => []AuthorityIsCurrent
  <1>1. IInv => AuthorityIsCurrent
    BY DEF IInv, RequestsOK, Sound, AuthorityIsCurrent, At
  <1> QED
    BY <1>1, Invariant, PTL

\* Nobody reads or replaces a setting that another person stored: settings
\* are kept under ids, and ids are not handed out twice.
THEOREM OwnSettingsCorrect == Spec => []OwnSettings
  <1>1. IInv => OwnSettings
    <2> SUFFICES ASSUME IInv, NEW c \in Clients, At(c, "serving")
                 PROVE  stored[Owner(c)] \in {None, req[c].user}
      BY DEF OwnSettings
    <2>1. Owner(c) \in Ids /\ req[c].user = Owner(c)
      BY OwnerIsUser
    <2> QED
      BY <2>1 DEF IInv, StoredOK
  <1> QED
    BY <1>1, Invariant, PTL

\* Only deleting a setting or its owner takes it away; replacing it does not,
\* wherever the transaction of Set is cut off.
THEOREM SettingKeptCorrect == Spec => SettingKept
  <1> DEFINE Kept == \A i \in Ids : stored[i] # None /\ stored'[i] = None =>
                \/ Exists(i) /\ ~Exists(i)'
                \/ \E c \in Clients : Serves(c, "delete") /\ Owner(c) = i
  <1>1. IInv /\ [Next]_vars => [Kept]_vars
    <2> SUFFICES ASSUME IInv, Next, NEW i \in Ids, stored[i] # None, stored'[i] = None
                 PROVE  \/ Exists(i) /\ ~Exists(i)'
                        \/ \E c \in Clients : Serves(c, "delete") /\ Owner(c) = i
      OBVIOUS
    <2>1. stored' # stored
      OBVIOUS
    <2>2. ASSUME NEW j \in Ids, RemoveOwner(j) PROVE Exists(i) /\ ~Exists(i)'
      <3>1. j = i
        BY <2>1, <2>2 DEF RemoveOwner, IInv, StoredOK
      <3> QED
        BY <2>2, <3>1 DEF RemoveOwner, RemoveUser, Exists, IInv, AccountsOK
    <2>3. ASSUME NEW c \in Clients, DeleteSetting(c)
          PROVE  Serves(c, "delete") /\ Owner(c) = i
      BY <2>1, <2>3 DEF DeleteSetting, IInv, StoredOK
    <2>4. ASSUME NEW c \in Clients, SetCommits(c) PROVE FALSE
      <3>1. tx # NoTx /\ tx.by = c
        BY <2>4, NoneIsNothing DEF SetCommits, NoTx
      <3>2. At(c, "serving")
        BY <3>1 DEF IInv, TxOK, Free, Serves
      <3>3. stored' = [stored EXCEPT ![Owner(c)] = req[c].user]
            /\ req[c].user # None /\ Owner(c) \in Ids
        BY <2>4, <3>2, OwnerIsUser DEF SetCommits
      <3> QED
        BY <3>3 DEF IInv, StoredOK
    <2>5. CASE Administer /\ Free /\ UNCHANGED <<stored, tx>>
      BY <2>1, <2>5
    <2>6. ASSUME NEW c \in Clients,
                 \/ Authenticate(c) /\ Free /\ UNCHANGED <<stored, tx>>
                 \/ Browse(c) /\ UNCHANGED <<stored, tx>>
                 \/ Serve(c) \/ ReadSetting(c) \/ SetDeletes(c) \/ SetInserts(c) \/ Abandon(c)
          PROVE  FALSE
      BY <2>1, <2>6 DEF Serve, ReadSetting, SetDeletes, SetInserts, Rollback, Abandon
    <2>7. CASE Restart
      BY <2>1, <2>7 DEF Restart
    <2> QED
      BY <2>2, <2>3, <2>4, <2>5, <2>6, <2>7 DEF Next
  <1> QED
    BY <1>1, Invariant, PTL DEF Spec, SettingKept
===========================================================================
