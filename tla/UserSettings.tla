--------------------------- MODULE UserSettings ---------------------------
(***************************************************************************)
(* The settings of a user, and the requests that sessions let in           *)
(* (AuthSession): internal/handlers/settings.go and internal/db/settings.go.*)
(*                                                                         *)
(* Rows belong to user ids.  A setting is replaced by deleting and         *)
(* inserting its row in one transaction.  The server has one connection to *)
(* the database, and a transaction that has written shuts out the writes   *)
(* of other processes: nobody else's statement runs before it ends.        *)
(* DeviceInventory models what the values are encrypted with; here each    *)
(* user has one setting, and a value is who stored it.                     *)
(***************************************************************************)
EXTENDS AuthSession

VARIABLES
    stored,   \* the settings table: per owner the person whose value it is
    tx        \* the transaction that replaces a setting

vars == <<accounts, sessions, stored, tx>>

NoTx == [by |-> None, stage |-> "none"]

ASSUME RoutesAssumption ==
    Routes = {"admin", "get", "set", "delete"} /\ AdminOnly = {"admin"}

Init ==
    /\ AuthInit
    /\ stored = [i \in Ids |-> None]
    /\ tx = NoTx

\* The connection and the write lock are free.
Free == tx = NoTx

Serves(c, route) == At(c, "serving") /\ req[c].route = route

Owner(c) == req[c].token.id

---------------------------------------------------------------------------
(* Requests *)

\* The administrators' routes, which other modules are about.
Serve(c) ==
    /\ Serves(c, "admin")
    /\ Return(c)
    /\ UNCHANGED <<accounts, jar, stored, tx>>

\* One SELECT for the user's id; /me answers with the row that was loaded.
ReadSetting(c) ==
    /\ Serves(c, "get") /\ Free
    /\ Return(c)
    /\ UNCHANGED <<accounts, jar, stored, tx>>

\* One DELETE for the user's id.
DeleteSetting(c) ==
    /\ Serves(c, "delete") /\ Free
    /\ stored' = [stored EXCEPT ![Owner(c)] = None]
    /\ Return(c)
    /\ UNCHANGED <<accounts, jar, tx>>

\* Mutant: the DELETE is committed by itself.
SetDeletesAlone(c) ==
    /\ Serves(c, "set") /\ Free
    /\ stored' = [stored EXCEPT ![Owner(c)] = None]
    /\ tx' = [by |-> c, stage |-> "deleted"]
    /\ UNCHANGED <<accounts, sessions>>

\* BEGIN and DELETE: until the COMMIT nobody else sees it.
SetDeletes(c) ==
    /\ Serves(c, "set") /\ Free
    /\ tx' = [by |-> c, stage |-> "deleted"]
    /\ UNCHANGED <<accounts, sessions, stored>>

\* The transaction is rolled back and the request answered with an error.
Rollback(c) ==
    /\ Return(c)
    /\ tx' = NoTx
    /\ UNCHANGED <<accounts, jar, stored>>

\* The INSERT needs its owner (foreign key).
SetInserts(c) ==
    /\ tx = [by |-> c, stage |-> "deleted"]
    /\ IF Exists(Owner(c))
       THEN tx' = [tx EXCEPT !.stage = "inserted"] /\ UNCHANGED <<accounts, sessions, stored>>
       ELSE Rollback(c)

SetCommits(c) ==
    /\ tx = [by |-> c, stage |-> "inserted"]
    /\ stored' = [stored EXCEPT ![Owner(c)] = req[c].user]
    /\ tx' = NoTx
    /\ Return(c)
    /\ UNCHANGED <<accounts, jar>>

---------------------------------------------------------------------------
(* Everything else *)

\* A row is removed by hand, with foreign_keys on or, as it is by default, off.
RemoveOwner(i) == \E cascade \in BOOLEAN :
    /\ RemoveUser(i) /\ Free
    /\ stored' = IF cascade THEN [stored EXCEPT ![i] = None] ELSE stored
    /\ UNCHANGED tx

\* Mutant: the transaction is not rolled back.
AbandonOpen(c) ==
    /\ ~At(c, "idle")
    /\ Return(c)
    /\ UNCHANGED <<accounts, jar, stored, tx>>

\* The client goes away, or a statement fails.
Abandon(c) ==
    /\ ~At(c, "idle")
    /\ Return(c)
    /\ tx' = IF tx.by = c THEN NoTx ELSE tx
    /\ UNCHANGED <<accounts, jar, stored>>

\* The server ends and starts again: the database and the cookies remain.
Restart ==
    /\ req' = [c \in Clients |-> Idle]
    /\ tx' = NoTx
    /\ UNCHANGED <<accounts, jar, stored>>

Next ==
    \/ Administer /\ Free /\ UNCHANGED <<stored, tx>>
    \/ \E i \in Ids : RemoveOwner(i)
    \/ \E c \in Clients :
          \/ Authenticate(c) /\ Free /\ UNCHANGED <<stored, tx>>
          \/ Browse(c) /\ UNCHANGED <<stored, tx>>
          \/ Serve(c) \/ ReadSetting(c) \/ DeleteSetting(c)
          \/ SetDeletes(c) \/ SetInserts(c) \/ SetCommits(c)
          \/ Abandon(c)
    \/ Restart

Spec == Init /\ [][Next]_vars
---------------------------------------------------------------------------
(* Properties *)

(***************************************************************************)
(* Accounts, sessions and settings are in their sets, and only a request   *)
(* that is served may have a transaction open.                             *)
(***************************************************************************)
TypeOK ==
    /\ AuthTypeOK
    /\ stored \in [Ids -> Persons \union {None}]
    /\ tx \in {NoTx} \union [by : Clients, stage : {"deleted", "inserted"}]
    /\ ~Free => Serves(tx.by, "set")

(***************************************************************************)
(* A request reads and replaces settings that the person it is served as   *)
(* has stored, even where the owner of others was removed and left them    *)
(* behind, and while the account is removed under the request's feet.      *)
(***************************************************************************)
OwnSettings == \A c \in Clients :
    At(c, "serving") => stored[Owner(c)] \in {None, req[c].user}

(***************************************************************************)
(* "Implemented as delete+insert in one tx ... still atomic" (settings.go): *)
(* a setting is gone only when its user deleted it or was removed; nobody  *)
(* finds it missing while it is replaced, and a replacement that fails,    *)
(* is abandoned or cut off by the end of the server leaves the old value.  *)
(***************************************************************************)
SettingKept == [][\A i \in Ids :
    stored[i] # None /\ stored'[i] = None =>
       \/ Exists(i) /\ ~Exists(i)'
       \/ \E c \in Clients : Serves(c, "delete") /\ Owner(c) = i]_vars
===========================================================================
