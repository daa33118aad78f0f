----------------------------- MODULE Accounts -----------------------------
(***************************************************************************)
(* Accounts: sign-up, verification, password recovery, login and API keys  *)
(* (internal/api/handlers/auth over internal/api/database and the tables   *)
(* User, Verification, APIKeys and UserZone of scripts/schema-final.sql).  *)
(*                                                                         *)
(* A handler reads with queries of its own, then writes in a transaction,  *)
(* then sends a mail; requests of different clients interleave between     *)
(* these steps.  Ids and codes are random in the code and numbers that are *)
(* drawn once here.                                                        *)
(***************************************************************************)
EXTENDS Naturals, FiniteSets

CONSTANTS
    Clients,        \* requests served at once
    Emails, Passwords, KeyNames,
    MaxUsers,       \* bound on the users ever added
    MaxCodes,       \* bound on the codes ever drawn
    MaxZones        \* bound on the zones ever added

ASSUME AccountsAssumption ==
    MaxUsers \in Nat /\ MaxCodes \in Nat /\ MaxZones \in Nat

VARIABLES
    users,      \* table User, by id
    codes,      \* table Verification
    zones,      \* table UserZone: zone ids and their owners
    keys,       \* table APIKeys
    drawn,      \* ids and codes drawn so far
    issued,     \* history: what each code was drawn for
    inbox,      \* codes that have been mailed
    tokens,     \* user ids with a valid login token
    req         \* per client, the request being served

tables == <<users, codes, zones, keys>>
vars == <<users, codes, zones, keys, drawn, issued, inbox, tokens, req>>

UserIds == 1..MaxUsers
Codes   == 1..MaxCodes
ZoneIds == 1..MaxZones
Kinds   == {"signup", "recover"}

Ids == DOMAIN users

(* What a request remembers from one step to the next.                     *)
Memory(pc, user, code, kind, key) ==
    [pc |-> pc, user |-> user, code |-> code, kind |-> kind, key |-> key]

NoReq == Memory("idle", 0, 0, "signup", 0)

Init ==
    /\ users = <<>>
    /\ codes = {}
    /\ zones = {}
    /\ keys = {}
    /\ drawn = [user |-> 0, code |-> 0, zone |-> 0]
    /\ issued = <<>>
    /\ inbox = {}
    /\ tokens = {}
    /\ req = [c \in Clients |-> NoReq]

Respond(c) == req' = [req EXCEPT ![c] = NoReq]

WithEmail(e) == {u \in Ids : users[u].email = e}

(* A new code: its row replaces the one of the same user and kind.         *)
setVerification(u, kind) ==
    /\ drawn.code < MaxCodes
    /\ issued' = [k \in 1..drawn.code + 1 |->
                    IF k = drawn.code + 1 THEN [user |-> u, kind |-> kind] ELSE issued[k]]
    /\ codes' = {v \in codes : v.user # u \/ v.kind # kind}
                  \cup {[user |-> u, kind |-> kind, code |-> drawn.code + 1]}

-----------------------------------------------------------------------------
(* POST /signup.  The email is unique; the code is mailed after the        *)
(* transaction.                                                            *)

AddUser(e, p) ==
    /\ WithEmail(e) = {}
    /\ drawn.user < MaxUsers
    /\ users' = [u \in Ids \cup {drawn.user + 1} |->
                   IF u \in Ids THEN users[u]
                   ELSE [email |-> e, password |-> p, status |-> "pending"]]
    /\ setVerification(drawn.user + 1, "signup")
    /\ drawn' = [user |-> drawn.user + 1, code |-> drawn.code + 1, zone |-> drawn.zone]

Signup(c, e, p) ==
    /\ req[c].pc = "idle"
    /\ AddUser(e, p)
    /\ req' = [req EXCEPT ![c] = Memory("mail", 0, drawn.code + 1, "signup", 0)]
    /\ UNCHANGED <<zones, keys, inbox, tokens>>

(* The mail with the code, of a sign-up or a recovery.  When it cannot be  *)
(* sent the code stays in the table and nobody has it.                     *)
SendMail(c) ==
    /\ req[c].pc = "mail"
    /\ inbox' = inbox \cup {req[c].code}
    /\ Respond(c)
    /\ UNCHANGED <<tables, drawn, issued, tokens>>

MailFails(c) ==
    /\ req[c].pc = "mail"
    /\ Respond(c)
    /\ UNCHANGED <<tables, drawn, issued, inbox, tokens>>

-----------------------------------------------------------------------------
(* POST /verify and PATCH /reset: applyVerifiedAction.  The code is looked *)
(* up outside the transaction that uses it.                                *)

(* Mutant: any code will do.                                               *)
LookupAnyCode(c, code, kind) ==
    /\ req[c].pc = "idle"
    /\ \E v \in codes :
          /\ v.code = code
          /\ req' = [req EXCEPT ![c] = Memory("apply", v.user, code, kind, 0)]
    /\ UNCHANGED <<tables, drawn, issued, inbox, tokens>>

LookupCode(c, code, kind) ==
    /\ req[c].pc = "idle"
    /\ \E v \in codes :
          /\ v.code = code /\ v.kind = kind
          /\ req' = [req EXCEPT ![c] = Memory("apply", v.user, code, kind, 0)]
    /\ UNCHANGED <<tables, drawn, issued, inbox, tokens>>

(* An UPDATE of a user who is gone changes no row and is no error.         *)
UpdateUser(u, new) ==
    users' = [v \in Ids |-> IF v = u THEN new ELSE users[v]]

(* Mutant: the codes are deleted by user and kind.                         *)
DeleteCodesOf(code) ==
    {v \in codes : v.user # issued[code].user \/ v.kind # issued[code].kind}

(* DELETE FROM Verification WHERE Code = ?                                 *)
DeleteCode(code) == {v \in codes : v.code # code}

(* Mutant: the code is left in the table.                                  *)
KeepCode(c) ==
    /\ req[c].pc = "apply" /\ req[c].kind = "signup"
    /\ req[c].user \in Ids
    /\ UpdateUser(req[c].user, [users[req[c].user] EXCEPT !.status = "active"])
    /\ Respond(c)
    /\ UNCHANGED <<codes, zones, keys, drawn, issued, inbox, tokens>>

Verify(c) ==
    /\ req[c].pc = "apply" /\ req[c].kind = "signup"
    /\ IF req[c].user \in Ids
       THEN UpdateUser(req[c].user, [users[req[c].user] EXCEPT !.status = "active"])
       ELSE UNCHANGED users
    /\ codes' = DeleteCode(req[c].code)
    /\ Respond(c)
    /\ UNCHANGED <<zones, keys, drawn, issued, inbox, tokens>>

ResetPassword(c, p) ==
    /\ req[c].pc = "apply" /\ req[c].kind = "recover"
    /\ IF req[c].user \in Ids
       THEN UpdateUser(req[c].user, [users[req[c].user] EXCEPT !.password = p])
       ELSE UNCHANGED users
    /\ codes' = DeleteCode(req[c].code)
    /\ Respond(c)
    /\ UNCHANGED <<zones, keys, drawn, issued, inbox, tokens>>

(* A transaction is rolled back, or an insert breaks a foreign key.        *)
RollBack(c) ==
    /\ req[c].pc \in {"apply", "recover", "key"}
    /\ Respond(c)
    /\ UNCHANGED <<tables, drawn, issued, inbox, tokens>>

-----------------------------------------------------------------------------
(* POST /recover: the user is read, of whatever status, then given a code. *)

Recover(c, e) ==
    /\ req[c].pc = "idle"
    /\ \E u \in WithEmail(e) :
          req' = [req EXCEPT ![c] = Memory("recover", u, 0, "recover", 0)]
    /\ UNCHANGED <<tables, drawn, issued, inbox, tokens>>

(* The user must still be there: Verification has a foreign key.           *)
SetRecoveryCode(c) ==
    /\ req[c].pc = "recover"
    /\ req[c].user \in Ids
    /\ setVerification(req[c].user, "recover")
    /\ drawn' = [drawn EXCEPT !.code = @ + 1]
    /\ req' = [req EXCEPT ![c] = Memory("mail", 0, drawn.code + 1, "signup", 0)]
    /\ UNCHANGED <<users, zones, keys, inbox, tokens>>

-----------------------------------------------------------------------------
(* POST /login: a token for an active user, which nothing but time takes   *)
(* back.                                                                   *)

Login(e, p) ==
    /\ \E u \in WithEmail(e) :
          /\ users[u].status = "active" /\ users[u].password = p
          /\ tokens' = tokens \cup {u}
    /\ UNCHANGED <<tables, drawn, issued, inbox, req>>

TokenExpires(u) ==
    /\ tokens' = tokens \ {u}
    /\ u \in tokens
    /\ UNCHANGED <<tables, drawn, issued, inbox, req>>

(* Mutant: zones do not hold their owner.                                  *)
DeleteOwner(e) ==
    \E u \in WithEmail(e) :
        /\ users' = [v \in Ids \ {u} |-> users[v]]
        /\ codes' = {v \in codes : v.user # u}
        /\ keys' = {k \in keys : k.user # u}
        /\ UNCHANGED <<zones, drawn, issued, inbox, tokens, req>>

(* DELETE FROM User: codes and API keys go with it, but not while it owns  *)
(* a zone.                                                                 *)
DeleteUser(e) ==
    \E u \in WithEmail(e) :
        /\ \A z \in zones : z.owner # u
        /\ users' = [v \in Ids \ {u} |-> users[v]]
        /\ codes' = {v \in codes : v.user # u}
        /\ keys' = {k \in keys : k.user # u}
        /\ UNCHANGED <<zones, drawn, issued, inbox, tokens, req>>

-----------------------------------------------------------------------------
(* Zones, as far as API keys depend on them (see ApiDatabase).             *)

AddZone(u) ==
    /\ u \in tokens \cap Ids
    /\ drawn.zone < MaxZones
    /\ zones' = zones \cup {[id |-> drawn.zone + 1, owner |-> u]}
    /\ drawn' = [drawn EXCEPT !.zone = @ + 1]
    /\ UNCHANGED <<users, codes, keys, issued, inbox, tokens, req>>

DeleteZone(u, z) ==
    /\ u \in tokens
    /\ z \in zones /\ z.owner = u
    /\ zones' = zones \ {z}
    /\ keys' = {k \in keys : k.zone # z.id}
    /\ UNCHANGED <<users, codes, drawn, issued, inbox, tokens, req>>

-----------------------------------------------------------------------------
(* /api_keys.  The zone and its owner are looked up before the insert.     *)

AddAPIKey(c, u, z) ==
    /\ req[c].pc = "idle"
    /\ u \in tokens
    /\ z \in zones /\ z.owner = u
    /\ req' = [req EXCEPT ![c] = Memory("key", u, 0, "signup", z.id)]
    /\ UNCHANGED <<tables, drawn, issued, inbox, tokens>>

(* Mutant: the foreign keys are not there.                                 *)
InsertAnyway(c, n) ==
    /\ req[c].pc = "key"
    /\ keys' = keys \cup {[name |-> n, user |-> req[c].user, zone |-> req[c].key,
                           enabled |-> TRUE]}
    /\ Respond(c)
    /\ UNCHANGED <<users, codes, zones, drawn, issued, inbox, tokens>>

(* Names are unique per user; user and zone must exist.                    *)
InsertAPIKey(c, n) ==
    /\ req[c].pc = "key"
    /\ req[c].user \in Ids
    /\ \E z \in zones : z.id = req[c].key
    /\ \A k \in keys : k.name # n \/ k.user # req[c].user
    /\ keys' = keys \cup {[name |-> n, user |-> req[c].user, zone |-> req[c].key,
                           enabled |-> TRUE]}
    /\ Respond(c)
    /\ UNCHANGED <<users, codes, zones, drawn, issued, inbox, tokens>>

UpdateAPIKey(u, n, enabled) ==
    /\ u \in tokens
    /\ keys' = {[k EXCEPT !.enabled = IF k.user = u /\ k.name = n THEN enabled ELSE @]
                  : k \in keys}
    /\ UNCHANGED <<users, codes, zones, drawn, issued, inbox, tokens, req>>

DeleteAPIKey(u, n) ==
    /\ u \in tokens
    /\ keys' = {k \in keys : k.user # u \/ k.name # n}
    /\ UNCHANGED <<users, codes, zones, drawn, issued, inbox, tokens, req>>

Next ==
    \/ \E c \in Clients :
          \/ \E e \in Emails : Recover(c, e) \/ \E p \in Passwords : Signup(c, e, p)
          \/ \E code \in inbox, kind \in Kinds : LookupCode(c, code, kind)
          \/ SendMail(c) \/ MailFails(c) \/ RollBack(c)
          \/ Verify(c) \/ SetRecoveryCode(c)
          \/ \E p \in Passwords : ResetPassword(c, p)
          \/ \E u \in tokens, z \in zones : AddAPIKey(c, u, z)
          \/ \E n \in KeyNames : InsertAPIKey(c, n)
    \/ \E e \in Emails : DeleteUser(e) \/ \E p \in Passwords : Login(e, p)
    \/ \E u \in tokens :
          \/ TokenExpires(u) \/ AddZone(u)
          \/ \E z \in zones : DeleteZone(u, z)
          \/ \E n \in KeyNames : DeleteAPIKey(u, n)
                                 \/ \E b \in BOOLEAN : UpdateAPIKey(u, n, b)

Spec == Init /\ [][Next]_vars

-----------------------------------------------------------------------------
AccountsTypeOK ==
    /\ Ids \subseteq UserIds
    /\ \A u \in Ids : users[u] \in [email : Emails, password : Passwords,
                                    status : {"pending", "active"}]
    /\ codes \subseteq [user : UserIds, kind : Kinds, code : Codes]
    /\ zones \subseteq [id : ZoneIds, owner : UserIds]
    /\ keys \subseteq [name : KeyNames, user : UserIds, zone : ZoneIds, enabled : BOOLEAN]
    /\ drawn \in [user : 0..MaxUsers, code : 0..MaxCodes, zone : 0..MaxZones]
    /\ issued \in [1..drawn.code -> [user : UserIds, kind : Kinds]]
    /\ inbox \subseteq Codes
    /\ tokens \subseteq UserIds
    /\ req \in [Clients -> [pc : {"idle", "mail", "apply", "recover", "key"},
                            user : 0..MaxUsers, code : 0..MaxCodes, kind : Kinds,
                            key : 0..MaxZones]]

(* A user is pending exactly as long as it has a code that can activate    *)
(* it: no order of sign-ups, verifications, recoveries and deletions       *)
(* leaves one that is active and can be activated again, or (short of a    *)
(* lost mail) one that is locked out.                                      *)
PendingHasCode ==
    \A u \in Ids : users[u].status = "pending"
                     <=> \E v \in codes : v.user = u /\ v.kind = "signup"

(* A key gives access to a zone of the user it belongs to, although the    *)
(* owner was looked up before the key was inserted and zones and users     *)
(* come and go.                                                            *)
KeysFollowOwners ==
    \A k \in keys : k.user \in Ids /\ [id |-> k.zone, owner |-> k.user] \in zones

(* An email names one user, and what is left in the tables belongs to one. *)
NoOrphans ==
    /\ \A u, v \in Ids : users[u].email = users[v].email => u = v
    /\ \A v \in codes : v.user \in Ids
    /\ \A z \in zones : z.owner \in Ids

(* A code that was not used stays usable until it is replaced or its user  *)
(* is deleted: using an older code of the same user never takes it away.   *)
CodesDontVanish ==
    [][\A v \in codes \ codes' :
          \/ \E c \in Clients : req[c].pc = "apply" /\ req[c].code = v.code /\ req'[c] = NoReq
          \/ \E w \in codes' : w.user = v.user /\ w.kind = v.kind
          \/ v.user \notin DOMAIN users']_vars

Applies(c, u, kind) ==
    /\ req[c].pc = "apply" /\ req'[c] = NoReq
    /\ issued[req[c].code] = [user |-> u, kind |-> kind]

(* A user becomes active only by a sign-up code drawn for this user, and   *)
(* the password changes only by a recovery code drawn for this user.       *)
OnlyTheRightCode ==
    [][\A u \in Ids \cap DOMAIN users' :
          /\ users'[u].status # users[u].status => \E c \in Clients : Applies(c, u, "signup")
          /\ users'[u].password # users[u].password
               => \E c \in Clients : Applies(c, u, "recover")]_vars
=============================================================================
