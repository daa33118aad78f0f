--------------------------- MODULE AccountsProofs --------------------------
(***************************************************************************)
(* For any number of requests at once, and of users, codes and zones: the  *)
(* tables stay consistent, and codes do what they were drawn for.          *)
(***************************************************************************)
EXTENDS Accounts, TLAPS

(* Ids are drawn in order, and a zone's id names one zone.                 *)
IdsAreDrawn ==
    /\ Ids \subseteq 1..drawn.user
    /\ \A z \in zones : z.id \in 1..drawn.zone
    /\ \A y, z \in zones : y.id = z.id => y.owner = z.owner

(* A code in the table is one that was drawn, for the user and the purpose *)
(* in its row, and only one code is ever drawn to activate a user.         *)
CodesAreIssued ==
    /\ \A v \in codes : /\ v.code \in 1..drawn.code
                        /\ issued[v.code].user = v.user /\ issued[v.code].kind = v.kind
    /\ \A k \in 1..drawn.code : issued[k].user \in 1..drawn.user
    /\ \A j, k \in 1..drawn.code :
          (/\ issued[j].kind = "signup" /\ issued[k].kind = "signup"
           /\ issued[j].user = issued[k].user) => j = k

(* What a request remembers of a code or a zone is still true of it,       *)
(* although the row may be gone: ids are not used again.                   *)
MemoryIsSound(r) ==
    /\ r.pc = "mail" => r.code \in 1..drawn.code
    /\ r.pc = "apply" => /\ r.code \in 1..drawn.code
                         /\ issued[r.code].user = r.user /\ issued[r.code].kind = r.kind
    /\ r.pc = "key" => /\ r.key \in 1..drawn.zone
                       /\ \A z \in zones : z.id = r.key => z.owner = r.user

RequestsAreSound == \A c \in Clients : MemoryIsSound(req[c])

AccountsInv ==
    /\ AccountsTypeOK
    /\ IdsAreDrawn
    /\ CodesAreIssued
    /\ RequestsAreSound
    /\ NoOrphans
    /\ KeysFollowOwners
    /\ PendingHasCode

Requests == [pc : {"idle", "mail", "apply", "recover", "key"},
             user : 0..MaxUsers, code : 0..MaxCodes, kind : Kinds, key : 0..MaxZones]

UserRows == [email : Emails, password : Passwords, status : {"pending", "active"}]

-----------------------------------------------------------------------------
(* What a request remembers has the type of req, if each part of it has.   *)
LEMMA MemoryTyped ==
    ASSUME NEW pc \in {"idle", "mail", "apply", "recover", "key"}, NEW user \in 0..MaxUsers,
           NEW code \in 0..MaxCodes, NEW kind \in Kinds, NEW key \in 0..MaxZones
    PROVE  Memory(pc, user, code, kind, key) \in Requests
BY DEF Memory, Requests

(* The empty tables and idle requests of the start satisfy the invariant.  *)
LEMMA InitInv == Init => AccountsInv
<1> SUFFICES ASSUME Init PROVE AccountsInv
  OBVIOUS
<1>1. Ids = {} /\ DOMAIN issued = {}
  BY DEF Init, Ids
<1>2. NoReq \in Requests /\ MemoryIsSound(NoReq)
  BY MemoryTyped, AccountsAssumption DEF NoReq, Memory, MemoryIsSound, Kinds
<1>3. AccountsTypeOK
  <2>1. issued \in [1..drawn.code -> [user : UserIds, kind : Kinds]]
    BY DEF Init
  <2> QED BY <1>1, <1>2, <2>1, AccountsAssumption DEF Init, AccountsTypeOK, Requests
<1>4. IdsAreDrawn /\ CodesAreIssued /\ RequestsAreSound
  BY <1>1, <1>2 DEF Init, IdsAreDrawn, CodesAreIssued, RequestsAreSound
<1>5. NoOrphans /\ KeysFollowOwners /\ PendingHasCode
  BY <1>1 DEF Init, NoOrphans, KeysFollowOwners, PendingHasCode
<1> QED BY <1>3, <1>4, <1>5 DEF AccountsInv

(* A step that leaves the tables alone need only keep its own memory in    *)
(* order.                                                                  *)
LEMMA ReadOnly ==
    ASSUME AccountsInv, UNCHANGED <<tables, drawn, issued>>,
           inbox' \subseteq Codes, tokens' \subseteq UserIds,
           req' \in [Clients -> Requests],
           \A c \in Clients : req'[c] = req[c] \/ MemoryIsSound(req'[c])
    PROVE  AccountsInv'
<1>1. Ids' = Ids
  BY DEF tables, Ids
<1>2. AccountsTypeOK'
  BY <1>1 DEF AccountsInv, AccountsTypeOK, tables, Requests
<1>3. IdsAreDrawn' /\ CodesAreIssued'
  BY <1>1 DEF AccountsInv, IdsAreDrawn, CodesAreIssued, tables
<1>4. RequestsAreSound'
  BY DEF AccountsInv, RequestsAreSound, MemoryIsSound, tables
<1>5. NoOrphans' /\ KeysFollowOwners' /\ PendingHasCode'
  BY <1>1 DEF AccountsInv, NoOrphans, KeysFollowOwners, PendingHasCode, tables
<1> QED BY <1>2, <1>3, <1>4, <1>5 DEF AccountsInv

(* Ending a request, and setting one up, keep the memories typed.          *)
LEMMA RespondSound ==
    ASSUME AccountsInv, NEW c \in Clients, Respond(c)
    PROVE  /\ req' \in [Clients -> Requests]
           /\ \A d \in Clients : req'[d] = req[d] \/ req'[d] = NoReq
           /\ NoReq \in Requests /\ MemoryIsSound(NoReq)
           /\ req'[c] = NoReq
<1>1. NoReq \in Requests /\ MemoryIsSound(NoReq)
  BY MemoryTyped, AccountsAssumption DEF NoReq, Memory, MemoryIsSound, Kinds
<1>2. req \in [Clients -> Requests]
  BY DEF AccountsInv, AccountsTypeOK, Requests
<1> QED BY <1>1, <1>2 DEF Respond

(* Steps that only look rows up or send the mail: they change the          *)
(* request's memory and the inbox, and what they remember is true when     *)
(* they read it.                                                           *)
LEMMA ReadingSteps ==
    ASSUME AccountsInv, NEW c \in Clients,
           \/ SendMail(c) \/ MailFails(c) \/ RollBack(c)
           \/ \E code \in inbox, kind \in Kinds : LookupCode(c, code, kind)
           \/ \E e \in Emails : Recover(c, e)
           \/ \E u \in tokens, z \in zones : AddAPIKey(c, u, z)
    PROVE  AccountsInv'
<1> DEFINE Typed == req' \in [Clients -> Requests]
<1> DEFINE Sound == \A d \in Clients : req'[d] = req[d] \/ MemoryIsSound(req'[d])
<1>1. req \in [Clients -> Requests]
  BY DEF AccountsInv, AccountsTypeOK, Requests
<1>2. inbox \subseteq Codes /\ tokens \subseteq UserIds
  BY DEF AccountsInv, AccountsTypeOK
<1>3. CASE SendMail(c) \/ MailFails(c) \/ RollBack(c)
  <2>1. Respond(c) /\ UNCHANGED <<tables, drawn, issued, tokens>>
    BY <1>3 DEF SendMail, MailFails, RollBack
  <2>2. inbox' \subseteq Codes
    <3>1. CASE SendMail(c)
      <4>1. req[c].code \in 1..drawn.code /\ drawn.code \in 0..MaxCodes
        BY <3>1 DEF SendMail, AccountsInv, AccountsTypeOK, RequestsAreSound, MemoryIsSound
      <4>2. req[c].code \in Codes
        BY <4>1, AccountsAssumption DEF Codes
      <4> QED BY <3>1, <4>2, <1>2 DEF SendMail
    <3>2. CASE MailFails(c) \/ RollBack(c)
      BY <3>2, <1>2 DEF MailFails, RollBack
    <3> QED BY <3>1, <3>2, <1>3
  <2>3. Typed /\ Sound
    BY <2>1, RespondSound
  <2> QED BY <2>1, <2>2, <2>3, <1>2, ReadOnly
<1>4. CASE \E code \in inbox, kind \in Kinds : LookupCode(c, code, kind)
  <2>1. PICK code \in inbox, kind \in Kinds : LookupCode(c, code, kind)
    BY <1>4
  <2>2. PICK v \in codes :
          /\ v.code = code /\ v.kind = kind
          /\ req' = [req EXCEPT ![c] = Memory("apply", v.user, code, kind, 0)]
    BY <2>1 DEF LookupCode
  <2> DEFINE r == Memory("apply", v.user, code, kind, 0)
  <2>3. v \in [user : UserIds, kind : Kinds, code : Codes]
    BY DEF AccountsInv, AccountsTypeOK
  <2>4. r \in Requests
    BY <2>2, <2>3, MemoryTyped, AccountsAssumption DEF UserIds, Codes
  <2>5. r.pc = "apply" /\ r.user = v.user /\ r.code = v.code /\ r.kind = v.kind
    BY <2>2 DEF Memory
  <2>6. MemoryIsSound(r)
    BY <2>5 DEF MemoryIsSound, AccountsInv, CodesAreIssued
  <2>7. Typed /\ Sound
    BY <1>1, <2>2, <2>4, <2>6
  <2> QED BY <2>1, <2>7, <1>2, ReadOnly DEF LookupCode
<1>5. CASE \E e \in Emails : Recover(c, e)
  <2>1. PICK e \in Emails : Recover(c, e)
    BY <1>5
  <2>2. PICK u \in WithEmail(e) :
          req' = [req EXCEPT ![c] = Memory("recover", u, 0, "recover", 0)]
    BY <2>1 DEF Recover
  <2> DEFINE r == Memory("recover", u, 0, "recover", 0)
  <2>3. u \in UserIds
    BY DEF WithEmail, AccountsInv, AccountsTypeOK
  <2>4. r \in Requests /\ MemoryIsSound(r)
    BY <2>3, MemoryTyped, AccountsAssumption DEF UserIds, Kinds, Memory, MemoryIsSound
  <2>5. Typed /\ Sound
    BY <1>1, <2>2, <2>4
  <2> QED BY <2>1, <2>5, <1>2, ReadOnly DEF Recover
<1>6. CASE \E u \in tokens, z \in zones : AddAPIKey(c, u, z)
  <2>1. PICK u \in tokens, z \in zones : AddAPIKey(c, u, z)
    BY <1>6
  <2> DEFINE r == Memory("key", u, 0, "signup", z.id)
  <2>2. req' = [req EXCEPT ![c] = r] /\ z.owner = u
    BY <2>1 DEF AddAPIKey
  <2>3. u \in UserIds /\ z.id \in ZoneIds
    BY <1>2 DEF AccountsInv, AccountsTypeOK
  <2>4. r \in Requests
    BY <2>3, MemoryTyped, AccountsAssumption DEF UserIds, ZoneIds, Kinds
  <2>5. r.pc = "key" /\ r.user = u /\ r.key = z.id
    BY DEF Memory
  <2>6. MemoryIsSound(r)
    BY <2>2, <2>5 DEF MemoryIsSound, AccountsInv, IdsAreDrawn
  <2>7. Typed /\ Sound
    BY <1>1, <2>2, <2>4, <2>6
  <2> QED BY <2>1, <2>7, <1>2, ReadOnly DEF AddAPIKey
<1> QED BY <1>3, <1>4, <1>5, <1>6

(* Login and the expiry of a token touch no table and no request.          *)
LEMMA TokenSteps ==
    ASSUME AccountsInv,
           \/ \E e \in Emails, p \in Passwords : Login(e, p)
           \/ \E u \in tokens : TokenExpires(u)
    PROVE  AccountsInv'
<1>1. tokens' \subseteq UserIds /\ inbox' \subseteq Codes
  BY DEF Login, TokenExpires, WithEmail, AccountsInv, AccountsTypeOK
<1>2. UNCHANGED <<tables, drawn, issued>> /\ req' = req
  BY DEF Login, TokenExpires
<1>3. req \in [Clients -> Requests]
  BY DEF AccountsInv, AccountsTypeOK, Requests
<1> QED BY <1>1, <1>2, <1>3, ReadOnly

(* A new code: it is drawn for the user and kind of its row, and no row    *)
(* but that one's predecessor goes.                                        *)
LEMMA NewCode ==
    ASSUME AccountsInv, NEW u \in UserIds, NEW kind \in Kinds, setVerification(u, kind)
    PROVE  LET new == [user |-> u, kind |-> kind, code |-> drawn.code + 1]
           IN  /\ drawn.code + 1 \in Codes
               /\ issued' \in [1..drawn.code + 1 -> [user : UserIds, kind : Kinds]]
               /\ \A k \in 1..drawn.code : issued'[k] = issued[k]
               /\ issued'[drawn.code + 1] = [user |-> u, kind |-> kind]
               /\ new \in codes' /\ codes' \subseteq codes \cup {new}
               /\ \A v \in codes \ codes' : v.user = u /\ v.kind = kind
               /\ codes' \subseteq [user : UserIds, kind : Kinds, code : Codes]
<1> DEFINE new == [user |-> u, kind |-> kind, code |-> drawn.code + 1]
<1>1. /\ drawn.code \in 0..MaxCodes /\ drawn.code < MaxCodes
      /\ issued \in [1..drawn.code -> [user : UserIds, kind : Kinds]]
      /\ codes \subseteq [user : UserIds, kind : Kinds, code : Codes]
  BY DEF AccountsInv, AccountsTypeOK, setVerification
<1>2. drawn.code + 1 \in Codes /\ new \in [user : UserIds, kind : Kinds, code : Codes]
  BY <1>1, AccountsAssumption DEF Codes
<1>3. codes' = {v \in codes : v.user # u \/ v.kind # kind} \cup {new}
  BY DEF setVerification
<1>4. issued' = [k \in 1..drawn.code + 1 |->
                    IF k = drawn.code + 1 THEN [user |-> u, kind |-> kind] ELSE issued[k]]
  BY DEF setVerification
<1>5. drawn.code \in Nat /\ MaxCodes \in Nat
  BY <1>1, AccountsAssumption
<1>6. issued' \in [1..drawn.code + 1 -> [user : UserIds, kind : Kinds]]
  BY <1>1, <1>4, <1>5
<1>7. /\ \A k \in 1..drawn.code : issued'[k] = issued[k]
      /\ issued'[drawn.code + 1] = [user |-> u, kind |-> kind]
  BY <1>4, <1>5
<1> QED BY <1>1, <1>2, <1>3, <1>6, <1>7

(* Signup draws a user and the one code that can activate it together, and *)
(* refuses an email that is taken.                                         *)
LEMMA SignupInv ==
    ASSUME AccountsInv, NEW c \in Clients, NEW e \in Emails, NEW p \in Passwords, Signup(c, e, p)
    PROVE  AccountsInv'
<1> DEFINE u == drawn.user + 1
           k == drawn.code + 1
           new == [user |-> u, kind |-> "signup", code |-> k]
           row == [email |-> e, password |-> p, status |-> "pending"]
<1>1. /\ WithEmail(e) = {} /\ drawn.user < MaxUsers /\ setVerification(u, "signup")
      /\ users' = [v \in Ids \cup {u} |-> IF v \in Ids THEN users[v] ELSE row]
      /\ drawn' = [user |-> u, code |-> k, zone |-> drawn.zone]
      /\ req' = [req EXCEPT ![c] = Memory("mail", 0, k, "signup", 0)]
      /\ UNCHANGED <<zones, keys, inbox, tokens>>
  BY DEF Signup, AddUser
<1>2. /\ drawn.user \in 0..MaxUsers /\ drawn.code \in 0..MaxCodes /\ drawn.zone \in 0..MaxZones
      /\ req \in [Clients -> Requests] /\ Ids \subseteq 1..drawn.user
  BY DEF AccountsInv, AccountsTypeOK, Requests, IdsAreDrawn
<1>3. u \in UserIds /\ u \notin Ids /\ "signup" \in Kinds
  BY <1>1, <1>2, AccountsAssumption DEF UserIds, Kinds
<1>4. /\ k \in Codes /\ issued' \in [1..k -> [user : UserIds, kind : Kinds]]
      /\ \A j \in 1..drawn.code : issued'[j] = issued[j]
      /\ issued'[k] = [user |-> u, kind |-> "signup"]
      /\ new \in codes' /\ codes' \subseteq codes \cup {new}
      /\ \A v \in codes \ codes' : v.user = u /\ v.kind = "signup"
      /\ codes' \subseteq [user : UserIds, kind : Kinds, code : Codes]
  BY <1>1, <1>3, NewCode
<1>5. /\ Ids' = Ids \cup {u} /\ users'[u] = row
      /\ \A v \in Ids : users'[v] = users[v]
  BY <1>1, <1>3 DEF Ids
<1>6. 1..k = (1..drawn.code) \cup {k} /\ 1..drawn.user \subseteq 1..u /\ u \in 1..u
  BY <1>2
<1>7. AccountsTypeOK'
  <2>1. Ids' \subseteq UserIds
    BY <1>3, <1>5 DEF AccountsInv, AccountsTypeOK
  <2>2. \A v \in Ids' : users'[v] \in UserRows
    BY <1>5 DEF AccountsInv, AccountsTypeOK, UserRows
  <2>3. drawn' \in [user : 0..MaxUsers, code : 0..MaxCodes, zone : 0..MaxZones]
    BY <1>1, <1>2, <1>3, <1>4, AccountsAssumption DEF UserIds, Codes
  <2>4. issued' \in [1..drawn'.code -> [user : UserIds, kind : Kinds]]
    BY <1>1, <1>4
  <2>5. req' \in [Clients -> Requests]
    BY <1>1, <1>2, <1>3, <1>4, MemoryTyped, AccountsAssumption DEF Codes
  <2> QED BY <1>1, <1>4, <2>1, <2>2, <2>3, <2>4, <2>5
          DEF AccountsInv, AccountsTypeOK, UserRows, Requests
<1>8. IdsAreDrawn'
  BY <1>1, <1>2, <1>5, <1>6 DEF AccountsInv, IdsAreDrawn
<1>9. CodesAreIssued'
  <2>1. \A v \in codes' : v.code \in 1..k /\ issued'[v.code].user = v.user /\ issued'[v.code].kind = v.kind
    BY <1>4, <1>6 DEF AccountsInv, CodesAreIssued
  <2>2. \A j \in 1..k : issued'[j].user \in 1..u
    BY <1>4, <1>6 DEF AccountsInv, CodesAreIssued
  <2>3. \A j \in 1..drawn.code : issued'[j].user # u
    <3>1. \A j \in 1..drawn.code : issued'[j].user \in 1..drawn.user
      BY <1>4 DEF AccountsInv, CodesAreIssued
    <3> QED BY <1>2, <3>1
  <2>4. \A i, j \in 1..k : (/\ issued'[i].kind = "signup" /\ issued'[j].kind = "signup"
                            /\ issued'[i].user = issued'[j].user) => i = j
    BY <1>4, <1>6, <2>3 DEF AccountsInv, CodesAreIssued
  <2> QED BY <1>1, <2>1, <2>2, <2>4 DEF CodesAreIssued
<1>10. RequestsAreSound'
  <2> SUFFICES ASSUME NEW d \in Clients PROVE MemoryIsSound(req[d])'
    BY DEF RequestsAreSound
  <2>1. CASE d = c
    <3>1. req'[d] = Memory("mail", 0, k, "signup", 0)
      BY <1>1, <1>2, <2>1
    <3> QED BY <1>1, <1>6, <3>1 DEF MemoryIsSound, Memory
  <2>2. CASE d # c
    <3>1. req'[d] = req[d]
      BY <1>1, <1>2, <2>2
    <3>2. MemoryIsSound(req[d])
      BY DEF AccountsInv, RequestsAreSound
    <3> QED BY <1>1, <1>4, <1>6, <3>1, <3>2 DEF MemoryIsSound
  <2> QED BY <2>1, <2>2
<1>11. NoOrphans' /\ KeysFollowOwners'
  <2>1. \A v \in Ids : users[v].email # e
    BY <1>1 DEF WithEmail
  <2>2. \A v, w \in Ids' : users'[v].email = users'[w].email => v = w
    BY <1>5, <2>1 DEF AccountsInv, NoOrphans
  <2>3. \A v \in codes' : v.user \in Ids'
    BY <1>4, <1>5 DEF AccountsInv, NoOrphans
  <2>4. \A z \in zones' : z.owner \in Ids'
    BY <1>1, <1>5 DEF AccountsInv, NoOrphans
  <2>5. KeysFollowOwners'
    BY <1>1, <1>5 DEF AccountsInv, KeysFollowOwners
  <2> QED BY <2>2, <2>3, <2>4, <2>5 DEF NoOrphans
<1>12. PendingHasCode'
  <2> SUFFICES ASSUME NEW v \in Ids'
               PROVE  users'[v].status = "pending"
                        <=> \E w \in codes' : w.user = v /\ w.kind = "signup"
    BY DEF PendingHasCode
  <2>1. CASE v = u
    BY <1>4, <1>5, <2>1
  <2>2. CASE v # u
    <3>1. v \in Ids /\ users'[v] = users[v]
      BY <1>5, <2>2
    <3>2. \A w : w.user = v => (w \in codes' <=> w \in codes)
      BY <1>4, <2>2
    <3> QED BY <3>1, <3>2 DEF AccountsInv, PendingHasCode
  <2> QED BY <2>1, <2>2
<1> QED BY <1>7, <1>8, <1>9, <1>10, <1>11, <1>12 DEF AccountsInv

(* A recovery code is drawn for a user that is still there; the codes of   *)
(* other users, and the code that activates this one, are left alone.      *)
LEMMA SetRecoveryCodeInv ==
    ASSUME AccountsInv, NEW c \in Clients, SetRecoveryCode(c)
    PROVE  AccountsInv'
<1> DEFINE u == req[c].user
           k == drawn.code + 1
           new == [user |-> u, kind |-> "recover", code |-> k]
<1>1. /\ u \in Ids /\ setVerification(u, "recover")
      /\ drawn' = [drawn EXCEPT !.code = k]
      /\ req' = [req EXCEPT ![c] = Memory("mail", 0, k, "signup", 0)]
      /\ UNCHANGED <<users, zones, keys, inbox, tokens>>
  BY DEF SetRecoveryCode
<1>2. /\ drawn \in [user : 0..MaxUsers, code : 0..MaxCodes, zone : 0..MaxZones]
      /\ req \in [Clients -> Requests] /\ Ids \subseteq 1..drawn.user
      /\ Ids' = Ids
  BY <1>1 DEF AccountsInv, AccountsTypeOK, Requests, IdsAreDrawn, Ids
<1>3. u \in UserIds /\ "recover" \in Kinds /\ "signup" \in Kinds
  BY <1>1 DEF AccountsInv, AccountsTypeOK, Kinds
<1>4. /\ k \in Codes /\ issued' \in [1..k -> [user : UserIds, kind : Kinds]]
      /\ \A j \in 1..drawn.code : issued'[j] = issued[j]
      /\ issued'[k] = [user |-> u, kind |-> "recover"]
      /\ new \in codes' /\ codes' \subseteq codes \cup {new}
      /\ \A v \in codes \ codes' : v.user = u /\ v.kind = "recover"
      /\ codes' \subseteq [user : UserIds, kind : Kinds, code : Codes]
  BY <1>1, <1>3, NewCode
<1>5. drawn'.user = drawn.user /\ drawn'.code = k /\ drawn'.zone = drawn.zone
  BY <1>1, <1>2
<1>6. 1..k = (1..drawn.code) \cup {k}
  BY <1>2
<1>7. AccountsTypeOK'
  <2>1. drawn' \in [user : 0..MaxUsers, code : 0..MaxCodes, zone : 0..MaxZones]
    BY <1>1, <1>2, <1>4, AccountsAssumption DEF Codes
  <2>2. issued' \in [1..drawn'.code -> [user : UserIds, kind : Kinds]]
    BY <1>4, <1>5
  <2>3. req' \in [Clients -> Requests]
    BY <1>1, <1>2, <1>3, <1>4, MemoryTyped, AccountsAssumption DEF Codes
  <2> QED BY <1>1, <1>2, <1>4, <2>1, <2>2, <2>3 DEF AccountsInv, AccountsTypeOK, Requests
<1>8. IdsAreDrawn'
  BY <1>1, <1>2, <1>5 DEF AccountsInv, IdsAreDrawn
<1>9. CodesAreIssued'
  <2>1. \A v \in codes' : v.code \in 1..k /\ issued'[v.code].user = v.user /\ issued'[v.code].kind = v.kind
    BY <1>4, <1>6 DEF AccountsInv, CodesAreIssued
  <2>2. \A j \in 1..k : issued'[j].user \in 1..drawn.user
    BY <1>1, <1>2, <1>4, <1>6 DEF AccountsInv, CodesAreIssued
  <2>3. issued'[k].kind # "signup"
    BY <1>4
  <2>4. \A i, j \in 1..k : (/\ issued'[i].kind = "signup" /\ issued'[j].kind = "signup"
                            /\ issued'[i].user = issued'[j].user) => i = j
    BY <1>4, <1>6, <2>3 DEF AccountsInv, CodesAreIssued
  <2> QED BY <1>5, <2>1, <2>2, <2>4 DEF CodesAreIssued
<1>10. RequestsAreSound'
  <2> SUFFICES ASSUME NEW d \in Clients PROVE MemoryIsSound(req[d])'
    BY DEF RequestsAreSound
  <2>1. CASE d = c
    <3>1. req'[d] = Memory("mail", 0, k, "signup", 0)
      BY <1>1, <1>2, <2>1
    <3> QED BY <1>5, <1>6, <3>1 DEF MemoryIsSound, Memory
  <2>2. CASE d # c
    <3>1. req'[d] = req[d]
      BY <1>1, <1>2, <2>2
    <3>2. MemoryIsSound(req[d])
      BY DEF AccountsInv, RequestsAreSound
    <3> QED BY <1>1, <1>4, <1>5, <1>6, <3>1, <3>2 DEF MemoryIsSound
  <2> QED BY <2>1, <2>2
<1>11. NoOrphans' /\ KeysFollowOwners'
  <2>1. \A v \in codes' : v.user \in Ids'
    BY <1>1, <1>2, <1>4 DEF AccountsInv, NoOrphans
  <2> QED BY <1>1, <1>2, <2>1 DEF AccountsInv, NoOrphans, KeysFollowOwners
<1>12. PendingHasCode'
  <2>1. \A w : w.kind = "signup" => (w \in codes' <=> w \in codes)
    BY <1>4
  <2> QED BY <1>1, <1>2, <2>1 DEF AccountsInv, PendingHasCode
<1> QED BY <1>7, <1>8, <1>9, <1>10, <1>11, <1>12 DEF AccountsInv

(* The user row an UPDATE writes.                                          *)
LEMMA UpdatedUser ==
    ASSUME AccountsInv, NEW u \in Ids, NEW new \in UserRows, new.email = users[u].email,
           UpdateUser(u, new)
    PROVE  /\ Ids' = Ids /\ users'[u] = new
           /\ \A v \in Ids : v # u => users'[v] = users[v]
           /\ \A v \in Ids : users'[v] \in UserRows /\ users'[v].email = users[v].email
BY DEF AccountsInv, AccountsTypeOK, UserRows, UpdateUser, Ids

(* Using a code: its row goes, the user it was drawn for changes in        *)
(* nothing but the password, or becomes active if the code was drawn for   *)
(* that.                                                                   *)
LEMMA CodeUsed ==
    ASSUME AccountsInv, NEW c \in Clients, req[c].pc = "apply",
           Ids' = Ids,
           \A v \in Ids : /\ users'[v] \in UserRows /\ users'[v].email = users[v].email
                          /\ v # req[c].user => users'[v].status = users[v].status,
           req[c].user \in Ids =>
               users'[req[c].user].status = IF req[c].kind = "signup" THEN "active"
                                            ELSE users[req[c].user].status,
           codes' = DeleteCode(req[c].code), Respond(c),
           UNCHANGED <<zones, keys, drawn, issued, inbox, tokens>>
    PROVE  AccountsInv'
<1> DEFINE u == req[c].user
           k == req[c].code
<1>1. k \in 1..drawn.code /\ issued[k].user = u /\ issued[k].kind = req[c].kind
  BY DEF AccountsInv, RequestsAreSound, MemoryIsSound
<1>2. codes' \subseteq codes /\ \A w \in codes : w \in codes' <=> w.code # k
  BY DEF DeleteCode
<1>3. /\ req' \in [Clients -> Requests] /\ MemoryIsSound(NoReq)
      /\ \A d \in Clients : req'[d] = req[d] \/ req'[d] = NoReq
  BY RespondSound
<1>4. AccountsTypeOK'
  BY <1>2, <1>3 DEF AccountsInv, AccountsTypeOK, UserRows, Requests
<1>5. IdsAreDrawn' /\ CodesAreIssued'
  BY <1>2 DEF AccountsInv, IdsAreDrawn, CodesAreIssued
<1>6. RequestsAreSound'
  BY <1>3 DEF AccountsInv, RequestsAreSound, MemoryIsSound
<1>7. NoOrphans' /\ KeysFollowOwners'
  BY <1>2 DEF AccountsInv, NoOrphans, KeysFollowOwners
<1>8. PendingHasCode'
  <2> SUFFICES ASSUME NEW v \in Ids
               PROVE  users'[v].status = "pending"
                        <=> \E w \in codes' : w.user = v /\ w.kind = "signup"
    BY DEF PendingHasCode
  <2>1. users[v].status = "pending" <=> \E w \in codes : w.user = v /\ w.kind = "signup"
    BY DEF AccountsInv, PendingHasCode
  <2>2. \A w \in codes : /\ w.code \in 1..drawn.code
                         /\ issued[w.code].user = w.user /\ issued[w.code].kind = w.kind
    BY DEF AccountsInv, CodesAreIssued
  <2>3. CASE v = u /\ req[c].kind = "signup"
    <3>1. \A w \in codes : w.user = v /\ w.kind = "signup" => w.code = k
      BY <1>1, <2>2, <2>3 DEF AccountsInv, CodesAreIssued
    <3>2. users'[v].status = "active"
      BY <2>3
    <3> QED BY <1>2, <3>1, <3>2
  <2>4. CASE ~(v = u /\ req[c].kind = "signup")
    <3>1. \A w \in codes : w.user = v /\ w.kind = "signup" => w.code # k
      BY <1>1, <2>2, <2>4
    <3>2. users'[v].status = users[v].status
      BY <2>4
    <3> QED BY <1>2, <2>1, <3>1, <3>2
  <2> QED BY <2>3, <2>4
<1> QED BY <1>4, <1>5, <1>6, <1>7, <1>8 DEF AccountsInv

(* Verify activates the user its code was drawn for and deletes that code; *)
(* it changes no row if the user has been deleted since the lookup.        *)
LEMMA VerifyInv ==
    ASSUME AccountsInv, NEW c \in Clients, Verify(c)
    PROVE  AccountsInv'
<1> DEFINE u == req[c].user
           new == [users[u] EXCEPT !.status = "active"]
<1>1. /\ req[c].pc = "apply" /\ req[c].kind = "signup"
      /\ codes' = DeleteCode(req[c].code) /\ Respond(c)
      /\ UNCHANGED <<zones, keys, drawn, issued, inbox, tokens>>
  BY DEF Verify
<1>2. \A v \in Ids : users[v] \in UserRows
  BY DEF AccountsInv, AccountsTypeOK, UserRows
<1>3. CASE u \in Ids
  <2>1. UpdateUser(u, new)
    BY <1>3 DEF Verify
  <2>2. new \in UserRows /\ new.email = users[u].email /\ new.status = "active"
    BY <1>2, <1>3 DEF UserRows
  <2>3. /\ Ids' = Ids /\ users'[u] = new
        /\ \A v \in Ids : v # u => users'[v] = users[v]
        /\ \A v \in Ids : users'[v] \in UserRows /\ users'[v].email = users[v].email
    BY <1>3, <2>1, <2>2, UpdatedUser
  <2>4. users'[u].status = "active" /\ \A v \in Ids : v # u => users'[v].status = users[v].status
    BY <2>2, <2>3
  <2> HIDE DEF new
  <2> QED BY <1>1, <2>3, <2>4, CodeUsed
<1>4. CASE u \notin Ids
  <2>1. users' = users /\ Ids' = Ids
    BY <1>4 DEF Verify, Ids
  <2> QED BY <1>1, <1>2, <1>4, <2>1, CodeUsed
<1> QED BY <1>3, <1>4

(* ResetPassword changes the password of the user its code was drawn for;  *)
(* the email and the status stay.                                          *)
LEMMA ResetPasswordInv ==
    ASSUME AccountsInv, NEW c \in Clients, NEW p \in Passwords, ResetPassword(c, p)
    PROVE  AccountsInv'
<1> DEFINE u == req[c].user
           new == [users[u] EXCEPT !.password = p]
<1>1. /\ req[c].pc = "apply" /\ req[c].kind = "recover"
      /\ codes' = DeleteCode(req[c].code) /\ Respond(c)
      /\ UNCHANGED <<zones, keys, drawn, issued, inbox, tokens>>
  BY DEF ResetPassword
<1>2. \A v \in Ids : users[v] \in UserRows
  BY DEF AccountsInv, AccountsTypeOK, UserRows
<1>3. CASE u \in Ids
  <2>1. UpdateUser(u, new)
    BY <1>3 DEF ResetPassword
  <2>2. new \in UserRows /\ new.email = users[u].email /\ new.status = users[u].status
    BY <1>2, <1>3 DEF UserRows
  <2>3. /\ Ids' = Ids /\ users'[u] = new
        /\ \A v \in Ids : v # u => users'[v] = users[v]
        /\ \A v \in Ids : users'[v] \in UserRows /\ users'[v].email = users[v].email
    BY <1>3, <2>1, <2>2, UpdatedUser
  <2>4. \A v \in Ids : users'[v].status = users[v].status
    BY <2>2, <2>3
  <2> HIDE DEF new
  <2> QED BY <1>1, <1>3, <2>3, <2>4, CodeUsed
<1>4. CASE u \notin Ids
  <2>1. users' = users /\ Ids' = Ids
    BY <1>4 DEF ResetPassword, Ids
  <2> QED BY <1>1, <1>2, <1>4, <2>1, CodeUsed
<1> QED BY <1>3, <1>4

(* Codes and keys go with their user; no zone is left without its owner.   *)
LEMMA DeleteUserInv ==
    ASSUME AccountsInv, NEW e \in Emails, DeleteUser(e)
    PROVE  AccountsInv'
<1>1. PICK u \in WithEmail(e) :
        /\ \A z \in zones : z.owner # u
        /\ users' = [v \in Ids \ {u} |-> users[v]]
        /\ codes' = {v \in codes : v.user # u}
        /\ keys' = {k \in keys : k.user # u}
        /\ UNCHANGED <<zones, drawn, issued, inbox, tokens, req>>
  BY DEF DeleteUser
<1>2. Ids' = Ids \ {u} /\ \A v \in Ids' : users'[v] = users[v]
  BY <1>1 DEF Ids
<1>3. codes' \subseteq codes /\ keys' \subseteq keys
  BY <1>1
<1>4. AccountsTypeOK'
  BY <1>1, <1>2, <1>3 DEF AccountsInv, AccountsTypeOK
<1>5. IdsAreDrawn'
  BY <1>1, <1>2 DEF AccountsInv, IdsAreDrawn
<1>6. CodesAreIssued'
  BY <1>1, <1>3 DEF AccountsInv, CodesAreIssued
<1>7. RequestsAreSound'
  BY <1>1 DEF AccountsInv, RequestsAreSound, MemoryIsSound
<1>8. NoOrphans'
  BY <1>1, <1>2 DEF AccountsInv, NoOrphans
<1>9. KeysFollowOwners'
  BY <1>1, <1>2 DEF AccountsInv, KeysFollowOwners
<1>10. PendingHasCode'
  BY <1>1, <1>2 DEF AccountsInv, PendingHasCode
<1> QED BY <1>4, <1>5, <1>6, <1>7, <1>8, <1>9, <1>10 DEF AccountsInv

(* A new zone has an id that no request can have looked up before.         *)
LEMMA AddZoneInv ==
    ASSUME AccountsInv, NEW u \in tokens, AddZone(u)
    PROVE  AccountsInv'
<1> DEFINE i == drawn.zone + 1
           new == [id |-> i, owner |-> u]
<1>1. /\ u \in Ids /\ drawn.zone < MaxZones /\ zones' = zones \cup {new}
      /\ drawn' = [drawn EXCEPT !.zone = i]
      /\ UNCHANGED <<users, codes, keys, issued, inbox, tokens, req>>
  BY DEF AddZone
<1>2. /\ drawn \in [user : 0..MaxUsers, code : 0..MaxCodes, zone : 0..MaxZones]
      /\ Ids' = Ids /\ u \in UserIds
  BY <1>1 DEF AccountsInv, AccountsTypeOK, Ids
<1>3. /\ drawn'.user = drawn.user /\ drawn'.code = drawn.code /\ drawn'.zone = i
      /\ drawn' \in [user : 0..MaxUsers, code : 0..MaxCodes, zone : 0..MaxZones]
      /\ i \in ZoneIds
  BY <1>1, <1>2, AccountsAssumption DEF ZoneIds
<1>4. 1..drawn.zone \subseteq 1..i /\ i \in 1..i /\ i \notin 1..drawn.zone
  BY <1>2
<1>5. AccountsTypeOK'
  <2>1. zones' \subseteq [id : ZoneIds, owner : UserIds]
    BY <1>1, <1>2, <1>3 DEF AccountsInv, AccountsTypeOK
  <2> QED BY <1>1, <1>2, <1>3, <2>1 DEF AccountsInv, AccountsTypeOK
<1>6. IdsAreDrawn'
  BY <1>1, <1>2, <1>3, <1>4 DEF AccountsInv, IdsAreDrawn
<1>7. CodesAreIssued'
  BY <1>1, <1>3 DEF AccountsInv, CodesAreIssued
<1>8. RequestsAreSound'
  BY <1>1, <1>3, <1>4 DEF AccountsInv, RequestsAreSound, MemoryIsSound
<1>9. NoOrphans' /\ KeysFollowOwners' /\ PendingHasCode'
  BY <1>1, <1>2 DEF AccountsInv, NoOrphans, KeysFollowOwners, PendingHasCode
<1> QED BY <1>5, <1>6, <1>7, <1>8, <1>9 DEF AccountsInv

(* A step on the keys, which may drop zones with theirs.                   *)
LEMMA KeySteps ==
    ASSUME AccountsInv, UNCHANGED <<users, codes, drawn, issued, inbox, tokens>>,
           zones' \subseteq zones,
           keys' \subseteq [name : KeyNames, user : UserIds, zone : ZoneIds, enabled : BOOLEAN],
           KeysFollowOwners',
           req' \in [Clients -> Requests],
           \A c \in Clients : req'[c] = req[c] \/ req'[c] = NoReq
    PROVE  AccountsInv'
<1>1. Ids' = Ids
  BY DEF Ids
<1>2. AccountsTypeOK'
  BY <1>1 DEF AccountsInv, AccountsTypeOK, Requests
<1>3. IdsAreDrawn' /\ CodesAreIssued'
  BY <1>1 DEF AccountsInv, IdsAreDrawn, CodesAreIssued
<1>4. NoReq.pc = "idle"
  BY DEF NoReq, Memory
<1>5. RequestsAreSound'
  BY <1>4 DEF AccountsInv, RequestsAreSound, MemoryIsSound
<1>6. NoOrphans' /\ PendingHasCode'
  BY <1>1 DEF AccountsInv, NoOrphans, PendingHasCode
<1> QED BY <1>2, <1>3, <1>5, <1>6 DEF AccountsInv

(* Deleting a zone takes the API keys of that zone with it.                *)
LEMMA DeleteZoneInv ==
    ASSUME AccountsInv, NEW u \in tokens, NEW z \in zones, DeleteZone(u, z)
    PROVE  AccountsInv'
<1>1. /\ zones' = zones \ {z} /\ keys' = {k \in keys : k.zone # z.id}
      /\ UNCHANGED <<users, codes, drawn, issued, inbox, tokens, req>>
  BY DEF DeleteZone
<1>2. req \in [Clients -> Requests] /\ Ids' = Ids
  BY <1>1 DEF AccountsInv, AccountsTypeOK, Requests, Ids
<1>3. keys' \subseteq [name : KeyNames, user : UserIds, zone : ZoneIds, enabled : BOOLEAN]
  BY <1>1 DEF AccountsInv, AccountsTypeOK
<1>4. KeysFollowOwners'
  <2> SUFFICES ASSUME NEW k \in keys'
               PROVE  k.user \in Ids /\ [id |-> k.zone, owner |-> k.user] \in zones'
    BY <1>2 DEF KeysFollowOwners
  <2> DEFINE y == [id |-> k.zone, owner |-> k.user]
  <2>1. k \in keys /\ k.zone # z.id
    BY <1>1
  <2>2. k.user \in Ids /\ y \in zones
    BY <2>1 DEF AccountsInv, KeysFollowOwners
  <2>3. y.id # z.id
    BY <2>1
  <2>4. y # z
    BY <2>3
  <2> QED BY <1>1, <2>2, <2>4
<1> QED BY <1>1, <1>2, <1>3, <1>4, KeySteps

(* The zone of a key that is inserted is there, and its owner is still the *)
(* one that was read: the id was not given to another zone.                *)
LEMMA InsertAPIKeyInv ==
    ASSUME AccountsInv, NEW c \in Clients, NEW n \in KeyNames, InsertAPIKey(c, n)
    PROVE  AccountsInv'
<1> DEFINE u == req[c].user
           i == req[c].key
           new == [name |-> n, user |-> u, zone |-> i, enabled |-> TRUE]
<1>1. /\ req[c].pc = "key" /\ u \in Ids /\ keys' = keys \cup {new} /\ Respond(c)
      /\ UNCHANGED <<users, codes, zones, drawn, issued, inbox, tokens>>
  BY DEF InsertAPIKey
<1>2. PICK z \in zones : z.id = i
  BY DEF InsertAPIKey
<1>3. z \in [id : ZoneIds, owner : UserIds] /\ u \in UserIds /\ Ids' = Ids
  BY <1>1 DEF AccountsInv, AccountsTypeOK, Ids
<1>4. z.owner = u
  BY <1>1, <1>2 DEF AccountsInv, RequestsAreSound, MemoryIsSound
<1>5. z = [id |-> i, owner |-> u]
  BY <1>2, <1>3, <1>4
<1>6. keys' \subseteq [name : KeyNames, user : UserIds, zone : ZoneIds, enabled : BOOLEAN]
  <2>1. i \in ZoneIds
    BY <1>2, <1>3
  <2>2. new \in [name : KeyNames, user : UserIds, zone : ZoneIds, enabled : BOOLEAN]
    BY <1>3, <2>1
  <2>3. keys \subseteq [name : KeyNames, user : UserIds, zone : ZoneIds, enabled : BOOLEAN]
    BY DEF AccountsInv, AccountsTypeOK
  <2> QED BY <1>1, <2>2, <2>3
<1>7. KeysFollowOwners'
  <2> SUFFICES ASSUME NEW k \in keys'
               PROVE  k.user \in Ids /\ [id |-> k.zone, owner |-> k.user] \in zones
    BY <1>1, <1>3 DEF KeysFollowOwners
  <2>1. CASE k \in keys
    BY <2>1 DEF AccountsInv, KeysFollowOwners
  <2>2. CASE k = new
    <3>1. k.user = u /\ k.zone = i
      BY <2>2
    <3> QED BY <1>1, <1>5, <3>1
  <2> QED BY <1>1, <2>1, <2>2
<1>8. req' \in [Clients -> Requests] /\ \A d \in Clients : req'[d] = req[d] \/ req'[d] = NoReq
  BY <1>1, RespondSound
<1> QED BY <1>1, <1>6, <1>7, <1>8, KeySteps

(* Deleting or updating an API key leaves user and zone of every key as    *)
(* they were.                                                              *)
LEMMA ChangeAPIKeyInv ==
    ASSUME AccountsInv, NEW u \in tokens, NEW n \in KeyNames,
           DeleteAPIKey(u, n) \/ \E b \in BOOLEAN : UpdateAPIKey(u, n, b)
    PROVE  AccountsInv'
<1> DEFINE Rows == [name : KeyNames, user : UserIds, zone : ZoneIds, enabled : BOOLEAN]
<1>1. UNCHANGED <<users, codes, zones, drawn, issued, inbox, tokens, req>>
  BY DEF DeleteAPIKey, UpdateAPIKey
<1>2. req \in [Clients -> Requests] /\ Ids' = Ids /\ keys \subseteq Rows
  BY <1>1 DEF AccountsInv, AccountsTypeOK, Requests, Ids
<1>3. keys' \subseteq Rows /\ \A k \in keys' : \E j \in keys : k.user = j.user /\ k.zone = j.zone
  <2>1. CASE DeleteAPIKey(u, n)
    BY <2>1, <1>2 DEF DeleteAPIKey
  <2>2. CASE \E b \in BOOLEAN : UpdateAPIKey(u, n, b)
    <3>1. PICK b \in BOOLEAN : UpdateAPIKey(u, n, b)
      BY <2>2
    <3> SUFFICES ASSUME NEW k \in keys'
                 PROVE  k \in Rows /\ \E j \in keys : k.user = j.user /\ k.zone = j.zone
      OBVIOUS
    <3>2. PICK j \in keys :
            k = [j EXCEPT !.enabled = IF j.user = u /\ j.name = n THEN b ELSE @]
      BY <3>1 DEF UpdateAPIKey
    <3>3. j \in Rows
      BY <1>2
    <3> QED BY <3>2, <3>3
  <2> QED BY <2>1, <2>2
<1>4. KeysFollowOwners'
  BY <1>1, <1>2, <1>3 DEF AccountsInv, KeysFollowOwners
<1> QED BY <1>1, <1>2, <1>3, <1>4, KeySteps

-----------------------------------------------------------------------------
(* Every step of the API's accounts keeps the invariant.                   *)
LEMMA NextInv ==
    ASSUME AccountsInv, [Next]_vars
    PROVE  AccountsInv'
<1>1. CASE UNCHANGED vars
  <2>1. req \in [Clients -> Requests] /\ inbox \subseteq Codes /\ tokens \subseteq UserIds
    BY DEF AccountsInv, AccountsTypeOK, Requests
  <2> QED BY <1>1, <2>1, ReadOnly DEF vars, tables
<1>2. CASE \E c \in Clients :
             \/ SendMail(c) \/ MailFails(c) \/ RollBack(c)
             \/ \E code \in inbox, kind \in Kinds : LookupCode(c, code, kind)
             \/ \E e \in Emails : Recover(c, e)
             \/ \E u \in tokens, z \in zones : AddAPIKey(c, u, z)
  BY <1>2, ReadingSteps
<1>3. CASE \E c \in Clients :
             \/ \E e \in Emails, p \in Passwords : Signup(c, e, p)
             \/ Verify(c) \/ SetRecoveryCode(c)
             \/ \E p \in Passwords : ResetPassword(c, p)
             \/ \E n \in KeyNames : InsertAPIKey(c, n)
  BY <1>3, SignupInv, VerifyInv, SetRecoveryCodeInv, ResetPasswordInv, InsertAPIKeyInv
<1>4. CASE \/ \E e \in Emails, p \in Passwords : Login(e, p)
           \/ \E u \in tokens : TokenExpires(u)
  BY <1>4, TokenSteps
<1>5. CASE \E e \in Emails : DeleteUser(e)
  BY <1>5, DeleteUserInv
<1>6. CASE \E u \in tokens :
             \/ AddZone(u)
             \/ \E z \in zones : DeleteZone(u, z)
             \/ \E n \in KeyNames : DeleteAPIKey(u, n)
                                    \/ \E b \in BOOLEAN : UpdateAPIKey(u, n, b)
  BY <1>6, AddZoneInv, DeleteZoneInv, ChangeAPIKeyInv
<1> QED BY <1>1, <1>2, <1>3, <1>4, <1>5, <1>6 DEF Next

(* The inductive invariant holds in every reachable state.                 *)
THEOREM Invariance == Spec => []AccountsInv
BY InitInv, NextInv, PTL DEF Spec

(* Every table keeps its columns' types, and codes are issued in order.    *)
THEOREM TypeCorrect == Spec => []AccountsTypeOK
BY Invariance, PTL DEF AccountsInv

(* A user is pending exactly as long as there is a code to activate it.    *)
THEOREM PendingUsersHaveCodes == Spec => []PendingHasCode
BY Invariance, PTL DEF AccountsInv

(* An API key always opens a zone of the user it belongs to.               *)
THEOREM KeysAreTheOwners == Spec => []KeysFollowOwners
BY Invariance, PTL DEF AccountsInv

(* Emails are unique, and no row outlives the user it refers to.           *)
THEOREM TablesHaveNoOrphans == Spec => []NoOrphans
BY Invariance, PTL DEF AccountsInv

-----------------------------------------------------------------------------
VanishesRightly(v) ==
    \/ \E c \in Clients : req[c].pc = "apply" /\ req[c].code = v.code /\ req'[c] = NoReq
    \/ \E w \in codes' : w.user = v.user /\ w.kind = v.kind
    \/ v.user \notin DOMAIN users'

(* The steps that touch the table of codes take away no row but the one    *)
(* they use, replace or delete with its user.                              *)
LEMMA CodeSteps ==
    ASSUME AccountsInv, [Next]_vars, NEW v \in codes, v \notin codes'
    PROVE  VanishesRightly(v)
<1>1. CASE \E c \in Clients : Verify(c) \/ \E p \in Passwords : ResetPassword(c, p)
  <2>1. PICK c \in Clients : Verify(c) \/ \E p \in Passwords : ResetPassword(c, p)
    BY <1>1
  <2>2. req[c].pc = "apply" /\ codes' = DeleteCode(req[c].code) /\ Respond(c)
    BY <2>1 DEF Verify, ResetPassword
  <2>3. req'[c] = NoReq
    BY <2>2, RespondSound
  <2>4. v.code = req[c].code
    BY <2>2 DEF DeleteCode
  <2> QED BY <2>2, <2>3, <2>4 DEF VanishesRightly
<1>2. CASE \E c \in Clients, e \in Emails, p \in Passwords : Signup(c, e, p)
  <2>1. setVerification(drawn.user + 1, "signup")
    BY <1>2 DEF Signup, AddUser
  <2>2. v.user = drawn.user + 1 /\ v.kind = "signup"
    BY <2>1 DEF setVerification
  <2>3. [user |-> v.user, kind |-> v.kind, code |-> drawn.code + 1] \in codes'
    BY <2>1, <2>2 DEF setVerification
  <2> QED BY <2>3 DEF VanishesRightly
<1>3. CASE \E c \in Clients : SetRecoveryCode(c)
  <2>1. PICK c \in Clients : SetRecoveryCode(c)
    BY <1>3
  <2>2. setVerification(req[c].user, "recover")
    BY <2>1 DEF SetRecoveryCode
  <2>3. v.user = req[c].user /\ v.kind = "recover"
    BY <2>2 DEF setVerification
  <2>4. [user |-> v.user, kind |-> v.kind, code |-> drawn.code + 1] \in codes'
    BY <2>2, <2>3 DEF setVerification
  <2> QED BY <2>4 DEF VanishesRightly
<1>4. CASE \E e \in Emails : DeleteUser(e)
  BY <1>4 DEF DeleteUser, VanishesRightly
<1>5. CASE UNCHANGED codes
  BY <1>5
<1> QED
  BY <1>1, <1>2, <1>3, <1>4, <1>5
  DEF Next, vars, tables, SendMail, MailFails, RollBack, LookupCode, Recover, AddAPIKey,
      Login, TokenExpires, AddZone, DeleteZone, InsertAPIKey, UpdateAPIKey, DeleteAPIKey

(* Using a code never takes another one away: a row that goes was used,    *)
(* replaced by a newer one of its kind, or went with its user.             *)
THEOREM UnusedCodesStay == Spec => CodesDontVanish
<1>1. AccountsInv /\ [Next]_vars => [\A v \in codes \ codes' : VanishesRightly(v)]_vars
  BY CodeSteps
<1> QED BY <1>1, Invariance, PTL DEF Spec, CodesDontVanish, VanishesRightly

RightCode(u) ==
    /\ users'[u].status # users[u].status => \E c \in Clients : Applies(c, u, "signup")
    /\ users'[u].password # users[u].password => \E c \in Clients : Applies(c, u, "recover")

(* What the code of a request that is about to use it was drawn for.       *)
LEMMA CodeOfRequest ==
    ASSUME AccountsInv, NEW c \in Clients, req[c].pc = "apply"
    PROVE  issued[req[c].code] = [user |-> req[c].user, kind |-> req[c].kind]
<1>1. /\ req[c].code \in 1..drawn.code
      /\ issued[req[c].code].user = req[c].user /\ issued[req[c].code].kind = req[c].kind
  BY DEF AccountsInv, RequestsAreSound, MemoryIsSound
<1>2. issued[req[c].code] \in [user : UserIds, kind : Kinds]
  BY <1>1 DEF AccountsInv, AccountsTypeOK
<1> QED BY <1>1, <1>2

(* A step that activates a user or changes a password is Verify or         *)
(* ResetPassword with a code drawn for this user and this purpose.         *)
LEMMA UserSteps ==
    ASSUME AccountsInv, [Next]_vars, NEW u \in Ids, u \in DOMAIN users'
    PROVE  RightCode(u)
<1>0. users[u] \in UserRows
  BY DEF AccountsInv, AccountsTypeOK, UserRows
<1>1. CASE \E c \in Clients : Verify(c)
  <2>1. PICK c \in Clients : Verify(c)
    BY <1>1
  <2>2. req[c].pc = "apply" /\ req[c].kind = "signup" /\ Respond(c)
    BY <2>1 DEF Verify
  <2>3. Applies(c, req[c].user, "signup")
    BY <2>2, CodeOfRequest, RespondSound DEF Applies
  <2>4. CASE u = req[c].user
    <3>1. users'[u] = [users[u] EXCEPT !.status = "active"]
      BY <2>1, <2>4 DEF Verify, UpdateUser
    <3>2. users'[u].password = users[u].password
      BY <1>0, <3>1 DEF UserRows
    <3> QED BY <2>3, <2>4, <3>2 DEF RightCode
  <2>5. CASE u # req[c].user
    <3>1. users'[u] = users[u]
      BY <2>1, <2>5 DEF Verify, UpdateUser
    <3> QED BY <3>1 DEF RightCode
  <2> QED BY <2>4, <2>5
<1>2. CASE \E c \in Clients, p \in Passwords : ResetPassword(c, p)
  <2>1. PICK c \in Clients, p \in Passwords : ResetPassword(c, p)
    BY <1>2
  <2>2. req[c].pc = "apply" /\ req[c].kind = "recover" /\ Respond(c)
    BY <2>1 DEF ResetPassword
  <2>3. Applies(c, req[c].user, "recover")
    BY <2>2, CodeOfRequest, RespondSound DEF Applies
  <2>4. CASE u = req[c].user
    <3>1. users'[u] = [users[u] EXCEPT !.password = p]
      BY <2>1, <2>4 DEF ResetPassword, UpdateUser
    <3>2. users'[u].status = users[u].status
      BY <1>0, <3>1 DEF UserRows
    <3> QED BY <2>3, <2>4, <3>2 DEF RightCode
  <2>5. CASE u # req[c].user
    <3>1. users'[u] = users[u]
      BY <2>1, <2>5 DEF ResetPassword, UpdateUser
    <3> QED BY <3>1 DEF RightCode
  <2> QED BY <2>4, <2>5
<1>3. CASE \/ \E c \in Clients, e \in Emails, p \in Passwords : Signup(c, e, p)
           \/ \E e \in Emails : DeleteUser(e)
  <2>1. users'[u] = users[u]
    BY <1>3 DEF Signup, AddUser, DeleteUser
  <2> QED BY <2>1 DEF RightCode
<1>4. CASE UNCHANGED users
  BY <1>4 DEF RightCode
<1> QED
  BY <1>1, <1>2, <1>3, <1>4
  DEF Next, vars, tables, SendMail, MailFails, RollBack, LookupCode, Recover, AddAPIKey,
      SetRecoveryCode, Login, TokenExpires, AddZone, DeleteZone, InsertAPIKey, UpdateAPIKey,
      DeleteAPIKey

(* A user is activated, and a password changed, by nothing but a code      *)
(* drawn for this user and for this purpose.                               *)
THEOREM CodesDoWhatTheyAreFor == Spec => OnlyTheRightCode
<1>1. AccountsInv /\ [Next]_vars => [\A u \in Ids \cap DOMAIN users' : RightCode(u)]_vars
  BY UserSteps
<1> QED BY <1>1, Invariance, PTL DEF Spec, OnlyTheRightCode, RightCode
=============================================================================
