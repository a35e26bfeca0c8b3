------------------------------ MODULE Accounts ------------------------------
(***************************************************************************)
(* The accounts of the metadata server: the users table, and the handlers  *)
(* of /register, /login and /admin/userdel (server.py, manager.py, db.py). *)
(* What userdel does to files and chunks is in module Metadata, whose      *)
(* accounts are a fixed set; here accounts come and go, and a name may be  *)
(* taken again by another account.                                         *)
(*                                                                         *)
(* As in Metadata a request has a thread of its own, and an action is one  *)
(* transaction.  A token is signed and never changes; the server keeps no  *)
(* copy of it and believes what it says until it expires.                  *)
(***************************************************************************)
EXTENDS Integers, FiniteSets

CONSTANTS Names,       \* user names
          Passwords,
          Requests,    \* identities of the requests that can be in progress
          MaxAccounts  \* bound on the ids the users table hands out

ASSUME AccountsAssumption == MaxAccounts \in Nat

VARIABLES
  users,     \* rows of the users table
  lastUser,  \* the last id the users table has handed out
  births,    \* history: the number of registrations that succeeded
  elevated,  \* history: ids that the operator has made administrators
  thread     \* the handler thread of each request, or NoThread

table == <<users, lastUser, births, elevated>>
accountVars == <<table, thread>>

\* Two fields are history, which no action decides by: born is the serial number
\* of the registration that made the row, whatever its id and name; and the
\* password of a token is the one that the login it answers was made with.
Roles == {"user", "admin"}
Account == [id : 1..MaxAccounts, name : Names, role : Roles, born : 1..births]
Token   == [id : 1..MaxAccounts, name : Names, role : Roles, born : 1..births,
            password : Passwords]
NoToken == [id |-> 0]
NoUser == [id |-> 0]

NoThread == [op |-> "none"]

\* A request as its handler starts.  user is the account that an earlier
\* transaction of the handler has read.
Request(op, name, password, token) ==
  [op |-> op, step |-> "start", name |-> name, password |-> password,
   token |-> token, user |-> NoUser]

Replied == {"ok", "refused", "error"}
ReplyOf(answer, token) == [op |-> "reply", step |-> answer, token |-> token]

AccountsTypeOK ==
  /\ users \subseteq [id : 1..lastUser, name : Names, password : Passwords, role : Roles,
                     born : 1..births]
  /\ lastUser \in 0..MaxAccounts /\ births \in Nat
  /\ elevated \subseteq 1..lastUser
  /\ \A r \in Requests : thread[r] = NoThread \/
       /\ thread[r].op \in {"register", "login", "userdel", "reply"}
       /\ thread[r].step \in {"start", "verified", "found"} \cup Replied
       /\ thread[r].token \in Token \cup {NoToken}
       /\ thread[r].op # "reply" => thread[r].user \in Account \cup {NoUser}

AccountsInit ==
  /\ users = {} /\ lastUser = 0 /\ births = 0 /\ elevated = {}
  /\ thread = [r \in Requests |-> NoThread]

-----------------------------------------------------------------------------

Called(name) == {u \in users : u.name = name}
Verified(name, password) == {u \in Called(name) : u.password = password}

\* What a query returns of a row, and the token that is made of it.
Details(u) == [id |-> u.id, name |-> u.name, role |-> u.role, born |-> u.born]
TokenOf(u, password) == [id |-> u.id, name |-> u.name, role |-> u.role, born |-> u.born,
                         password |-> password]

At(r, op, step) == thread[r].op = op /\ thread[r].step = step
Update(r, changed) == thread' = [thread EXCEPT ![r] = changed]
Found(r, step, user) == Update(r, [thread[r] EXCEPT !.step = step, !.user = user])
Reply(r, answer) == Update(r, ReplyOf(answer, NoToken))

\* A new row, and what becomes of the counter of ids.
AddUser(r, id, counter) ==
  /\ users' = users \cup {[id |-> id, name |-> thread[r].name, role |-> "user",
                           password |-> thread[r].password, born |-> births + 1]}
  /\ births' = births + 1 /\ lastUser' = counter
  /\ Reply(r, "ok")

\* Mutant of Register: the id is one more than the highest one in the table,
\* as without AUTOINCREMENT.
RegisterReusingIds(r) ==
  /\ At(r, "register", "start")
  /\ LET ids == {u.id : u \in users}
         id  == 1 + (IF ids = {} THEN 0 ELSE CHOOSE i \in ids : \A j \in ids : j <= i)
     IN  /\ Called(thread[r].name) = {}
         /\ id <= MaxAccounts /\ births < MaxAccounts
         /\ AddUser(r, id, IF id > lastUser THEN id ELSE lastUser)
  /\ UNCHANGED elevated

\* Mutant of Register: the counter of ids is not kept.
RegisterSameCounter(r) ==
  /\ At(r, "register", "start")
  /\ Called(thread[r].name) = {}
  /\ lastUser < MaxAccounts /\ births < MaxAccounts
  /\ AddUser(r, lastUser + 1, lastUser)
  /\ UNCHANGED elevated

\* /register: a name that is taken violates the UNIQUE constraint (409).
Register(r) ==
  /\ At(r, "register", "start")
  /\ \/ Called(thread[r].name) # {} /\ Reply(r, "refused") /\ UNCHANGED <<users, lastUser, births>>
     \/ /\ Called(thread[r].name) = {} /\ lastUser < MaxAccounts
        /\ AddUser(r, lastUser + 1, lastUser + 1)
  /\ UNCHANGED elevated

\* /login: verify_user compares the password...
VerifyUser(r) ==
  /\ At(r, "login", "start")
  /\ \/ /\ Verified(thread[r].name, thread[r].password) = {}
        /\ Reply(r, "refused")
     \/ \E u \in Verified(thread[r].name, thread[r].password) :
          Found(r, "verified", Details(u))
  /\ UNCHANGED table

\* Mutant of GenerateToken: the role is the one verify_user has read.
GenerateTokenOldRole(r) ==
  /\ At(r, "login", "verified")
  /\ \/ Called(thread[r].name) = {} /\ Reply(r, "error")
     \/ \E u \in Called(thread[r].name) :
          Update(r, ReplyOf("ok", [TokenOf(u, thread[r].password)
                                     EXCEPT !.role = thread[r].user.role]))
  /\ UNCHANGED table

\* ... and generate_token reads the account again, by its name: by now it may
\* be gone, or another one.
GenerateToken(r) ==
  /\ At(r, "login", "verified")
  /\ \/ Called(thread[r].name) = {} /\ Reply(r, "error")
     \/ \E u \in Called(thread[r].name) :
          Update(r, ReplyOf("ok", TokenOf(u, thread[r].password)))
  /\ UNCHANGED table

\* /admin/userdel: the token says administrator, and verify_user finds the
\* password right for the account that has the token's name now...
VerifyAdmin(r) ==
  /\ At(r, "userdel", "start")
  /\ IF /\ thread[r].token.role = "admin"
        /\ Verified(thread[r].token.name, thread[r].password) # {}
     THEN Found(r, "verified", NoUser) ELSE Reply(r, "refused")
  /\ UNCHANGED table

\* ... get_user_by_username finds the id of the target...
FindTarget(r) ==
  /\ At(r, "userdel", "verified")
  /\ \/ Called(thread[r].name) = {} /\ Reply(r, "refused")
     \/ \E u \in Called(thread[r].name) :
          Found(r, "found", Details(u))
  /\ UNCHANGED table

\* ... and, after its files were looked up, the row with that id is deleted.
DeleteAccount(r) ==
  /\ At(r, "userdel", "found")
  /\ users' = {u \in users : u.id # thread[r].user.id}
  /\ Reply(r, "ok")
  /\ UNCHANGED <<lastUser, births, elevated>>

\* The token has expired, or a transaction raises (the database is locked).
Refuse(r) ==
  /\ thread[r] # NoThread
  /\ thread[r].op # "reply"
  /\ Reply(r, "error")
  /\ UNCHANGED table

HandleLogin(r)   == Register(r) \/ VerifyUser(r) \/ GenerateToken(r)
HandleUserdel(r) == VerifyAdmin(r) \/ FindTarget(r) \/ DeleteAccount(r)

Handle(r) == HandleLogin(r) \/ HandleUserdel(r)

\* The operator's UPDATE users SET role = 'admin' WHERE username = ...: the
\* server itself has no route that changes a role.
Elevate(name) ==
  /\ Called(name) # {}
  /\ users' = {IF u.name = name THEN [u EXCEPT !.role = "admin"] ELSE u : u \in users}
  /\ elevated' = elevated \cup {u.id : u \in Called(name)}
  /\ UNCHANGED <<lastUser, births, thread>>

\* The server process dies and is started again.
RestartServer ==
  /\ thread' = [r \in Requests |-> NoThread]
  /\ UNCHANGED table

-----------------------------------------------------------------------------

\* An account disappears only through a userdel that named it, had looked up
\* this very account and no earlier one of the name or the id, and holds an
\* administrator's token, although the target's id is read in an earlier
\* transaction than the deletion, with registrations and other deletions in
\* between (server.py:149-159).
DeletesWhomItNamed ==
  [][\A u \in users : (\A v \in users' : v.born # u.born) =>
       \E r \in Requests : /\ At(r, "userdel", "found") /\ thread'[r].step = "ok"
                           /\ thread[r].name = u.name /\ thread[r].user.born = u.born
                           /\ thread[r].token.id \in elevated]_accountVars

=============================================================================
