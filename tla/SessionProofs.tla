---------------------------- MODULE SessionProofs ----------------------------
(***************************************************************************)
(* Proofs about Session, for every set of names, passwords, processes and  *)
(* requests and every combination of failures.                             *)
(*                                                                         *)
(* The argument: the users table hands out an id once, and the account     *)
(* that has it keeps its name and is not replaced by a later one; hence    *)
(* what a query has returned of an account stays true of it, or is about   *)
(* an account that has gone for good.  A login's answer, furthermore, is   *)
(* about the name and the password that were typed, which is what the key  *)
(* is derived from.                                                        *)
(***************************************************************************)
EXTENDS Session, TLAPS

\* What was read of an account is true of it as long as it exists.
TrueOf(t) ==
  /\ t.id \in 1..lastUser /\ t.name \in Names /\ t.role \in Roles /\ t.born \in 1..births
  /\ \A u \in users : u.id = t.id => u.name = t.name /\ u.born = t.born
  /\ t.role = "admin" => t.id \in elevated

\* The details of an account that a handler keeps, and a token.
UserOK(t) ==
  /\ t = [id |-> t.id, name |-> t.name, role |-> t.role, born |-> t.born]
  /\ TrueOf(t)

TokenOK(t) ==
  /\ t = [id |-> t.id, name |-> t.name, role |-> t.role, born |-> t.born,
          password |-> t.password]
  /\ t.password \in Passwords
  /\ TrueOf(t)

\* A row of the users table.
Row == [id : 1..lastUser, name : Names, password : Passwords, role : Roles, born : 1..births]

UsersOK ==
  /\ lastUser \in 0..MaxAccounts /\ births \in Nat
  /\ users \subseteq Row
  /\ \A u, v \in users : u.id = v.id => u = v
  /\ \A u \in users : u.role = "admin" => u.id \in elevated
  /\ elevated \subseteq 1..lastUser

\* The thread of a request that is answered, and of one that is handled.
ReplyOK(t) ==
  /\ t.op = "reply" /\ t.step \in Replied
  /\ t.token = NoToken \/ TokenOK(t.token)

CallOK(t) ==
  /\ t = [op |-> t.op, step |-> t.step, name |-> t.name, password |-> t.password,
          token |-> t.token, user |-> t.user]
  /\ t.op \in {"register", "login", "userdel"} /\ t.step \in {"start", "verified", "found"}
  /\ t.name \in Names /\ t.password \in Passwords
  /\ t.token = NoToken \/ TokenOK(t.token)
  /\ t.user = NoUser \/ UserOK(t.user)
  /\ t.op = "userdel" =>
       /\ TokenOK(t.token)
       /\ t.step # "start" => t.token.role = "admin"
       /\ t.step = "found" => UserOK(t.user) /\ t.user.name = t.name

ThreadOK(t) == t = NoThread \/ ReplyOK(t) \/ CallOK(t)

\* A session is that of one login.
LoggedIn(s) ==
  /\ s = [token |-> s.token, username |-> s.username, key |-> s.key]
  /\ TokenOK(s.token)
  /\ s.username = s.token.name
  /\ s.key = DeriveKey(s.token.password, s.token.name)

SessionOK(s) == s = NoSession \/ LoggedIn(s)

ProcessOK(s) ==
  /\ s = [pc |-> s.pc, command |-> s.command, typed |-> s.typed, loaded |-> s.loaded,
          request |-> s.request, orphan |-> s.orphan]
  /\ s.pc \in Steps /\ s.request \in Requests \cup {0}
  /\ s.orphan \in BOOLEAN /\ (s.orphan => s.pc = "write")
  /\ SessionOK(s.loaded)
  /\ s.pc \in {"truncate", "write"} => LoggedIn(s.loaded)
  /\ s.pc \in Waiting => s.request \in Requests
  /\ s.pc = "login" => s.typed \in Passwords \X Names

\* What a login waits for is about the name and the password that were typed.
AnswerOK(p) ==
  proc[p].pc = "login" =>
    LET t == thread[proc[p].request]
    IN  \/ t = NoThread
        \/ t.op = "login" /\ t.name = proc[p].typed[2] /\ t.password = proc[p].typed[1]
        \/ /\ t.op = "reply"
           /\ t.step = "ok" => /\ t.token # NoToken /\ t.token.name = proc[p].typed[2]
                              /\ t.token.password = proc[p].typed[1]

ThreadsOK == /\ thread = [r \in Requests |-> thread[r]]
             /\ \A r \in Requests : ThreadOK(thread[r])
ProcessesOK == /\ proc = [p \in Processes |-> proc[p]]
               /\ \A p \in Processes : ProcessOK(proc[p]) /\ AnswerOK(p)

FileOK == /\ file = [exists |-> file.exists, size |-> file.size, session |-> file.session]
          /\ file.exists \in BOOLEAN /\ file.size \in Nat
          /\ SessionOK(file.session)
          /\ settled = Unsettled \/ SessionOK(settled)
          /\ \A p \in Processes : started[p] \in 0..MaxCommands[p]

\* While one process writes what was settled the file is empty.
Empty == [exists |-> TRUE, size |-> 0, session |-> NoSession]
SettledOK ==
  settled # Unsettled =>
    \/ /\ \A p \in Processes : ~ Writes(p)
       /\ file = IF settled = NoSession THEN Absent ELSE Whole(settled)
    \/ /\ settled # NoSession /\ file = Empty
       /\ \E p \in Processes : /\ Writes(p) /\ proc[p].loaded = settled
                               /\ \A q \in Processes : Writes(q) => q = p

\* The inductive invariant.
IInv == UsersOK /\ ThreadsOK /\ ProcessesOK /\ FileOK /\ SettledOK

-----------------------------------------------------------------------------
(* Accounts.                                                               *)

\* No account is renamed or replaced, and no id is used again.
Frame ==
  /\ lastUser \in Nat /\ lastUser' \in Nat /\ lastUser <= lastUser'
  /\ births \in Nat /\ births' \in Nat /\ births <= births'
  /\ elevated \subseteq elevated'
  /\ \A u \in users' : \/ u.id = lastUser + 1
                       \/ \E v \in users : v.id = u.id /\ v.name = u.name /\ v.born = u.born

\* What a query returns of a row is true, and so is the token made of it.
LEMMA DetailsOK ==
  ASSUME UsersOK, NEW u \in users
  PROVE  /\ UserOK(Details(u)) /\ Details(u).name = u.name
         /\ \A password \in Passwords : /\ TokenOK(TokenOf(u, password))
                                        /\ TokenOf(u, password).name = u.name
                                        /\ TokenOf(u, password).password = password
<1>1. u \in Row
  BY DEF UsersOK
<1>2. TrueOf(u)
  BY <1>1 DEF UsersOK, TrueOf, Row
<1>3. UserOK(Details(u)) /\ Details(u).name = u.name
  BY <1>2 DEF UserOK, TrueOf, Details
<1>4. ASSUME NEW password \in Passwords
      PROVE  /\ TokenOK(TokenOf(u, password)) /\ TokenOf(u, password).name = u.name
             /\ TokenOf(u, password).password = password
  BY <1>2 DEF TokenOK, TrueOf, TokenOf
<1>5. QED
  BY <1>3, <1>4

\* It stays so.
LEMMA TrueStays ==
  ASSUME Frame, NEW t, TrueOf(t)
  PROVE  TrueOf(t)'
<1>1. t.id # lastUser + 1 /\ t.id \in 1..lastUser' /\ t.born \in 1..births'
  BY DEF TrueOf, Frame
<1>2. \A u \in users' : u.id = t.id => u.name = t.name /\ u.born = t.born
  BY <1>1 DEF TrueOf, Frame
<1>3. t.role = "admin" => t.id \in elevated'
  BY DEF TrueOf, Frame
<1>4. QED
  BY <1>1, <1>2, <1>3 DEF TrueOf

LEMMA TokenStaysOK ==
  ASSUME Frame, NEW t
  PROVE  (TokenOK(t) => TokenOK(t)') /\ (UserOK(t) => UserOK(t)')
BY TrueStays DEF TokenOK, UserOK

\* A transaction of a handler changes the table, or nothing but its thread.
LEMMA ElevateUsers ==
  ASSUME UsersOK, NEW name, Elevate(name)
  PROVE  UsersOK' /\ Frame
<1>1. /\ lastUser' = lastUser /\ births' = births
      /\ users' = {IF u.name = name THEN [u EXCEPT !.role = "admin"] ELSE u : u \in users}
      /\ elevated' = elevated \cup {u.id : u \in Called(name)}
  BY DEF Elevate
<1>2. ASSUME NEW v \in users'
      PROVE  \E u \in users : /\ v.id = u.id /\ v.name = u.name /\ v.born = u.born
                              /\ v.role = IF u.name = name THEN "admin" ELSE u.role
                              /\ v = [u EXCEPT !.role = v.role]
                              /\ v \in Row
  <2>1. PICK u \in users : v = IF u.name = name THEN [u EXCEPT !.role = "admin"] ELSE u
    BY <1>1
  <2>2. u \in Row
    BY DEF UsersOK
  <2>3. QED
    BY <2>1, <2>2 DEF Roles, Row
<1>3. users' \subseteq Row'
  BY <1>1, <1>2 DEF Row
<1>4. \A u, v \in users' : u.id = v.id => u = v
  BY <1>2 DEF UsersOK
<1>5. \A u \in users' : u.role = "admin" => u.id \in elevated'
  BY <1>1, <1>2 DEF UsersOK, Called
<1>6. elevated' \subseteq 1..lastUser
  BY <1>1 DEF UsersOK, Called, Row
<1>7. Frame
  BY <1>1, <1>2 DEF Frame, UsersOK
<1>8. QED
  BY <1>1, <1>3, <1>4, <1>5, <1>6, <1>7 DEF UsersOK

LEMMA RegisterUsers ==
  ASSUME UsersOK, ThreadsOK, NEW r \in Requests, Register(r)
  PROVE  UsersOK' /\ Frame
<1>1. CASE UNCHANGED table
  BY <1>1 DEF table, UsersOK, Frame, Row
<1>2. CASE lastUser' = lastUser + 1
  <2>1. CallOK(thread[r])
    BY DEF Register, At, ThreadsOK, ThreadOK, ReplyOK, NoThread
  <2>2. PICK u : u = [id |-> lastUser + 1, name |-> thread[r].name, role |-> "user",
                      password |-> thread[r].password, born |-> births + 1]
    OBVIOUS
  <2>3. /\ users' = users \cup {u} /\ elevated' = elevated /\ lastUser < MaxAccounts
        /\ births' = births + 1
    BY <1>2, <2>2 DEF Register, AddUser, UsersOK
  <2>4. u \in Row' /\ u.id = lastUser + 1 /\ u.role = "user"
    BY <1>2, <2>1, <2>2, <2>3 DEF CallOK, Roles, UsersOK, Row
  <2>5. \A v \in users : v \in Row' /\ v.id # lastUser + 1
    BY <1>2, <2>3 DEF UsersOK, Row
  <2>6. lastUser' \in 0..MaxAccounts /\ elevated' \subseteq 1..lastUser'
    BY <1>2, <2>3, AccountsAssumption DEF UsersOK
  <2>7. \A v, w \in users' : v.id = w.id => v = w
    BY <2>3, <2>4, <2>5 DEF UsersOK
  <2>8. UsersOK'
    BY <2>3, <2>4, <2>5, <2>6, <2>7 DEF UsersOK
  <2>9. QED
    BY <1>2, <2>3, <2>4, <2>8 DEF Frame, UsersOK
<1>3. QED
  BY <1>1, <1>2 DEF Register, AddUser, table

LEMMA DeleteUsers ==
  ASSUME UsersOK, NEW r \in Requests, DeleteAccount(r)
  PROVE  UsersOK' /\ Frame
<1>1. users' \subseteq users /\ UNCHANGED <<lastUser, births, elevated>>
  BY DEF DeleteAccount
<1>2. QED
  BY <1>1 DEF UsersOK, Frame, Row

\* The steps that change the table.
LEMMA StepKinds ==
  ASSUME [Next]_vars
  PROVE  \/ UNCHANGED table
         \/ \E name \in Elevatable : Elevate(name)
         \/ \E r \in Requests : Register(r) \/ DeleteAccount(r)
<1> USE DEF accountVars
<1>1. ASSUME NEW p \in Processes, Start(p) \/ ProcessStep(p) \/ Kill(p)
      PROVE  UNCHANGED table
  BY <1>1 DEF Start, ProcessStep, Kill, LookForFile, OpenFile, Run, Reopen, LoginAnswered,
              OtherAnswered, Truncate, Write, LogoutLooks, Remove, NoAnswer
<1>2. ASSUME NEW r \in Requests, DropAnswer(r)
      PROVE  UNCHANGED table
  BY <1>2 DEF DropAnswer
<1>3. CASE ServerStep
  BY <1>3 DEF ServerStep, Handle, HandleLogin, HandleUserdel, VerifyUser, GenerateToken, VerifyAdmin, FindTarget, Refuse,
              RestartServer
<1>4. UNCHANGED vars => UNCHANGED table
  BY DEF vars
<1>5. QED
  BY <1>1, <1>2, <1>3, <1>4 DEF Next

LEMMA UsersStep ==
  ASSUME IInv, [Next]_vars
  PROVE  UsersOK' /\ Frame
<1>1. CASE UNCHANGED table
  BY <1>1 DEF table, UsersOK, Frame, IInv, Row
<1>2. QED
  BY <1>1, StepKinds, ElevateUsers, RegisterUsers, DeleteUsers DEF IInv

-----------------------------------------------------------------------------
(* What a step does not touch stays right.                                 *)

LEMMA ThreadStaysOK ==
  ASSUME Frame, NEW t, ThreadOK(t)
  PROVE  ThreadOK(t)'
<1>1. ReplyOK(t) => ReplyOK(t)'
  <2>1. TokenOK(t.token) => TokenOK(t.token)'
    <3>1. PICK token : token = t.token
      OBVIOUS
    <3>2. QED
      BY <3>1, TokenStaysOK
  <2>2. QED
    BY <2>1 DEF ReplyOK
<1>2. CallOK(t) => CallOK(t)'
  <2>1. TokenOK(t.token) => TokenOK(t.token)'
    <3>1. PICK token : token = t.token
      OBVIOUS
    <3>2. QED
      BY <3>1, TokenStaysOK
  <2>2. UserOK(t.user) => UserOK(t.user)'
    <3>1. PICK user : user = t.user
      OBVIOUS
    <3>2. QED
      BY <3>1, TokenStaysOK
  <2>3. QED
    BY <2>1, <2>2 DEF CallOK
<1>3. QED
  BY <1>1, <1>2 DEF ThreadOK

LEMMA LoggedInStays ==
  ASSUME Frame, NEW s, LoggedIn(s)
  PROVE  LoggedIn(s)'
<1>1. PICK token : token = s.token
  OBVIOUS
<1>2. TokenOK(token)'
  BY <1>1, TokenStaysOK DEF LoggedIn
<1>3. QED
  BY <1>1, <1>2 DEF LoggedIn

LEMMA ProcessStaysOK ==
  ASSUME Frame, NEW s, ProcessOK(s)
  PROVE  ProcessOK(s)'
<1>1. PICK loaded : loaded = s.loaded
  OBVIOUS
<1>2. LoggedIn(loaded) => LoggedIn(loaded)'
  BY LoggedInStays
<1>3. QED
  BY <1>1, <1>2 DEF ProcessOK, SessionOK

\* Priming a condition on a value primes what it says of that value.
LEMMA ThreadOKPrimed ==
  ASSUME NEW q, NEW t, ThreadOK(t)', thread'[q] = t
  PROVE  ThreadOK(thread[q])'
BY DEF ThreadOK, ReplyOK, CallOK, TokenOK, UserOK, TrueOf

LEMMA ProcessOKPrimed ==
  ASSUME NEW q, NEW s, ProcessOK(s)', proc'[q] = s
  PROVE  ProcessOK(proc[q])'
BY DEF ProcessOK, SessionOK, LoggedIn, TokenOK, TrueOf

LEMMA ThreadKept ==
  ASSUME Frame, NEW q, ThreadOK(thread[q]), thread'[q] = thread[q]
  PROVE  ThreadOK(thread[q])'
<1>1. PICK t : t = thread[q]
  OBVIOUS
<1>2. ThreadOK(t)'
  BY <1>1, ThreadStaysOK
<1>3. QED
  BY <1>1, <1>2, ThreadOKPrimed

LEMMA ProcessKept ==
  ASSUME Frame, NEW q, ProcessOK(proc[q]), proc'[q] = proc[q]
  PROVE  ProcessOK(proc[q])'
<1>1. PICK s : s = proc[q]
  OBVIOUS
<1>2. ProcessOK(s)'
  BY <1>1, ProcessStaysOK
<1>3. QED
  BY <1>1, <1>2, ProcessOKPrimed

LEMMA NoThreadOK == ThreadOK(NoThread)'
BY DEF ThreadOK

-----------------------------------------------------------------------------
(* Threads and processes.                                                  *)

\* A step in which the thread of request r becomes t.
LEMMA ThreadMoves ==
  ASSUME IInv, Frame, NEW r \in Requests, NEW t, ThreadOK(t)',
         thread' = [thread EXCEPT ![r] = t], proc' = proc,
         thread[r] # NoThread, thread[r].op # "reply",
         thread[r].op = "login" =>
           \/ t.op = "login" /\ t.name = thread[r].name /\ t.password = thread[r].password
           \/ /\ t.op = "reply"
              /\ t.step = "ok" => /\ t.token # NoToken /\ t.token.name = thread[r].name
                                 /\ t.token.password = thread[r].password
  PROVE  ThreadsOK' /\ ProcessesOK'
<1> USE DEF IInv, ThreadsOK, ProcessesOK
<1>1. ASSUME NEW q \in Requests PROVE thread'[q] = IF q = r THEN t ELSE thread[q]
  OBVIOUS
<1>2. ASSUME NEW q \in Requests PROVE ThreadOK(thread[q])'
  BY <1>1, ThreadKept, ThreadOKPrimed
<1>3. ASSUME NEW p \in Processes PROVE ProcessOK(proc[p])'
  BY ProcessKept
<1>4. ASSUME NEW p \in Processes PROVE AnswerOK(p)'
  <2>1. CASE proc[p].pc = "login"
    <3>1. proc[p].request \in Requests
      BY <2>1 DEF ProcessOK, Waiting
    <3>2. QED
      BY <1>1, <2>1, <3>1 DEF AnswerOK
  <2>2. QED
    BY <2>1 DEF AnswerOK
<1>5. QED
  BY <1>2, <1>3, <1>4

\* A step in which threads end, and no process changes or one that then waits
\* for no login.
LEMMA ThreadsEnd ==
  ASSUME IInv, Frame,
         \A r \in Requests : thread'[r] = thread[r] \/ thread'[r] = NoThread,
         thread' = [r \in Requests |-> thread'[r]],
         NEW p, NEW s, ProcessOK(s)', s.pc # "login",
         proc' = proc \/ proc' = [proc EXCEPT ![p] = s]
  PROVE  ThreadsOK' /\ ProcessesOK'
<1> USE DEF IInv, ThreadsOK, ProcessesOK
<1>1. ASSUME NEW r \in Requests PROVE ThreadOK(thread[r])'
  BY ThreadKept, ThreadOKPrimed, NoThreadOK
<1>2. ASSUME NEW q \in Processes
      PROVE  proc'[q] = proc[q] \/ (proc'[q] = s /\ q = p)
  OBVIOUS
<1>3. ASSUME NEW q \in Processes PROVE ProcessOK(proc[q])'
  BY <1>2, ProcessKept, ProcessOKPrimed
<1>4. ASSUME NEW q \in Processes PROVE AnswerOK(q)'
  <2>1. CASE proc'[q] = proc[q] /\ proc[q].pc = "login"
    <3>1. proc[q].request \in Requests
      BY <2>1 DEF ProcessOK, Waiting
    <3>2. QED
      BY <2>1, <3>1 DEF AnswerOK
  <2>2. QED
    BY <1>2, <2>1 DEF AnswerOK
<1>5. QED
  BY <1>1, <1>3, <1>4

\* A step in which process p issues a request.
LEMMA ProcessAsks ==
  ASSUME IInv, Frame, NEW p \in Processes, NEW op \in Waiting,
         proc[p].pc \in {"run", "reopen"},
         NEW name \in Names, NEW password \in Passwords, NEW token,
         token = NoToken \/ TokenOK(token)', op = "userdel" => TokenOK(token)',
         Ask(p, op, name, password, token)
  PROVE  ThreadsOK' /\ ProcessesOK'
<1> USE DEF IInv, ThreadsOK, ProcessesOK
<1>1. PICK t : t = Request(op, name, password, token)
  OBVIOUS
<1>2. ThreadOK(t)'
  BY <1>1 DEF ThreadOK, CallOK, Request, Waiting
<1>3. PICK typed : typed = IF op = "login" THEN <<password, name>> ELSE <<>>
  OBVIOUS
<1>4. PICK r \in Requests :
        /\ Free(r)
        /\ thread' = [thread EXCEPT ![r] = t]
        /\ proc' = [proc EXCEPT ![p] =
             [proc[p] EXCEPT !.pc = op, !.request = r, !.typed = typed]]
  BY <1>1, <1>3 DEF Ask, Update, Become
<1>5. PICK s : s = [proc[p] EXCEPT !.pc = op, !.request = r, !.typed = typed]
  OBVIOUS
<1>6. PICK old : old = proc[p]
  OBVIOUS
<1>7. ProcessOK(old)
  BY <1>6
<1>8. s = [pc |-> op, command |-> old.command, typed |-> typed, loaded |-> old.loaded,
           request |-> r, orphan |-> old.orphan]
  BY <1>5, <1>6, <1>7 DEF ProcessOK
<1>9. old.orphan = FALSE
  BY <1>6, <1>7 DEF ProcessOK
<1>10. ProcessOK(s)'
  <2>1. ProcessOK(old)'
    BY <1>7, ProcessStaysOK
  <2>2. SessionOK(old.loaded)'
    BY <2>1 DEF ProcessOK
  <2>3. QED
    BY <1>3, <1>8, <1>9, <2>2 DEF ProcessOK, Waiting, Steps, SessionOK
<1>11. ASSUME NEW q \in Requests PROVE ThreadOK(thread[q])'
  BY <1>2, <1>4, ThreadKept, ThreadOKPrimed
<1>12. ASSUME NEW q \in Processes PROVE proc'[q] = IF q = p THEN s ELSE proc[q]
  BY <1>4, <1>5
<1>13. ASSUME NEW q \in Processes PROVE ProcessOK(proc[q])'
  BY <1>10, <1>12, ProcessKept, ProcessOKPrimed
<1>14. AnswerOK(p)'
  <2>1. thread'[r] = t /\ proc'[p] = s
    BY <1>4, <1>12
  <2>2. /\ proc'[p].request = r
        /\ proc'[p].pc = "login" => /\ t.op = "login" /\ t.name = proc'[p].typed[2]
                                    /\ t.password = proc'[p].typed[1]
    BY <1>1, <1>3, <1>8, <2>1 DEF Request
  <2>3. QED
    BY <2>1, <2>2 DEF AnswerOK
<1>15. ASSUME NEW q \in Processes, q # p PROVE AnswerOK(q)'
  <2>1. CASE proc[q].pc = "login"
    <3>1. proc[q].request \in Requests /\ proc[q].request # r
      BY <1>4, <2>1 DEF ProcessOK, Waiting, Free, WaitsFor
    <3>2. thread'[proc[q].request] = thread[proc[q].request] /\ proc'[q] = proc[q]
      BY <1>4, <1>12, <1>15, <3>1
    <3>3. QED
      BY <2>1, <3>2 DEF AnswerOK
  <2>2. QED
    BY <1>12, <1>15, <2>1 DEF AnswerOK
<1>16. QED
  BY <1>4, <1>11, <1>13, <1>14, <1>15

\* A handler replies without a token.
LEMMA HandlerReplies ==
  ASSUME IInv, Frame, NEW r \in Requests, CallOK(thread[r]), NEW answer \in Replied,
         Reply(r, answer), thread[r].op = "login" => answer # "ok", proc' = proc
  PROVE  ThreadsOK' /\ ProcessesOK'
<1>1. PICK t : t = ReplyOf(answer, NoToken)
  OBVIOUS
<1>2. ThreadOK(t)' /\ t.op = "reply" /\ t.step = answer
  BY <1>1 DEF ThreadOK, ReplyOK, ReplyOf
<1>3. thread[r] # NoThread /\ thread[r].op # "reply"
  BY DEF CallOK, NoThread
<1>4. thread' = [thread EXCEPT ![r] = t]
  BY <1>1 DEF Reply, Update
<1>5. QED
  BY <1>2, <1>3, <1>4, ThreadMoves

\* A handler goes on with what it found of an account.
LEMMA HandlerFinds ==
  ASSUME IInv, Frame, NEW r \in Requests, CallOK(thread[r]),
         NEW step \in {"verified", "found"}, NEW user, Found(r, step, user),
         user = NoUser \/ UserOK(user),
         thread[r].op = "userdel" =>
           /\ thread[r].token.role = "admin"
           /\ step = "found" => UserOK(user) /\ user.name = thread[r].name,
         proc' = proc
  PROVE  ThreadsOK' /\ ProcessesOK'
<1>1. PICK old : old = thread[r]
  OBVIOUS
<1>2. PICK t : t = [old EXCEPT !.step = step, !.user = user]
  OBVIOUS
<1>3. t = [op |-> old.op, step |-> step, name |-> old.name, password |-> old.password,
           token |-> old.token, user |-> user]
  BY <1>1, <1>2 DEF CallOK
<1>4. CallOK(t)
  BY <1>1, <1>3 DEF CallOK
<1>5. ThreadOK(t)'
  BY <1>4, ThreadStaysOK DEF ThreadOK
<1>6. thread' = [thread EXCEPT ![r] = t]
  BY <1>1, <1>2 DEF Found, Update
<1>7. thread[r] # NoThread /\ thread[r].op # "reply" /\ t.op = thread[r].op
        /\ t.name = thread[r].name /\ t.password = thread[r].password
  BY <1>1, <1>3 DEF CallOK, NoThread
<1>8. QED
  BY <1>5, <1>6, <1>7, ThreadMoves

\* Every transaction of a handler leaves its thread right.
LEMMA HandlerStep ==
  ASSUME IInv, Frame, NEW r \in Requests, Handle(r) \/ Refuse(r), proc' = proc
  PROVE  ThreadsOK' /\ ProcessesOK'
<1>1. CallOK(thread[r])
  <2>1. thread[r] # NoThread /\ thread[r].op # "reply"
    BY DEF Handle, HandleLogin, HandleUserdel, Refuse, Register, VerifyUser, GenerateToken, VerifyAdmin, FindTarget,
           DeleteAccount, At, NoThread
  <2>2. QED
    BY <2>1 DEF IInv, ThreadsOK, ThreadOK, ReplyOK
<1>2. UsersOK
  BY DEF IInv
<1>3. CASE Register(r)
  <2>1. thread[r].op = "register" /\ \E answer \in {"ok", "refused"} : Reply(r, answer)
    BY <1>3 DEF Register, AddUser, At
  <2>2. QED
    BY <1>1, <2>1, HandlerReplies DEF Replied
<1>4. CASE Refuse(r)
  BY <1>1, <1>4, HandlerReplies DEF Refuse, Replied
<1>5. CASE VerifyUser(r)
  <2>1. CASE Reply(r, "refused")
    BY <1>1, <2>1, HandlerReplies DEF Replied
  <2>2. CASE \E u \in users : Found(r, "verified", Details(u))
    <3>1. PICK u \in users : Found(r, "verified", Details(u))
      BY <2>2
    <3>2. UserOK(Details(u)) /\ thread[r].op = "login"
      BY <1>2, <1>5, DetailsOK DEF VerifyUser, At
    <3>3. QED
      BY <1>1, <3>1, <3>2, HandlerFinds
  <2>3. QED
    BY <1>5, <2>1, <2>2 DEF VerifyUser, Verified, Called
<1>6. CASE GenerateToken(r)
  <2>1. CASE Reply(r, "error")
    BY <1>1, <2>1, HandlerReplies DEF Replied
  <2>2. CASE \E u \in Called(thread[r].name) :
                Update(r, ReplyOf("ok", TokenOf(u, thread[r].password)))
    <3>1. PICK u \in users : /\ u.name = thread[r].name
                             /\ Update(r, ReplyOf("ok", TokenOf(u, thread[r].password)))
      BY <2>2 DEF Called
    <3>2. PICK token : token = TokenOf(u, thread[r].password)
      OBVIOUS
    <3>3. /\ TokenOK(token) /\ token.name = thread[r].name
          /\ token.password = thread[r].password
      BY <1>1, <1>2, <3>1, <3>2, DetailsOK DEF CallOK
    <3>4. PICK t : t = ReplyOf("ok", token)
      OBVIOUS
    <3>5. ThreadOK(t)' /\ t.op = "reply" /\ t.token = token
      BY <3>3, <3>4, TokenStaysOK DEF ThreadOK, ReplyOK, ReplyOf, Replied
    <3>6. token # NoToken
      BY <1>2, <3>3 DEF TokenOK, TrueOf, NoToken, UsersOK
    <3>7. thread[r] # NoThread /\ thread[r].op # "reply"
      BY <1>1 DEF CallOK, NoThread
    <3>8. thread' = [thread EXCEPT ![r] = t]
      BY <3>1, <3>2, <3>4 DEF Update
    <3>9. QED
      BY <3>3, <3>5, <3>6, <3>7, <3>8, ThreadMoves
  <2>3. QED
    BY <1>6, <2>1, <2>2 DEF GenerateToken
<1>7. CASE VerifyAdmin(r)
  <2>1. CASE Reply(r, "refused")
    BY <1>1, <2>1, HandlerReplies DEF Replied
  <2>2. CASE thread[r].token.role = "admin" /\ Found(r, "verified", NoUser)
    BY <1>1, <2>2, HandlerFinds
  <2>3. QED
    BY <1>7, <2>1, <2>2 DEF VerifyAdmin
<1>8. CASE FindTarget(r)
  <2>1. CASE Reply(r, "refused")
    BY <1>1, <2>1, HandlerReplies DEF Replied
  <2>2. CASE \E u \in Called(thread[r].name) : Found(r, "found", Details(u))
    <3>1. PICK u \in users : u.name = thread[r].name /\ Found(r, "found", Details(u))
      BY <2>2 DEF Called
    <3>2. UserOK(Details(u)) /\ Details(u).name = thread[r].name
      BY <1>2, <3>1, DetailsOK
    <3>3. thread[r].token.role = "admin"
      BY <1>1, <1>8 DEF FindTarget, At, CallOK
    <3>4. QED
      BY <1>1, <3>1, <3>2, <3>3, HandlerFinds
  <2>3. QED
    BY <1>8, <2>1, <2>2 DEF FindTarget
<1>9. CASE DeleteAccount(r)
  BY <1>1, <1>9, HandlerReplies DEF DeleteAccount, At, Replied
<1>10. QED
  BY <1>3, <1>4, <1>5, <1>6, <1>7, <1>8, <1>9 DEF Handle, HandleLogin, HandleUserdel

LEMMA IdleOK == ProcessOK(Idle)' /\ Idle.pc # "login"
BY DEF ProcessOK, SessionOK, Idle, Steps, Waiting

\* A process becomes idle, whether or not a thread ends.
LEMMA BecomesIdle ==
  ASSUME IInv, Frame, NEW p, Become(p, Idle),
         thread' = thread \/ \E r : Update(r, NoThread)
  PROVE  ThreadsOK' /\ ProcessesOK'
<1>1. /\ \A r \in Requests : thread'[r] = thread[r] \/ thread'[r] = NoThread
      /\ thread' = [r \in Requests |-> thread'[r]]
  BY DEF Update, IInv, ThreadsOK
<1>2. proc' = [proc EXCEPT ![p] = Idle]
  BY DEF Become
<1>3. QED
  BY <1>1, <1>2, IdleOK, ThreadsEnd

\* A process goes on without a request.
LEMMA GoesOn ==
  ASSUME IInv, Frame, NEW p \in Processes, NEW pc \in Steps \ (Waiting \cup {"truncate", "write"}),
         ~ proc[p].orphan, Step(p, pc), thread' = thread
  PROVE  ThreadsOK' /\ ProcessesOK'
<1>1. PICK old : old = proc[p]
  OBVIOUS
<1>2. PICK s : s = [old EXCEPT !.pc = pc]
  OBVIOUS
<1>3. ProcessOK(old)
  BY <1>1 DEF IInv, ProcessesOK
<1>4. s = [pc |-> pc, command |-> old.command, typed |-> old.typed, loaded |-> old.loaded,
           request |-> old.request, orphan |-> old.orphan]
  BY <1>2, <1>3 DEF ProcessOK
<1>5. ProcessOK(old)'
  BY <1>3, ProcessStaysOK
<1>6. ProcessOK(s)' /\ s.pc # "login"
  BY <1>1, <1>4, <1>5 DEF ProcessOK, Waiting
<1>7. proc' = [proc EXCEPT ![p] = s]
  BY <1>1, <1>2 DEF Step, Become
<1>8. thread' = [r \in Requests |-> thread'[r]]
  BY DEF IInv, ThreadsOK
<1>9. QED
  BY <1>6, <1>7, <1>8, ThreadsEnd

\* A process reads the file, or an answer, and then has a session or none.
LEMMA Loads ==
  ASSUME IInv, Frame, NEW p \in Processes, NEW pc \in {"run", "truncate"}, NEW typed, NEW loaded,
         pc = "truncate" => LoggedIn(loaded), SessionOK(loaded), ~ proc[p].orphan,
         Become(p, [proc[p] EXCEPT !.pc = pc, !.typed = typed, !.loaded = loaded]),
         thread' = thread \/ \E r : Update(r, NoThread)
  PROVE  ThreadsOK' /\ ProcessesOK'
<1>1. PICK old : old = proc[p]
  OBVIOUS
<1>2. PICK s : s = [old EXCEPT !.pc = pc, !.typed = typed, !.loaded = loaded]
  OBVIOUS
<1>3. ProcessOK(old)
  BY <1>1 DEF IInv, ProcessesOK
<1>4. s = [pc |-> pc, command |-> old.command, typed |-> typed, loaded |-> loaded,
           request |-> old.request, orphan |-> FALSE]
  BY <1>1, <1>2, <1>3 DEF ProcessOK
<1>5. SessionOK(loaded)' /\ (pc = "truncate" => LoggedIn(loaded)')
  BY LoggedInStays DEF SessionOK
<1>6. ProcessOK(s)' /\ s.pc # "login"
  BY <1>3, <1>4, <1>5 DEF ProcessOK, Waiting, Steps
<1>7. proc' = [proc EXCEPT ![p] = s]
  BY <1>1, <1>2 DEF Become
<1>8. /\ \A r \in Requests : thread'[r] = thread[r] \/ thread'[r] = NoThread
      /\ thread' = [r \in Requests |-> thread'[r]]
  BY DEF Update, IInv, ThreadsOK
<1>9. QED
  BY <1>6, <1>7, <1>8, ThreadsEnd

\* The session that a login has made is that of one login.
LEMMA LoginIsLoggedIn ==
  ASSUME IInv, NEW p \in Processes, proc[p].pc = "login", Answered(p), Answer(p).step = "ok"
  PROVE  LoggedIn(Login(p))
<1>1. ProcessOK(proc[p]) /\ AnswerOK(p)
  BY DEF IInv, ProcessesOK
<1>2. proc[p].typed \in Passwords \X Names /\ proc[p].request \in Requests
  BY <1>1 DEF ProcessOK, Waiting
<1>3. ThreadOK(Answer(p)) /\ Answer(p) # NoThread
  BY <1>2 DEF Answered, Answer, IInv, ThreadsOK
<1>4. ReplyOK(Answer(p))
  BY <1>3 DEF ThreadOK, CallOK
<1>5. /\ TokenOK(Answer(p).token)
      /\ Answer(p).token.name = proc[p].typed[2]
      /\ Answer(p).token.password = proc[p].typed[1]
  BY <1>1, <1>3, <1>4 DEF AnswerOK, ReplyOK, Answer
<1>6. QED
  BY <1>2, <1>5 DEF LoggedIn, Login

\* Every step of a process leaves processes and threads right.
LEMMA ProcessesStep ==
  ASSUME IInv, Frame, NEW p \in Processes, Start(p) \/ ProcessStep(p) \/ Kill(p)
  PROVE  ThreadsOK' /\ ProcessesOK'
<1> USE DEF accountVars
<1>1. ProcessOK(proc[p])
  BY DEF IInv, ProcessesOK
<1>2. proc[p].pc # "write" => ~ proc[p].orphan
  BY <1>1 DEF ProcessOK
<1>3. thread' = thread => thread' = [r \in Requests |-> thread'[r]]
  BY DEF IInv, ThreadsOK
<1>4. CASE Start(p)
  <2>1. PICK command : proc' = [proc EXCEPT ![p] =
                                  [Idle EXCEPT !.pc = "exists", !.command = command]]
    BY <1>4 DEF Start, Become
  <2>2. PICK s : s = [Idle EXCEPT !.pc = "exists", !.command = command]
    OBVIOUS
  <2>3. ProcessOK(s)' /\ s.pc # "login"
    BY <2>2 DEF ProcessOK, SessionOK, Idle, Steps, Waiting
  <2>4. QED
    BY <1>3, <1>4, <2>1, <2>2, <2>3, ThreadsEnd DEF Start
<1>5. CASE LookForFile(p)
  <2>1. CASE \E pc \in {"open", "run"} : Step(p, pc) /\ proc[p].pc = "exists"
    BY <1>2, <1>5, <2>1, GoesOn DEF LookForFile, Steps, Waiting
  <2>2. CASE proc[p].pc = "recheck" /\ Become(p, Idle)
    BY <1>5, <2>2, BecomesIdle DEF LookForFile
  <2>3. CASE proc[p].pc = "recheck" /\ Step(p, "reopen")
    BY <1>2, <1>5, <2>3, GoesOn DEF LookForFile, Steps, Waiting
  <2>4. QED
    BY <1>5, <2>1, <2>2, <2>3 DEF LookForFile, Step
<1>6. CASE OpenFile(p)
  <2>1. CASE Become(p, Idle)
    BY <1>6, <2>1, BecomesIdle DEF OpenFile
  <2>2. CASE \E loaded \in {file.session, NoSession} :
               Become(p, [proc[p] EXCEPT !.pc = "run", !.loaded = loaded])
    <3>1. PICK loaded \in {file.session, NoSession} :
                 Become(p, [proc[p] EXCEPT !.pc = "run", !.loaded = loaded])
      BY <2>2
    <3>2. SessionOK(loaded)
      BY <3>1 DEF IInv, FileOK, SessionOK
    <3>3. PICK typed : typed = proc[p].typed
      OBVIOUS
    <3>4. PICK pc : pc = "run"
      OBVIOUS
    <3>5. Become(p, [proc[p] EXCEPT !.pc = pc, !.typed = typed, !.loaded = loaded])
      BY <1>1, <3>1, <3>3, <3>4 DEF ProcessOK, Become
    <3>6. QED
      BY <1>2, <1>6, <3>2, <3>4, <3>5, Loads DEF OpenFile
  <2>3. QED
    BY <1>6, <2>1, <2>2 DEF OpenFile
<1>7. CASE Run(p)
  <2>1. ASSUME NEW name \in Names, NEW password \in Passwords,
               proc[p].command \in {"register", "login"},
               Ask(p, proc[p].command, name, password, NoToken)
        PROVE  ThreadsOK' /\ ProcessesOK'
    <3>1. PICK op : op = proc[p].command
      OBVIOUS
    <3>2. PICK token : token = NoToken
      OBVIOUS
    <3>3. Ask(p, op, name, password, token) /\ op \in Waiting /\ op # "userdel"
      BY <2>1, <3>1, <3>2 DEF Waiting
    <3>4. QED
      BY <1>7, <3>2, <3>3, ProcessAsks DEF Run
  <2>2. CASE Step(p, "logout") /\ UNCHANGED thread
    BY <1>2, <1>7, <2>2, GoesOn DEF Run, Steps, Waiting
  <2>3. CASE Step(p, "recheck") /\ UNCHANGED thread
    BY <1>2, <1>7, <2>3, GoesOn DEF Run, Steps, Waiting
  <2>4. QED
    BY <1>7, <2>1, <2>2, <2>3 DEF Run
<1>8. CASE Reopen(p)
  <2>1. ASSUME NEW name \in Names, NEW password \in Passwords,
               proc[p].loaded # NoSession,
               Ask(p, "userdel", name, password, proc[p].loaded.token)
        PROVE  ThreadsOK' /\ ProcessesOK'
    <3>1. PICK op : op = "userdel"
      OBVIOUS
    <3>2. PICK token : token = proc[p].loaded.token
      OBVIOUS
    <3>3. TokenOK(token)'
      BY <1>1, <2>1, <3>2, TokenStaysOK DEF ProcessOK, SessionOK, LoggedIn
    <3>4. Ask(p, op, name, password, token) /\ op \in Waiting
      BY <2>1, <3>1, <3>2 DEF Waiting
    <3>5. QED
      BY <1>8, <3>3, <3>4, ProcessAsks DEF Reopen
  <2>2. CASE Become(p, Idle) /\ UNCHANGED thread
    BY <2>2, BecomesIdle
  <2>3. QED
    BY <1>8, <2>1, <2>2 DEF Reopen
<1>9. CASE LoginAnswered(p)
  <2>1. CASE Become(p, Idle)
    BY <1>9, <2>1, BecomesIdle DEF LoginAnswered, Read
  <2>2. CASE Answer(p).step = "ok"
    <3>1. PICK loaded : loaded = Login(p)
      OBVIOUS
    <3>2. PICK typed : typed = <<>>
      OBVIOUS
    <3>3. PICK pc : pc = "truncate"
      OBVIOUS
    <3>4. LoggedIn(loaded)
      BY <1>9, <2>2, <3>1, LoginIsLoggedIn DEF LoginAnswered
    <3>5. Become(p, [proc[p] EXCEPT !.pc = pc, !.typed = typed, !.loaded = loaded])
      BY <1>9, <2>2, <3>1, <3>2, <3>3 DEF LoginAnswered
    <3>6. QED
      BY <1>2, <1>9, <3>3, <3>4, <3>5, Loads DEF LoginAnswered, Read, SessionOK
  <2>3. QED
    BY <1>9, <2>1, <2>2 DEF LoginAnswered
<1>10. CASE OtherAnswered(p)
  BY <1>10, BecomesIdle DEF OtherAnswered, Read
<1>11. CASE Truncate(p)
  <2>1. PICK old : old = proc[p]
    OBVIOUS
  <2>2. PICK s : s = [old EXCEPT !.pc = "write"]
    OBVIOUS
  <2>3. s = [pc |-> "write", command |-> old.command, typed |-> old.typed,
             loaded |-> old.loaded, request |-> old.request, orphan |-> old.orphan]
    BY <1>1, <2>1, <2>2 DEF ProcessOK
  <2>4. ProcessOK(old)'
    BY <1>1, <2>1, ProcessStaysOK
  <2>5. ProcessOK(s)' /\ s.pc # "login"
    BY <1>11, <2>1, <2>3, <2>4 DEF ProcessOK, Waiting, Steps, Truncate
  <2>6. QED
    BY <1>3, <1>11, <2>1, <2>2, <2>5, ThreadsEnd DEF Truncate, Become
<1>12. CASE Write(p)
  BY <1>12, BecomesIdle DEF Write
<1>13. CASE LogoutLooks(p)
  <2>1. CASE Become(p, Idle)
    BY <1>13, <2>1, BecomesIdle DEF LogoutLooks
  <2>2. CASE Step(p, "remove") /\ proc[p].pc = "logout"
    BY <1>2, <1>13, <2>2, GoesOn DEF LogoutLooks, Steps, Waiting
  <2>3. QED
    BY <1>13, <2>1, <2>2 DEF LogoutLooks, Step
<1>14. CASE Remove(p)
  <2>1. /\ thread' = thread
        /\ proc' = [q \in Processes |-> IF q = p THEN Idle ELSE
                     [proc[q] EXCEPT !.orphan = @ \/ proc[q].pc = "write"]]
    BY <1>14 DEF Remove
  <2>2. \A r \in Requests : ThreadOK(thread[r])'
    BY <2>1, ThreadKept DEF IInv, ThreadsOK
  <2>3. ASSUME NEW q \in Processes, q # p
        PROVE  ProcessOK(proc[q])' /\ AnswerOK(q)'
    <3>1. PICK old : old = proc[q]
      OBVIOUS
    <3>2. PICK s : s = [old EXCEPT !.orphan = old.orphan \/ old.pc = "write"]
      OBVIOUS
    <3>3. PICK orphan \in BOOLEAN : orphan = (old.orphan \/ old.pc = "write")
      OBVIOUS
    <3>4. ProcessOK(old) /\ AnswerOK(q)
      BY <3>1 DEF IInv, ProcessesOK
    <3>5. s = [pc |-> old.pc, command |-> old.command, typed |-> old.typed,
               loaded |-> old.loaded, request |-> old.request, orphan |-> orphan]
      BY <3>2, <3>3, <3>4 DEF ProcessOK
    <3>6. ProcessOK(old)'
      BY <3>4, ProcessStaysOK
    <3>7. ProcessOK(s)'
      BY <3>3, <3>5, <3>6 DEF ProcessOK
    <3>8. proc'[q] = s
      BY <2>1, <2>3, <3>1, <3>2
    <3>9. AnswerOK(q)'
      BY <2>1, <3>1, <3>4, <3>5, <3>8 DEF AnswerOK
    <3>10. QED
      BY <3>7, <3>8, <3>9, ProcessOKPrimed
  <2>4. ProcessOK(proc[p])' /\ AnswerOK(p)'
    <3>1. proc'[p] = Idle
      BY <2>1
    <3>2. QED
      BY <3>1, IdleOK, ProcessOKPrimed DEF AnswerOK
  <2>5. QED
    BY <1>3, <2>1, <2>2, <2>3, <2>4 DEF ThreadsOK, ProcessesOK
<1>15. CASE NoAnswer(p) \/ Kill(p)
  BY <1>15, BecomesIdle DEF NoAnswer, Kill
<1>16. QED
  BY <1>4, <1>5, <1>6, <1>7, <1>8, <1>9, <1>10, <1>11, <1>12, <1>13, <1>14, <1>15
  DEF ProcessStep

\* A step leaves processes and threads right.
LEMMA ActorsStep ==
  ASSUME IInv, [Next]_vars
  PROVE  ThreadsOK' /\ ProcessesOK'
<1>1. Frame
  BY UsersStep
<1>2. ASSUME proc' = proc, \A r \in Requests : thread'[r] = thread[r] \/ thread'[r] = NoThread,
             thread' = [r \in Requests |-> thread'[r]]
      PROVE  ThreadsOK' /\ ProcessesOK'
  BY <1>1, <1>2, IdleOK, ThreadsEnd
<1>3. ASSUME NEW r \in Requests, DropAnswer(r)
      PROVE  ThreadsOK' /\ ProcessesOK'
  <2>1. proc' = proc /\ thread' = [thread EXCEPT ![r] = NoThread]
    BY <1>3 DEF DropAnswer, Update
  <2>2. /\ \A q \in Requests : thread'[q] = thread[q] \/ thread'[q] = NoThread
        /\ thread' = [q \in Requests |-> thread'[q]]
    BY <2>1 DEF IInv, ThreadsOK
  <2>3. QED
    BY <1>2, <2>1, <2>2
<1>4. CASE ServerStep
  <2>1. proc' = proc
    BY <1>4 DEF ServerStep
  <2>2. ASSUME NEW r \in Requests, Handle(r) \/ Refuse(r)
        PROVE  ThreadsOK' /\ ProcessesOK'
    BY <1>1, <2>1, <2>2, HandlerStep
  <2>3. ASSUME NEW name, Elevate(name)
        PROVE  ThreadsOK' /\ ProcessesOK'
    <3>1. thread' = thread
      BY <2>3 DEF Elevate
    <3>2. thread' = [r \in Requests |-> thread'[r]]
      BY <3>1 DEF IInv, ThreadsOK
    <3>3. QED
      BY <1>2, <2>1, <3>1, <3>2
  <2>4. CASE RestartServer
    BY <1>2, <2>1, <2>4 DEF RestartServer
  <2>5. QED
    BY <1>4, <2>2, <2>3, <2>4 DEF ServerStep
<1>5. CASE UNCHANGED vars
  <2>1. thread' = thread /\ proc' = proc
    BY <1>5 DEF vars, accountVars
  <2>2. thread' = [r \in Requests |-> thread'[r]]
    BY <2>1 DEF IInv, ThreadsOK
  <2>3. QED
    BY <1>2, <2>1, <2>2
<1>6. QED
  BY <1>1, <1>3, <1>4, <1>5, ProcessesStep DEF Next

-----------------------------------------------------------------------------
(* The file.                                                               *)

\* A process that writes has a session to write.
LEMMA BytesAreNat ==
  ASSUME NEW s, LoggedIn(s)
  PROVE  Bytes(s) \in Nat
BY SessionAssumption DEF LoggedIn, TokenOK, TrueOf, Bytes

LEMMA SessionStaysOK ==
  ASSUME Frame, NEW s, SessionOK(s)
  PROVE  SessionOK(s)'
BY LoggedInStays DEF SessionOK

\* The steps that change the file or what was settled.
LEMMA FileKinds ==
  ASSUME [Next]_vars
  PROVE  \/ UNCHANGED <<file, settled>>
         \/ \E p \in Processes : Truncate(p) \/ Write(p) \/ Remove(p) \/ Kill(p)
<1>1. ASSUME NEW p \in Processes, Start(p) \/ ProcessStep(p)
      PROVE  UNCHANGED <<file, settled>> \/ Truncate(p) \/ Write(p) \/ Remove(p)
  BY <1>1 DEF Start, ProcessStep, LookForFile, OpenFile, Run, Reopen, LoginAnswered,
              OtherAnswered, LogoutLooks, NoAnswer
<1>2. ASSUME NEW r \in Requests, DropAnswer(r)
      PROVE  UNCHANGED <<file, settled>>
  BY <1>2 DEF DropAnswer
<1>3. ServerStep => UNCHANGED <<file, settled>>
  BY DEF ServerStep
<1>4. UNCHANGED vars => UNCHANGED <<file, settled>>
  BY DEF vars
<1>5. QED
  BY <1>1, <1>2, <1>3, <1>4 DEF Next

LEMMA StartedStep ==
  ASSUME IInv, [Next]_vars
  PROVE  \A p \in Processes : started'[p] \in 0..MaxCommands[p]
<1>1. CASE started' = started
  BY <1>1 DEF IInv, FileOK
<1>2. ASSUME NEW p \in Processes, Start(p)
      PROVE  \A q \in Processes : started'[q] \in 0..MaxCommands[q]
  <2>1. started' = [started EXCEPT ![p] = @ + 1] /\ started[p] < MaxCommands[p]
    BY <1>2 DEF Start
  <2>2. \A q \in Processes : MaxCommands[q] \in Nat /\ started[q] \in 0..MaxCommands[q]
    BY SessionAssumption DEF IInv, FileOK
  <2>3. ASSUME NEW q \in Processes
        PROVE  started'[q] = started[q] \/ (q = p /\ started'[q] = started[q] + 1)
    BY <2>1
  <2>4. QED
    BY <2>1, <2>2, <2>3
<1>3. QED
  BY <1>1, <1>2
  DEF Next, ProcessStep, LookForFile, OpenFile, Run, Reopen, LoginAnswered, OtherAnswered,
      Truncate, Write, LogoutLooks, Remove, NoAnswer, Kill, DropAnswer, ServerStep, vars

\* What FileOK says, of the values that a step leaves in its variables.
LEMMA FileOKPrimed ==
  ASSUME IInv, [Next]_vars, NEW exists \in BOOLEAN, NEW size \in Nat, NEW session, NEW last,
         file' = [exists |-> exists, size |-> size, session |-> session], settled' = last,
         SessionOK(session)', last = Unsettled \/ SessionOK(last)'
  PROVE  FileOK'
<1>1. SessionOK(file.session)'
  BY DEF SessionOK, LoggedIn, TokenOK, TrueOf
<1>2. (settled = Unsettled \/ SessionOK(settled))'
  BY DEF SessionOK, LoggedIn, TokenOK, TrueOf
<1>3. QED
  BY <1>1, <1>2, StartedStep DEF FileOK

LEMMA FileStep ==
  ASSUME IInv, [Next]_vars
  PROVE  FileOK'
<1>1. Frame /\ FileOK
  BY UsersStep DEF IInv
<1>2. PICK exists, size, session, last :
        /\ exists \in BOOLEAN /\ size \in Nat
        /\ file = [exists |-> exists, size |-> size, session |-> session]
        /\ settled = last
  BY <1>1 DEF FileOK
<1>3. SessionOK(session)' /\ (last = Unsettled \/ SessionOK(last)')
  BY <1>1, <1>2, SessionStaysOK DEF FileOK
<1>4. SessionOK(NoSession)'
  BY DEF SessionOK
<1>5. CASE UNCHANGED <<file, settled>>
  BY <1>2, <1>3, <1>5, FileOKPrimed
<1>6. ASSUME NEW p \in Processes, Truncate(p)
      PROVE  FileOK'
  <2>1. PICK loaded : loaded = proc[p].loaded
    OBVIOUS
  <2>2. LoggedIn(loaded)
    BY <1>6, <2>1 DEF Truncate, IInv, ProcessesOK, ProcessOK
  <2>3. SessionOK(loaded)'
    BY <1>1, <2>2, LoggedInStays DEF SessionOK
  <2>4. file' = Empty /\ settled' \in {Unsettled, loaded}
    BY <1>6, <2>1 DEF Truncate, SettledByOne, Empty
  <2>5. QED
    BY <1>4, <2>3, <2>4, FileOKPrimed DEF Empty
<1>7. ASSUME NEW p \in Processes, Write(p)
      PROVE  FileOK'
  <2>1. PICK loaded : loaded = proc[p].loaded
    OBVIOUS
  <2>2. LoggedIn(loaded)
    BY <1>7, <2>1 DEF Write, IInv, ProcessesOK, ProcessOK
  <2>3. SessionOK(loaded)'
    BY <1>1, <2>2, LoggedInStays DEF SessionOK
  <2>4. settled' = last
    BY <1>2, <1>7 DEF Write
  <2>5. CASE file' = file
    BY <1>2, <1>3, <2>4, <2>5, FileOKPrimed
  <2>6. CASE file' = Whole(loaded)
    <3>1. PICK bytes \in Nat : bytes = Bytes(loaded)
      BY <2>2, BytesAreNat
    <3>2. file' = [exists |-> TRUE, size |-> bytes, session |-> loaded]
      BY <2>6, <3>1 DEF Whole
    <3>3. QED
      BY <1>3, <2>3, <2>4, <3>2, FileOKPrimed
  <2>7. CASE file' = [file EXCEPT !.session = NoSession]
    <3>1. file' = [exists |-> exists, size |-> size, session |-> NoSession]
      BY <1>2, <2>7
    <3>2. QED
      BY <1>2, <1>3, <1>4, <2>4, <3>1, FileOKPrimed
  <2>8. QED
    BY <1>7, <2>1, <2>5, <2>6, <2>7 DEF Write
<1>8. ASSUME NEW p \in Processes, Remove(p)
      PROVE  FileOK'
  BY <1>4, <1>8, FileOKPrimed DEF Remove, Absent
<1>9. ASSUME NEW p \in Processes, Kill(p)
      PROVE  FileOK'
  <2>1. file' = file /\ settled' \in {Unsettled, last}
    BY <1>2, <1>9 DEF Kill
  <2>2. QED
    BY <1>2, <1>3, <2>1, FileOKPrimed
<1>10. QED
  BY <1>5, <1>6, <1>7, <1>8, <1>9, FileKinds

-----------------------------------------------------------------------------
(* What was settled.                                                       *)

\* The steps that change who writes.
LEMMA WriterKinds ==
  ASSUME IInv, [Next]_vars
  PROVE  \/ /\ UNCHANGED <<file, settled>>
            /\ \A p \in Processes : /\ Writes(p)' <=> Writes(p)
                                    /\ Writes(p) => proc'[p].loaded = proc[p].loaded
         \/ \E p \in Processes : Truncate(p) \/ Write(p) \/ Remove(p) \/ Kill(p)
<1>1. ASSUME UNCHANGED <<file, settled, proc>>
      PROVE  /\ UNCHANGED <<file, settled>>
             /\ \A p \in Processes : /\ Writes(p)' <=> Writes(p)
                                     /\ Writes(p) => proc'[p].loaded = proc[p].loaded
  BY <1>1 DEF Writes
<1>2. ASSUME NEW p \in Processes, NEW s, proc' = [proc EXCEPT ![p] = s],
             proc[p].pc # "write", s.pc # "write", UNCHANGED <<file, settled>>
      PROVE  /\ UNCHANGED <<file, settled>>
             /\ \A q \in Processes : /\ Writes(q)' <=> Writes(q)
                                     /\ Writes(q) => proc'[q].loaded = proc[q].loaded
  <2>1. \A q \in Processes : proc'[q] = IF q = p THEN s ELSE proc[q]
    BY <1>2 DEF IInv, ProcessesOK
  <2>2. QED
    BY <1>2, <2>1 DEF Writes
<1>3. ASSUME NEW p \in Processes,
             Start(p) \/ ProcessStep(p), ~ Truncate(p), ~ Write(p), ~ Remove(p)
      PROVE  \E s : /\ proc' = [proc EXCEPT ![p] = s]
                    /\ proc[p].pc # "write" /\ s.pc # "write"
                    /\ UNCHANGED <<file, settled>>
  <2> DEFINE Moved == \E s : /\ proc' = [proc EXCEPT ![p] = s]
                             /\ proc[p].pc # "write" /\ s.pc # "write"
                             /\ UNCHANGED <<file, settled>>
  <2>1. PICK pr : pr = proc[p]
    OBVIOUS
  <2>2. pr = [pc |-> pr.pc, command |-> pr.command, typed |-> pr.typed, loaded |-> pr.loaded,
              request |-> pr.request, orphan |-> pr.orphan]
    BY <2>1 DEF IInv, ProcessesOK, ProcessOK
  <2>3. ASSUME proc[p].pc # "write", UNCHANGED <<file, settled>>, NEW s, Become(p, s),
               s.pc # "write"
        PROVE  Moved
    BY <2>3 DEF Become
  <2>4. Idle.pc # "write"
    BY DEF Idle
  <2>5. ASSUME NEW pc, pc # "write", Step(p, pc), proc[p].pc # "write", UNCHANGED <<file, settled>>
        PROVE  Moved
    <3>1. PICK s : s = [pr EXCEPT !.pc = pc]
      OBVIOUS
    <3>2. s.pc = pc
      BY <2>2, <3>1
    <3>3. Become(p, s)
      BY <2>1, <2>5, <3>1 DEF Step
    <3>4. QED
      BY <2>3, <2>5, <3>2, <3>3
  <2>6. ASSUME NEW op, NEW name, NEW password, NEW token, op # "write",
               Ask(p, op, name, password, token), proc[p].pc # "write", UNCHANGED <<file, settled>>
        PROVE  Moved
    <3>1. PICK r, typed : Become(p, [proc[p] EXCEPT !.pc = op, !.request = r, !.typed = typed])
      BY <2>6 DEF Ask
    <3>2. PICK s : s = [pr EXCEPT !.pc = op, !.request = r, !.typed = typed]
      OBVIOUS
    <3>3. s.pc = op
      BY <2>2, <3>2
    <3>4. Become(p, s)
      BY <2>1, <3>1, <3>2
    <3>5. QED
      BY <2>3, <2>6, <3>3, <3>4
  <2>7. Start(p) => Moved
    <3>1. ASSUME NEW command, Start(p),
                 Become(p, [Idle EXCEPT !.pc = "exists", !.command = command])
          PROVE  Moved
      <4>1. [Idle EXCEPT !.pc = "exists", !.command = command].pc = "exists"
        BY DEF Idle
      <4>2. QED
        BY <2>3, <3>1, <4>1 DEF Start
    <3>2. QED
      BY <3>1 DEF Start
  <2>8. LookForFile(p) => Moved
    BY <2>3, <2>4, <2>5 DEF LookForFile, Step
  <2>9. OpenFile(p) => Moved
    <3>1. ASSUME NEW loaded, OpenFile(p),
                 Become(p, [proc[p] EXCEPT !.pc = "run", !.loaded = loaded])
          PROVE  Moved
      <4>1. [proc[p] EXCEPT !.pc = "run", !.loaded = loaded].pc = "run"
        BY <2>1, <2>2
      <4>2. QED
        BY <2>3, <3>1, <4>1 DEF OpenFile
    <3>2. QED
      BY <2>3, <2>4, <3>1 DEF OpenFile
  <2>10. Run(p) => Moved
    BY <2>5, <2>6 DEF Run
  <2>11. Reopen(p) => Moved
    BY <2>3, <2>4, <2>6 DEF Reopen
  <2>12. LoginAnswered(p) => Moved
    <3>1. ASSUME LoginAnswered(p),
                 Become(p, [proc[p] EXCEPT !.pc = "truncate", !.typed = <<>>,
                              !.loaded = Login(p)])
          PROVE  Moved
      <4>1. [proc[p] EXCEPT !.pc = "truncate", !.typed = <<>>, !.loaded = Login(p)].pc = "truncate"
        BY <2>1, <2>2
      <4>2. QED
        BY <2>3, <3>1, <4>1 DEF LoginAnswered
    <3>2. QED
      BY <2>3, <2>4, <3>1 DEF LoginAnswered
  <2>13. OtherAnswered(p) \/ NoAnswer(p) => Moved
    BY <2>3, <2>4 DEF OtherAnswered, NoAnswer, Waiting
  <2>14. LogoutLooks(p) => Moved
    BY <2>3, <2>4, <2>5 DEF LogoutLooks, Step
  <2>15. QED
    BY <1>3, <2>7, <2>8, <2>9, <2>10, <2>11, <2>12, <2>13, <2>14 DEF ProcessStep
<1>4. QED
  BY <1>1, <1>2, <1>3 DEF Next, DropAnswer, ServerStep, vars

\* The file is what was settled, or is being written by the one who settles it.
LEMMA SettledStep ==
  ASSUME IInv, [Next]_vars
  PROVE  SettledOK'
<1>1. CASE /\ UNCHANGED <<file, settled>>
           /\ \A p \in Processes : /\ Writes(p)' <=> Writes(p)
                                   /\ Writes(p) => proc'[p].loaded = proc[p].loaded
  BY <1>1 DEF IInv, SettledOK, Whole, Bytes
<1>2. ASSUME NEW p \in Processes, Truncate(p)
      PROVE  SettledOK'
  <2>1. PICK old : old = proc[p]
    OBVIOUS
  <2>2. ProcessOK(old) /\ LoggedIn(old.loaded)
    BY <1>2, <2>1 DEF IInv, ProcessesOK, ProcessOK, Truncate
  <2>3. ~ old.orphan
    BY <1>2, <2>1, <2>2 DEF ProcessOK, Truncate
  <2>4. PICK s : s = [old EXCEPT !.pc = "write"]
    OBVIOUS
  <2>5. s.pc = "write" /\ ~ s.orphan /\ s.loaded = old.loaded
    BY <2>2, <2>3, <2>4 DEF ProcessOK
  <2>6. \A q \in Processes : proc'[q] = IF q = p THEN s ELSE proc[q]
    BY <1>2, <2>1, <2>4 DEF IInv, ProcessesOK, Truncate, Become
  <2>7. /\ Writes(p)' /\ proc'[p].loaded = old.loaded
        /\ \A q \in Processes \ {p} : Writes(q)' <=> Writes(q)
    BY <2>5, <2>6 DEF Writes
  <2>8. old.loaded # NoSession
    <3>1. old.loaded.token.id \in 1..lastUser /\ lastUser \in Nat
      BY <2>2 DEF LoggedIn, TokenOK, TrueOf, IInv, UsersOK
    <3>2. QED
      BY <3>1 DEF NoSession, NoToken
  <2>9. file' = Empty
    BY <1>2 DEF Truncate, Empty
  <2>10. CASE \E q \in Processes \ {p} : Writes(q)
    BY <1>2, <2>10 DEF Truncate, SettledByOne, SettledOK
  <2>11. CASE ~ \E q \in Processes \ {p} : Writes(q)
    BY <1>2, <2>1, <2>7, <2>8, <2>9, <2>11 DEF Truncate, SettledByOne, SettledOK
  <2>12. QED
    BY <2>10, <2>11
<1>3. ASSUME NEW p \in Processes, proc' = [proc EXCEPT ![p] = Idle]
      PROVE  /\ ~ Writes(p)'
             /\ \A q \in Processes \ {p} : /\ Writes(q)' <=> Writes(q)
                                           /\ proc'[q].loaded = proc[q].loaded
  <2>1. \A q \in Processes : proc'[q] = IF q = p THEN Idle ELSE proc[q]
    BY <1>3 DEF IInv, ProcessesOK
  <2>2. proc'[p].pc # "write"
    <3>1. proc'[p] = Idle
      BY <2>1
    <3>2. Idle.pc # "write"
      BY DEF Idle
    <3>3. QED
      BY <3>1, <3>2
  <2>3. \A q \in Processes \ {p} : proc'[q] = proc[q]
    BY <2>1
  <2>4. QED
    BY <2>2, <2>3 DEF Writes
<1>4. ASSUME NEW p \in Processes, Write(p)
      PROVE  SettledOK'
  <2>1. /\ proc' = [proc EXCEPT ![p] = Idle] /\ settled' = settled /\ proc[p].pc = "write"
        /\ proc[p].orphan => file' = file
    BY <1>4 DEF Write, Become
  <2>2. LoggedIn(proc[p].loaded)
    BY <2>1 DEF IInv, ProcessesOK, ProcessOK
  <2>3. CASE ~ Writes(p)
    <3>1. file' = file /\ \A q \in Processes : /\ Writes(q)' <=> Writes(q)
                                               /\ Writes(q) => proc'[q].loaded = proc[q].loaded
      BY <1>3, <2>1, <2>3 DEF Writes
    <3>2. QED
      BY <2>1, <3>1 DEF IInv, SettledOK, Whole, Bytes
  <2>4. CASE Writes(p) /\ settled # Unsettled
    <3>1. /\ file = Empty /\ proc[p].loaded = settled /\ settled # NoSession
          /\ \A q \in Processes \ {p} : ~ Writes(q)
      BY <2>4 DEF IInv, SettledOK
    <3>2. file.size <= Bytes(proc[p].loaded)
      BY <2>2, <3>1, BytesAreNat DEF Empty
    <3>3. file' = Whole(settled)
      BY <1>4, <2>4, <3>1, <3>2 DEF Write, Writes
    <3>4. Whole(settled)' = Whole(settled')
      BY DEF Whole, Bytes
    <3>5. QED
      BY <1>3, <2>1, <3>1, <3>3, <3>4 DEF SettledOK, Whole, Bytes
  <2>5. CASE settled = Unsettled
    BY <2>1, <2>5 DEF SettledOK
  <2>6. QED
    BY <2>3, <2>4, <2>5
<1>5. ASSUME NEW p \in Processes, Remove(p)
      PROVE  SettledOK'
  <2>1. ASSUME NEW q \in Processes PROVE ~ Writes(q)'
    <3>1. CASE q = p
      BY <1>5, <3>1 DEF Remove, Writes, Idle
    <3>2. CASE q # p
      <4>1. PICK old : old = proc[q]
        OBVIOUS
      <4>2. ProcessOK(old)
        BY <4>1 DEF IInv, ProcessesOK
      <4>3. PICK orphan \in BOOLEAN : orphan = (old.orphan \/ old.pc = "write")
        OBVIOUS
      <4>4. PICK s : s = [old EXCEPT !.orphan = orphan]
        OBVIOUS
      <4>5. proc'[q] = s
        BY <1>5, <3>2, <4>1, <4>3, <4>4 DEF Remove
      <4>6. s.pc = old.pc /\ s.orphan = orphan
        BY <4>2, <4>4 DEF ProcessOK
      <4>7. QED
        BY <4>3, <4>5, <4>6 DEF Writes
    <3>3. QED
      BY <3>1, <3>2
  <2>2. file' = Absent /\ settled' = NoSession
    BY <1>5 DEF Remove
  <2>3. QED
    BY <2>1, <2>2 DEF SettledOK
<1>6. ASSUME NEW p \in Processes, Kill(p)
      PROVE  SettledOK'
  <2>1. proc' = [proc EXCEPT ![p] = Idle] /\ file' = file
    BY <1>6 DEF Kill, Become
  <2>2. CASE Writes(p)
    BY <1>6, <2>2 DEF Kill, SettledOK
  <2>3. CASE ~ Writes(p)
    <3>1. /\ settled' = settled
          /\ \A q \in Processes : /\ Writes(q)' <=> Writes(q)
                                  /\ Writes(q) => proc'[q].loaded = proc[q].loaded
      BY <1>3, <1>6, <2>1, <2>3 DEF Kill
    <3>2. QED
      BY <2>1, <3>1 DEF IInv, SettledOK, Whole, Bytes
  <2>4. QED
    BY <2>2, <2>3
<1>7. QED
  BY <1>1, <1>2, <1>4, <1>5, <1>6, WriterKinds

-----------------------------------------------------------------------------
(* The invariant, and what follows from it.                                *)

LEMMA InitIInv == Init => IInv
<1> SUFFICES ASSUME Init PROVE IInv
  OBVIOUS
<1> USE DEF Init, AccountsInit
<1>1. UsersOK
  BY AccountsAssumption DEF UsersOK
<1>2. ThreadsOK
  BY DEF ThreadsOK, ThreadOK
<1>3. ProcessesOK
  BY DEF ProcessesOK, ProcessOK, AnswerOK, SessionOK, Idle, Steps, Waiting
<1>4. FileOK
  BY SessionAssumption DEF FileOK, SessionOK, Absent
<1>5. SettledOK
  BY DEF SettledOK, Writes, Idle
<1>6. QED
  BY <1>1, <1>2, <1>3, <1>4, <1>5 DEF IInv

LEMMA NextIInv == IInv /\ [Next]_vars => IInv'
BY UsersStep, ActorsStep, FileStep, SettledStep DEF IInv

\* The invariant holds in every reachable state, however many processes of a
\* user run at once and whatever fails (session.py:13-38, server.py:33-52,
\* 145-159).
THEOREM InductiveInvariant == Spec => []IInv
BY InitIInv, NextIInv, PTL DEF Spec

LEMMA IInvTypeOK == IInv => TypeOK
<1> SUFFICES ASSUME IInv PROVE TypeOK
  OBVIOUS
<1>1. lastUser \in 0..MaxAccounts /\ MaxAccounts \in Nat
  BY AccountsAssumption DEF IInv, UsersOK
<1>2. ASSUME NEW t
      PROVE  (TokenOK(t) => t \in Token) /\ (UserOK(t) => t \in Account)
  <2>1. 1..lastUser \subseteq 1..MaxAccounts
    BY <1>1
  <2>2. QED
    BY <2>1 DEF TokenOK, UserOK, TrueOf, Token, Account
<1>3. ASSUME NEW s, SessionOK(s)
      PROVE  s \in Session \cup {NoSession}
  <2>1. CASE LoggedIn(s)
    <3>1. s.token \in Token /\ s.token.name \in Names /\ s.token.password \in Passwords
      BY <1>2, <2>1 DEF LoggedIn, TokenOK, TrueOf
    <3>2. s.key \in Key
      BY <2>1, <3>1 DEF LoggedIn, Key
    <3>3. QED
      BY <2>1, <3>1, <3>2 DEF LoggedIn, Session
  <2>2. QED
    BY <1>3, <2>1 DEF SessionOK
<1>4. ASSUME NEW r \in Requests, thread[r] # NoThread
      PROVE  /\ thread[r].op \in {"register", "login", "userdel", "reply"}
             /\ thread[r].step \in {"start", "verified", "found"} \cup Replied
             /\ thread[r].token \in Token \cup {NoToken}
             /\ thread[r].op # "reply" => thread[r].user \in Account \cup {NoUser}
  <2>1. ReplyOK(thread[r]) \/ CallOK(thread[r])
    BY <1>4 DEF IInv, ThreadsOK, ThreadOK
  <2>2. QED
    BY <1>2, <2>1 DEF ReplyOK, CallOK
<1>5. AccountsTypeOK
  BY <1>1, <1>4 DEF AccountsTypeOK, IInv, UsersOK, Row
<1>6. file.session \in Session \cup {NoSession}
  BY <1>3 DEF IInv, FileOK
<1>7. settled \in Session \cup {NoSession, Unsettled}
  BY <1>3 DEF IInv, FileOK
<1>8. ASSUME NEW p \in Processes
      PROVE  /\ proc[p].pc \in Steps /\ proc[p].loaded \in Session \cup {NoSession}
             /\ proc[p].request \in Requests \cup {0}
  BY <1>3 DEF IInv, ProcessesOK, ProcessOK
<1>9. QED
  BY <1>5, <1>6, <1>7, <1>8 DEF TypeOK, IInv, FileOK

\* The token kept in each place is true of the accounts.
LEMMA TokensOK ==
  ASSUME IInv, NEW t \in Tokens
  PROVE  TokenOK(t)
<1>1. t # NoToken
  BY DEF Tokens
<1>2. ASSUME NEW r \in Requests, thread[r] # NoThread, t = thread[r].token
      PROVE  TokenOK(t)
  <2>1. ReplyOK(thread[r]) \/ CallOK(thread[r])
    BY <1>2 DEF IInv, ThreadsOK, ThreadOK
  <2>2. QED
    BY <1>1, <1>2, <2>1 DEF ReplyOK, CallOK
<1>3. ASSUME NEW s, SessionOK(s), t = s.token
      PROVE  TokenOK(t)
  BY <1>1, <1>3 DEF SessionOK, LoggedIn, NoSession
<1>4. SessionOK(file.session) /\ \A p \in Processes : SessionOK(proc[p].loaded)
  BY DEF IInv, FileOK, ProcessesOK, ProcessOK
<1>5. QED
  BY <1>2, <1>3, <1>4 DEF Tokens

LEMMA IInvSessions == IInv => SessionIsOneLogin
<1> SUFFICES ASSUME IInv PROVE SessionIsOneLogin
  OBVIOUS
<1>1. SessionOK(file.session) /\ \A p \in Processes : SessionOK(proc[p].loaded)
  BY DEF IInv, FileOK, ProcessesOK, ProcessOK
<1>2. \A s : SessionOK(s) /\ s # NoSession =>
               /\ s.username = s.token.name
               /\ s.key = DeriveKey(s.token.password, s.token.name)
  BY DEF SessionOK, LoggedIn
<1>3. QED
  BY <1>1, <1>2 DEF SessionIsOneLogin, Sessions

LEMMA IInvFile == IInv => FileIsLastLogin
BY DEF IInv, SettledOK, FileIsLastLogin

\* The types of all variables.
THEOREM TypeCorrect == Spec => []TypeOK
BY InductiveInvariant, IInvTypeOK, PTL

\* The id in a token is that of the account it was issued for or of none: no
\* account that is registered later has it, of this name or another, although a
\* login reads the account twice and the token outlives it (server.py:47-51,
\* manager.py:28-35, db.py:13-22).
THEOREM TokensNameOneAccount == Spec => []TokenNamesOneAccount
<1>1. IInv => TokenNamesOneAccount
  BY TokensOK DEF TokenNamesOneAccount, TokenOK, TrueOf
<1>2. QED
  BY <1>1, InductiveInvariant, PTL

\* A token says administrator only of an account that the operator has elevated.
THEOREM AdminsAreElevated == Spec => []AdminOnlyByOperator
<1>1. IInv => AdminOnlyByOperator
  BY TokensOK DEF AdminOnlyByOperator, TokenOK, TrueOf
<1>2. QED
  BY <1>1, InductiveInvariant, PTL

\* Token, name and key of a session come from one login: its name is the token's,
\* and its key is derived from that name and from the password which the login
\* was made with that the token answers (core.py:27-34).
THEOREM SessionsAreOneLogin == Spec => []SessionIsOneLogin
BY InductiveInvariant, IInvSessions, PTL

\* The file holds what the last login or logout left, unless a login was cut
\* off while it wrote or two overlapped (session.py:13-38).
THEOREM FileIsWhatWasSettled == Spec => []FileIsLastLogin
BY InductiveInvariant, IInvFile, PTL

\* An account disappears only by the userdel of an administrator that named it
\* and looked up this very account, although its id is read in an earlier
\* transaction than the one that deletes (server.py:149-159).
THEOREM DeletionsNameTheirTarget == Spec => DeletesWhomItNamed
<1>1. ASSUME IInv, [Next]_vars, NEW u \in users, \A v \in users' : v.born # u.born
      PROVE  \E r \in Requests : /\ At(r, "userdel", "found") /\ thread'[r].step = "ok"
                                 /\ thread[r].name = u.name /\ thread[r].user.born = u.born
                                 /\ thread[r].token.id \in elevated
  <2>1. CASE UNCHANGED table
    BY <1>1, <2>1 DEF table
  <2>2. ASSUME NEW name, Elevate(name) PROVE FALSE
    <3>1. \E v \in users' : v.born = u.born
      <4>1. PICK v : v = IF u.name = name THEN [u EXCEPT !.role = "admin"] ELSE u
        OBVIOUS
      <4>2. v \in users'
        BY <2>2, <4>1, <1>1 DEF Elevate
      <4>3. u \in Row
        BY <1>1 DEF IInv, UsersOK
      <4>4. v.born = u.born
        BY <4>1, <4>3 DEF Row
      <4>5. QED
        BY <4>2, <4>4
    <3>2. QED
      BY <1>1, <3>1
  <2>3. ASSUME NEW r \in Requests, Register(r) PROVE FALSE
    BY <1>1, <2>3 DEF Register, AddUser
  <2>4. ASSUME NEW r \in Requests, DeleteAccount(r)
        PROVE  /\ At(r, "userdel", "found") /\ thread'[r].step = "ok"
               /\ thread[r].name = u.name /\ thread[r].user.born = u.born
               /\ thread[r].token.id \in elevated
    <3>1. At(r, "userdel", "found") /\ CallOK(thread[r])
      BY <1>1, <2>4 DEF DeleteAccount, At, IInv, ThreadsOK, ThreadOK, ReplyOK, NoThread
    <3>2. UserOK(thread[r].user) /\ thread[r].user.name = thread[r].name
      BY <3>1 DEF CallOK, At
    <3>3. u.id = thread[r].user.id
      BY <1>1, <2>4 DEF DeleteAccount
    <3>4. thread[r].name = u.name /\ thread[r].user.born = u.born
      BY <1>1, <3>2, <3>3 DEF UserOK, TrueOf
    <3>5. thread[r].token.id \in elevated
      BY <3>1 DEF CallOK, At, TokenOK, TrueOf
    <3>6. thread'[r].step = "ok"
      BY <1>1, <2>4 DEF DeleteAccount, Reply, Update, ReplyOf, IInv, ThreadsOK
    <3>7. QED
      BY <3>1, <3>4, <3>5, <3>6
  <2>5. QED
    BY <1>1, <2>1, <2>2, <2>3, <2>4, StepKinds
<1>2. UNCHANGED vars => UNCHANGED accountVars
  BY DEF vars
<1>3. IInv /\ [Next]_vars =>
        [\A u \in users : (\A v \in users' : v.born # u.born) =>
           \E r \in Requests : /\ At(r, "userdel", "found") /\ thread'[r].step = "ok"
                               /\ thread[r].name = u.name /\ thread[r].user.born = u.born
                               /\ thread[r].token.id \in elevated]_accountVars
  BY <1>1
<1>4. QED
  BY <1>3, InductiveInvariant, PTL DEF Spec, DeletesWhomItNamed

=============================================================================
