------------------------------- MODULE Session -------------------------------
(***************************************************************************)
(* The client's side of a login: session.json (client/session.py), what    *)
(* AdriaClient and the CLI do with it (client/core.py, client/cli.py), and *)
(* the requests to Accounts.                                               *)
(*                                                                         *)
(* Every command is a process of its own that reads the file when it       *)
(* starts.  The processes of one user share a home directory, and nothing  *)
(* locks the file: looking whether it exists and opening it are two system *)
(* calls, so are truncating and writing it, and a process may be killed    *)
(* between any two.  Opening and reading it are one step, which leaves out *)
(* that a process still reads a file that is removed between the two.      *)
(***************************************************************************)
EXTENDS Accounts

CONSTANTS Processes,  \* commands that can run at the same time
          CommandsOf, \* the commands each of them runs
          MaxCommands, \* bound on the commands started in each slot
          Elevatable, \* names the operator may make administrators
          Length,     \* bytes a name adds to a session record
          SaltOf,     \* the first 16 bytes of each name
          Faults      \* the kinds of failure that happen

ASSUME SessionAssumption ==
  /\ Requests \subseteq Nat /\ Elevatable \subseteq Names
  /\ CommandsOf \in [Processes -> SUBSET {"register", "login", "logout", "userdel"}]
  /\ MaxCommands \in [Processes -> Nat]
  /\ Length \in [Names -> Nat \ {0}] /\ SaltOf = [name \in Names |-> SaltOf[name]]
  /\ Faults \subseteq {"kill", "timeout", "refuse", "server"}

VARIABLES
  file,     \* session.json
  proc,     \* what each process is doing
  started,  \* number of commands each process slot has started
  settled   \* history: what the last completed login or logout left, or Unsettled

vars == <<accountVars, file, proc, started, settled>>

NoSession == [token |-> NoToken]
Unsettled == [token |-> [id |-> -1]]  \* a login was cut off, or two overlapped

\* derive_key(password, username): PBKDF2 salted with the first 16 bytes of the
\* name, so names that begin alike give the same key for a password.
DeriveKey(password, name) == <<password, SaltOf[name]>>
Key == {DeriveKey(password, name) : password \in Passwords, name \in Names}
Session == [token : Token, username : Names, key : Key]

\* The bytes of a session as json.dump writes it; the role is in the token.
Bytes(session) ==
  Length[session.username] + (IF session.token.role = "admin" THEN 1 ELSE 0)

\* The file: whether it has its name, how long it is, and what json.load makes
\* of it, NoSession standing for a JSONDecodeError.
Absent == [exists |-> FALSE, size |-> 0, session |-> NoSession]
Whole(session) == [exists |-> TRUE, size |-> Bytes(session), session |-> session]

\* A process that runs nothing.  typed is the password and name of a login,
\* loaded the session it has read or made, orphan whether the file it is
\* writing has lost its name.
Idle == [pc |-> "idle", command |-> "", typed |-> <<>>, loaded |-> NoSession,
         request |-> 0, orphan |-> FALSE]

Steps == {"idle", "exists", "open", "run", "login", "truncate", "write",
          "logout", "remove", "register", "recheck", "reopen", "userdel"}

TypeOK ==
  /\ AccountsTypeOK
  /\ file.exists \in BOOLEAN /\ file.size \in Nat
  /\ file.session \in Session \cup {NoSession}
  /\ \A p \in Processes : /\ proc[p].pc \in Steps
                          /\ proc[p].loaded \in Session \cup {NoSession}
                          /\ proc[p].request \in Requests \cup {0}
  /\ \A p \in Processes : started[p] \in 0..MaxCommands[p]
  /\ settled \in Session \cup {NoSession, Unsettled}

Init ==
  /\ AccountsInit
  /\ file = Absent /\ settled = NoSession
  /\ proc = [p \in Processes |-> Idle]
  /\ started = [p \in Processes |-> 0]

Become(p, state) == proc' = [proc EXCEPT ![p] = state]
Step(p, step) == Become(p, [proc[p] EXCEPT !.pc = step])

-----------------------------------------------------------------------------
(* Starting: AdriaClient.__init__ loads the session.                       *)

Start(p) ==
  /\ proc[p].pc = "idle"
  /\ started[p] < MaxCommands[p]
  /\ started' = [started EXCEPT ![p] = @ + 1]
  /\ \E command \in CommandsOf[p] :
       Become(p, [Idle EXCEPT !.pc = "exists", !.command = command])
  /\ UNCHANGED <<accountVars, file, settled>>

\* os.path.exists at the start, and again when the CLI asks who is logged in.
LookForFile(p) ==
  /\ \/ proc[p].pc = "exists"  /\ Step(p, IF file.exists THEN "open" ELSE "run")
     \/ proc[p].pc = "recheck" /\ Become(p, IF file.exists
                                            THEN [proc[p] EXCEPT !.pc = "reopen"] ELSE Idle)
  /\ UNCHANGED <<accountVars, file, started, settled>>

\* open and json.load.  A file that does not parse counts as no session; one
\* that has gone since exists was asked raises, which ends the process.  Only
\* userdel uses what was loaded: the other commands replace or forget it.
OpenFile(p) ==
  /\ proc[p].pc = "open"
  /\ Become(p, IF ~file.exists THEN Idle
               ELSE [proc[p] EXCEPT !.pc = "run",
                       !.loaded = IF proc[p].command = "userdel" THEN file.session ELSE NoSession])
  /\ UNCHANGED <<accountVars, file, started, settled>>

-----------------------------------------------------------------------------
(* Commands.                                                               *)

Waiting == {"register", "login", "userdel"}
WaitsFor(p, r) == proc[p].pc \in Waiting /\ proc[p].request = r
Free(r) == thread[r] = NoThread /\ \A p \in Processes : ~WaitsFor(p, r)

\* A request in the name of an account, or about one.
Ask(p, op, name, password, token) ==
  \E r \in Requests :
    /\ Free(r) /\ \A q \in Requests : Free(q) => r <= q
    /\ Update(r, Request(op, name, password, token))
    /\ Become(p, [proc[p] EXCEPT !.pc = op, !.request = r,
                                  !.typed = IF op = "login" THEN <<password, name>> ELSE <<>>])

\* The command is dispatched; userdel first reads the file again (_is_admin).
Run(p) ==
  /\ proc[p].pc = "run"
  /\ \/ /\ proc[p].command \in {"register", "login"}
        /\ \E name \in Names, password \in Passwords :
             Ask(p, proc[p].command, name, password, NoToken)
     \/ proc[p].command = "logout"  /\ Step(p, "logout")  /\ UNCHANGED thread
     \/ proc[p].command = "userdel" /\ Step(p, "recheck") /\ UNCHANGED thread
  /\ UNCHANGED <<table, file, started, settled>>

\* _is_admin believes the role in the file now, and the request carries the
\* token that was loaded at the start.
Reopen(p) ==
  /\ proc[p].pc = "reopen"
  /\ IF /\ file.exists /\ file.session # NoSession /\ file.session.token.role = "admin"
        /\ proc[p].loaded # NoSession
     THEN \E name \in Names, password \in Passwords :
            Ask(p, "userdel", name, password, proc[p].loaded.token)
     ELSE Become(p, Idle) /\ UNCHANGED thread
  /\ UNCHANGED <<table, file, started, settled>>

Answered(p) == /\ proc[p].pc \in Waiting
               /\ thread[proc[p].request] # NoThread
               /\ thread[proc[p].request].step \in Replied
Answer(p) == thread[proc[p].request]
Read(p) == Update(proc[p].request, NoThread)

\* Mutant of Login: a key that is in the file is not derived again.
LoginKeepingKey(p) ==
  [token    |-> Answer(p).token,
   username |-> proc[p].typed[2],
   key      |-> IF file.session # NoSession THEN file.session.key
                ELSE DeriveKey(proc[p].typed[1], proc[p].typed[2])]

\* The session of an answered login.
Login(p) == [token    |-> Answer(p).token,
             username |-> proc[p].typed[2],
             key      |-> DeriveKey(proc[p].typed[1], proc[p].typed[2])]

\* login keeps the token of the answer and derives the key from the password.
LoginAnswered(p) ==
  /\ proc[p].pc = "login" /\ Answered(p)
  /\ Read(p)
  /\ Become(p, IF Answer(p).step # "ok" THEN Idle
               ELSE [proc[p] EXCEPT !.pc = "truncate", !.typed = <<>>,
                       !.loaded = Login(p)])
  /\ UNCHANGED <<table, file, started, settled>>

OtherAnswered(p) ==
  /\ proc[p].pc \in {"register", "userdel"} /\ Answered(p)
  /\ Read(p) /\ Become(p, Idle)
  /\ UNCHANGED <<table, file, started, settled>>

Writes(p) == proc[p].pc = "write" /\ ~proc[p].orphan
SettledByOne(p, session) ==
  settled' = IF \E q \in Processes \ {p} : Writes(q) THEN Unsettled ELSE session

\* Mutant of Truncate: the file is opened without truncating it.
TruncateNothing(p) ==
  /\ proc[p].pc = "truncate"
  /\ file' = [file EXCEPT !.exists = TRUE]
  /\ SettledByOne(p, proc[p].loaded)
  /\ Become(p, [proc[p] EXCEPT !.pc = "write"])
  /\ UNCHANGED <<accountVars, started>>

\* open(session_file, "w") creates or empties the file...
Truncate(p) ==
  /\ proc[p].pc = "truncate"
  /\ file' = [exists |-> TRUE, size |-> 0, session |-> NoSession]
  /\ SettledByOne(p, proc[p].loaded)
  /\ Become(p, [proc[p] EXCEPT !.pc = "write"])
  /\ UNCHANGED <<accountVars, started>>

\* ... and closing it writes the record from the start of the file: over
\* whatever another process has written there meanwhile, or nowhere if the
\* file has been removed.
Write(p) ==
  /\ proc[p].pc = "write"
  /\ LET session == proc[p].loaded
     IN  file' = IF proc[p].orphan THEN file
                 ELSE IF file.size <= Bytes(session) THEN Whole(session)
                 ELSE [file EXCEPT !.session = NoSession]
  /\ Become(p, Idle)
  /\ UNCHANGED <<accountVars, started, settled>>

LogoutLooks(p) ==
  /\ proc[p].pc = "logout"
  /\ Become(p, IF file.exists THEN [proc[p] EXCEPT !.pc = "remove"] ELSE Idle)
  /\ UNCHANGED <<accountVars, file, started, settled>>

\* os.remove raises if the file has gone meanwhile; the CLI prints that.
Remove(p) ==
  /\ proc[p].pc = "remove"
  /\ file' = Absent
  /\ settled' = NoSession
  /\ proc' = [q \in Processes |-> IF q = p THEN Idle ELSE
                [proc[q] EXCEPT !.orphan = @ \/ proc[q].pc = "write"]]
  /\ UNCHANGED <<accountVars, started>>

-----------------------------------------------------------------------------
(* Failures.                                                               *)

\* No answer within request_timeout, or the server is gone.
NoAnswer(p) ==
  /\ proc[p].pc \in Waiting
  /\ "timeout" \in Faults \/ thread[proc[p].request] = NoThread
  /\ Become(p, Idle)
  /\ UNCHANGED <<accountVars, file, started, settled>>

Kill(p) ==
  /\ "kill" \in Faults
  /\ proc[p].pc # "idle"
  /\ Become(p, Idle)
  /\ settled' = IF Writes(p) THEN Unsettled ELSE settled
  /\ UNCHANGED <<accountVars, file, started>>

DropAnswer(r) ==
  /\ thread[r] # NoThread /\ thread[r].step \in Replied
  /\ \A p \in Processes : ~WaitsFor(p, r)
  /\ Update(r, NoThread)
  /\ UNCHANGED <<table, file, proc, started, settled>>

ServerStep ==
  /\ \/ \E r \in Requests : Handle(r) \/ ("refuse" \in Faults /\ Refuse(r))
     \/ \E name \in Elevatable : Elevate(name)
     \/ "server" \in Faults /\ RestartServer
  /\ UNCHANGED <<file, proc, started, settled>>

ProcessStep(p) ==
  \/ LookForFile(p) \/ OpenFile(p) \/ Run(p) \/ Reopen(p)
  \/ LoginAnswered(p) \/ OtherAnswered(p) \/ Truncate(p) \/ Write(p)
  \/ LogoutLooks(p) \/ Remove(p) \/ NoAnswer(p)

Next ==
  \/ \E p \in Processes : Start(p) \/ ProcessStep(p) \/ Kill(p)
  \/ \E r \in Requests : DropAnswer(r)
  \/ ServerStep

Spec == Init /\ [][Next]_vars

-----------------------------------------------------------------------------

\* The tokens that are kept anywhere: in an answer, a process or the file.
Tokens == {t \in {thread[r].token : r \in {q \in Requests : thread[q] # NoThread}}
                  \cup {proc[p].loaded.token : p \in Processes}
                  \cup {file.session.token} : t # NoToken}

\* A token names, by its id, the account that it was issued for and none that
\* is registered later, be it under the same name, and says its name: although
\* the login reads the account twice while accounts are deleted and registered,
\* and although the token outlives the account (server.py:47-51, manager.py:28-35,
\* db.py:13-22).  The files of an account hang on that id alone.
TokenNamesOneAccount ==
  \A t \in Tokens : \A u \in users : u.id = t.id => u.born = t.born /\ u.name = t.name

\* A token that says administrator was issued for an account the operator had
\* elevated by then, never to one that has only inherited its name.
AdminOnlyByOperator == \A t \in Tokens : t.role = "admin" => t.id \in elevated

\* The session a process works with, and the one in the file, are those of one
\* login: the name is the one in the token, and the key is derived from that name
\* and from the password with which the login was made that the token answers,
\* whichever processes logged in, logged out or were killed at the same time
\* (core.py:27-34, session.py:13-31).
Sessions == ({file.session} \cup {proc[p].loaded : p \in Processes}) \ {NoSession}
SessionIsOneLogin ==
  \A session \in Sessions :
    /\ session.username = session.token.name
    /\ session.key = DeriveKey(session.token.password, session.token.name)

\* The file holds what the last login wrote, or is absent after the last
\* logout, unless a login was killed between truncating and writing it or two
\* logins overlapped there (session.py:13-38).
FileIsLastLogin ==
  settled # Unsettled /\ (\A p \in Processes : ~Writes(p))
    => file = IF settled = NoSession THEN Absent ELSE Whole(settled)

-----------------------------------------------------------------------------
(* What the documentation says and the code does not do.                   *)

\* latex/04-implementation.tex:34-36: the server validates the password of a
\* user and upon validation issues a token with that user's id; so a session's
\* key is derived from the password of the account its token is of.
KeyFitsAccount ==
  \A session \in Sessions : \A u \in users :
    u.id = session.token.id => session.key = DeriveKey(u.password, u.name)

=============================================================================
