----------------------------- MODULE FileStore ------------------------------
(***************************************************************************)
(* The file operations of the client (client/core.py, http_client.py,      *)
(* transfer.py) against the metadata server (Metadata) and the blocks on   *)
(* the storage nodes.  Several clients run commands concurrently; a        *)
(* command is a sequence of HTTP requests and block transfers, so the      *)
(* commands interleave with each other and with the transactions of the    *)
(* handlers they have called.                                              *)
(*                                                                         *)
(* The upload of one chunk is one step here, with the outcomes that        *)
(* ReplicatedWrite allows (Pipeline implements it): success means that all *)
(* three replicas hold the chunk, failure that none, some or all of them   *)
(* do, or will.  Nobody looks at the blocks of a failed upload, so when    *)
(* they appear makes no difference.                                        *)
(***************************************************************************)
EXTENDS Metadata

CONSTANTS Clients,      \* running CLI processes, one after another
          UserOf,       \* the user each is logged in as
          PathsOf,      \* the remote paths its commands name
          Chunks,       \* chunk indexes of an uploaded file
          Commands,     \* the kinds of command each client runs
          MaxCommands,  \* bound on the commands each client starts
          Faults        \* the kinds of failure that happen

ASSUME FileStoreAssumption ==
  /\ Requests \subseteq Clients \X Nat
  /\ UserOf \in [Clients -> Users] /\ PathsOf \in [Clients -> SUBSET Paths]
  /\ Chunks \subseteq Nat /\ Chunks # {} /\ IsFiniteSet(Chunks)
  /\ Commands \in
       [Clients -> SUBSET {"upload", "remove", "download", "mkdir", "quota", "userdel"}]
  /\ MaxCommands \in [Clients -> Nat]
  /\ Faults \subseteq {"timeout", "client", "server", "refuse", "transfer", "erase", "prompt"}

VARIABLES
  client,     \* what each client is doing
  onAll,      \* chunks <<file_id, index>> complete on their three replicas
  onSome,     \* chunks of which at least one node has a block
  erasing,    \* chunks whose erasure was sent and is not yet done everywhere
  confirmed,  \* history: ids of the files whose upload reported success
  started     \* number of commands each client has started

blockVars == <<onAll, onSome, erasing>>
vars == <<metaVars, client, blockVars, confirmed, started>>

NoRequest == <<>>

\* A client between two commands.
Idle == [pc |-> "idle", path |-> <<>>, request |-> NoRequest, file |-> 0, left |-> {}]

\* Where a client waits for an answer, and where it works through its chunks.
Waiting == {"list", "overwrite", "plan", "complete", "rm", "download", "mkdir",
            "quota", "userdel"}
Working == {"transfer", "purgeOld", "purge"}

TypeOK ==
  /\ MetaTypeOK
  /\ \A c \in Clients :
       /\ client[c].pc \in {"idle"} \cup Waiting \cup Working
       /\ client[c].request \in Requests \cup {NoRequest}
       /\ client[c].left \subseteq (1..lastId) \X Chunks
  /\ onAll \subseteq onSome /\ onSome \subseteq (1..lastId) \X Chunks
  /\ erasing \subseteq (1..lastId) \X Chunks
  /\ confirmed \subseteq 1..lastId
  /\ \A c \in Clients : started[c] \in 0..MaxCommands[c]

Init ==
  /\ MetaInit
  /\ client = [c \in Clients |-> Idle]
  /\ onAll = {} /\ onSome = {} /\ erasing = {} /\ confirmed = {}
  /\ started = [c \in Clients |-> 0]

-----------------------------------------------------------------------------
(* Requests and answers.                                                   *)

Become(c, state) == client' = [client EXCEPT ![c] = state]

\* Client c issues request op and waits at pc; done, if any, is the request
\* whose answer it has just read.
Ask(c, done, pc, op, path, file, todo) ==
  \E r \in Requests :
    /\ r[1] = c
    /\ thread[r] = NoThread \/ r = done
    /\ \A q \in Requests : q[1] = c /\ q[2] < r[2] => thread[q] # NoThread /\ q # done
    /\ thread' = [q \in Requests |->
                    IF q = r THEN Request(op, UserOf[c], path, file, todo)
                    ELSE IF q = done THEN NoThread ELSE thread[q]]
    /\ Become(c, [client[c] EXCEPT !.pc = pc, !.path = path, !.request = r])

\* Requests that name no file.
AskQuota(c) == Ask(c, NoRequest, "quota", "quota", <<>>, 0, {})
AskUserdel(c, user) == Ask(c, NoRequest, "userdel", "userdel", <<>>, user, {})

AskPlan(c, done) == Ask(c, done, "plan", "plan", client[c].path, 0, Chunks)

\* The answer to the request of client c, and reading it.
Answered(c) == /\ client[c].pc \in Waiting
               /\ thread[client[c].request] # NoThread
               /\ thread[client[c].request].step \in Replied
Answer(c) == thread[client[c].request]
Read(c) == thread' = [thread EXCEPT ![client[c].request] = NoThread]

Purge(c, pc) == Become(c, [client[c] EXCEPT !.pc = pc, !.request = NoRequest,
                                            !.left = Answer(c).targets])

-----------------------------------------------------------------------------
(* Commands (core.py).                                                     *)

\* A user runs a command; for an upload the first request is the listing.
Start(c) ==
  /\ client[c] = Idle
  /\ started[c] < MaxCommands[c]
  /\ started' = [started EXCEPT ![c] = @ + 1]
  /\ \/ \E path \in PathsOf[c] :
          \/ "upload"   \in Commands[c] /\ Ask(c, NoRequest, "list", "list", path, 0, {})
          \/ "remove"   \in Commands[c] /\ Ask(c, NoRequest, "rm", "remove", path, 0, {})
          \/ "download" \in Commands[c] /\ Ask(c, NoRequest, "download", "download", path, 0, {})
          \/ "mkdir"    \in Commands[c] /\ Ask(c, NoRequest, "mkdir", "mkdir", path, 0, {})
     \/ "quota" \in Commands[c] /\ AskQuota(c)
     \/ \E user \in Users :
          "userdel" \in Commands[c] /\ UserOf[c] \in Admins /\ AskUserdel(c, user)
  /\ UNCHANGED <<tables, blockVars, confirmed>>

\* Mutant of ListAnswered: the file is uploaded next to the old one.
ListAnsweredIgnored(c) ==
  /\ client[c].pc = "list" /\ Answered(c)
  /\ AskPlan(c, client[c].request)
  /\ UNCHANGED <<tables, blockVars, confirmed, started>>

\* The file is listed: the user declines, or agrees to overwrite it, which
\* first removes the old one, or cannot be asked: without a terminal input()
\* raises, which is swallowed like all that goes wrong in the listing.  Then,
\* or if the file is not listed, the upload goes on.
ListAnswered(c) ==
  /\ client[c].pc = "list" /\ Answered(c)
  /\ \/ Answer(c).step = "ok" /\ Read(c) /\ Become(c, Idle)
     \/ /\ Answer(c).step = "ok"
        /\ Ask(c, client[c].request, "overwrite", "remove", FullPath(client[c].path), 0, {})
     \/ /\ Answer(c).step # "ok" \/ "prompt" \in Faults
        /\ AskPlan(c, client[c].request)
  /\ UNCHANGED <<tables, blockVars, confirmed, started>>

\* Whatever goes wrong in the removal is swallowed ("except Exception: pass").
OverwriteAnswered(c) ==
  /\ client[c].pc = "overwrite" /\ Answered(c)
  /\ IF Answer(c).step = "ok" THEN Read(c) /\ Purge(c, "purgeOld")
                              ELSE AskPlan(c, client[c].request)
  /\ UNCHANGED <<tables, blockVars, confirmed, started>>

PlanAnswered(c) ==
  /\ client[c].pc = "plan" /\ Answered(c)
  /\ Read(c)
  /\ Become(c, IF Answer(c).step # "ok" THEN Idle
               ELSE [client[c] EXCEPT !.pc = "transfer", !.request = NoRequest,
                       !.file = Answer(c).file, !.left = {Answer(c).file} \X Chunks])
  /\ UNCHANGED <<tables, blockVars, confirmed, started>>

\* upload_file_chunks: the next chunk of the plan goes through its pipeline.
NextChunk(c) ==
  CHOOSE chunk \in client[c].left : \A other \in client[c].left : chunk[2] <= other[2]

Transfer(c) ==
  /\ client[c].pc = "transfer" /\ client[c].left # {}
  /\ onAll' = onAll \cup {NextChunk(c)} /\ onSome' = onSome \cup {NextChunk(c)}
  /\ Become(c, [client[c] EXCEPT !.left = @ \ {NextChunk(c)}])
  /\ UNCHANGED <<metaVars, erasing, confirmed, started>>

\* A chunk fails, which raises: the chunks before it stay where they are, and
\* this one is on none, some or all of its replicas.
TransferFails(c) ==
  /\ "transfer" \in Faults
  /\ client[c].pc = "transfer" /\ client[c].left # {}
  /\ \/ UNCHANGED <<onAll, onSome>>
     \/ UNCHANGED onAll /\ onSome' = onSome \cup {NextChunk(c)}
     \/ onAll' = onAll \cup {NextChunk(c)} /\ onSome' = onSome \cup {NextChunk(c)}
  /\ Become(c, Idle)
  /\ UNCHANGED <<metaVars, erasing, confirmed, started>>

\* Mutant of AskComplete: the chunks are registered before they are sent.
AskCompleteEarly(c) ==
  /\ client[c].pc = "transfer"
  /\ Ask(c, NoRequest, "complete", "complete", client[c].path, client[c].file, Chunks)
  /\ UNCHANGED <<tables, blockVars, confirmed, started>>

AskComplete(c) ==
  /\ client[c].pc = "transfer" /\ client[c].left = {}
  /\ Ask(c, NoRequest, "complete", "complete", client[c].path, client[c].file, Chunks)
  /\ UNCHANGED <<tables, blockVars, confirmed, started>>

CompleteAnswered(c) ==
  /\ client[c].pc = "complete" /\ Answered(c)
  /\ confirmed' = IF Answer(c).step = "ok" THEN confirmed \cup {client[c].file} ELSE confirmed
  /\ Read(c) /\ Become(c, Idle)
  /\ UNCHANGED <<tables, blockVars, started>>

\* Mutant of RemoveAnswered: the erasures are not sent.
RemoveAnsweredOnly(c) ==
  /\ client[c].pc \in {"rm", "userdel"} /\ Answered(c)
  /\ Read(c)
  /\ Become(c, Idle)
  /\ UNCHANGED <<tables, blockVars, confirmed, started>>

\* rm and userdel go on to erase the blocks.
RemoveAnswered(c) ==
  /\ client[c].pc \in {"rm", "userdel"} /\ Answered(c)
  /\ Read(c)
  /\ IF Answer(c).step = "ok" THEN Purge(c, "purge") ELSE Become(c, Idle)
  /\ UNCHANGED <<tables, blockVars, confirmed, started>>

\* A download fetches the chunks of the answer (module Download); mkdir and
\* quota are done.
OtherAnswered(c) ==
  /\ client[c].pc \in {"download", "mkdir", "quota"} /\ Answered(c)
  /\ Read(c) /\ Become(c, Idle)
  /\ UNCHANGED <<tables, blockVars, confirmed, started>>

\* purge_physical_chunks: the three erasures of a chunk are sent, and nobody
\* waits for them or asks how they ended.
Erase(c) ==
  /\ client[c].pc \in {"purge", "purgeOld"}
  /\ \E chunk \in client[c].left :
       /\ erasing' = erasing \cup {chunk} \/ ("erase" \in Faults /\ UNCHANGED erasing)
       /\ Become(c, [client[c] EXCEPT !.left = @ \ {chunk}])
  /\ UNCHANGED <<metaVars, onAll, onSome, confirmed, started>>

\* handle_delete in a thread of each node: one of the replicas goes, and in the
\* end the last one; a node that was down or slow keeps its block.
Unlink(chunk) ==
  /\ chunk \in erasing
  /\ onAll' = onAll \ {chunk}
  /\ \/ chunk \in onAll /\ UNCHANGED <<onSome, erasing>>
     \/ /\ chunk \notin onAll /\ erasing' = erasing \ {chunk}
        /\ onSome' = onSome \ {chunk} \/ ("erase" \in Faults /\ UNCHANGED onSome)
  /\ UNCHANGED <<metaVars, client, confirmed, started>>

\* Mutant of Purged: after the purge of an overwrite nothing follows.
PurgedForRm(c) ==
  /\ client[c].pc = "purge" /\ client[c].left = {}
  /\ Become(c, Idle)
  /\ UNCHANGED <<metaVars, blockVars, confirmed, started>>

Purged(c) ==
  /\ client[c].pc \in {"purge", "purgeOld"} /\ client[c].left = {}
  /\ IF client[c].pc = "purgeOld" THEN AskPlan(c, NoRequest)
                                  ELSE Become(c, Idle) /\ UNCHANGED thread
  /\ UNCHANGED <<tables, blockVars, confirmed, started>>

-----------------------------------------------------------------------------
(* Failures.                                                               *)

\* No answer within request_timeout, or the connection is gone because the
\* server was restarted: an exception.  A handler that is running goes on.
NoAnswer(c) ==
  /\ client[c].pc \in Waiting
  /\ "timeout" \in Faults \/ thread[client[c].request] = NoThread
  /\ IF client[c].pc \in {"list", "overwrite"} THEN AskPlan(c, NoRequest)
                                               ELSE Become(c, Idle) /\ UNCHANGED thread
  /\ UNCHANGED <<tables, blockVars, confirmed, started>>

\* The process is killed; the next command starts a new one.
ClientDies(c) ==
  /\ "client" \in Faults
  /\ client[c] # Idle
  /\ Become(c, Idle)
  /\ UNCHANGED <<metaVars, blockVars, confirmed, started>>

\* The answer to a request nobody waits for any more is thrown away.
DropAnswer(r) ==
  /\ thread[r] # NoThread /\ thread[r].step \in Replied
  /\ \A c \in Clients : client[c].request # r
  /\ Update(r, NoThread)
  /\ UNCHANGED <<tables, client, blockVars, confirmed, started>>

ServerStep(r) ==
  /\ Handle(r) \/ ("refuse" \in Faults /\ Refuse(r))
  /\ UNCHANGED <<client, blockVars, confirmed, started>>

ServerRestarts ==
  /\ "server" \in Faults
  /\ RestartServer
  /\ UNCHANGED <<client, blockVars, confirmed, started>>

ClientStep(c) ==
  \/ ListAnswered(c) \/ OverwriteAnswered(c) \/ PlanAnswered(c)
  \/ Transfer(c) \/ TransferFails(c) \/ AskComplete(c) \/ CompleteAnswered(c)
  \/ RemoveAnswered(c) \/ OtherAnswered(c) \/ Erase(c) \/ Purged(c) \/ NoAnswer(c)

Next ==
  \/ \E c \in Clients : Start(c) \/ ClientStep(c) \/ ClientDies(c)
  \/ \E r \in Requests : ServerStep(r) \/ DropAnswer(r)
  \/ ServerRestarts
  \/ \E chunk \in erasing : Unlink(chunk)

Spec == Init /\ [][Next]_vars

\* Commands go on: a client runs, its timeouts fire, the server answers, the
\* nodes erase.
FairSpec == /\ Spec
            /\ \A c \in Clients : WF_vars(ClientStep(c))
            /\ \A r \in Requests : WF_vars(ServerStep(r)) /\ WF_vars(DropAnswer(r))
            /\ WF_vars(\E chunk \in erasing : Unlink(chunk))

-----------------------------------------------------------------------------
(* Safety, whatever fails and whoever interleaves.                         *)

\* Every chunk that is registered for an existing file is complete on its
\* three replicas: the rows are written only after all the transfers, and the
\* erasures are sent only for files whose row is gone for good (core.py:74-77
\* and 101-102, server.py:101-102 and 156-159; ids are AUTOINCREMENT).
RegisteredIsStored ==
  \A f \in files : ChunksOf(f.id) \subseteq onAll

\* A file whose upload reported success keeps all of its chunks until its row
\* is deleted: a download of it can neither be short nor miss a block, no
\* matter which other commands were started, abandoned or repeated.
ConfirmedSurvives ==
  \A f \in files : f.id \in confirmed => ChunksOf(f.id) = {f.id} \X Chunks

\* A row of files disappears only through a handler that works for its owner
\* or for an administrator, although the permission is checked in an earlier
\* transaction than the deletion (server.py:95-102, 145-159).
OnlyPermittedRemovals ==
  [][\A f \in files : f \in files' \/
       \E r \in Requests : thread[r].op \in {"remove", "userdel"}
                             /\ MayUse(thread[r].user, f) /\ thread'[r].step = "ok"]_vars

\* What clients, handlers and blocks do together is the life of files that
\* FileLife describes, of which the three properties above but the last are
\* consequences: an id names one file for ever, chunks are stored before they
\* are registered and registered in order, blocks are erased only for files
\* that are gone for good (core.py:41-103, db.py:95-173).
Life == INSTANCE FileLife WITH live <- {f.id : f \in files},
                               registered <- chunkRows, stored <- onAll
ImplementsFileLife == Life!Spec

-----------------------------------------------------------------------------
(* Without failures, and when no two clients name the same path and all    *)
(* spell it from the root.                                                 *)

Quiet == erasing = {} /\ \A c \in Clients : client[c] = Idle

\* When nobody is doing anything any more, every block on a storage node belongs to a
\* registered file: overwriting and removing leave no ghost blocks.
QuietMeansNoGhosts ==
  Quiet => \A chunk \in onSome : \E f \in files : f.id = chunk[1] /\ chunk \in chunkRows

\* A path names at most one file: an upload plans a new row only after the
\* old one is gone (core.py:48-68).
OnePathOneFile == \A f, g \in files : f.path = g.path => f = g

\* A user's quota is what is stored for that user when nothing is in progress:
\* it is computed from what uploads declared at their start, in rows that
\* exist before and without the blocks (db.py:175-180, manager.py:52).
QuotaIsStored ==
  Quiet => \A user \in Users :
    Quota(user) = Cardinality({c \in onSome : \E f \in files : f.id = c[1] /\ f.owner = user})

\* A listing has one entry for each name of its directory, however deep the
\* rows below it are (db.py:147-166).
ListingIsFaithful ==
  \A user \in Users : \A path \in Paths : \A n \in 1..Len(path) :
    LET dir == SubSeq(path, 1, n)
    IN  IsListing(ListFilesInDir(Visible(user), dir), Visible(user), dir)

\* While an upload transfers and completes, the row it planned is there.
UploadKeepsItsFile ==
  \A c \in Clients : client[c].pc \in {"transfer", "complete"} =>
    \E f \in files : f.id = client[c].file

\* Every command ends, with whatever result.
CommandEnds == \A c \in Clients : client[c] # Idle ~> client[c] = Idle

-----------------------------------------------------------------------------
(* What the documentation says and the code does not do.                   *)

\* latex/03-design.tex:158: standard users' queries are bound to their own
\* files, so another tenant's file of the same name does not hide theirs.
OwnFileIsFound ==
  [][\A r \in Requests :
       thread[r].op \in {"download", "remove"} /\ thread[r].step = "start"
         /\ thread'[r].op = thread[r].op /\ thread'[r].step = "missing"
       => ~\E f \in Named(FullPath(thread[r].path)) : f.owner = thread[r].user]_vars

\* latex/04-implementation.tex:86: the purge scrubs obsolete entries before the
\* new plan is fetched, so it never removes the file that is being uploaded
\* (for a client that is alone and only uploads).
PurgeSparesNewFile == UploadKeepsItsFile

=============================================================================
