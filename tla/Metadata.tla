------------------------------ MODULE Metadata ------------------------------
(***************************************************************************)
(* The metadata server: the SQLite tables of metadata_server/db.py and the *)
(* request handlers of server.py and manager.py that read and write them.  *)
(*                                                                         *)
(* Flask serves every request in a thread of its own, and a handler is a   *)
(* sequence of transactions: each call of a DatabaseManager method opens a *)
(* connection, runs and commits.  One action is one transaction, so the    *)
(* handlers of different requests interleave between transactions.         *)
(*                                                                         *)
(* The token of a request is trusted until it expires: no handler asks     *)
(* whether the account still exists.  Foreign keys are declared in the     *)
(* schema, but SQLite enforces them only on request, which the code never  *)
(* makes.  Ids are AUTOINCREMENT: they are never used again.               *)
(***************************************************************************)
EXTENDS Listing, FiniteSetsExt

\* A path with a leading slash.
FullPath(path) == IF IsAbsolute(path) THEN path ELSE Root \o path

CONSTANTS Users,     \* the ids of the users that have registered
          Admins,    \* those with the role "admin"
          Paths,     \* paths of files, as commands spell them and rows keep them
          Requests,  \* identities of the requests that can be in progress
          MaxFiles   \* bound on the ids the files table hands out

ASSUME MetadataAssumption ==
  /\ Admins \subseteq Users /\ MaxFiles \in Nat
  /\ \A path \in Paths : /\ path \in Seq(STRING) /\ Len(path) >= 2
                           /\ \A i \in 2..Len(path) : path[i] # "/"
                           /\ FullPath(path) \in Paths

VARIABLES
  accounts,   \* ids in the users table
  files,      \* rows of the files table
  chunkRows,  \* rows of the chunks table: <<file_id, chunk_index>>
  lastId,     \* the last id the files table has handed out
  thread      \* the handler thread of each request, or NoThread

tables  == <<accounts, files, chunkRows, lastId>>
metaVars == <<accounts, files, chunkRows, lastId, thread>>

NoThread == [op |-> "none"]

\* A request as its handler starts: what is asked, by whom, and the arguments.
\* file is the file of a request to complete, the user one is to delete, or the
\* sum a quota request answers; todo holds the chunk indexes (upload-plan, complete) or the file ids
\* (userdel) still to be handled, targets the chunks of a plan.
Request(op, user, path, file, todo) ==
  [op |-> op, step |-> "start", user |-> user, path |-> path, file |-> file,
   todo |-> todo, targets |-> {}]

Replied == {"ok", "missing", "error"}

MetaTypeOK ==
  /\ accounts \subseteq Users
  /\ \A f \in files : /\ f.id \in 1..lastId /\ f.path \in Paths
                      /\ f.owner \in Users /\ f.chunks \in Nat
  /\ \A row \in chunkRows : row[1] \in 1..lastId /\ row[2] \in Nat
  /\ lastId \in 0..MaxFiles
  /\ \A r \in Requests : thread[r] = NoThread \/
       /\ thread[r].step \in {"start", "verified", "found", "plan", "delete"} \cup Replied
       /\ thread[r].user \in Users
       /\ thread[r].targets \subseteq (1..lastId) \X Nat

MetaInit ==
  /\ accounts = Users
  /\ files = {} /\ chunkRows = {} /\ lastId = 0
  /\ thread = [r \in Requests |-> NoThread]

-----------------------------------------------------------------------------
(* Queries.                                                                *)

ChunksOf(id) == {row \in chunkRows : row[1] = id}

\* get_file_by_name: the row with the highest id among ALL rows of that name.
Named(path) == {f \in files : f.path = path}
\* Mutant of FileByName: the newest row, whatever its name.
NewestFile(path) ==
  CHOOSE f \in files : \A g \in files : g.id <= f.id

FileByName(path) == CHOOSE f \in Named(path) : \A g \in Named(path) : g.id <= f.id

\* The files a user may read and remove, and those that a listing looks at.
MayUse(user, f) == f.owner = user \/ user \in Admins
Visible(user) == {f \in files : MayUse(user, f)}

\* AdriaClient.upload asks for the directory, as the user has spelled it, and
\* looks for the name of its file.
Directory(path) == SubSeq(path, 1, Len(path) - 1)
IsListed(user, path) ==
  LET results == ListFilesInDir(Visible(user), Directory(path))
  IN  \E i \in DOMAIN results :
        results[i] = [filename |-> path[Len(path)], is_dir |-> FALSE]

\* Mutant of Quota: the files of all users are summed up.
QuotaOfAll(user) == MapThenSumSet(LAMBDA f : f.chunks, files)

\* get_user_quota, in chunks: the sizes the uploads declared when they planned.
Quota(user) == MapThenSumSet(LAMBDA f : f.chunks, {f \in files : f.owner = user})

At(r, op, step) == thread[r].op = op /\ thread[r].step = step

Update(r, changed) == thread' = [thread EXCEPT ![r] = changed]

-----------------------------------------------------------------------------
(* Handlers, one transaction per action.                                   *)

\* A plan adds the leading slash that is missing, mkdir does not.
RowPath(r) == IF thread[r].op = "plan" THEN FullPath(thread[r].path) ELSE thread[r].path

\* Mutant of AddFile: the id is handed out again.
AddFileSameCounter(r) ==
  /\ At(r, "plan", "start") \/ At(r, "mkdir", "start")
  /\ lastId < MaxFiles
  /\ files' = files \cup {[id |-> lastId + 1, path |-> RowPath(r),
                           owner |-> thread[r].user,
                           chunks |-> Cardinality(thread[r].todo)]}
  /\ Update(r, [thread[r] EXCEPT !.step = "ok", !.file = lastId + 1])
  /\ UNCHANGED <<accounts, chunkRows, lastId>>

\* /files/upload-plan and /files/mkdir: the row is inserted at once.
AddFile(r) ==
  /\ At(r, "plan", "start") \/ At(r, "mkdir", "start")
  /\ lastId < MaxFiles
  /\ lastId' = lastId + 1
  /\ files' = files \cup {[id |-> lastId + 1, path |-> RowPath(r),
                           owner |-> thread[r].user,
                           chunks |-> Cardinality(thread[r].todo)]}
  /\ Update(r, [thread[r] EXCEPT !.step = "ok", !.file = lastId + 1])
  /\ UNCHANGED <<accounts, chunkRows>>

\* Mutant of AddChunk: the chunks are registered from the last one down.
AddChunkLastFirst(r) ==
  /\ At(r, "complete", "start")
  /\ LET index == CHOOSE i \in thread[r].todo : \A j \in thread[r].todo : j <= i
         rest  == thread[r].todo \ {index}
     IN  /\ chunkRows' = chunkRows \cup {<<thread[r].file, index>>}
         /\ Update(r, [thread[r] EXCEPT !.todo = rest,
                         !.step = IF rest = {} THEN "ok" ELSE "start"])
  /\ UNCHANGED <<accounts, files, lastId>>

\* /files/complete: commit_file_chunks adds one row per transaction, and asks
\* neither whether the file still exists nor whose it is.
AddChunk(r) ==
  /\ At(r, "complete", "start")
  /\ LET index == CHOOSE i \in thread[r].todo : \A j \in thread[r].todo : i <= j
         rest  == thread[r].todo \ {index}
     IN  /\ chunkRows' = chunkRows \cup {<<thread[r].file, index>>}
         /\ Update(r, [thread[r] EXCEPT !.todo = rest,
                         !.step = IF rest = {} THEN "ok" ELSE "start"])
  /\ UNCHANGED <<accounts, files, lastId>>

\* /files/list; of its answer only what the client looks for is kept.
ListFiles(r) ==
  /\ At(r, "list", "start")
  /\ Update(r, [thread[r] EXCEPT !.step =
       IF IsListed(thread[r].user, thread[r].path) THEN "ok" ELSE "missing"])
  /\ UNCHANGED tables

\* /files/quota
ReportQuota(r) ==
  /\ At(r, "quota", "start")
  /\ Update(r, [thread[r] EXCEPT !.step = "ok", !.file = Quota(thread[r].user)])
  /\ UNCHANGED tables

\* Mutant of LookUpFile: the owner is not compared.
LookUpFileOfAnyone(r) ==
  /\ At(r, "download", "start") \/ At(r, "remove", "start")
  /\ LET path == FullPath(thread[r].path)
     IN  Update(r, IF Named(path) # {}
                   THEN [thread[r] EXCEPT !.step = "found", !.file = FileByName(path).id]
                   ELSE [thread[r] EXCEPT !.step = "missing"])
  /\ UNCHANGED tables

\* /files/download-plan and /files/remove look the file up by its name...
LookUpFile(r) ==
  /\ At(r, "download", "start") \/ At(r, "remove", "start")
  /\ LET path  == FullPath(thread[r].path)
         found == Named(path) # {} /\ MayUse(thread[r].user, FileByName(path))
     IN  Update(r, IF found
                   THEN [thread[r] EXCEPT !.step = "found",
                                          !.file = FileByName(path).id]
                   ELSE [thread[r] EXCEPT !.step = "missing"])
  /\ UNCHANGED tables

\* ... read its chunks in another transaction...
ReadChunks(r) ==
  /\ At(r, "download", "found") \/ At(r, "remove", "found")
  /\ Update(r, [thread[r] EXCEPT
       !.targets = ChunksOf(thread[r].file),
       !.step = IF thread[r].op = "remove" THEN "delete" ELSE "ok"])
  /\ UNCHANGED tables

\* Mutant of DeleteFile: the file row is left for a later transaction.
DeleteFileChunksFirst(r) ==
  /\ At(r, "remove", "delete")
  /\ chunkRows' = chunkRows \ ChunksOf(thread[r].file)
  /\ Update(r, [thread[r] EXCEPT !.step = "ok"])
  /\ UNCHANGED <<accounts, files, lastId>>

\* ... and remove deletes the rows in a third (db.delete_file).
DeleteFile(r) ==
  /\ At(r, "remove", "delete")
  /\ chunkRows' = chunkRows \ ChunksOf(thread[r].file)
  /\ files' = {f \in files : f.id # thread[r].file}
  /\ Update(r, [thread[r] EXCEPT !.step = "ok"])
  /\ UNCHANGED <<accounts, lastId>>

\* /admin/userdel: the token says administrator, and the account is still
\* there with that password (verify_user)...
VerifyAdmin(r) ==
  /\ At(r, "userdel", "start")
  /\ Update(r, [thread[r] EXCEPT !.step =
       IF thread[r].user \in Admins \cap accounts THEN "verified" ELSE "error"])
  /\ UNCHANGED tables

\* ... find the target user...
LookUpUser(r) ==
  /\ At(r, "userdel", "verified")
  /\ Update(r, [thread[r] EXCEPT !.step =
       IF thread[r].file \in accounts THEN "found" ELSE "missing"])
  /\ UNCHANGED tables

\* ... list the files of the user...
ListUserFiles(r) ==
  /\ At(r, "userdel", "found")
  /\ Update(r, [thread[r] EXCEPT
       !.step = "plan",
       !.todo = {f.id : f \in {g \in files : g.owner = thread[r].file}}])
  /\ UNCHANGED tables

\* ... read the chunks of each, newest file first...
PlanUserFile(r) ==
  /\ At(r, "userdel", "plan")
  /\ thread[r].todo # {}
  /\ LET id == CHOOSE i \in thread[r].todo : \A j \in thread[r].todo : j <= i
     IN  Update(r, [thread[r] EXCEPT !.todo = @ \ {id},
                                     !.targets = @ \cup ChunksOf(id)])
  /\ UNCHANGED tables

\* ... and drop everything the user owns by now (delete_user_and_metadata).
DeleteUser(r) ==
  /\ At(r, "userdel", "plan")
  /\ thread[r].todo = {}
  /\ LET user  == thread[r].file
         owned == {f \in files : f.owner = user}
     IN  /\ chunkRows' = chunkRows \ UNION {ChunksOf(f.id) : f \in owned}
         /\ files' = files \ owned
         /\ accounts' = accounts \ {user}
  /\ Update(r, [thread[r] EXCEPT !.step = "ok"])
  /\ UNCHANGED lastId

\* The request is refused (its token has expired, fewer than three storage
\* nodes) or a transaction raises (the database is locked): what earlier
\* transactions of the handler did stays.
Refuse(r) ==
  /\ thread[r] # NoThread
  /\ thread[r].step \notin Replied
  /\ Update(r, [thread[r] EXCEPT !.step = "error"])
  /\ UNCHANGED tables

HandleFiles(r) ==
  \/ AddFile(r) \/ AddChunk(r) \/ ListFiles(r) \/ ReportQuota(r)
  \/ LookUpFile(r) \/ ReadChunks(r) \/ DeleteFile(r)

HandleUserdel(r) ==
  \/ VerifyAdmin(r) \/ LookUpUser(r)
  \/ ListUserFiles(r) \/ PlanUserFile(r) \/ DeleteUser(r)

Handle(r) == HandleFiles(r) \/ HandleUserdel(r)

\* The server process dies and is started again: the threads are gone, the
\* committed transactions are not.
RestartServer ==
  /\ thread' = [r \in Requests |-> NoThread]
  /\ UNCHANGED tables

=============================================================================
