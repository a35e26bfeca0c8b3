--------------------------- MODULE FileStoreProofs ---------------------------
(***************************************************************************)
(* Proofs about FileStore, for every set of users, clients, paths and      *)
(* requests, every number of chunks and every combination of failures.     *)
(*                                                                         *)
(* The argument: an id is handed out once, so a file that is gone stays    *)
(* gone; a chunk is named for erasure only after its file has gone; hence  *)
(* whatever was stored of a file that is there is still stored.            *)
(***************************************************************************)
EXTENDS FileStore, LeastGreatest, FiniteSetTheorems, SequenceTheorems, TLAPS

Gone(id) == \A f \in files : f.id # id
Planned  == 1..lastId

\* The chunks of a file, those below an index, and those of a set of indexes.
Blocks(id, indexes) == {id} \X indexes

\* A handler thread has the fields of a request.
IsThread(t) == t = [op |-> t.op, step |-> t.step, user |-> t.user, path |-> t.path,
                    file |-> t.file, todo |-> t.todo, targets |-> t.targets]

\* complete adds the rows of chunks that are stored, from the first one up.
CompleteOK(t) ==
  /\ t.file \in Planned /\ t.todo \subseteq Chunks
  /\ Gone(t.file) \/ /\ Blocks(t.file, Chunks) \subseteq onAll
                     /\ Blocks(t.file, Chunks \ t.todo) \subseteq chunkRows
  /\ \A i \in Chunks \ t.todo : \A j \in t.todo : i < j
  /\ t.step = "start" => t.todo # {}
  /\ t.step = "ok" => t.todo = {}

\* remove names the chunks of the file it may and will delete.
RemoveOK(t) ==
  /\ t.step \in {"found", "delete"} =>
       /\ t.file \in Planned
       /\ \A f \in files : f.id = t.file => MayUse(t.user, f)
  /\ t.step \in {"start", "found"} => t.targets = {}
  /\ \A chunk \in t.targets : chunk[1] = t.file
  /\ t.step = "ok" => \A chunk \in t.targets : Gone(chunk[1])

\* userdel names chunks of files of its target.
UserdelOK(t) ==
  /\ t.user \in Admins
  /\ t.todo \subseteq Planned
  /\ \A f \in files : f.id \in t.todo => f.owner = t.file
  /\ \A chunk \in t.targets : \A f \in files : f.id = chunk[1] => f.owner = t.file
  /\ t.step = "ok" => \A chunk \in t.targets : Gone(chunk[1])

ThreadOK(t) ==
  /\ IsThread(t)
  /\ t.targets \subseteq Planned \X Chunks
  /\ t.op = "plan" /\ t.step = "ok" => t.file \in Planned
  /\ t.op = "complete" => CompleteOK(t)
  /\ t.op = "remove" => RemoveOK(t)
  /\ t.op = "userdel" => UserdelOK(t)

\* The route that each waiting client has called.
OpAt(pc) == IF pc \in {"overwrite", "rm"} THEN "remove" ELSE pc

\* A client that transfers has stored what is not left; one that purges has
\* only chunks of files that have gone.
ClientOK(s) ==
  /\ s = [pc |-> s.pc, path |-> s.path, request |-> s.request, file |-> s.file,
          left |-> s.left]
  /\ s.pc \in {"transfer", "complete"} => s.file \in Planned
  /\ s.pc = "transfer" =>
       /\ s.left \subseteq Blocks(s.file, Chunks)
       /\ Gone(s.file) \/ Blocks(s.file, Chunks) \ s.left \subseteq onAll
  /\ s.pc \in {"purge", "purgeOld"} =>
       /\ s.left \subseteq Planned \X Chunks
       /\ \A chunk \in s.left : Gone(chunk[1])

\* A client's request is one of its own, and is what it waits for.
RequestOK(c) ==
  client[c].pc \in Waiting =>
    /\ client[c].request \in Requests /\ client[c].request[1] = c
    /\ thread[client[c].request] # NoThread =>
         /\ thread[client[c].request].op = OpAt(client[c].pc)
         /\ client[c].pc = "complete" => thread[client[c].request].file = client[c].file

TablesOK ==
  /\ lastId \in Nat
  /\ \A f \in files : f.id \in Planned
  /\ \A f, g \in files : f.id = g.id => f = g
  /\ chunkRows \subseteq Planned \X Chunks

RowsOK ==
  \A row \in chunkRows : Gone(row[1]) \/
    /\ row \in onAll
    /\ \A i \in Chunks : i < row[2] => <<row[1], i>> \in chunkRows

ErasingOK ==
  /\ erasing \subseteq Planned \X Chunks
  /\ \A chunk \in erasing : Gone(chunk[1])

ConfirmedOK ==
  /\ confirmed \subseteq Planned
  /\ \A id \in confirmed : Gone(id) \/ Blocks(id, Chunks) \subseteq chunkRows

ThreadsOK == /\ thread = [r \in Requests |-> thread[r]]
             /\ \A r \in Requests : thread[r] = NoThread \/ ThreadOK(thread[r])
ClientsOK == /\ client = [c \in Clients |-> client[c]]
             /\ \A c \in Clients : ClientOK(client[c]) /\ RequestOK(c)

\* The inductive invariant.
IInv == TablesOK /\ ThreadsOK /\ ClientsOK /\ RowsOK /\ ErasingOK /\ ConfirmedOK

-----------------------------------------------------------------------------
(* What CHOOSE finds.                                                      *)

\* The row that get_file_by_name returns is one of that name.
LEMMA FileByNameIsNamed ==
  ASSUME TablesOK, NEW path, Named(path) # {}
  PROVE  FileByName(path) \in files /\ FileByName(path) \in Named(path)
<1> DEFINE ids == {f.id : f \in Named(path)}
<1>1. lastId \in Nat /\ ids \subseteq 1..lastId /\ ids # {}
  BY DEF TablesOK, Planned, Named
<1> HIDE DEF ids
<1>2. PICK i \in ids : \A j \in ids : j <= i
  BY <1>1, GreatestExists
<1>3. PICK f \in Named(path) : \A g \in Named(path) : g.id <= f.id
  BY <1>2 DEF ids
<1>4. FileByName(path) \in Named(path)
  BY <1>3 DEF FileByName
<1>5. QED
  BY <1>4 DEF Named

\* The chunk that is sent next is one of those left.
LEMMA NextChunkIsLeft ==
  ASSUME NEW c, client[c].left # {}, NEW id, client[c].left \subseteq Blocks(id, Chunks)
  PROVE  NextChunk(c) \in client[c].left
<1> DEFINE indexes == {chunk[2] : chunk \in client[c].left}
<1>1. \A chunk \in client[c].left : chunk[2] \in Nat
  BY FileStoreAssumption DEF Blocks
<1>2. indexes \subseteq Nat /\ indexes # {}
  BY <1>1
<1> HIDE DEF indexes
<1>3. PICK i \in indexes : \A j \in indexes : i <= j
  BY <1>2, LeastExists
<1>4. PICK chunk \in client[c].left : \A other \in client[c].left : chunk[2] <= other[2]
  BY <1>3 DEF indexes
<1>5. QED
  BY <1>4 DEF NextChunk

-----------------------------------------------------------------------------
(* What every step leaves as it is.                                        *)

\* No step brings a file back, takes a replica from a file that is there, or
\* deletes the row of one of its chunks.
Frame ==
  /\ lastId \in Nat /\ lastId' \in Nat /\ lastId <= lastId'
  /\ \A f \in files' : f \in files \/ f.id = lastId + 1
  /\ \A chunk \in onAll : chunk \in onAll' \/ Gone(chunk[1])'
  /\ \A row \in chunkRows : row \in chunkRows' \/ Gone(row[1])'

\* A file that has gone does not come back.
LEMMA GoneStays ==
  ASSUME Frame, NEW id \in Planned, Gone(id)
  PROVE  Gone(id)'
<1>1. id # lastId + 1
  BY DEF Planned, Frame
<1>2. QED
  BY <1>1 DEF Frame, Gone

\* Ids that were planned stay so.
LEMMA PlannedGrows ==
  ASSUME Frame
  PROVE  Planned \subseteq Planned'
BY DEF Frame, Planned

\* A thread that no step of its own changes stays right.
LEMMA ThreadStaysOK ==
  ASSUME Frame, NEW t, ThreadOK(t)
  PROVE  ThreadOK(t)'
<1> USE PlannedGrows
<1>1. IsThread(t)' /\ (t.targets \subseteq Planned \X Chunks)'
        /\ (t.op = "plan" /\ t.step = "ok" => t.file \in Planned)'
  BY DEF ThreadOK, IsThread
<1>2. ASSUME t.op = "complete" PROVE CompleteOK(t)'
  <2>1. CompleteOK(t) /\ t.file \in Planned
    BY <1>2 DEF ThreadOK, CompleteOK
  <2>2. Gone(t.file)' \/ /\ Blocks(t.file, Chunks) \subseteq onAll'
                         /\ Blocks(t.file, Chunks \ t.todo) \subseteq chunkRows'
    <3>1. CASE Gone(t.file)
      BY <3>1, <2>1, GoneStays
    <3>2. CASE ~ Gone(t.file) /\ ~ Gone(t.file)'
      <4>1. \A chunk : chunk \in Blocks(t.file, Chunks) => chunk[1] = t.file
        BY DEF Blocks
      <4>2. Blocks(t.file, Chunks) \subseteq onAll'
        BY <2>1, <3>2, <4>1 DEF Frame, CompleteOK
      <4>3. Blocks(t.file, Chunks \ t.todo) \subseteq Blocks(t.file, Chunks)
        BY DEF Blocks
      <4>4. Blocks(t.file, Chunks \ t.todo) \subseteq chunkRows'
        BY <2>1, <3>2, <4>1, <4>3 DEF Frame, CompleteOK
      <4>5. QED
        BY <4>2, <4>4
    <3>3. QED
      BY <3>1, <3>2
  <2>3. QED
    BY <2>1, <2>2 DEF CompleteOK
<1>3. ASSUME t.op = "remove" PROVE RemoveOK(t)'
  <2>1. RemoveOK(t) /\ t.targets \subseteq Planned \X Chunks
    BY <1>3 DEF ThreadOK
  <2>2. ASSUME t.step \in {"found", "delete"}
        PROVE  \A f \in files' : f.id = t.file => MayUse(t.user, f)
    BY <2>1, <2>2 DEF RemoveOK, Frame, Planned
  <2>3. ASSUME t.step = "ok", NEW chunk \in t.targets PROVE Gone(chunk[1])'
    <3>1. Gone(chunk[1]) /\ chunk[1] \in Planned
      BY <2>1, <2>3 DEF RemoveOK
    <3>2. QED
      BY <3>1, GoneStays
  <2>4. QED
    BY <2>1, <2>2, <2>3 DEF RemoveOK, MayUse
<1>4. ASSUME t.op = "userdel" PROVE UserdelOK(t)'
  <2>1. UserdelOK(t) /\ t.targets \subseteq Planned \X Chunks
    BY <1>4 DEF ThreadOK
  <2>2. \A f \in files' : f.id \in t.todo => f.owner = t.file
    BY <2>1 DEF UserdelOK, Frame, Planned
  <2>3. \A chunk \in t.targets : \A f \in files' : f.id = chunk[1] => f.owner = t.file
    BY <2>1 DEF UserdelOK, Frame, Planned
  <2>4. ASSUME t.step = "ok", NEW chunk \in t.targets PROVE Gone(chunk[1])'
    <3>1. Gone(chunk[1]) /\ chunk[1] \in Planned
      BY <2>1, <2>4 DEF UserdelOK
    <3>2. QED
      BY <3>1, GoneStays
  <2>5. QED
    BY <2>1, <2>2, <2>3, <2>4 DEF UserdelOK
<1>5. QED
  BY <1>1, <1>2, <1>3, <1>4 DEF ThreadOK

\* So does a client.
LEMMA ClientStaysOK ==
  ASSUME Frame, NEW s, ClientOK(s)
  PROVE  ClientOK(s)'
<1> USE PlannedGrows
<1>1. ASSUME s.pc = "transfer"
      PROVE  (Gone(s.file) \/ Blocks(s.file, Chunks) \ s.left \subseteq onAll)'
  <2>1. s.file \in Planned /\ (Gone(s.file) \/ Blocks(s.file, Chunks) \ s.left \subseteq onAll)
    BY <1>1 DEF ClientOK
  <2>2. CASE Gone(s.file)
    BY <2>1, <2>2, GoneStays
  <2>3. CASE ~ Gone(s.file) /\ ~ Gone(s.file)'
    <3>1. \A chunk : chunk \in Blocks(s.file, Chunks) => chunk[1] = s.file
      BY DEF Blocks
    <3>2. QED
      BY <2>1, <2>3, <3>1 DEF Frame
  <2>4. QED
    BY <2>2, <2>3
<1>2. ASSUME s.pc \in {"purge", "purgeOld"}, NEW chunk \in s.left
      PROVE  Gone(chunk[1])'
  <2>1. Gone(chunk[1]) /\ chunk[1] \in Planned
    BY <1>2 DEF ClientOK
  <2>2. QED
    BY <2>1, GoneStays
<1>3. QED
  BY <1>1, <1>2 DEF ClientOK, Blocks

\* Every step is such a frame.
LEMMA StepIsFrame ==
  ASSUME IInv, [Next]_vars
  PROVE  Frame
<1> USE DEF tables, metaVars, blockVars, Update
<1>1. lastId \in Nat
  BY DEF IInv, TablesOK
<1>2. CASE UNCHANGED <<files, chunkRows, lastId, onAll>>
  BY <1>1, <1>2 DEF Frame
<1>3. ASSUME NEW r \in Requests, AddFile(r), UNCHANGED blockVars
      PROVE  Frame
  BY <1>1, <1>3 DEF AddFile, Frame
<1>4. ASSUME NEW r \in Requests, AddChunk(r), UNCHANGED blockVars
      PROVE  Frame
  BY <1>1, <1>4 DEF AddChunk, Frame
<1>5. ASSUME NEW r \in Requests, DeleteFile(r), UNCHANGED blockVars
      PROVE  Frame
  BY <1>1, <1>5 DEF DeleteFile, Frame, ChunksOf, Gone
<1>6. ASSUME NEW r \in Requests, DeleteUser(r), UNCHANGED blockVars
      PROVE  Frame
  <2> DEFINE owned == {f \in files : f.owner = thread[r].file}
  <2>1. /\ files' = files \ owned /\ lastId' = lastId /\ onAll' = onAll
        /\ chunkRows' = chunkRows \ UNION {ChunksOf(f.id) : f \in owned}
    BY <1>6 DEF DeleteUser
  <2>2. ASSUME NEW row \in chunkRows, row \notin chunkRows' PROVE Gone(row[1])'
    <3>1. PICK f \in owned : row \in ChunksOf(f.id)
      BY <2>1, <2>2
    <3>2. row[1] = f.id
      BY <3>1 DEF ChunksOf
    <3>3. QED
      BY <2>1, <3>2 DEF IInv, TablesOK, Gone
  <2>3. QED
    BY <1>1, <2>1, <2>2 DEF Frame
<1>7. ASSUME NEW c \in Clients, Transfer(c) \/ TransferFails(c)
      PROVE  Frame
  BY <1>1, <1>7 DEF Transfer, TransferFails, Frame
<1>8. ASSUME NEW chunk \in erasing, Unlink(chunk)
      PROVE  Frame
  BY <1>1, <1>8 DEF Unlink, Frame, Gone, IInv, ErasingOK
<1>9. ASSUME NEW r \in Requests, ServerStep(r)
      PROVE  Frame
  <2>1. UNCHANGED blockVars
    BY <1>9 DEF ServerStep
  <2>2. Handle(r) \/ Refuse(r)
    BY <1>9 DEF ServerStep
  <2>3. CASE UNCHANGED tables
    BY <1>2, <2>1, <2>3
  <2>4. QED
    BY <1>3, <1>4, <1>5, <1>6, <2>1, <2>2, <2>3
    DEF Handle, HandleFiles, HandleUserdel, ListFiles, ReportQuota, LookUpFile, ReadChunks, VerifyAdmin, LookUpUser,
        ListUserFiles, PlanUserFile, Refuse
<1>10. ASSUME NEW c \in Clients, ClientStep(c)
       PROVE  Frame
  BY <1>2, <1>7, <1>10
  DEF ClientStep, ListAnswered, OverwriteAnswered, PlanAnswered, AskComplete,
      CompleteAnswered, RemoveAnswered, OtherAnswered, Erase, Purged, NoAnswer
<1>11. ASSUME NEW c \in Clients, Start(c) \/ ClientDies(c)
       PROVE  Frame
  BY <1>2, <1>11 DEF Start, ClientDies
<1>12. ASSUME NEW r \in Requests, DropAnswer(r)
       PROVE  Frame
  BY <1>2, <1>12 DEF DropAnswer
<1>13. CASE ServerRestarts
  BY <1>2, <1>13 DEF ServerRestarts, RestartServer
<1>14. CASE UNCHANGED vars
  BY <1>2, <1>14 DEF vars
<1>15. QED
  BY <1>8, <1>9, <1>10, <1>11, <1>12, <1>13, <1>14 DEF Next

-----------------------------------------------------------------------------
(* How threads and clients change.                                         *)

\* Priming a condition on a value primes what it says of that value.
LEMMA ThreadOKPrimed ==
  ASSUME NEW q, NEW t, ThreadOK(t)', thread'[q] = t
  PROVE  ThreadOK(thread[q])'
BY DEF ThreadOK, IsThread, CompleteOK, RemoveOK, UserdelOK, MayUse

LEMMA ClientOKPrimed ==
  ASSUME NEW c, NEW s, ClientOK(s)', client'[c] = s
  PROVE  ClientOK(client[c])'
BY DEF ClientOK

\* What a step does not touch stays right.
LEMMA ThreadKept ==
  ASSUME Frame, NEW q, ThreadOK(thread[q]), thread'[q] = thread[q]
  PROVE  ThreadOK(thread[q])'
<1>1. PICK t : t = thread[q]
  OBVIOUS
<1>2. ThreadOK(t)'
  BY <1>1, ThreadStaysOK
<1>3. QED
  BY <1>1, <1>2, ThreadOKPrimed

LEMMA ClientKept ==
  ASSUME Frame, NEW c, ClientOK(client[c]), client'[c] = client[c]
  PROVE  ClientOK(client[c])'
<1>1. PICK s : s = client[c]
  OBVIOUS
<1>2. ClientOK(s)'
  BY <1>1, ClientStaysOK
<1>3. QED
  BY <1>1, <1>2, ClientOKPrimed

\* A step in which the thread of one request becomes t, and stays in the
\* service of whoever waits for it.
LEMMA ThreadMoves ==
  ASSUME IInv, Frame, NEW r \in Requests, NEW t,
         thread[r] # NoThread, thread' = [thread EXCEPT ![r] = t], client' = client,
         ThreadOK(t)', t.op = thread[r].op, t.op = "complete" => t.file = thread[r].file
  PROVE  ThreadsOK' /\ ClientsOK'
<1> USE DEF IInv, ThreadsOK, ClientsOK
<1>1. ASSUME NEW q \in Requests PROVE thread'[q] = IF q = r THEN t ELSE thread[q]
  OBVIOUS
<1>2. ASSUME NEW q \in Requests PROVE (thread[q] = NoThread \/ ThreadOK(thread[q]))'
  BY <1>1, ThreadKept, ThreadOKPrimed
<1>3. ThreadsOK'
  BY <1>2
<1>4. ASSUME NEW c \in Clients PROVE RequestOK(c)'
  <2>1. RequestOK(c) /\ client'[c] = client[c]
    OBVIOUS
  <2>2. CASE client[c].pc \in Waiting /\ client[c].request = r
    <3>1. thread'[client[c].request] = t
      BY <1>1, <2>2
    <3>2. QED
      BY <2>1, <2>2, <3>1 DEF RequestOK, OpAt
  <2>3. CASE client[c].pc \in Waiting /\ client[c].request # r
    <3>1. client[c].request \in Requests
      BY <2>1, <2>3 DEF RequestOK
    <3>2. thread'[client[c].request] = thread[client[c].request]
      BY <1>1, <2>3, <3>1
    <3>3. QED
      BY <2>1, <3>2 DEF RequestOK
  <2>4. QED
    BY <2>1, <2>2, <2>3 DEF RequestOK
<1>5. ASSUME NEW c \in Clients PROVE ClientOK(client[c])'
  BY ClientKept
<1>6. QED
  BY <1>3, <1>4, <1>5

\* A step in which the thread of one request ends and client c, which waited
\* for it or for nothing, goes on without a request.
LEMMA ClientMoves ==
  ASSUME IInv, Frame, NEW c \in Clients, NEW s,
         client' = [client EXCEPT ![c] = s], ClientOK(s)', s.pc \notin Waiting,
         thread' = thread \/ /\ client[c].pc \in Waiting
                             /\ thread' = [thread EXCEPT ![client[c].request] = NoThread]
  PROVE  ThreadsOK' /\ ClientsOK'
<1> USE DEF IInv, ThreadsOK, ClientsOK
<1>1. ASSUME NEW q \in Requests
      PROVE  thread'[q] = thread[q] \/ (thread'[q] = NoThread /\ q[1] = c)
  BY DEF RequestOK
<1>2. ASSUME NEW q \in Requests PROVE (thread[q] = NoThread \/ ThreadOK(thread[q]))'
  BY <1>1, ThreadKept
<1>3. ThreadsOK'
  BY <1>2
<1>4. ASSUME NEW d \in Clients PROVE client'[d] = IF d = c THEN s ELSE client[d]
  OBVIOUS
<1>5. ASSUME NEW d \in Clients PROVE RequestOK(d)'
  BY <1>1, <1>4 DEF RequestOK
<1>6. ASSUME NEW d \in Clients PROVE ClientOK(client[d])'
  BY <1>4, ClientKept, ClientOKPrimed
<1>7. QED
  BY <1>3, <1>5, <1>6

\* A step in which client c issues a request.
LEMMA ClientAsks ==
  ASSUME IInv, Frame, NEW c \in Clients, NEW done, NEW pc, NEW path, NEW file, NEW todo,
         Ask(c, done, pc, OpAt(pc), path, file, todo), pc \in Waiting,
         done \in Requests => done[1] = c,
         ThreadOK(Request(OpAt(pc), UserOf[c], path, file, todo))',
         pc = "complete" => file = client[c].file /\ file \in Planned
  PROVE  ThreadsOK' /\ ClientsOK'
<1> USE DEF IInv, ThreadsOK, ClientsOK
<1> DEFINE t == Request(OpAt(pc), UserOf[c], path, file, todo)
<1>1. PICK r \in Requests :
        /\ r[1] = c
        /\ thread' = [q \in Requests |->
             IF q = r THEN t ELSE IF q = done THEN NoThread ELSE thread[q]]
        /\ client' = [client EXCEPT ![c] =
             [client[c] EXCEPT !.pc = pc, !.path = path, !.request = r]]
  BY DEF Ask, Become
<1> HIDE DEF t
<1>2. ASSUME NEW q \in Requests, q # r
      PROVE  thread'[q] = thread[q] \/ (thread'[q] = NoThread /\ q[1] = c)
  BY <1>1, <1>2
<1>3. thread'[r] = t
  BY <1>1
<1>4. ASSUME NEW q \in Requests PROVE (thread[q] = NoThread \/ ThreadOK(thread[q]))'
  BY <1>2, <1>3, ThreadKept, ThreadOKPrimed DEF t
<1>5. ThreadsOK'
  BY <1>1, <1>4
<1>6. PICK s : s = [client[c] EXCEPT !.pc = pc, !.path = path, !.request = r]
  OBVIOUS
<1>7. s = [pc |-> pc, path |-> path, request |-> r, file |-> client[c].file,
           left |-> client[c].left]
  <2>1. ClientOK(client[c])
    OBVIOUS
  <2>2. QED
    BY <1>6, <2>1 DEF ClientOK
<1>8. ClientOK(s)'
  BY <1>7, PlannedGrows DEF ClientOK, Waiting
<1>9. ASSUME NEW d \in Clients PROVE client'[d] = IF d = c THEN s ELSE client[d]
  BY <1>1, <1>6
<1>10. ASSUME NEW d \in Clients PROVE ClientOK(client[d])'
  BY <1>8, <1>9, ClientKept, ClientOKPrimed
<1>11. RequestOK(c)'
  <2>1. client'[c] = s
    BY <1>9
  <2>2. thread'[r].op = OpAt(pc) /\ thread'[r].file = file
    BY <1>3 DEF t, Request
  <2>3. /\ client'[c].pc = pc /\ client'[c].request = r
        /\ client'[c].file = client[c].file
    BY <1>7, <2>1
  <2>4. r \in Requests /\ r[1] = c
    BY <1>1
  <2>5. QED
    BY <2>2, <2>3, <2>4 DEF RequestOK, OpAt
<1>12. ASSUME NEW d \in Clients, d # c PROVE RequestOK(d)'
  BY <1>1, <1>2, <1>9, <1>12 DEF RequestOK
<1>13. client' = [d \in Clients |-> client'[d]]
  BY <1>1
<1>14. QED
  BY <1>5, <1>10, <1>11, <1>12, <1>13

-----------------------------------------------------------------------------
(* Each conjunct of the invariant is preserved.                            *)

\* The steps that change the tables, the blocks or the history.
LEMMA StepKinds ==
  ASSUME [Next]_vars
  PROVE  \/ UNCHANGED <<files, chunkRows, lastId, onAll, erasing, confirmed>>
         \/ \E r \in Requests :
              /\ AddFile(r) \/ AddChunk(r) \/ DeleteFile(r) \/ DeleteUser(r)
              /\ UNCHANGED <<client, blockVars, confirmed>>
         \/ \E c \in Clients : Transfer(c) \/ TransferFails(c) \/ CompleteAnswered(c) \/ Erase(c)
         \/ \E chunk \in erasing : Unlink(chunk)
<1> USE DEF tables, metaVars, blockVars
<1>1. ASSUME NEW r \in Requests, ServerStep(r)
      PROVE  \/ UNCHANGED <<files, chunkRows, lastId, onAll, erasing, confirmed>>
             \/ /\ AddFile(r) \/ AddChunk(r) \/ DeleteFile(r) \/ DeleteUser(r)
                /\ UNCHANGED <<client, blockVars, confirmed>>
  BY <1>1
  DEF ServerStep, Handle, HandleFiles, HandleUserdel, ListFiles, ReportQuota, LookUpFile, ReadChunks, VerifyAdmin,
      LookUpUser, ListUserFiles, PlanUserFile, Refuse
<1>2. ASSUME NEW c \in Clients, ClientStep(c)
      PROVE  \/ UNCHANGED <<files, chunkRows, lastId, onAll, erasing, confirmed>>
             \/ Transfer(c) \/ TransferFails(c) \/ CompleteAnswered(c) \/ Erase(c)
  BY <1>2
  DEF ClientStep, ListAnswered, OverwriteAnswered, PlanAnswered, AskComplete,
      RemoveAnswered, OtherAnswered, Purged, NoAnswer
<1>3. ASSUME NEW c \in Clients, Start(c) \/ ClientDies(c)
      PROVE  UNCHANGED <<files, chunkRows, lastId, onAll, erasing, confirmed>>
  BY <1>3 DEF Start, ClientDies
<1>4. ASSUME NEW r \in Requests, DropAnswer(r)
      PROVE  UNCHANGED <<files, chunkRows, lastId, onAll, erasing, confirmed>>
  BY <1>4 DEF DropAnswer
<1>5. ServerRestarts => UNCHANGED <<files, chunkRows, lastId, onAll, erasing, confirmed>>
  BY DEF ServerRestarts, RestartServer
<1>6. UNCHANGED vars => UNCHANGED <<files, chunkRows, lastId, onAll, erasing, confirmed>>
  BY DEF vars
<1>7. QED
  BY <1>1, <1>2, <1>3, <1>4, <1>5, <1>6 DEF Next

\* complete adds the row of one chunk, all lower ones being there already.
AddsChunk(r) ==
  /\ thread[r].op = "complete" /\ CompleteOK(thread[r])
  /\ \E index \in thread[r].todo :
       /\ \A j \in thread[r].todo : index <= j
       /\ chunkRows' = chunkRows \cup {<<thread[r].file, index>>}
       /\ LET rest == thread[r].todo \ {index}
          IN  thread' = [thread EXCEPT ![r] = [thread[r] EXCEPT !.todo = rest,
                           !.step = IF rest = {} THEN "ok" ELSE "start"]]

LEMMA AddsOneChunk ==
  ASSUME IInv, NEW r \in Requests, AddChunk(r)
  PROVE  AddsChunk(r)
<1>1. thread[r].op = "complete" /\ thread[r].step = "start"
  BY DEF AddChunk, At
<1>2. CompleteOK(thread[r])
  BY <1>1 DEF NoThread, IInv, ThreadsOK, ThreadOK
<1> DEFINE index == CHOOSE i \in thread[r].todo : \A j \in thread[r].todo : i <= j
<1>3. index \in thread[r].todo /\ \A j \in thread[r].todo : index <= j
  <2>1. \E i \in thread[r].todo : \A j \in thread[r].todo : i <= j
    BY <1>1, <1>2, LeastExists, FileStoreAssumption DEF CompleteOK
  <2>2. QED
    BY <2>1
<1>4. /\ chunkRows' = chunkRows \cup {<<thread[r].file, index>>}
      /\ LET rest == thread[r].todo \ {index}
         IN  thread' = [thread EXCEPT ![r] = [thread[r] EXCEPT !.todo = rest,
                          !.step = IF rest = {} THEN "ok" ELSE "start"]]
  BY DEF AddChunk, Update
<1> HIDE DEF index
<1>5. QED
  BY <1>1, <1>2, <1>3, <1>4 DEF AddsChunk

\* Ids are handed out once, and chunk rows name planned files.
LEMMA TablesStep ==
  ASSUME IInv, [Next]_vars
  PROVE  TablesOK'
<1> USE DEF IInv, TablesOK, Planned
<1>1. CASE UNCHANGED <<files, chunkRows, lastId>>
  BY <1>1
<1>2. ASSUME NEW r \in Requests, AddFile(r)
      PROVE  TablesOK'
  BY <1>2 DEF AddFile
<1>3. ASSUME NEW r \in Requests, AddChunk(r)
      PROVE  TablesOK'
  <2>1. PICK index \in Chunks : chunkRows' = chunkRows \cup {<<thread[r].file, index>>}
    BY <1>3, AddsOneChunk DEF AddsChunk, CompleteOK
  <2>2. thread[r].file \in Planned /\ UNCHANGED <<files, lastId>>
    BY <1>3, AddsOneChunk DEF AddsChunk, CompleteOK, AddChunk
  <2>3. QED
    BY <2>1, <2>2
<1>4. ASSUME NEW r \in Requests, DeleteFile(r) \/ DeleteUser(r)
      PROVE  TablesOK'
  BY <1>4 DEF DeleteFile, DeleteUser
<1>5. QED
  BY <1>1, <1>2, <1>3, <1>4, StepKinds
  DEF Transfer, TransferFails, CompleteAnswered, Erase, Unlink, metaVars, tables

\* Rows of files that are there name stored chunks, without gaps.
LEMMA RowsStep ==
  ASSUME IInv, [Next]_vars
  PROVE  RowsOK'
<1>1. Frame /\ chunkRows \subseteq Planned \X Chunks
  BY StepIsFrame DEF IInv, TablesOK
<1>2. ASSUME NEW row \in chunkRows, ~ Gone(row[1])'
      PROVE  row \in onAll' /\ \A i \in Chunks : i < row[2] => <<row[1], i>> \in chunkRows'
  <2>1. row \in Planned \X Chunks
    BY <1>1
  <2>2. ~ Gone(row[1])
    BY <1>1, <1>2, <2>1, GoneStays
  <2>3. row \in onAll /\ \A i \in Chunks : i < row[2] => <<row[1], i>> \in chunkRows
    BY <2>2 DEF IInv, RowsOK
  <2>4. row \in onAll'
    BY <1>1, <1>2, <2>3 DEF Frame
  <2>5. ASSUME NEW i \in Chunks, i < row[2] PROVE <<row[1], i>> \in chunkRows'
    <3>1. <<row[1], i>> \in chunkRows /\ <<row[1], i>>[1] = row[1]
      BY <2>3, <2>5
    <3>2. <<row[1], i>> \in chunkRows' \/ Gone(<<row[1], i>>[1])'
      BY <1>1, <3>1 DEF Frame
    <3>3. QED
      BY <1>2, <3>1, <3>2 DEF Gone
  <2>6. QED
    BY <2>4, <2>5
<1>3. CASE chunkRows' \subseteq chunkRows
  BY <1>2, <1>3 DEF RowsOK
<1>4. ASSUME NEW r \in Requests, AddChunk(r), UNCHANGED blockVars
      PROVE  RowsOK'
  <2>1. PICK id : id = thread[r].file
    OBVIOUS
  <2>2. CompleteOK(thread[r]) /\ files' = files /\ onAll' = onAll
    BY <1>4, AddsOneChunk DEF AddsChunk, AddChunk, blockVars
  <2>3. PICK index \in thread[r].todo :
          /\ \A j \in thread[r].todo : index <= j
          /\ chunkRows' = chunkRows \cup {<<id, index>>}
    BY <1>4, <2>1, AddsOneChunk DEF AddsChunk
  <2>4. ASSUME ~ Gone(id)
        PROVE  <<id, index>> \in onAll' /\ \A i \in Chunks : i < index => <<id, i>> \in chunkRows'
    <3>1. <<id, index>> \in onAll
      BY <2>1, <2>2, <2>3, <2>4 DEF CompleteOK, Blocks
    <3>2. ASSUME NEW i \in Chunks, i < index PROVE <<id, i>> \in chunkRows
      <4>1. i \in Nat /\ index \in Nat
        BY <2>2, <2>3, FileStoreAssumption DEF CompleteOK
      <4>2. i \notin thread[r].todo
        BY <2>3, <3>2, <4>1
      <4>3. QED
        BY <2>1, <2>2, <2>4, <4>2 DEF CompleteOK, Blocks
    <3>3. QED
      BY <2>2, <2>3, <3>1, <3>2
  <2>5. Gone(id) => Gone(id)'
    BY <2>2 DEF Gone
  <2>6. ASSUME NEW row \in chunkRows' PROVE (Gone(row[1]) \/
          /\ row \in onAll
          /\ \A i \in Chunks : i < row[2] => <<row[1], i>> \in chunkRows)'
    <3>1. CASE row \in chunkRows
      BY <1>2, <3>1
    <3>2. CASE row = <<id, index>>
      <4>1. row[1] = id /\ row[2] = index
        BY <3>2
      <4>2. CASE Gone(id)
        BY <2>5, <4>1, <4>2 DEF Gone
      <4>3. CASE ~ Gone(id)
        BY <2>4, <3>2, <4>1, <4>3
      <4>4. QED
        BY <4>2, <4>3
    <3>3. QED
      BY <2>3, <3>1, <3>2
  <2>7. QED
    BY <2>6 DEF RowsOK
<1>5. QED
  BY <1>3, <1>4, StepKinds
  DEF AddFile, DeleteFile, DeleteUser, Transfer, TransferFails, CompleteAnswered, Erase,
      Unlink, metaVars, tables, blockVars

\* Erasures are sent and done only for files that have gone.
LEMMA ErasingStep ==
  ASSUME IInv, [Next]_vars
  PROVE  ErasingOK'
<1>1. Frame /\ ErasingOK
  BY StepIsFrame DEF IInv
<1>2. ASSUME NEW chunk \in Planned \X Chunks, Gone(chunk[1])
      PROVE  chunk \in (Planned \X Chunks)' /\ Gone(chunk[1])'
  <2>1. Gone(chunk[1])'
    BY <1>1, <1>2, GoneStays
  <2>2. QED
    BY <1>1, <2>1, PlannedGrows
<1>3. CASE erasing' \subseteq erasing
  BY <1>1, <1>2, <1>3 DEF ErasingOK
<1>4. ASSUME NEW c \in Clients, Erase(c)
      PROVE  ErasingOK'
  <2>1. PICK chunk \in client[c].left : erasing' \subseteq erasing \cup {chunk}
    BY <1>4 DEF Erase
  <2>2. chunk \in Planned \X Chunks /\ Gone(chunk[1])
    BY <1>4 DEF Erase, IInv, ClientsOK, ClientOK
  <2>3. QED
    BY <1>1, <1>2, <2>1, <2>2 DEF ErasingOK
<1>5. QED
  BY <1>3, <1>4, StepKinds
  DEF Transfer, TransferFails, CompleteAnswered, Unlink, metaVars, tables, blockVars

\* A client that reads the answer of complete confirms a whole file.
LEMMA ConfirmsWhole ==
  ASSUME IInv, NEW c \in Clients, CompleteAnswered(c), confirmed' # confirmed
  PROVE  \E id \in Planned : /\ confirmed' = confirmed \cup {id}
                             /\ Gone(id) \/ Blocks(id, Chunks) \subseteq chunkRows
<1> DEFINE id == client[c].file
<1>1. Answer(c).step = "ok" /\ confirmed' = confirmed \cup {id}
  BY DEF CompleteAnswered
<1>2. /\ client[c].pc = "complete" /\ thread[client[c].request] # NoThread
      /\ RequestOK(c) /\ ClientOK(client[c])
  BY DEF CompleteAnswered, Answered, IInv, ClientsOK
<1>3. /\ client[c].request \in Requests /\ Answer(c).op = "complete"
      /\ Answer(c).file = id /\ id \in Planned
  BY <1>2 DEF RequestOK, OpAt, Answer, Waiting, ClientOK
<1>4. CompleteOK(Answer(c))
  BY <1>2, <1>3 DEF IInv, ThreadsOK, ThreadOK, Answer
<1>5. Chunks \ Answer(c).todo = Chunks
  BY <1>1, <1>4 DEF CompleteOK
<1>6. QED
  BY <1>1, <1>3, <1>4, <1>5 DEF CompleteOK

\* Files are confirmed when all their chunks are registered.
LEMMA ConfirmedStep ==
  ASSUME IInv, [Next]_vars
  PROVE  ConfirmedOK'
<1>1. Frame /\ ConfirmedOK
  BY StepIsFrame DEF IInv
<1>2. ASSUME NEW id \in Planned, Gone(id) \/ Blocks(id, Chunks) \subseteq chunkRows
      PROVE  id \in Planned' /\ (Gone(id) \/ Blocks(id, Chunks) \subseteq chunkRows)'
  <2>1. CASE Gone(id)
    BY <1>1, <2>1, GoneStays, PlannedGrows
  <2>2. CASE Blocks(id, Chunks) \subseteq chunkRows /\ ~ Gone(id)'
    <3>1. \A chunk : chunk \in Blocks(id, Chunks) => chunk[1] = id
      BY DEF Blocks
    <3>2. ASSUME NEW chunk \in Blocks(id, Chunks) PROVE chunk \in chunkRows'
      <4>1. chunk \in chunkRows' \/ Gone(chunk[1])'
        BY <1>1, <2>2 DEF Frame
      <4>2. QED
        BY <2>2, <3>1, <4>1 DEF Gone
    <3>3. QED
      BY <1>1, <3>2, PlannedGrows DEF Blocks
  <2>3. QED
    BY <1>1, <1>2, <2>1, <2>2, PlannedGrows DEF Blocks
<1>3. CASE confirmed' \subseteq confirmed
  BY <1>1, <1>2, <1>3 DEF ConfirmedOK
<1>4. ASSUME NEW c \in Clients, CompleteAnswered(c)
      PROVE  ConfirmedOK'
  <2>1. CASE confirmed' = confirmed
    BY <1>3, <2>1
  <2>2. CASE confirmed' # confirmed
    <3>1. PICK id \in Planned : /\ confirmed' = confirmed \cup {id}
                                /\ Gone(id) \/ Blocks(id, Chunks) \subseteq chunkRows
      BY <1>4, <2>2, ConfirmsWhole
    <3>2. QED
      BY <1>1, <1>2, <3>1 DEF ConfirmedOK
  <2>3. QED
    BY <2>1, <2>2
<1>5. QED
  BY <1>3, <1>4, StepKinds
  DEF Transfer, TransferFails, Erase, Unlink

\* A transaction of a handler leaves its thread right.
LEMMA HandlerStep ==
  ASSUME IInv, Frame, NEW r \in Requests, Handle(r) \/ Refuse(r),
         UNCHANGED <<client, blockVars>>
  PROVE  ThreadsOK' /\ ClientsOK'
<1>1. PICK u : u = thread[r]
  OBVIOUS
<1>2. u # NoThread /\ ThreadOK(u)
  <2>1. thread[r] # NoThread
    BY DEF Handle, HandleFiles, HandleUserdel, Refuse, AddFile, AddChunk, ListFiles, ReportQuota, LookUpFile, ReadChunks,
           DeleteFile, VerifyAdmin, LookUpUser, ListUserFiles, PlanUserFile, DeleteUser,
           At, NoThread
  <2>2. QED
    BY <1>1, <2>1 DEF IInv, ThreadsOK
<1>3. ThreadOK(u)'
  BY <1>2, ThreadStaysOK
<1>4. u = [op |-> u.op, step |-> u.step, user |-> u.user, path |-> u.path,
           file |-> u.file, todo |-> u.todo, targets |-> u.targets]
  BY <1>2 DEF ThreadOK, IsThread
<1>5. ASSUME NEW t, thread' = [thread EXCEPT ![r] = t], ThreadOK(t)',
             t.op = u.op, t.op = "complete" => t.file = u.file
      PROVE  ThreadsOK' /\ ClientsOK'
  BY <1>1, <1>2, <1>5, ThreadMoves
<1> USE DEF At, Update
<1>6. CASE AddFile(r)
  <2>1. PICK t : t = [u EXCEPT !.step = "ok", !.file = lastId + 1]
    OBVIOUS
  <2>2. thread' = [thread EXCEPT ![r] = t] /\ u.op \in {"plan", "mkdir"}
    BY <1>1, <1>6, <2>1 DEF AddFile
  <2>3. lastId + 1 \in Planned'
    BY <1>6 DEF AddFile, Planned, Frame
  <2>4. ThreadOK(t)'
    BY <1>3, <1>4, <2>1, <2>2, <2>3 DEF ThreadOK, IsThread
  <2>5. QED
    BY <1>4, <1>5, <2>1, <2>2, <2>4
<1>7. CASE AddChunk(r)
  <2>1. PICK index \in u.todo :
          /\ \A j \in u.todo : index <= j
          /\ chunkRows' = chunkRows \cup {<<u.file, index>>}
          /\ LET rest == u.todo \ {index}
             IN  thread' = [thread EXCEPT ![r] = [u EXCEPT !.todo = rest,
                              !.step = IF rest = {} THEN "ok" ELSE "start"]]
    BY <1>1, <1>7, AddsOneChunk DEF AddsChunk
  <2>2. u.op = "complete" /\ CompleteOK(u)' /\ CompleteOK(u)
    BY <1>1, <1>2, <1>3, <1>7 DEF AddChunk, ThreadOK
  <2> DEFINE rest == u.todo \ {index}
  <2>3. PICK t : t = [u EXCEPT !.todo = rest, !.step = IF rest = {} THEN "ok" ELSE "start"]
    OBVIOUS
  <2>4. t = [op |-> "complete", step |-> IF rest = {} THEN "ok" ELSE "start",
             user |-> u.user, path |-> u.path, file |-> u.file, todo |-> rest,
             targets |-> u.targets]
    BY <1>4, <2>2, <2>3
  <2>5. \A i \in Chunks \ rest : \A j \in rest : i < j
    <3>1. u.todo \subseteq Nat /\ \A i \in Chunks \ u.todo : \A j \in u.todo : i < j
      BY <2>2, FileStoreAssumption DEF CompleteOK
    <3>2. ASSUME NEW i \in Chunks \ rest, NEW j \in rest PROVE i < j
      <4>1. CASE i = index
        BY <2>1, <3>1, <4>1
      <4>2. CASE i # index
        BY <3>1, <4>2
      <4>3. QED
        BY <4>1, <4>2
    <3>3. QED
      BY <3>2
  <2>6. (Gone(u.file) \/ /\ Blocks(u.file, Chunks) \subseteq onAll
                         /\ Blocks(u.file, Chunks \ rest) \subseteq chunkRows)'
    <3>1. Blocks(u.file, Chunks \ rest)
            \subseteq Blocks(u.file, Chunks \ u.todo) \cup {<<u.file, index>>}
      BY DEF Blocks
    <3>2. <<u.file, index>> \in chunkRows'
      BY <2>1
    <3>3. QED
      BY <2>2, <3>1, <3>2 DEF CompleteOK, Blocks
  <2>7. CompleteOK(t)'
    BY <2>2, <2>4, <2>5, <2>6 DEF CompleteOK, Blocks
  <2>8. ThreadOK(t)'
    BY <1>3, <2>4, <2>7 DEF ThreadOK, IsThread
  <2>9. QED
    BY <1>5, <2>1, <2>2, <2>3, <2>4, <2>8
<1>8. CASE ListFiles(r)
  <2>1. PICK t : t = [u EXCEPT !.step = IF IsListed(u.user, u.path) THEN "ok" ELSE "missing"]
    OBVIOUS
  <2>2. thread' = [thread EXCEPT ![r] = t] /\ u.op = "list"
    BY <1>1, <1>8, <2>1 DEF ListFiles
  <2>3. ThreadOK(t)'
    BY <1>3, <1>4, <2>1, <2>2 DEF ThreadOK, IsThread
  <2>4. QED
    BY <1>4, <1>5, <2>1, <2>2, <2>3
<1>9. CASE ReportQuota(r)
  <2>1. PICK t : t = [u EXCEPT !.step = "ok", !.file = Quota(u.user)]
    OBVIOUS
  <2>2. thread' = [thread EXCEPT ![r] = t] /\ u.op = "quota"
    BY <1>1, <1>9, <2>1 DEF ReportQuota
  <2>3. ThreadOK(t)'
    BY <1>3, <1>4, <2>1, <2>2 DEF ThreadOK, IsThread
  <2>4. QED
    BY <1>4, <1>5, <2>1, <2>2, <2>3
<1>10. CASE LookUpFile(r)
  <2> DEFINE found == /\ Named(FullPath(u.path)) # {}
                      /\ MayUse(u.user, FileByName(FullPath(u.path)))
  <2>1. PICK t : t = IF found
                     THEN [u EXCEPT !.step = "found", !.file = FileByName(FullPath(u.path)).id]
                     ELSE [u EXCEPT !.step = "missing"]
    OBVIOUS
  <2>2. /\ thread' = [thread EXCEPT ![r] = t]
        /\ u.op \in {"download", "remove"} /\ u.step = "start"
        /\ UNCHANGED <<files, lastId>>
    BY <1>1, <1>10, <2>1 DEF LookUpFile, tables
  <2>3. ASSUME u.op = "remove" PROVE RemoveOK(t)'
    <3>1. RemoveOK(u) /\ u.targets = {}
      BY <1>2, <2>2, <2>3 DEF ThreadOK, RemoveOK
    <3>2. CASE found
      <4>1. PICK g \in files : g = FileByName(FullPath(u.path))
        BY <3>2, FileByNameIsNamed DEF IInv
      <4>2. t.step = "found" /\ t.file = g.id /\ t.user = u.user /\ t.targets = {}
        BY <1>4, <2>1, <3>1, <3>2, <4>1
      <4>3. g.id \in Planned' /\ MayUse(u.user, g)
        BY <2>2, <3>2, <4>1 DEF IInv, TablesOK, Planned
      <4>4. \A f \in files' : f.id = g.id => f = g
        BY <2>2 DEF IInv, TablesOK
      <4>5. QED
        BY <4>2, <4>3, <4>4 DEF RemoveOK, MayUse
    <3>3. CASE ~ found
      <4>1. t.step = "missing" /\ t.targets = {}
        BY <1>4, <2>1, <3>1, <3>3
      <4>2. QED
        BY <4>1 DEF RemoveOK
    <3>4. QED
      BY <3>2, <3>3
  <2>4. IsThread(t) /\ t.op = u.op /\ t.targets = u.targets
    BY <1>4, <2>1 DEF IsThread
  <2>5. ThreadOK(t)'
    BY <1>3, <2>2, <2>3, <2>4 DEF ThreadOK, IsThread
  <2>6. QED
    BY <1>5, <2>2, <2>4, <2>5
<1>11. CASE ReadChunks(r)
  <2>1. PICK t : t = [u EXCEPT !.targets = ChunksOf(u.file),
                               !.step = IF u.op = "remove" THEN "delete" ELSE "ok"]
    OBVIOUS
  <2>2. /\ thread' = [thread EXCEPT ![r] = t]
        /\ u.op \in {"download", "remove"} /\ u.step = "found"
    BY <1>1, <1>11, <2>1 DEF ReadChunks
  <2>3. t = [op |-> u.op, step |-> IF u.op = "remove" THEN "delete" ELSE "ok", user |-> u.user,
             path |-> u.path, file |-> u.file, todo |-> u.todo, targets |-> ChunksOf(u.file)]
    BY <1>4, <2>1
  <2>4. /\ ChunksOf(u.file) \subseteq Planned' \X Chunks
        /\ \A chunk \in ChunksOf(u.file) : chunk[1] = u.file
    BY PlannedGrows DEF ChunksOf, IInv, TablesOK
  <2>5. u.op = "remove" => RemoveOK(t)'
    BY <1>3, <2>2, <2>3, <2>4 DEF ThreadOK, RemoveOK, MayUse
  <2>6. ThreadOK(t)'
    BY <2>2, <2>3, <2>4, <2>5 DEF ThreadOK, IsThread
  <2>7. QED
    BY <1>5, <2>2, <2>3, <2>6
<1>12. CASE DeleteFile(r)
  <2>1. PICK t : t = [u EXCEPT !.step = "ok"]
    OBVIOUS
  <2>2. /\ thread' = [thread EXCEPT ![r] = t] /\ u.op = "remove"
        /\ files' = {f \in files : f.id # u.file}
    BY <1>1, <1>12, <2>1 DEF DeleteFile
  <2>3. t = [op |-> "remove", step |-> "ok", user |-> u.user, path |-> u.path,
             file |-> u.file, todo |-> u.todo, targets |-> u.targets]
    BY <1>4, <2>1, <2>2
  <2>4. \A chunk \in u.targets : chunk[1] = u.file /\ \A f \in files' : f.id # chunk[1]
    BY <1>2, <2>2 DEF ThreadOK, RemoveOK
  <2>5. RemoveOK(t)'
    BY <2>3, <2>4 DEF RemoveOK, Gone
  <2>6. ThreadOK(t)'
    BY <1>3, <2>2, <2>3, <2>5 DEF ThreadOK, IsThread
  <2>7. QED
    BY <1>5, <2>2, <2>3, <2>6
<1>13. ASSUME NEW step, step # "ok", u.op = "userdel",
              thread' = [thread EXCEPT ![r] = [u EXCEPT !.step = step]]
       PROVE  ThreadsOK' /\ ClientsOK'
  <2>1. PICK t : t = [u EXCEPT !.step = step]
    OBVIOUS
  <2>2. t = [op |-> "userdel", step |-> step, user |-> u.user, path |-> u.path,
             file |-> u.file, todo |-> u.todo, targets |-> u.targets]
    BY <1>4, <1>13, <2>1
  <2>3. UserdelOK(t)'
    BY <1>3, <1>13, <2>2 DEF ThreadOK, UserdelOK
  <2>4. ThreadOK(t)'
    BY <1>3, <1>13, <2>2, <2>3 DEF ThreadOK, IsThread
  <2>5. QED
    BY <1>5, <1>13, <2>1, <2>2, <2>4
<1>14. CASE VerifyAdmin(r)
  <2>1. PICK step : step = IF u.user \in Admins \cap accounts THEN "verified" ELSE "error"
    OBVIOUS
  <2>2. u.op = "userdel" /\ thread' = [thread EXCEPT ![r] = [u EXCEPT !.step = step]]
    BY <1>1, <1>14, <2>1 DEF VerifyAdmin
  <2>3. QED
    BY <1>13, <2>1, <2>2
<1>15. CASE LookUpUser(r)
  <2>1. PICK step : step = IF u.file \in accounts THEN "found" ELSE "missing"
    OBVIOUS
  <2>2. u.op = "userdel" /\ thread' = [thread EXCEPT ![r] = [u EXCEPT !.step = step]]
    BY <1>1, <1>15, <2>1 DEF LookUpUser
  <2>3. QED
    BY <1>13, <2>1, <2>2
<1>16. CASE ListUserFiles(r)
  <2> DEFINE ids == {f.id : f \in {g \in files : g.owner = u.file}}
  <2>1. PICK t : t = [u EXCEPT !.step = "plan", !.todo = ids]
    OBVIOUS
  <2>2. /\ thread' = [thread EXCEPT ![r] = t] /\ u.op = "userdel"
        /\ files' = files
    BY <1>1, <1>16, <2>1 DEF ListUserFiles, tables
  <2>3. t = [op |-> "userdel", step |-> "plan", user |-> u.user, path |-> u.path,
             file |-> u.file, todo |-> ids, targets |-> u.targets]
    BY <1>4, <2>1, <2>2
  <2>4. /\ ids \subseteq Planned'
        /\ \A f \in files' : f.id \in ids => f.owner = u.file
    BY <2>2, PlannedGrows DEF IInv, TablesOK
  <2> HIDE DEF ids
  <2>5. UserdelOK(t)'
    BY <1>3, <2>2, <2>3, <2>4 DEF ThreadOK, UserdelOK
  <2>6. ThreadOK(t)'
    BY <1>3, <2>2, <2>3, <2>5 DEF ThreadOK, IsThread
  <2>7. QED
    BY <1>5, <2>2, <2>3, <2>6
<1>17. CASE PlanUserFile(r)
  <2>1. u.op = "userdel" /\ u.todo # {} /\ UserdelOK(u)
    BY <1>1, <1>2, <1>17 DEF PlanUserFile, ThreadOK
  <2>2. \E i \in u.todo : \A j \in u.todo : j <= i
    BY <2>1, GreatestExists DEF UserdelOK, Planned, IInv, TablesOK
  <2>3. PICK id \in u.todo :
          thread' = [thread EXCEPT ![r] = [u EXCEPT !.todo = @ \ {id},
                                                    !.targets = @ \cup ChunksOf(id)]]
    BY <1>1, <1>17, <2>2 DEF PlanUserFile
  <2>4. PICK t : t = [u EXCEPT !.todo = @ \ {id}, !.targets = @ \cup ChunksOf(id)]
    OBVIOUS
  <2>5. t = [op |-> "userdel", step |-> "plan", user |-> u.user, path |-> u.path,
             file |-> u.file, todo |-> u.todo \ {id}, targets |-> u.targets \cup ChunksOf(id)]
    BY <1>1, <1>4, <1>17, <2>1, <2>4 DEF PlanUserFile
  <2>6. /\ ChunksOf(id) \subseteq Planned' \X Chunks
        /\ \A chunk \in ChunksOf(id) : chunk[1] = id
    BY PlannedGrows DEF ChunksOf, IInv, TablesOK
  <2>7. UserdelOK(t)'
    BY <1>3, <2>1, <2>5, <2>6 DEF ThreadOK, UserdelOK
  <2>8. ThreadOK(t)'
    BY <1>3, <2>1, <2>5, <2>6, <2>7 DEF ThreadOK, IsThread
  <2>9. QED
    BY <1>5, <2>1, <2>3, <2>4, <2>5, <2>8
<1>18. CASE DeleteUser(r)
  <2>1. PICK t : t = [u EXCEPT !.step = "ok"]
    OBVIOUS
  <2>2. /\ thread' = [thread EXCEPT ![r] = t] /\ u.op = "userdel"
        /\ files' = files \ {f \in files : f.owner = u.file}
    BY <1>1, <1>18, <2>1 DEF DeleteUser
  <2>3. t = [op |-> "userdel", step |-> "ok", user |-> u.user, path |-> u.path,
             file |-> u.file, todo |-> u.todo, targets |-> u.targets]
    BY <1>4, <2>1, <2>2
  <2>4. \A chunk \in u.targets : \A f \in files' : f.id # chunk[1]
    BY <1>2, <2>2 DEF ThreadOK, UserdelOK
  <2>5. UserdelOK(t)'
    BY <1>3, <2>2, <2>3, <2>4 DEF ThreadOK, UserdelOK, Gone
  <2>6. ThreadOK(t)'
    BY <1>3, <2>2, <2>3, <2>5 DEF ThreadOK, IsThread
  <2>7. QED
    BY <1>5, <2>2, <2>3, <2>6
<1>19. CASE Refuse(r)
  <2>1. PICK t : t = [u EXCEPT !.step = "error"]
    OBVIOUS
  <2>2. thread' = [thread EXCEPT ![r] = t]
    BY <1>1, <1>19, <2>1 DEF Refuse
  <2>3. t = [op |-> u.op, step |-> "error", user |-> u.user, path |-> u.path,
             file |-> u.file, todo |-> u.todo, targets |-> u.targets]
    BY <1>4, <2>1
  <2>4. /\ u.op = "complete" => CompleteOK(t)'
        /\ u.op = "remove"   => RemoveOK(t)'
        /\ u.op = "userdel"  => UserdelOK(t)'
    BY <1>3, <2>3 DEF ThreadOK, CompleteOK, RemoveOK, UserdelOK
  <2>5. ThreadOK(t)'
    BY <1>3, <2>3, <2>4 DEF ThreadOK, IsThread
  <2>6. QED
    BY <1>5, <2>2, <2>3, <2>5
<1>20. QED
  BY <1>6, <1>7, <1>8, <1>9, <1>10, <1>11, <1>12, <1>14, <1>15, <1>16, <1>17, <1>18, <1>19
  DEF Handle, HandleFiles, HandleUserdel

\* A request that has just arrived.
LEMMA NewRequestOK ==
  ASSUME NEW op, NEW user, NEW path, NEW file, NEW todo,
         op = "complete" => CompleteOK(Request(op, user, path, file, todo))',
         op = "userdel" => user \in Admins /\ todo = {}
  PROVE  ThreadOK(Request(op, user, path, file, todo))'
BY DEF ThreadOK, IsThread, Request, RemoveOK, UserdelOK

\* A client is a record of its five fields.
LEMMA ClientFields ==
  ASSUME IInv, NEW c \in Clients
  PROVE  \E old : /\ old = client[c]
                  /\ old = [pc |-> old.pc, path |-> old.path, request |-> old.request,
                            file |-> old.file, left |-> old.left]
BY DEF IInv, ClientsOK, ClientOK

\* Client c goes on to ask for a plan.
LEMMA PlanAsked ==
  ASSUME IInv, Frame, NEW c \in Clients, NEW done, AskPlan(c, done),
         done \in Requests => done[1] = c
  PROVE  ThreadsOK' /\ ClientsOK'
<1>1. PICK pc : pc = "plan"
  OBVIOUS
<1>2. OpAt(pc) = pc /\ pc \in Waiting /\ pc # "complete"
  BY <1>1 DEF OpAt, Waiting
<1>3. PICK path : Ask(c, done, pc, OpAt(pc), path, 0, Chunks)
  BY <1>1, <1>2 DEF AskPlan
<1>4. ThreadOK(Request(OpAt(pc), UserOf[c], path, 0, Chunks))'
  BY <1>1, <1>2, NewRequestOK
<1>5. QED
  BY <1>2, <1>3, <1>4, ClientAsks

\* Client c has no request, or has read the answer to the one it had.
LEMMA ClientIdles ==
  ASSUME IInv, Frame, NEW c \in Clients, Become(c, Idle),
         thread' = thread \/ (client[c].pc \in Waiting /\ Read(c))
  PROVE  ThreadsOK' /\ ClientsOK'
<1>1. PICK s : s = Idle
  OBVIOUS
<1>2. ClientOK(s)' /\ s.pc \notin Waiting
  BY <1>1 DEF ClientOK, Idle, Waiting
<1>3. QED
  BY <1>1, <1>2, ClientMoves DEF Become, Read

\* Client c has read which chunks it is to erase.
LEMMA ClientPurges ==
  ASSUME IInv, Frame, NEW c \in Clients, NEW pc \in {"purge", "purgeOld"},
         client[c].pc \in {"overwrite", "rm", "userdel"}, Answered(c), Answer(c).step = "ok",
         Purge(c, pc), Read(c)
  PROVE  ThreadsOK' /\ ClientsOK'
<1>1. PICK t : t = Answer(c)
  OBVIOUS
<1>2. /\ t \in {thread[r] : r \in Requests} /\ t # NoThread
      /\ t.op \in {"remove", "userdel"} /\ t.step = "ok"
  BY <1>1 DEF IInv, ClientsOK, RequestOK, Answered, Answer, OpAt, Waiting
<1>3. ThreadOK(t)
  BY <1>2 DEF IInv, ThreadsOK
<1>4. /\ t.targets \subseteq Planned' \X Chunks
      /\ \A chunk \in t.targets : Gone(chunk[1])'
  <2>1. t.targets \subseteq Planned \X Chunks /\ \A chunk \in t.targets : Gone(chunk[1])
    BY <1>2, <1>3 DEF ThreadOK, RemoveOK, UserdelOK
  <2>2. ASSUME NEW chunk \in t.targets PROVE Gone(chunk[1])'
    BY <2>1, GoneStays
  <2>3. QED
    BY <2>1, <2>2, PlannedGrows
<1>5. PICK old : /\ old = client[c]
           /\ old = [pc |-> old.pc, path |-> old.path, request |-> old.request,
                     file |-> old.file, left |-> old.left]
  BY ClientFields
<1>6. PICK s : s = [old EXCEPT !.pc = pc, !.request = NoRequest, !.left = t.targets]
  OBVIOUS
<1>7. s = [pc |-> pc, path |-> old.path, request |-> NoRequest, file |-> old.file,
           left |-> t.targets]
  BY <1>5, <1>6
<1>8. ClientOK(s)' /\ s.pc \notin Waiting
  BY <1>4, <1>7 DEF ClientOK, Waiting
<1>9. client' = [client EXCEPT ![c] = s]
  BY <1>1, <1>5, <1>6 DEF Purge, Become
<1>10. QED
  BY <1>8, <1>9, ClientMoves DEF Read, Waiting

\* A step of a client leaves all clients and threads right.
LEMMA ClientsStep ==
  ASSUME IInv, Frame, NEW c \in Clients, Start(c) \/ ClientStep(c) \/ ClientDies(c)
  PROVE  ThreadsOK' /\ ClientsOK'
<1> DEFINE request == client[c].request
<1>1. client[c].pc \in Waiting => request \in Requests /\ request[1] = c
  BY DEF IInv, ClientsOK, RequestOK
<1>2. NoRequest \notin Requests
  <2>1. \A id, n : <<>> # <<id, n>>
    OBVIOUS
  <2>2. \A r \in Requests : \E id, n : r = <<id, n>>
    BY FileStoreAssumption
  <2>3. QED
    BY <2>1, <2>2 DEF NoRequest
<1>3. PICK old : /\ old = client[c]
           /\ old = [pc |-> old.pc, path |-> old.path, request |-> old.request,
                     file |-> old.file, left |-> old.left]
  BY ClientFields
<1>4. CASE Start(c)
  <2>1. ASSUME NEW pc \in {"list", "rm", "download", "mkdir", "quota", "userdel"}, NEW path, NEW file,
               Ask(c, NoRequest, pc, OpAt(pc), path, file, {}),
               pc = "userdel" => UserOf[c] \in Admins
        PROVE  ThreadsOK' /\ ClientsOK'
    <3>1. ThreadOK(Request(OpAt(pc), UserOf[c], path, file, {}))'
      BY <2>1, NewRequestOK DEF OpAt
    <3>2. QED
      BY <1>2, <2>1, <3>1, ClientAsks DEF Waiting
  <2>2. QED
    BY <1>4, <2>1 DEF Start, AskQuota, AskUserdel, OpAt
<1>5. CASE ListAnswered(c)
  <2>1. client[c].pc \in Waiting
    BY <1>5 DEF ListAnswered, Waiting
  <2>2. CASE Read(c) /\ Become(c, Idle)
    BY <2>1, <2>2, ClientIdles
  <2>3. CASE Ask(c, request, "overwrite", "remove", FullPath(client[c].path), 0, {})
    <3>1. PICK path, done : /\ path = FullPath(client[c].path) /\ done = request
                            /\ Ask(c, done, "overwrite", OpAt("overwrite"), path, 0, {})
      BY <2>3 DEF OpAt
    <3>2. ThreadOK(Request(OpAt("overwrite"), UserOf[c], path, 0, {}))'
      BY NewRequestOK DEF OpAt
    <3>3. QED
      BY <1>1, <2>1, <3>1, <3>2, ClientAsks DEF Waiting
  <2>4. CASE AskPlan(c, request)
    BY <1>1, <2>1, <2>4, PlanAsked
  <2>5. QED
    BY <1>5, <2>2, <2>3, <2>4 DEF ListAnswered
<1>6. CASE OverwriteAnswered(c)
  BY <1>1, <1>6, ClientPurges, PlanAsked DEF OverwriteAnswered, Waiting
<1>7. CASE PlanAnswered(c)
  <2>1. CASE Answer(c).step # "ok"
    BY <1>7, <2>1, ClientIdles DEF PlanAnswered, Waiting
  <2>2. CASE Answer(c).step = "ok"
    <3>1. PICK file : file = Answer(c).file
      OBVIOUS
    <3>2. file \in Planned'
      BY <1>7, <2>2, <3>1, PlannedGrows
      DEF PlanAnswered, Answered, Answer, IInv, ClientsOK, RequestOK, OpAt, Waiting,
          ThreadsOK, ThreadOK
    <3>3. PICK s : s = [old EXCEPT !.pc = "transfer", !.request = NoRequest,
                          !.file = file, !.left = {file} \X Chunks]
      OBVIOUS
    <3>4. s = [pc |-> "transfer", path |-> old.path, request |-> NoRequest,
               file |-> file, left |-> {file} \X Chunks]
      BY <1>3, <3>3
    <3>5. ClientOK(s)' /\ s.pc \notin Waiting
      BY <3>2, <3>4 DEF ClientOK, Waiting, Blocks
    <3>6. QED
      BY <1>3, <1>7, <2>2, <3>1, <3>3, <3>5, ClientMoves
      DEF PlanAnswered, Become, Read, Waiting
  <2>3. QED
    BY <2>1, <2>2

<1>8. CASE Transfer(c)
  <2>1. /\ client[c].pc = "transfer" /\ client[c].left # {}
        /\ ClientOK(client[c]) /\ ClientOK(client[c])
    BY <1>8 DEF Transfer, IInv, ClientsOK
  <2>2. PICK file, left : /\ file = client[c].file /\ left = client[c].left
                          /\ left \subseteq Blocks(file, Chunks)
                          /\ file \in Planned
                          /\ Gone(file) \/ Blocks(file, Chunks) \ left \subseteq onAll
    BY <2>1 DEF ClientOK
  <2>3. PICK chunk \in left : /\ onAll' = onAll \cup {chunk} /\ files' = files
                              /\ thread' = thread
                              /\ client' = [client EXCEPT ![c] = [client[c] EXCEPT !.left = @ \ {chunk}]]
    BY <1>8, <2>1, <2>2, NextChunkIsLeft DEF Transfer, Become, metaVars
  <2>4. PICK s : s = [old EXCEPT !.left = @ \ {chunk}]
    OBVIOUS
  <2>5. s = [pc |-> "transfer", path |-> old.path, request |-> old.request,
             file |-> file, left |-> left \ {chunk}]
    BY <1>3, <2>1, <2>2, <2>4
  <2>6. (Gone(file) \/ Blocks(file, Chunks) \ (left \ {chunk}) \subseteq onAll)'
    BY <2>2, <2>3 DEF Gone, Blocks
  <2>7. ClientOK(s)' /\ s.pc \notin Waiting
    BY <2>2, <2>5, <2>6, PlannedGrows DEF ClientOK, Waiting, Blocks
  <2>8. QED
    BY <1>3, <2>3, <2>4, <2>7, ClientMoves
<1>9. CASE TransferFails(c) \/ ClientDies(c)
  BY <1>9, ClientIdles DEF TransferFails, ClientDies, metaVars
<1>10. CASE AskComplete(c)
  <2>1. ClientOK(client[c]) /\ client[c].pc = "transfer" /\ client[c].left = {}
    BY <1>10 DEF AskComplete, IInv, ClientsOK
  <2>2. PICK path, file, pc :
          /\ file = client[c].file /\ file \in Planned
          /\ pc = "complete" /\ OpAt(pc) = pc
          /\ Ask(c, NoRequest, pc, OpAt(pc), path, file, Chunks)
    BY <1>10, <2>1 DEF AskComplete, ClientOK, OpAt
  <2>3. (Gone(file) \/ Blocks(file, Chunks) \subseteq onAll)'
    BY <1>10, <2>1, <2>2 DEF ClientOK, AskComplete, tables, blockVars, Gone
  <2>4. CompleteOK(Request("complete", UserOf[c], path, file, Chunks))'
    <3>1. /\ file \in Planned' /\ Chunks \ Chunks = {} /\ Chunks # {}
          /\ Blocks(file, {}) = {}
      BY <2>2, PlannedGrows, FileStoreAssumption DEF Blocks
    <3>2. QED
      BY <2>3, <3>1 DEF CompleteOK, Request, Blocks
  <2>5. ThreadOK(Request(OpAt(pc), UserOf[c], path, file, Chunks))'
    BY <2>2, <2>4, NewRequestOK
  <2>6. pc \in Waiting
    BY <2>2 DEF Waiting
  <2>7. QED
    BY <1>2, <2>2, <2>5, <2>6, ClientAsks
<1>11. CASE CompleteAnswered(c) \/ OtherAnswered(c)
  BY <1>11, ClientIdles DEF CompleteAnswered, OtherAnswered, Waiting
<1>12. CASE RemoveAnswered(c)
  BY <1>12, ClientIdles, ClientPurges DEF RemoveAnswered, Waiting
<1>13. CASE Erase(c)
  <2>1. client[c].pc \in {"purge", "purgeOld"} /\ ClientOK(client[c])
    BY <1>13 DEF Erase, IInv, ClientsOK
  <2>2. PICK chunk : client' = [client EXCEPT ![c] = [client[c] EXCEPT !.left = @ \ {chunk}]]
    BY <1>13 DEF Erase, Become
  <2>3. PICK s : s = [old EXCEPT !.left = @ \ {chunk}]
    OBVIOUS
  <2>4. PICK pc, left : /\ pc = client[c].pc /\ left = client[c].left
                        /\ left \subseteq Planned' \X Chunks
                        /\ \A other \in left : Gone(other[1])'
    <3>1. PICK now : now = client[c]
      OBVIOUS
    <3>2. ClientOK(now)'
      BY <2>1, <3>1, ClientStaysOK
    <3>3. now.left \subseteq Planned' \X Chunks /\ \A other \in now.left : Gone(other[1])'
      BY <2>1, <3>1, <3>2 DEF ClientOK
    <3>4. QED
      BY <3>1, <3>3
  <2>5. s = [pc |-> pc, path |-> old.path, request |-> old.request,
             file |-> old.file, left |-> left \ {chunk}]
    BY <1>3, <2>3, <2>4
  <2>6. ClientOK(s)' /\ s.pc \notin Waiting
    BY <2>1, <2>4, <2>5 DEF ClientOK, Waiting
  <2>7. QED
    BY <1>3, <1>13, <2>2, <2>3, <2>6, ClientMoves DEF Erase, metaVars
<1>14. CASE Purged(c)
  BY <1>2, <1>14, ClientIdles, PlanAsked DEF Purged
<1>15. CASE NoAnswer(c)
  BY <1>2, <1>15, ClientIdles, PlanAsked DEF NoAnswer
<1>16. QED
  BY <1>4, <1>5, <1>6, <1>7, <1>8, <1>9, <1>10, <1>11, <1>12, <1>13, <1>14, <1>15 DEF ClientStep

-----------------------------------------------------------------------------
(* The invariant.                                                          *)

\* A step leaves clients and threads right.
LEMMA ActorsStep ==
  ASSUME IInv, [Next]_vars
  PROVE  ThreadsOK' /\ ClientsOK'
<1> USE DEF IInv, ThreadsOK, ClientsOK
<1>1. Frame
  BY StepIsFrame
<1>2. ASSUME thread' = thread, client' = client
      PROVE  ThreadsOK' /\ ClientsOK'
  <2>1. \A r \in Requests : (thread[r] = NoThread \/ ThreadOK(thread[r]))'
    BY <1>1, <1>2, ThreadKept
  <2>2. \A c \in Clients : ClientOK(client[c])'
    BY <1>1, <1>2, ClientKept
  <2>3. \A c \in Clients : RequestOK(c)'
    BY <1>2 DEF RequestOK
  <2>4. QED
    BY <1>2, <2>1, <2>2, <2>3
<1>3. ASSUME client' = client,
             \A r \in Requests : thread'[r] = thread[r] \/ thread'[r] = NoThread,
             thread' = [r \in Requests |-> thread'[r]]
      PROVE  ThreadsOK' /\ ClientsOK'
  <2>1. \A r \in Requests : (thread[r] = NoThread \/ ThreadOK(thread[r]))'
    BY <1>1, <1>3, ThreadKept
  <2>2. \A c \in Clients : ClientOK(client[c])'
    BY <1>1, <1>3, ClientKept
  <2>3. \A c \in Clients : RequestOK(c)'
    BY <1>3 DEF RequestOK
  <2>4. QED
    BY <1>3, <2>1, <2>2, <2>3
<1>4. ASSUME NEW r \in Requests, ServerStep(r)
      PROVE  ThreadsOK' /\ ClientsOK'
  BY <1>1, <1>4, HandlerStep DEF ServerStep
<1>5. ASSUME NEW r \in Requests, DropAnswer(r)
      PROVE  ThreadsOK' /\ ClientsOK'
  <2>1. client' = client /\ thread' = [thread EXCEPT ![r] = NoThread]
    BY <1>5 DEF DropAnswer, Update
  <2>2. /\ \A q \in Requests : thread'[q] = thread[q] \/ thread'[q] = NoThread
        /\ thread' = [q \in Requests |-> thread'[q]]
    BY <2>1
  <2>3. QED
    BY <1>3, <2>1, <2>2
<1>6. CASE ServerRestarts
  BY <1>3, <1>6 DEF ServerRestarts, RestartServer
<1>7. ASSUME NEW chunk \in erasing, Unlink(chunk)
      PROVE  ThreadsOK' /\ ClientsOK'
  BY <1>2, <1>7 DEF Unlink, metaVars
<1>8. CASE UNCHANGED vars
  BY <1>2, <1>8 DEF vars, metaVars
<1>9. QED
  BY <1>1, <1>4, <1>5, <1>6, <1>7, <1>8, ClientsStep DEF Next

LEMMA InitIInv == Init => IInv
<1> SUFFICES ASSUME Init PROVE IInv
  OBVIOUS
<1> USE DEF Init, MetaInit
<1>1. TablesOK /\ RowsOK /\ ErasingOK /\ ConfirmedOK
  BY DEF TablesOK, RowsOK, ErasingOK, ConfirmedOK
<1>2. ThreadsOK
  BY DEF ThreadsOK
<1>3. \A c \in Clients : ClientOK(client[c]) /\ RequestOK(c)
  BY DEF ClientOK, RequestOK, Idle, Waiting
<1>4. QED
  BY <1>1, <1>2, <1>3 DEF IInv, ClientsOK

LEMMA NextIInv == IInv /\ [Next]_vars => IInv'
BY TablesStep, ActorsStep, RowsStep, ErasingStep, ConfirmedStep DEF IInv

\* The invariant holds in every reachable state, whatever clients, handlers,
\* nodes and failures do (core.py:41-103, server.py:33-159, db.py:95-200).
THEOREM InductiveInvariant == Spec => []IInv
BY InitIInv, NextIInv, PTL DEF Spec

-----------------------------------------------------------------------------
(* What follows from it.                                                   *)

LEMMA IInvRegistered == IInv => RegisteredIsStored
BY DEF IInv, RowsOK, RegisteredIsStored, ChunksOf, Gone

LEMMA IInvConfirmed == IInv => ConfirmedSurvives
<1> SUFFICES ASSUME IInv, NEW f \in files, f.id \in confirmed
             PROVE  ChunksOf(f.id) = {f.id} \X Chunks
  BY DEF ConfirmedSurvives
<1>1. {f.id} \X Chunks \subseteq chunkRows
  BY DEF IInv, ConfirmedOK, Gone, Blocks
<1>2. chunkRows \subseteq Planned \X Chunks
  BY DEF IInv, TablesOK
<1>3. QED
  BY <1>1, <1>2 DEF ChunksOf

\* Every chunk registered for a file that is there is complete on its three
\* replicas: rows are written only after all transfers, erasures are sent only
\* for files that are gone for good (core.py:74-77, 101-102; server.py:101-102).
THEOREM RegisteredStaysStored == Spec => []RegisteredIsStored
BY InductiveInvariant, IInvRegistered, PTL

\* A file whose upload was reported as a success keeps all its chunks until its
\* row is deleted (core.py:70-79).
THEOREM ConfirmedStays == Spec => []ConfirmedSurvives
BY InductiveInvariant, IInvConfirmed, PTL

\* A download-plan that is read while complete registers a file's chunks, one
\* transaction per chunk, gives a beginning of the file (db.py:168-173).
THEOREM RegistrationHasNoGaps == Spec => []Life!NoGaps
<1>1. IInv => Life!NoGaps
  BY DEF IInv, RowsOK, Gone, Life!NoGaps
<1>2. QED
  BY <1>1, InductiveInvariant, PTL

\* A file row disappears in a step of the handler of its owner or of an
\* administrator (server.py:95-102, 145-159).
LEMMA StepRemovesPermitted ==
  ASSUME IInv, [Next]_vars, NEW f \in files, f \notin files'
  PROVE  \E r \in Requests : /\ thread[r].op \in {"remove", "userdel"}
                             /\ MayUse(thread[r].user, f)
                             /\ thread'[r].step = "ok"
<1>1. PICK r \in Requests : DeleteFile(r) \/ DeleteUser(r)
  BY StepKinds DEF AddFile, AddChunk, Transfer, TransferFails, CompleteAnswered, Erase,
                   Unlink, tables, metaVars
<1>2. PICK t : t = thread[r]
  OBVIOUS
<1>3. t # NoThread
  BY <1>1, <1>2 DEF DeleteFile, DeleteUser, At, NoThread
<1>4. ThreadOK(t)
  BY <1>2, <1>3 DEF IInv, ThreadsOK
<1>5. t.op \in {"remove", "userdel"} /\ thread'[r].step = "ok"
  BY <1>1, <1>2, <1>4 DEF DeleteFile, DeleteUser, At, Update, ThreadOK, IsThread, IInv, ThreadsOK
<1>6. MayUse(t.user, f)
  BY <1>1, <1>2, <1>4 DEF DeleteFile, DeleteUser, At, ThreadOK, RemoveOK, UserdelOK, MayUse
<1>7. QED
  BY <1>2, <1>5, <1>6

\* No file is removed but for its owner or an administrator, although the
\* permission is checked in an earlier transaction than the deletion.
THEOREM RemovalsPermitted == Spec => OnlyPermittedRemovals
<1>1. IInv /\ [Next]_vars =>
        [\A f \in files : f \in files' \/
           \E r \in Requests : thread[r].op \in {"remove", "userdel"}
                               /\ MayUse(thread[r].user, f) /\ thread'[r].step = "ok"]_vars
  BY StepRemovesPermitted
<1>2. QED
  BY <1>1, InductiveInvariant, PTL DEF Spec, OnlyPermittedRemovals

-----------------------------------------------------------------------------
(* FileStore implements FileLife.                                          *)

\* What a step does to the ids of the files that are there.
LEMMA LiveIds ==
  ASSUME NEW ids, files' = {f \in files : f.id \notin ids}
  PROVE  {f.id : f \in files'} = {f.id : f \in files} \ ids
OBVIOUS

\* AddFile plans a file.
LEMMA AddFilePlans ==
  ASSUME NEW r \in Requests, AddFile(r), UNCHANGED <<client, blockVars, confirmed>>
  PROVE  Life!Plan
<1>1. PICK row : files' = files \cup {row} /\ row.id = lastId + 1
  <2> DEFINE row == [id |-> lastId + 1, path |-> RowPath(r), owner |-> thread[r].user,
                     chunks |-> Cardinality(thread[r].todo)]
  <2>1. files' = files \cup {row} /\ row.id = lastId + 1
    BY DEF AddFile
  <2> HIDE DEF row
  <2>2. QED
    BY <2>1
<1>2. lastId' = lastId + 1 /\ chunkRows' = chunkRows
  BY DEF AddFile
<1>3. {f.id : f \in files'} = {f.id : f \in files} \cup {lastId'}
  BY <1>1, <1>2
<1>4. QED
  BY <1>2, <1>3 DEF Life!Plan, blockVars

\* AddChunk registers a chunk that is stored, after those below it.
LEMMA AddChunkRegisters ==
  ASSUME IInv, NEW r \in Requests, AddChunk(r), UNCHANGED <<client, blockVars, confirmed>>
  PROVE  \E file \in Planned, index \in Chunks : Life!Register(file, index)
<1> DEFINE file == thread[r].file
<1>1. /\ CompleteOK(thread[r])
      /\ AddsChunk(r)
  BY AddsOneChunk DEF AddsChunk
<1>2. PICK index \in thread[r].todo :
        /\ \A j \in thread[r].todo : index <= j
        /\ chunkRows' = chunkRows \cup {<<file, index>>}
  BY <1>1 DEF AddsChunk
<1>3. file \in Planned /\ index \in Chunks
  BY <1>1 DEF CompleteOK
<1>4. \A i \in Chunks : i < index => i \in Chunks \ thread[r].todo
  <2>1. Chunks \subseteq Nat
    BY FileStoreAssumption
  <2>2. \A i, j \in Nat : ~ (i < j /\ j <= i)
    OBVIOUS
  <2>3. QED
    BY <1>2, <1>3, <2>1, <2>2
<1>5. ~ Gone(file) => /\ <<file, index>> \in onAll
                      /\ \A i \in Chunks : i < index => <<file, i>> \in chunkRows
  BY <1>1, <1>3, <1>4 DEF CompleteOK, Blocks
<1>6. file \in {f.id : f \in files} => ~ Gone(file)
  BY DEF Gone
<1>7. files' = files /\ lastId' = lastId
  BY DEF AddChunk
<1>8. Life!Register(file, index)
  BY <1>2, <1>5, <1>6, <1>7 DEF Life!Register, blockVars
<1>9. QED
  BY <1>3, <1>8

\* DeleteFile and DeleteUser remove files with the rows of their chunks.
LEMMA DeletionRemoves ==
  ASSUME IInv, NEW r \in Requests, DeleteFile(r) \/ DeleteUser(r),
         UNCHANGED <<client, blockVars, confirmed>>
  PROVE  \E ids \in SUBSET Planned : Life!Remove(ids)
<1>1. \A f \in files : f.id \in Planned
  BY DEF IInv, TablesOK
<1>2. CASE DeleteFile(r)
  <2> DEFINE ids == {f.id : f \in {g \in files : g.id = thread[r].file}}
  <2>1. PICK id : id = thread[r].file
    OBVIOUS
  <2>2. /\ files' = {f \in files : f.id # id} /\ lastId' = lastId
        /\ chunkRows' = {row \in chunkRows : row[1] # id}
    BY <1>2, <2>1 DEF DeleteFile, ChunksOf
  <2>3. id \in Planned
    <3>1. thread[r].op = "remove" /\ thread[r].step = "delete"
      BY <1>2 DEF DeleteFile, At
    <3>2. ThreadOK(thread[r])
      BY <3>1 DEF IInv, ThreadsOK, NoThread
    <3>3. QED
      BY <2>1, <3>1, <3>2 DEF ThreadOK, RemoveOK
  <2>4. files' = {f \in files : f.id \notin {id}}
    BY <2>2
  <2>5. {f.id : f \in files'} = {f.id : f \in files} \ {id}
    BY <2>4, LiveIds
  <2>6. chunkRows' = {row \in chunkRows : row[1] \notin {id}}
    BY <2>2
  <2>7. Life!Remove({id})
    BY <2>2, <2>5, <2>6 DEF Life!Remove, blockVars
  <2>8. QED
    BY <2>3, <2>7
<1>3. CASE DeleteUser(r)
  <2>1. PICK user : user = thread[r].file
    OBVIOUS
  <2>2. PICK owned : owned = {f \in files : f.owner = user}
    OBVIOUS
  <2>3. PICK ids : ids = {f.id : f \in owned}
    OBVIOUS
  <2>4. /\ files' = files \ owned /\ lastId' = lastId
        /\ chunkRows' = chunkRows \ UNION {ChunksOf(f.id) : f \in owned}
    BY <1>3, <2>1, <2>2 DEF DeleteUser
  <2>5. files' = {f \in files : f.id \notin ids}
    BY <2>2, <2>3, <2>4 DEF IInv, TablesOK
  <2>6. \A row \in chunkRows :
          row \in UNION {ChunksOf(f.id) : f \in owned} <=> row[1] \in ids
    BY <2>3 DEF ChunksOf
  <2>7. chunkRows' = {row \in chunkRows : row[1] \notin ids}
    BY <2>4, <2>6
  <2>8. {f.id : f \in files'} = {f.id : f \in files} \ ids
    BY <2>5, LiveIds
  <2>9. ids \in SUBSET Planned
    BY <1>1, <2>2, <2>3
  <2>10. Life!Remove(ids)
    BY <2>4, <2>7, <2>8 DEF Life!Remove, blockVars
  <2>11. QED
    BY <2>9, <2>10
<1>4. QED
  BY <1>2, <1>3

\* A transfer stores a chunk of a planned file, whole or not.
LEMMA TransferStores ==
  ASSUME IInv, NEW c \in Clients, Transfer(c) \/ TransferFails(c)
  PROVE  \/ UNCHANGED Life!vars
         \/ \E file \in Planned, index \in Chunks : Life!Store(file, index)
<1> USE DEF metaVars, blockVars
<1>1. CASE onAll' = onAll
  BY <1>1 DEF Transfer, TransferFails, Life!vars
<1>2. CASE onAll' = onAll \cup {NextChunk(c)}
  <2>1. /\ client[c].pc = "transfer" /\ client[c].left # {} /\ ClientOK(client[c])
        /\ client[c].file \in Planned
    BY DEF Transfer, TransferFails, IInv, ClientsOK, ClientOK
  <2>2. NextChunk(c) \in Blocks(client[c].file, Chunks)
    BY <2>1, NextChunkIsLeft DEF ClientOK
  <2>3. PICK index \in Chunks : NextChunk(c) = <<client[c].file, index>>
    BY <2>2 DEF Blocks
  <2>4. Life!Store(client[c].file, index)
    BY <1>2, <2>3 DEF Transfer, TransferFails, Life!Store
  <2>5. QED
    BY <2>1, <2>4
<1>3. QED
  BY <1>1, <1>2 DEF Transfer, TransferFails

\* A client confirms a file that is whole, or gone.
LEMMA AnswerConfirms ==
  ASSUME IInv, NEW c \in Clients, CompleteAnswered(c)
  PROVE  UNCHANGED Life!vars \/ \E file \in Planned : Life!Confirm(file)
<1>1. UNCHANGED <<files, chunkRows, lastId, onAll>>
  BY DEF CompleteAnswered, tables, blockVars
<1>2. CASE confirmed' = confirmed
  BY <1>1, <1>2 DEF Life!vars
<1>3. CASE confirmed' # confirmed
  <2>1. PICK id \in Planned : /\ confirmed' = confirmed \cup {id}
                              /\ Gone(id) \/ Blocks(id, Chunks) \subseteq chunkRows
    BY <1>3, ConfirmsWhole
  <2>2. id \in {f.id : f \in files} => {id} \X Chunks \subseteq chunkRows
    BY <2>1 DEF Gone, Blocks
  <2>3. Life!Confirm(id)
    BY <1>1, <2>1, <2>2 DEF Life!Confirm
  <2>4. QED
    BY <2>3
<1>4. QED
  BY <1>2, <1>3

\* A node erases a chunk of a file that is gone.
LEMMA UnlinkErases ==
  ASSUME IInv, NEW chunk \in erasing, Unlink(chunk)
  PROVE  \E file \in Planned, index \in Chunks : Life!Erase(file, index)
<1>1. chunk \in Planned \X Chunks /\ Gone(chunk[1])
  BY DEF IInv, ErasingOK
<1>2. PICK file \in Planned, index \in Chunks : chunk = <<file, index>>
  BY <1>1
<1>3. file \notin {f.id : f \in files}
  BY <1>1, <1>2 DEF Gone
<1>4. Life!Erase(file, index)
  BY <1>2, <1>3 DEF Unlink, Life!Erase, metaVars
<1>5. QED
  BY <1>4

LEMMA StepIsLife ==
  ASSUME IInv, [Next]_vars
  PROVE  [Life!Next]_(Life!vars)
<1> USE DEF Life!Next, Life!Planned, Planned
<1>1. CASE UNCHANGED <<files, chunkRows, lastId, onAll, erasing, confirmed>>
  BY <1>1 DEF Life!vars
<1>2. ASSUME NEW r \in Requests,
             AddFile(r) \/ AddChunk(r) \/ DeleteFile(r) \/ DeleteUser(r),
             UNCHANGED <<client, blockVars, confirmed>>
      PROVE  Life!Next
  BY <1>2, AddFilePlans, AddChunkRegisters, DeletionRemoves
<1>3. ASSUME NEW c \in Clients, Transfer(c) \/ TransferFails(c) \/ CompleteAnswered(c)
      PROVE  [Life!Next]_(Life!vars)
  BY <1>3, TransferStores, AnswerConfirms
<1>4. ASSUME NEW c \in Clients, Erase(c)
      PROVE  UNCHANGED Life!vars
  BY <1>4 DEF Erase, metaVars, Life!vars
<1>5. ASSUME NEW chunk \in erasing, Unlink(chunk)
      PROVE  Life!Next
  BY <1>5, UnlinkErases
<1>6. QED
  BY <1>1, <1>2, <1>3, <1>4, <1>5, StepKinds

\* What clients, handlers and nodes do together is the life of files: an id
\* names one file for ever, chunks are stored before they are registered and
\* registered in order, blocks are erased only for files that are gone
\* (core.py:41-103, db.py:95-200).
THEOREM Refinement == Spec => ImplementsFileLife
<1>1. Init => Life!Init
  BY DEF Init, MetaInit, Life!Init
<1>2. IInv /\ [Next]_vars => [Life!Next]_(Life!vars)
  BY StepIsLife
<1>3. QED
  BY <1>1, <1>2, InductiveInvariant, PTL DEF Spec, ImplementsFileLife, Life!Spec

-----------------------------------------------------------------------------
(* The types of the variables.                                             *)

FileOps == {"list", "plan", "complete", "remove", "download", "mkdir"}
OnPath  == {"list", "overwrite", "plan", "complete", "rm", "download", "mkdir",
            "transfer", "purgeOld"}
Steps   == {"start", "verified", "found", "plan", "delete"} \cup Replied

\* The paths of a client, as it spells them and with the leading slash.
Spelled(c) == PathsOf[c] \cup {FullPath(path) : path \in PathsOf[c]}

\* A handler works for the user of the client that called it, on one of the
\* paths of that client.
ThreadTyped(r, t) ==
  /\ t.user = UserOf[r[1]] /\ t.step \in Steps
  /\ t.op \in FileOps => t.path \in Spelled(r[1])
  /\ t.op \in {"plan", "mkdir"} /\ t.step = "start" => t.todo \subseteq Chunks

ClientTyped(c, s) ==
  /\ s.pc \in {"idle"} \cup Waiting \cup Working
  /\ s.request \in Requests \cup {NoRequest}
  /\ s.left \subseteq Planned \X Chunks
  /\ s.pc \in OnPath => s.path \in Spelled(c)

ActorsTyped ==
  /\ \A r \in Requests : thread[r] = NoThread \/ ThreadTyped(r, thread[r])
  /\ \A c \in Clients : ClientTyped(c, client[c])

TablesTyped ==
  /\ accounts \subseteq Users /\ lastId <= MaxFiles
  /\ \A f \in files : f.path \in Paths /\ f.owner \in Users /\ f.chunks \in Nat

BlocksTyped == onAll \subseteq onSome /\ onSome \subseteq Planned \X Chunks

StartedTyped == started \in [Clients -> Nat] /\ \A c \in Clients : started[c] <= MaxCommands[c]

TypeInv == ActorsTyped /\ TablesTyped /\ BlocksTyped /\ StartedTyped

\* A leading slash is put before a path once.
LEMMA Prepended ==
  ASSUME NEW S, NEW x \in S, NEW path \in Seq(S)
  PROVE  <<x>> \o path \in Seq(S) /\ (<<x>> \o path)[1] = x
<1>1. <<x>> \in Seq(S) /\ Len(<<x>>) = 1 /\ Len(path) \in Nat /\ <<x>>[1] = x
  OBVIOUS
<1>2. 1 \in 1..(Len(<<x>>) + Len(path)) /\ 1 <= Len(<<x>>)
  BY <1>1
<1>3. QED
  BY <1>1, <1>2, ConcatProperties

LEMMA FullPathIsAbsolute ==
  ASSUME NEW path \in Paths
  PROVE  /\ FullPath(path) \in Paths /\ IsAbsolute(FullPath(path))
         /\ FullPath(FullPath(path)) = FullPath(path)
<1>1. FullPath(path) \in Paths /\ path \in Seq(STRING)
  BY MetadataAssumption
<1>2. IsAbsolute(FullPath(path))
  <2>1. CASE IsAbsolute(path)
    BY <2>1 DEF FullPath
  <2>2. CASE ~ IsAbsolute(path)
    <3>1. PICK x : x = "/"
      OBVIOUS
    <3>2. path \in Seq(STRING \cup {x}) /\ x \in STRING \cup {x}
      BY <1>1
    <3>3. (<<x>> \o path)[1] = x
      BY <3>2, Prepended
    <3>4. QED
      BY <2>2, <3>1, <3>3 DEF FullPath, IsAbsolute, Root
  <2>3. QED
    BY <2>1, <2>2
<1>3. QED
  BY <1>1, <1>2 DEF FullPath

LEMMA SpelledPaths ==
  ASSUME NEW c \in Clients, NEW path \in Spelled(c)
  PROVE  path \in Paths /\ FullPath(path) \in Spelled(c)
<1>1. PathsOf[c] \subseteq Paths
  BY FileStoreAssumption
<1>2. QED
  BY <1>1, FullPathIsAbsolute DEF Spelled

\* What a transaction of a handler does to its thread.
LEMMA HandlerKeeps ==
  ASSUME IInv, NEW r \in Requests, Handle(r) \/ Refuse(r)
  PROVE  /\ thread[r] # NoThread
         /\ \E t : /\ thread' = [thread EXCEPT ![r] = t]
                   /\ t.op = thread[r].op /\ t.user = thread[r].user
                   /\ t.path = thread[r].path /\ t.step \in Steps
                   /\ t.op \in {"plan", "mkdir"} => t.step # "start"
<1>1. PICK u : u = thread[r]
  OBVIOUS
<1>2. u # NoThread
  BY <1>1 DEF Handle, HandleFiles, HandleUserdel, Refuse, AddFile, AddChunk, ListFiles, ReportQuota, LookUpFile, ReadChunks,
       DeleteFile, VerifyAdmin, LookUpUser, ListUserFiles, PlanUserFile, DeleteUser,
       At, NoThread
<1>3. u = [op |-> u.op, step |-> u.step, user |-> u.user, path |-> u.path,
           file |-> u.file, todo |-> u.todo, targets |-> u.targets]
  BY <1>1, <1>2 DEF IInv, ThreadsOK, ThreadOK, IsThread
<1>4. ASSUME NEW t, thread' = [thread EXCEPT ![r] = t],
             \E step, file, todo, targets :
               /\ t = [op |-> u.op, step |-> step, user |-> u.user, path |-> u.path,
                       file |-> file, todo |-> todo, targets |-> targets]
               /\ step \in Steps
               /\ u.op \in {"plan", "mkdir"} => step # "start"
      PROVE  \E new : /\ thread' = [thread EXCEPT ![r] = new]
                      /\ new.op = u.op /\ new.user = u.user
                      /\ new.path = u.path /\ new.step \in Steps
                      /\ new.op \in {"plan", "mkdir"} => new.step # "start"
  <2>1. /\ t.op = u.op /\ t.user = u.user /\ t.path = u.path /\ t.step \in Steps
        /\ t.op \in {"plan", "mkdir"} => t.step # "start"
    BY <1>4
  <2>2. QED
    BY <1>4, <2>1
<1> USE DEF At, Update, Steps, Replied
<1>5. CASE AddFile(r) \/ ReportQuota(r)
  <2>1. PICK file : thread' = [thread EXCEPT ![r] = [u EXCEPT !.step = "ok", !.file = file]]
    BY <1>1, <1>5 DEF AddFile, ReportQuota
  <2>2. PICK t : t = [u EXCEPT !.step = "ok", !.file = file]
    OBVIOUS
  <2>3. t = [op |-> u.op, step |-> "ok", user |-> u.user, path |-> u.path,
             file |-> file, todo |-> u.todo, targets |-> u.targets]
    BY <1>3, <2>2
  <2>4. QED
    BY <1>1, <1>2, <1>4, <2>1, <2>2, <2>3
<1>6. CASE \/ Refuse(r) \/ DeleteFile(r) \/ DeleteUser(r)
           \/ ListFiles(r) \/ VerifyAdmin(r) \/ LookUpUser(r)
  <2>1. PICK step \in Steps \ {"start"} : thread' = [thread EXCEPT ![r] = [u EXCEPT !.step = step]]
    BY <1>1, <1>6 DEF Refuse, DeleteFile, DeleteUser, ListFiles, VerifyAdmin, LookUpUser
  <2>2. PICK t : t = [u EXCEPT !.step = step]
    OBVIOUS
  <2>3. t = [op |-> u.op, step |-> step, user |-> u.user, path |-> u.path,
             file |-> u.file, todo |-> u.todo, targets |-> u.targets]
    BY <1>3, <2>2
  <2>4. QED
    BY <1>1, <1>2, <1>4, <2>1, <2>2, <2>3
<1>7. CASE AddChunk(r)
  <2> DEFINE rest == u.todo \ {CHOOSE i \in u.todo : \A j \in u.todo : i <= j}
  <2>1. PICK t : t = [u EXCEPT !.todo = rest, !.step = IF rest = {} THEN "ok" ELSE "start"]
    OBVIOUS
  <2>2. thread' = [thread EXCEPT ![r] = t] /\ u.op = "complete"
    BY <1>1, <1>7, <2>1 DEF AddChunk
  <2>3. t = [op |-> u.op, step |-> IF rest = {} THEN "ok" ELSE "start", user |-> u.user,
             path |-> u.path, file |-> u.file, todo |-> rest, targets |-> u.targets]
    BY <1>3, <2>1
  <2>4. QED
    BY <1>1, <1>2, <1>4, <2>2, <2>3
<1>8. CASE ListUserFiles(r)
  <2>1. PICK todo : thread' = [thread EXCEPT ![r] = [u EXCEPT !.step = "plan", !.todo = todo]]
    BY <1>1, <1>8 DEF ListUserFiles
  <2>2. PICK t : t = [u EXCEPT !.step = "plan", !.todo = todo]
    OBVIOUS
  <2>3. t = [op |-> u.op, step |-> "plan", user |-> u.user, path |-> u.path,
             file |-> u.file, todo |-> todo, targets |-> u.targets]
    BY <1>3, <2>2
  <2>4. u.op = "userdel"
    BY <1>1, <1>8 DEF ListUserFiles
  <2>5. QED
    BY <1>1, <1>2, <1>4, <2>1, <2>2, <2>3, <2>4
<1>9. CASE LookUpFile(r)
  <2> DEFINE found == /\ Named(FullPath(u.path)) # {}
                      /\ MayUse(u.user, FileByName(FullPath(u.path)))
  <2>1. PICK t : t = IF found
                     THEN [u EXCEPT !.step = "found", !.file = FileByName(FullPath(u.path)).id]
                     ELSE [u EXCEPT !.step = "missing"]
    OBVIOUS
  <2>2. thread' = [thread EXCEPT ![r] = t] /\ u.op \in {"download", "remove"}
    BY <1>1, <1>9, <2>1 DEF LookUpFile
  <2>3. t = [op |-> u.op, step |-> IF found THEN "found" ELSE "missing",
             user |-> u.user, path |-> u.path,
             file |-> IF found THEN FileByName(FullPath(u.path)).id ELSE u.file,
             todo |-> u.todo, targets |-> u.targets]
    BY <1>3, <2>1
  <2>4. QED
    BY <1>1, <1>2, <1>4, <2>2, <2>3
<1>10. CASE ReadChunks(r)
  <2>1. PICK t : t = [u EXCEPT !.targets = ChunksOf(u.file),
                               !.step = IF u.op = "remove" THEN "delete" ELSE "ok"]
    OBVIOUS
  <2>2. thread' = [thread EXCEPT ![r] = t] /\ u.op \in {"download", "remove"}
    BY <1>1, <1>10, <2>1 DEF ReadChunks
  <2>3. t = [op |-> u.op, step |-> IF u.op = "remove" THEN "delete" ELSE "ok",
             user |-> u.user, path |-> u.path, file |-> u.file, todo |-> u.todo,
             targets |-> ChunksOf(u.file)]
    BY <1>3, <2>1
  <2>4. QED
    BY <1>1, <1>2, <1>4, <2>2, <2>3
<1>11. CASE PlanUserFile(r)
  <2>1. PICK id : thread' = [thread EXCEPT ![r] =
                    [u EXCEPT !.todo = @ \ {id}, !.targets = @ \cup ChunksOf(id)]]
    BY <1>1, <1>11 DEF PlanUserFile
  <2>2. PICK t : t = [u EXCEPT !.todo = @ \ {id}, !.targets = @ \cup ChunksOf(id)]
    OBVIOUS
  <2>3. t = [op |-> u.op, step |-> u.step, user |-> u.user, path |-> u.path, file |-> u.file,
             todo |-> u.todo \ {id}, targets |-> u.targets \cup ChunksOf(id)]
    BY <1>3, <2>2
  <2>4. u.op = "userdel" /\ u.step \in Steps
    BY <1>1, <1>11 DEF PlanUserFile
  <2>5. QED
    BY <1>1, <1>2, <1>4, <2>1, <2>2, <2>3, <2>4
<1>12. QED
  BY <1>1, <1>2, <1>5, <1>6, <1>7, <1>8, <1>9, <1>10, <1>11
  DEF Handle, HandleFiles, HandleUserdel

\* A step in which client c goes on without asking.
LEMMA MovesTyped ==
  ASSUME IInv, TypeInv, Frame, NEW c \in Clients, NEW s,
         client' = [client EXCEPT ![c] = s], ClientTyped(c, s)',
         thread' = thread \/ Read(c)
  PROVE  ActorsTyped'
<1> USE DEF TypeInv, ActorsTyped
<1>1. ASSUME NEW r \in Requests PROVE (thread[r] = NoThread \/ ThreadTyped(r, thread[r]))'
  <2>1. thread'[r] = thread[r] \/ thread'[r] = NoThread
    BY DEF Read, IInv, ThreadsOK
  <2>2. QED
    BY <2>1 DEF ThreadTyped
<1>2. ASSUME NEW d \in Clients PROVE ClientTyped(d, client[d])'
  <2>1. client'[d] = IF d = c THEN s ELSE client[d]
    BY DEF IInv, ClientsOK
  <2>2. QED
    BY <2>1, PlannedGrows DEF ClientTyped
<1>3. QED
  BY <1>1, <1>2

\* A step in which client c asks.
LEMMA AskTyped ==
  ASSUME IInv, TypeInv, Frame, NEW c \in Clients, NEW done, NEW pc, NEW op, NEW path,
         NEW file, NEW todo,
         Ask(c, done, pc, op, path, file, todo), pc \in Waiting,
         op \in FileOps \/ pc \in OnPath => path \in Spelled(c),
         op \in {"plan", "mkdir"} => todo \subseteq Chunks
  PROVE  ActorsTyped'
<1> USE DEF TypeInv, ActorsTyped
<1>1. PICK r \in Requests :
        /\ r[1] = c
        /\ thread' = [q \in Requests |->
             IF q = r THEN Request(op, UserOf[c], path, file, todo)
             ELSE IF q = done THEN NoThread ELSE thread[q]]
        /\ client' = [client EXCEPT ![c] =
             [client[c] EXCEPT !.pc = pc, !.path = path, !.request = r]]
  BY DEF Ask, Become
<1>2. PICK t : t = Request(op, UserOf[c], path, file, todo)
  OBVIOUS
<1>3. ThreadTyped(r, t)
  BY <1>1, <1>2 DEF ThreadTyped, Request, Steps
<1>4. ASSUME NEW q \in Requests PROVE (thread[q] = NoThread \/ ThreadTyped(q, thread[q]))'
  <2>1. \/ q = r /\ thread'[q] = t
        \/ thread'[q] = thread[q] \/ thread'[q] = NoThread
    BY <1>1, <1>2
  <2>2. QED
    BY <1>3, <2>1 DEF ThreadTyped
<1>5. PICK s : s = [client[c] EXCEPT !.pc = pc, !.path = path, !.request = r]
  OBVIOUS
<1>6. s = [pc |-> pc, path |-> path, request |-> r, file |-> client[c].file,
           left |-> client[c].left]
  <2>1. ClientOK(client[c])
    BY DEF IInv, ClientsOK
  <2>2. QED
    BY <1>5, <2>1 DEF ClientOK
<1>7. ClientTyped(c, s)'
  BY <1>6, PlannedGrows DEF ClientTyped
<1>8. ASSUME NEW d \in Clients PROVE ClientTyped(d, client[d])'
  <2>1. client'[d] = IF d = c THEN s ELSE client[d]
    BY <1>1, <1>5 DEF IInv, ClientsOK
  <2>2. QED
    BY <1>7, <2>1, PlannedGrows DEF ClientTyped
<1>9. QED
  BY <1>4, <1>8

LEMMA PlanTyped ==
  ASSUME IInv, TypeInv, Frame, NEW c \in Clients, NEW done, AskPlan(c, done),
         client[c].pc \in OnPath
  PROVE  ActorsTyped'
<1>1. client[c].path \in Spelled(c)
  BY DEF TypeInv, ActorsTyped, ClientTyped
<1>2. PICK path, pc : /\ path = client[c].path /\ pc = "plan"
                      /\ Ask(c, done, pc, "plan", path, 0, Chunks)
  BY DEF AskPlan
<1>3. pc \in Waiting
  BY <1>2 DEF Waiting
<1>4. QED
  BY <1>1, <1>2, <1>3, AskTyped

LEMMA IdleTyped ==
  ASSUME IInv, TypeInv, Frame, NEW c \in Clients, Become(c, Idle),
         thread' = thread \/ Read(c)
  PROVE  ActorsTyped'
<1>1. PICK s : s = Idle
  OBVIOUS
<1>2. ClientTyped(c, s)'
  BY <1>1 DEF ClientTyped, Idle, OnPath
<1>3. QED
  BY <1>1, <1>2, MovesTyped DEF Become

LEMMA PurgeTyped ==
  ASSUME IInv, TypeInv, Frame, NEW c \in Clients, NEW pc \in {"purge", "purgeOld"},
         client[c].pc \in Waiting, Answered(c), Purge(c, pc), Read(c),
         pc = "purgeOld" => client[c].pc \in OnPath
  PROVE  ActorsTyped'
<1>1. PICK t : t = Answer(c)
  OBVIOUS
<1>2. t.targets \subseteq Planned \X Chunks
  <2>1. client[c].request \in Requests /\ t = thread[client[c].request] /\ t # NoThread
    BY <1>1 DEF IInv, ClientsOK, RequestOK, Answered, Answer
  <2>2. QED
    BY <2>1 DEF IInv, ThreadsOK, ThreadOK
<1>3. PICK old : /\ old = client[c]
           /\ old = [pc |-> old.pc, path |-> old.path, request |-> old.request,
                     file |-> old.file, left |-> old.left]
  BY ClientFields
<1>4. PICK s : s = [old EXCEPT !.pc = pc, !.request = NoRequest, !.left = t.targets]
  OBVIOUS
<1>5. s = [pc |-> pc, path |-> old.path, request |-> NoRequest, file |-> old.file,
           left |-> t.targets]
  BY <1>3, <1>4
<1>6. pc = "purgeOld" => old.path \in Spelled(c)
  BY <1>3 DEF TypeInv, ActorsTyped, ClientTyped
<1>7. ClientTyped(c, s)'
  BY <1>2, <1>5, <1>6, PlannedGrows DEF ClientTyped, Working, OnPath
<1>8. client' = [client EXCEPT ![c] = s]
  BY <1>1, <1>3, <1>4 DEF Purge, Become
<1>9. QED
  BY <1>7, <1>8, MovesTyped

\* A client or a handler leaves the types of all of them right.
LEMMA ActorsTypedStep ==
  ASSUME IInv, TypeInv, [Next]_vars
  PROVE  ActorsTyped'
<1> USE DEF TypeInv
<1>1. Frame
  BY StepIsFrame
<1>2. ASSUME thread' = thread \/ \E r \in Requests : thread' = [thread EXCEPT ![r] = NoThread],
             client' = client
      PROVE  ActorsTyped'
  <2>1. ASSUME NEW r \in Requests
        PROVE  (thread[r] = NoThread \/ ThreadTyped(r, thread[r]))'
    <3>1. thread'[r] = thread[r] \/ thread'[r] = NoThread
      BY <1>2 DEF IInv, ThreadsOK
    <3>2. QED
      BY <3>1 DEF ActorsTyped, ThreadTyped
  <2>2. \A c \in Clients : ClientTyped(c, client[c])'
    BY <1>1, <1>2, PlannedGrows DEF ActorsTyped, ClientTyped
  <2>3. QED
    BY <2>1, <2>2 DEF ActorsTyped
<1>3. ASSUME NEW r \in Requests, ServerStep(r)
      PROVE  ActorsTyped'
  <2>1. /\ client' = client /\ thread[r] # NoThread
        /\ \E t : /\ thread' = [thread EXCEPT ![r] = t]
                  /\ t.op = thread[r].op /\ t.user = thread[r].user
                  /\ t.path = thread[r].path /\ t.step \in Steps
                  /\ t.op \in {"plan", "mkdir"} => t.step # "start"
    BY <1>3, HandlerKeeps DEF ServerStep
  <2>2. PICK t : /\ thread' = [thread EXCEPT ![r] = t]
                 /\ t.op = thread[r].op /\ t.user = thread[r].user
                 /\ t.path = thread[r].path /\ t.step \in Steps
                 /\ t.op \in {"plan", "mkdir"} => t.step # "start"
    BY <2>1
  <2>3. ThreadTyped(r, t)
    BY <2>1, <2>2 DEF ActorsTyped, ThreadTyped
  <2>4. ASSUME NEW q \in Requests
        PROVE  (thread[q] = NoThread \/ ThreadTyped(q, thread[q]))'
    <3>1. thread'[q] = IF q = r THEN t ELSE thread[q]
      BY <2>2 DEF IInv, ThreadsOK
    <3>2. QED
      BY <2>3, <3>1 DEF ActorsTyped, ThreadTyped
  <2>5. \A c \in Clients : ClientTyped(c, client[c])'
    BY <1>1, <2>1, PlannedGrows DEF ActorsTyped, ClientTyped
  <2>6. QED
    BY <2>4, <2>5 DEF ActorsTyped
<1>4. ASSUME NEW r \in Requests, DropAnswer(r)
      PROVE  ActorsTyped'
  BY <1>2, <1>4 DEF DropAnswer, Update
<1>5. CASE ServerRestarts
  <2>1. \A r \in Requests : thread'[r] = NoThread
    BY <1>5 DEF ServerRestarts, RestartServer
  <2>2. \A c \in Clients : ClientTyped(c, client[c])'
    BY <1>1, <1>5, PlannedGrows DEF ServerRestarts, ActorsTyped, ClientTyped
  <2>3. QED
    BY <2>1, <2>2 DEF ActorsTyped
<1>6. ASSUME NEW chunk \in erasing, Unlink(chunk)
      PROVE  ActorsTyped'
  BY <1>2, <1>6 DEF Unlink, metaVars
<1>7. CASE UNCHANGED vars
  BY <1>2, <1>7 DEF vars, metaVars
<1>8. ASSUME NEW c \in Clients, Start(c) \/ ClientStep(c) \/ ClientDies(c)
      PROVE  ActorsTyped'
  <2>1. PICK old : /\ old = client[c]
             /\ old = [pc |-> old.pc, path |-> old.path, request |-> old.request,
                       file |-> old.file, left |-> old.left]
    BY ClientFields
  <2>2. ClientTyped(c, old)
    BY <2>1 DEF ActorsTyped
  <2>3. CASE Start(c)
    <3>1. ASSUME NEW pc \in Waiting, NEW op, NEW path, NEW file,
                 Ask(c, NoRequest, pc, op, path, file, {}),
                 path \in Spelled(c) \/ (pc \notin OnPath /\ op \notin FileOps)
          PROVE  ActorsTyped'
      <4>1. QED
        BY <1>1, <3>1, AskTyped
    <3>2. \A path \in PathsOf[c] : path \in Spelled(c)
      BY DEF Spelled
    <3>3. QED
      BY <2>3, <3>1, <3>2 DEF Start, AskQuota, AskUserdel, Waiting, OnPath, FileOps
  <2>4. CASE ListAnswered(c)
    <3>1. client[c].pc \in OnPath /\ client[c].path \in Spelled(c)
      BY <2>1, <2>2, <2>4 DEF ListAnswered, ClientTyped, OnPath
    <3>2. ASSUME Ask(c, client[c].request, "overwrite", "remove",
                     FullPath(client[c].path), 0, {})
          PROVE  ActorsTyped'
      <4>1. PICK pc, done, path : /\ pc = "overwrite" /\ path = FullPath(client[c].path)
                                  /\ Ask(c, done, pc, "remove", path, 0, {})
        BY <3>2
      <4>2. pc \in Waiting /\ path \in Spelled(c)
        BY <3>1, <4>1, SpelledPaths DEF Waiting
      <4>3. QED
        BY <1>1, <3>1, <4>1, <4>2, AskTyped
    <3>3. QED
      BY <1>1, <2>4, <3>1, <3>2, IdleTyped, PlanTyped DEF ListAnswered
  <2>5. CASE OverwriteAnswered(c)
    <3>1. client[c].pc \in OnPath /\ client[c].pc \in Waiting
      BY <2>5 DEF OverwriteAnswered, OnPath, Waiting
    <3>2. QED
      BY <1>1, <2>5, <3>1, PurgeTyped, PlanTyped DEF OverwriteAnswered
  <2>6. CASE PlanAnswered(c)
    <3>1. CASE Answer(c).step # "ok"
      BY <1>1, <2>6, <3>1, IdleTyped DEF PlanAnswered
    <3>2. CASE Answer(c).step = "ok"
      <4>1. PICK file : file = Answer(c).file
        OBVIOUS
      <4>2. file \in Planned'
        BY <1>1, <2>6, <3>2, <4>1, PlannedGrows
        DEF PlanAnswered, Answered, Answer, IInv, ClientsOK, RequestOK, OpAt, Waiting,
            ThreadsOK, ThreadOK
      <4>3. PICK s : s = [old EXCEPT !.pc = "transfer", !.request = NoRequest,
                            !.file = file, !.left = {file} \X Chunks]
        OBVIOUS
      <4>4. s = [pc |-> "transfer", path |-> old.path, request |-> NoRequest,
                 file |-> file, left |-> {file} \X Chunks]
        BY <2>1, <4>3
      <4>5. old.path \in Spelled(c)
        BY <2>1, <2>2, <2>6 DEF PlanAnswered, ClientTyped, OnPath
      <4>6. ClientTyped(c, s)'
        BY <4>2, <4>4, <4>5 DEF ClientTyped, Working
      <4>7. QED
        BY <1>1, <2>1, <2>6, <3>2, <4>1, <4>3, <4>6, MovesTyped DEF PlanAnswered, Become
    <3>3. QED
      BY <3>1, <3>2
  <2>7. CASE Transfer(c) \/ Erase(c)
    <3>1. PICK chunk : /\ client' = [client EXCEPT ![c] = [old EXCEPT !.left = @ \ {chunk}]]
                       /\ thread' = thread
      BY <2>1, <2>7 DEF Transfer, Erase, Become, metaVars
    <3>2. PICK s : s = [old EXCEPT !.left = @ \ {chunk}]
      OBVIOUS
    <3>3. s = [pc |-> old.pc, path |-> old.path, request |-> old.request,
               file |-> old.file, left |-> old.left \ {chunk}]
      BY <2>1, <3>2
    <3>4. ClientTyped(c, s)'
      BY <1>1, <2>2, <3>3, PlannedGrows DEF ClientTyped
    <3>5. QED
      BY <1>1, <3>1, <3>2, <3>4, MovesTyped
  <2>8. CASE TransferFails(c) \/ ClientDies(c) \/ CompleteAnswered(c) \/ OtherAnswered(c)
    BY <1>1, <2>8, IdleTyped
    DEF TransferFails, ClientDies, CompleteAnswered, OtherAnswered, metaVars
  <2>9. CASE AskComplete(c)
    <3>1. PICK pc, path, file : /\ pc = "complete" /\ path = client[c].path
                                /\ Ask(c, NoRequest, pc, "complete", path, file, Chunks)
      BY <2>9 DEF AskComplete
    <3>2. path \in Spelled(c) /\ pc \in Waiting
      BY <2>1, <2>2, <2>9, <3>1 DEF AskComplete, ClientTyped, OnPath, Waiting
    <3>3. QED
      BY <1>1, <3>1, <3>2, AskTyped
  <2>10. CASE RemoveAnswered(c)
    <3>1. client[c].pc \in Waiting
      BY <2>10 DEF RemoveAnswered, Waiting
    <3>2. QED
      BY <1>1, <2>10, <3>1, IdleTyped, PurgeTyped DEF RemoveAnswered
  <2>11. CASE Purged(c) \/ NoAnswer(c)
    BY <1>1, <2>11, IdleTyped, PlanTyped DEF Purged, NoAnswer, OnPath
  <2>12. QED
    BY <1>8, <2>3, <2>4, <2>5, <2>6, <2>7, <2>8, <2>9, <2>10, <2>11 DEF ClientStep
<1>9. QED
  BY <1>3, <1>4, <1>5, <1>6, <1>7, <1>8 DEF Next

\* The steps that change the accounts, the files, the blocks and the counts.
LEMMA WhoChanges ==
  ASSUME [Next]_vars
  PROVE  /\ \/ UNCHANGED <<accounts, files, lastId>>
            \/ \E r \in Requests : AddFile(r) \/ DeleteFile(r) \/ DeleteUser(r)
         /\ \/ UNCHANGED <<onAll, onSome>>
            \/ \E c \in Clients : Transfer(c) \/ TransferFails(c)
            \/ \E chunk \in erasing : Unlink(chunk)
         /\ UNCHANGED started \/ \E c \in Clients : Start(c)
<1> USE DEF tables, metaVars, blockVars
<1>1. ASSUME NEW r \in Requests, ServerStep(r)
      PROVE  /\ \/ UNCHANGED <<accounts, files, lastId>>
                \/ AddFile(r) \/ DeleteFile(r) \/ DeleteUser(r)
             /\ UNCHANGED <<onAll, onSome, started>>
  BY <1>1
  DEF ServerStep, Handle, HandleFiles, HandleUserdel, AddChunk, ListFiles, ReportQuota, LookUpFile, ReadChunks,
      VerifyAdmin, LookUpUser, ListUserFiles, PlanUserFile, Refuse
<1>2. ASSUME NEW c \in Clients, ClientStep(c)
      PROVE  /\ UNCHANGED <<accounts, files, lastId, started>>
             /\ UNCHANGED <<onAll, onSome>> \/ Transfer(c) \/ TransferFails(c)
  BY <1>2
  DEF ClientStep, ListAnswered, OverwriteAnswered, PlanAnswered, AskComplete, Transfer,
      TransferFails, CompleteAnswered, Erase, RemoveAnswered, OtherAnswered, Purged, NoAnswer
<1>3. ASSUME NEW c \in Clients, Start(c) \/ ClientDies(c)
      PROVE  /\ UNCHANGED <<accounts, files, lastId, onAll, onSome>>
             /\ UNCHANGED started \/ Start(c)
  BY <1>3 DEF Start, ClientDies
<1>4. ASSUME NEW r \in Requests, DropAnswer(r)
      PROVE  UNCHANGED <<accounts, files, lastId, onAll, onSome, started>>
  BY <1>4 DEF DropAnswer
<1>5. ServerRestarts => UNCHANGED <<accounts, files, lastId, onAll, onSome, started>>
  BY DEF ServerRestarts, RestartServer
<1>6. ASSUME NEW chunk \in erasing, Unlink(chunk)
      PROVE  UNCHANGED <<accounts, files, lastId, started>>
  BY <1>6 DEF Unlink
<1>7. UNCHANGED vars => UNCHANGED <<accounts, files, lastId, onAll, onSome, started>>
  BY DEF vars
<1>8. QED
  BY <1>1, <1>2, <1>3, <1>4, <1>5, <1>6, <1>7 DEF Next

\* Rows name a path and a user, and count the chunks the upload declared.
LEMMA TablesTypedStep ==
  ASSUME IInv, TypeInv, [Next]_vars
  PROVE  TablesTyped'
<1> USE DEF TypeInv, TablesTyped
<1>1. CASE UNCHANGED <<accounts, files, lastId>>
  BY <1>1
<1>2. ASSUME NEW r \in Requests, AddFile(r)
      PROVE  TablesTyped'
  <2>1. PICK t : t = thread[r]
    OBVIOUS
  <2>2. t # NoThread /\ t.op \in {"plan", "mkdir"} /\ t.step = "start"
    BY <1>2, <2>1 DEF AddFile, At, NoThread
  <2>3. ThreadTyped(r, t) /\ r[1] \in Clients
    BY <2>1, <2>2, FileStoreAssumption DEF ActorsTyped
  <2>4. t.path \in Paths /\ t.user \in Users
    BY <2>2, <2>3, SpelledPaths, FileStoreAssumption DEF ThreadTyped, FileOps
  <2>5. Cardinality(t.todo) \in Nat
    <3>1. t.todo \subseteq Chunks
      BY <2>2, <2>3 DEF ThreadTyped
    <3>2. QED
      BY <3>1, FileStoreAssumption, FS_Subset, FS_CardinalityType
  <2>6. PICK row : row = [id |-> lastId + 1, path |-> RowPath(r), owner |-> t.user,
                          chunks |-> Cardinality(t.todo)]
    OBVIOUS
  <2>7. /\ files' = files \cup {row} /\ accounts' = accounts
        /\ lastId < MaxFiles /\ lastId' = lastId + 1
    BY <1>2, <2>1, <2>6 DEF AddFile
  <2>8. row.path \in Paths /\ row.owner \in Users /\ row.chunks \in Nat
    BY <2>1, <2>4, <2>5, <2>6, FullPathIsAbsolute DEF RowPath
  <2>9. lastId' <= MaxFiles
    BY <2>7, MetadataAssumption DEF IInv, TablesOK
  <2>10. QED
    BY <2>7, <2>8, <2>9
<1>3. ASSUME NEW r \in Requests, DeleteFile(r) \/ DeleteUser(r)
      PROVE  TablesTyped'
  BY <1>3 DEF DeleteFile, DeleteUser
<1>4. QED
  BY <1>1, <1>2, <1>3, WhoChanges

\* A chunk is on all its replicas only if it is on some, and only chunks of
\* planned files are.
LEMMA BlocksTypedStep ==
  ASSUME IInv, TypeInv, [Next]_vars
  PROVE  BlocksTyped'
<1> USE DEF TypeInv, BlocksTyped
<1>1. Frame
  BY StepIsFrame
<1>2. CASE UNCHANGED <<onAll, onSome>>
  BY <1>1, <1>2, PlannedGrows
<1>3. ASSUME NEW c \in Clients, Transfer(c) \/ TransferFails(c)
      PROVE  BlocksTyped'
  <2>1. /\ client[c].pc = "transfer" /\ client[c].left # {} /\ ClientOK(client[c])
    BY <1>3 DEF Transfer, TransferFails, IInv, ClientsOK
  <2>2. NextChunk(c) \in Planned \X Chunks
    <3>1. NextChunk(c) \in client[c].left
      BY <2>1, NextChunkIsLeft DEF ClientOK
    <3>2. client[c].left \subseteq Planned \X Chunks
      BY DEF ActorsTyped, ClientTyped
    <3>3. QED
      BY <3>1, <3>2
  <2>3. PICK chunk : chunk = NextChunk(c)
    OBVIOUS
  <2>4. \/ UNCHANGED <<onAll, onSome>>
        \/ onAll' = onAll /\ onSome' = onSome \cup {chunk}
        \/ onAll' = onAll \cup {chunk} /\ onSome' = onSome \cup {chunk}
    BY <1>3, <2>3 DEF Transfer, TransferFails
  <2>5. QED
    BY <1>1, <2>2, <2>3, <2>4, PlannedGrows
<1>4. ASSUME NEW chunk \in erasing, Unlink(chunk)
      PROVE  BlocksTyped'
  BY <1>1, <1>4, PlannedGrows DEF Unlink
<1>5. QED
  BY <1>2, <1>3, <1>4, WhoChanges

LEMMA StartedTypedStep ==
  ASSUME IInv, TypeInv, [Next]_vars
  PROVE  StartedTyped'
<1> USE DEF TypeInv, StartedTyped
<1>1. CASE UNCHANGED started
  BY <1>1
<1>2. ASSUME NEW c \in Clients, Start(c)
      PROVE  StartedTyped'
  <2>1. started[c] < MaxCommands[c] /\ started' = [started EXCEPT ![c] = @ + 1]
    BY <1>2 DEF Start
  <2>2. started[c] + 1 \in Nat /\ started[c] + 1 <= MaxCommands[c]
    <3>1. MaxCommands[c] \in Nat /\ started[c] \in Nat
      BY FileStoreAssumption
    <3>2. QED
      BY <2>1, <3>1
  <2>3. QED
    BY <2>1, <2>2
<1>3. QED
  BY <1>1, <1>2, WhoChanges

LEMMA InitTypeInv == Init => TypeInv
<1> SUFFICES ASSUME Init PROVE TypeInv
  OBVIOUS
<1> USE DEF Init, MetaInit
<1>1. \A c \in Clients : ClientTyped(c, client[c])
  BY DEF ClientTyped, Idle, OnPath
<1>2. ActorsTyped
  BY <1>1 DEF ActorsTyped
<1>3. TablesTyped /\ BlocksTyped /\ StartedTyped
  BY MetadataAssumption, FileStoreAssumption DEF TablesTyped, BlocksTyped, StartedTyped
<1>4. QED
  BY <1>2, <1>3 DEF TypeInv

\* The fields of rows, handlers and clients keep the types they are given when
\* a row is inserted, a request arrives and a command starts.
THEOREM TypeInvariant == Spec => []TypeInv
<1>1. IInv /\ TypeInv /\ [Next]_vars => TypeInv'
  BY ActorsTypedStep, TablesTypedStep, BlocksTypedStep, StartedTypedStep DEF TypeInv
<1>2. QED
  BY <1>1, InitTypeInv, InductiveInvariant, PTL DEF Spec

\* Rows, handlers, clients and blocks have the types of TypeOK in every
\* reachable state; in it, blocks are of planned files only, and a chunk that
\* is complete is on some node.
THEOREM TypeCorrect == Spec => []TypeOK
<1>1. ASSUME IInv, TypeInv PROVE TypeOK
  <2> USE <1>1 DEF TypeInv
  <2>1. ASSUME NEW f \in files
        PROVE  /\ f.id \in 1..lastId /\ f.path \in Paths
               /\ f.owner \in Users /\ f.chunks \in Nat
    BY DEF IInv, TablesOK, Planned, TablesTyped
  <2>2. \A row \in chunkRows : row[1] \in 1..lastId /\ row[2] \in Nat
    BY FileStoreAssumption DEF IInv, TablesOK, Planned
  <2>3. ASSUME NEW r \in Requests, thread[r] # NoThread
        PROVE  /\ thread[r].step \in {"start", "verified", "found", "plan", "delete"} \cup Replied
               /\ thread[r].user \in Users
               /\ thread[r].targets \subseteq (1..lastId) \X Nat
    <3>1. ThreadTyped(r, thread[r]) /\ ThreadOK(thread[r]) /\ r[1] \in Clients
      BY <2>3, FileStoreAssumption DEF ActorsTyped, IInv, ThreadsOK
    <3>2. QED
      BY <3>1, FileStoreAssumption DEF ThreadTyped, ThreadOK, Steps, Planned
  <2>4. MetaTypeOK
    <3>1. accounts \subseteq Users /\ lastId \in 0..MaxFiles
      BY MetadataAssumption DEF TablesTyped, IInv, TablesOK
    <3>2. QED
      BY <2>1, <2>2, <2>3, <3>1 DEF MetaTypeOK
  <2>5. \A c \in Clients :
          /\ client[c].pc \in {"idle"} \cup Waiting \cup Working
          /\ client[c].request \in Requests \cup {NoRequest}
          /\ client[c].left \subseteq (1..lastId) \X Chunks
    BY DEF ActorsTyped, ClientTyped, Planned
  <2>6. /\ onAll \subseteq onSome /\ onSome \subseteq (1..lastId) \X Chunks
        /\ erasing \subseteq (1..lastId) \X Chunks
        /\ confirmed \subseteq 1..lastId
    BY DEF BlocksTyped, IInv, ErasingOK, ConfirmedOK, Planned
  <2>7. \A c \in Clients : started[c] \in 0..MaxCommands[c]
    BY FileStoreAssumption DEF StartedTyped
  <2>8. QED
    BY <2>4, <2>5, <2>6, <2>7 DEF TypeOK
<1>2. QED
  BY <1>1, TypeInvariant, InductiveInvariant, PTL

=============================================================================
