------------------------------ MODULE Placement ------------------------------
(***************************************************************************)
(* How the metadata server cuts a file into chunks and places them:        *)
(* manager.py build_upload_plan, and the two places that work the          *)
(* placement out again, build_download_plan and get_file_deletion_plan.    *)
(*                                                                         *)
(* The loop of build_upload_plan is a state machine, one step per chunk,   *)
(* for one file.  Once the upload is committed, its chunk rows stay while  *)
(* the metadata server may be restarted with another list in               *)
(* ADRIABOX_STORAGE_NODES.                                                 *)
(***************************************************************************)
EXTENDS Integers, Sequences

CONSTANTS BlockSize,   \* LOGICAL_BLOCK_SIZE
          FileSizes,   \* the sizes of files to upload
          NodeLists    \* the lists of storage node ids the server may be given

ASSUME PlacementAssumption ==
  /\ BlockSize \in Nat \ {0}
  /\ FileSizes \subseteq Nat
  /\ \A list \in NodeLists :
       /\ list \in Seq(Int)
       /\ \A a, b \in DOMAIN list : list[a] = list[b] => a = b

VARIABLES
  storageNodes,  \* the list the running server was started with
  fileSize,      \* size of the file being uploaded
  phase,         \* "request", "plan", "rejected" or "committed"
  offset,        \* the loop's offset
  chunks,        \* the chunks planned so far, in index order
  plannedWith    \* the list the plan was made with

vars == <<storageNodes, fileSize, phase, offset, chunks, plannedWith>>

\* Mutant of ChunkCount: one chunk too many when the size is a multiple.
ChunkCountPlusOne(size) ==
  size \div BlockSize + 1

\* chunk_count of a file: 1 if it is empty, else the size in blocks, rounded up.
ChunkCount(size) ==
  IF size = 0 THEN 1 ELSE (size + BlockSize - 1) \div BlockSize

\* The replicas of chunk index are three consecutive nodes, round robin over
\* the list; each plan works them out for itself.  An upload sends a chunk to
\* the first of them, which passes it on to the second and the third...
PlannedNodes(list, index) ==
  [a \in 1..3 |-> list[((index + a - 1) % Len(list)) + 1]]

\* Mutant of AskedNodes: the rotation starts one node late.
AskedNodesLate(list, index) ==
  [a \in 1..3 |-> list[((index + a) % Len(list)) + 1]]

\* ... a download asks them in this order...
AskedNodes(list, index) ==
  << list[(index % Len(list)) + 1],
     list[((index + 1) % Len(list)) + 1],
     list[((index + 2) % Len(list)) + 1] >>

\* ... and a removal has the chunk erased on each of them.
ErasedNodes(list, index) ==
  {list[((index + a) % Len(list)) + 1] : a \in 0..2}

SmallerOf(a, b) == IF a < b THEN a ELSE b

TypeOK ==
  /\ storageNodes \in NodeLists /\ plannedWith \in NodeLists
  /\ fileSize \in FileSizes
  /\ phase \in {"request", "plan", "rejected", "committed"}
  /\ offset \in 0..fileSize
  /\ \A k \in DOMAIN chunks :
       chunks[k].size \in 0..BlockSize /\ chunks[k].offset \in 0..fileSize

Init ==
  /\ storageNodes \in NodeLists
  /\ plannedWith = storageNodes
  /\ fileSize \in FileSizes
  /\ phase = "request" /\ offset = 0 /\ chunks = <<>>

\* Mutant of StartPlan: two nodes are taken for enough.
StartPlanUnchecked ==
  /\ phase = "request"
  /\ phase' = IF Len(storageNodes) < 2 THEN "rejected" ELSE "plan"
  /\ plannedWith' = storageNodes
  /\ UNCHANGED <<storageNodes, fileSize, offset, chunks>>

\* The guard of build_upload_plan.
StartPlan ==
  /\ phase = "request"
  /\ phase' = IF Len(storageNodes) < 3 THEN "rejected" ELSE "plan"
  /\ plannedWith' = storageNodes
  /\ UNCHANGED <<storageNodes, fileSize, offset, chunks>>

\* Mutant of PlanChunk: the last chunk is as long as the others.
PlanChunkWhole ==
  /\ phase = "plan"
  /\ Len(chunks) < ChunkCount(fileSize)
  /\ chunks' = Append(chunks,
       [index    |-> Len(chunks), offset |-> offset, size |-> BlockSize,
        replicas |-> PlannedNodes(storageNodes, Len(chunks))])
  /\ offset' = offset + BlockSize
  /\ UNCHANGED <<storageNodes, fileSize, phase, plannedWith>>

\* One turn of the loop.
PlanChunk ==
  /\ phase = "plan"
  /\ Len(chunks) < ChunkCount(fileSize)
  /\ LET size == SmallerOf(BlockSize, fileSize - offset)
     IN  /\ chunks' = Append(chunks,
              [index    |-> Len(chunks), offset |-> offset, size |-> size,
               replicas |-> PlannedNodes(storageNodes, Len(chunks))])
         /\ offset' = offset + size
  /\ UNCHANGED <<storageNodes, fileSize, phase, plannedWith>>

\* Mutant of Commit: the loop ends before the last chunk.
CommitEarly ==
  /\ phase = "plan"
  /\ phase' = "committed"
  /\ UNCHANGED <<storageNodes, fileSize, offset, chunks, plannedWith>>

\* The plan is returned; the client stores the chunks on these replicas and
\* the chunk rows record index, size and the id of the primary node.
Commit ==
  /\ phase = "plan"
  /\ Len(chunks) = ChunkCount(fileSize)
  /\ phase' = "committed"
  /\ UNCHANGED <<storageNodes, fileSize, offset, chunks, plannedWith>>

\* A new AdriaMetadataManager with the node list of its environment.
RestartServer ==
  /\ phase = "committed"
  /\ storageNodes' \in NodeLists
  /\ UNCHANGED <<fileSize, phase, offset, chunks, plannedWith>>

Next == StartPlan \/ PlanChunk \/ Commit \/ RestartServer

Spec == Init /\ [][Next]_vars

-----------------------------------------------------------------------------
(* Properties.                                                             *)

\* The chunks of a plan tile the file: they start at 0, each starts where the
\* one before ends, the last ends at the end of the file, and none is empty
\* unless the file is (manager.py:51-74, FR-2).
ChunksTileFile ==
  phase = "committed" =>
    /\ chunks[1].offset = 0
    /\ \A k \in 2..Len(chunks) :
         chunks[k].offset = chunks[k - 1].offset + chunks[k - 1].size
    /\ chunks[Len(chunks)].offset + chunks[Len(chunks)].size = fileSize
    /\ fileSize > 0 => \A k \in DOMAIN chunks : chunks[k].size > 0

\* Every chunk of a plan goes to three different nodes (FR-3).
ReplicasDistinct ==
  \A k \in DOMAIN chunks : \A a, b \in 1..3 :
    chunks[k].replicas[a] = chunks[k].replicas[b] => a = b

\* One list continues another, or has the same nodes in another order.
Continues(list, old) ==
  Len(list) >= Len(old) /\ \A k \in 1..Len(old) : list[k] = old[k]
Reorders(list, old) ==
  Len(list) = Len(old) /\ \A k \in 1..Len(list) : \E m \in 1..Len(old) : list[k] = old[m]

\* The placements that downloads and removals work out again, with the list the
\* server has by then, and what they have to do with the one the chunk was
\* stored by (manager.py:54-73, 85-99, 106-121).  A removal erases the chunk on
\* the nodes a download asks, whatever has become of the list.  Those nodes are
\* the replicas, first to last, if the list is the old one, and if nodes were
\* added behind it and the old rotation did not wrap at this chunk.  A cluster
\* of three nodes may be listed in any order: the nodes are the replicas.
\* (Without any node both plans raise: idx % 0.)
AskedWhereStored ==
  phase = "committed" /\ storageNodes # <<>> => \A k \in DOMAIN chunks :
    LET index  == chunks[k].index
        asked  == AskedNodes(storageNodes, index)
        stored == chunks[k].replicas
    IN  /\ ErasedNodes(storageNodes, index) = {asked[a] : a \in 1..3}
        /\ (storageNodes = plannedWith
              \/ (Continues(storageNodes, plannedWith) /\ index + 2 < Len(plannedWith)))
             => \A a \in 1..3 : asked[a] = stored[a]
        /\ Len(plannedWith) = 3 /\ Reorders(storageNodes, plannedWith)
             => {asked[a] : a \in 1..3} = {stored[a] : a \in 1..3}

-----------------------------------------------------------------------------
(* Why it holds: the inductive invariant.                                  *)

\* The first k chunks of a plan cover the first Covered(k) bytes of the file.
Covered(k) == SmallerOf(k * BlockSize, fileSize)

PlannedChunk(k) == [index    |-> k - 1,
                    offset   |-> Covered(k - 1),
                    size     |-> Covered(k) - Covered(k - 1),
                    replicas |-> PlannedNodes(plannedWith, k - 1)]

PlanInv ==
  /\ storageNodes \in NodeLists /\ plannedWith \in NodeLists
  /\ fileSize \in FileSizes
  /\ phase \in {"request", "plan", "rejected", "committed"}
  /\ chunks \in Seq([index : Nat, offset : Nat, size : Nat,
                     replicas : [1..3 -> Int]])
  /\ phase \in {"request", "rejected"} => chunks = <<>>
  /\ phase = "plan" => plannedWith = storageNodes
  /\ phase \in {"plan", "committed"} => Len(plannedWith) >= 3
  /\ phase = "committed" => Len(chunks) = ChunkCount(fileSize)
  /\ Len(chunks) <= ChunkCount(fileSize)
  /\ offset = Covered(Len(chunks))
  /\ \A k \in 1..Len(chunks) : chunks[k] = PlannedChunk(k)

=============================================================================
