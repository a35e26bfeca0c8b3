------------------------------ MODULE Download ------------------------------
(***************************************************************************)
(* A client download: transfer.py download_file_chunks with its failover   *)
(* loop, tcp.py ChunkDownloader.download at the client and handle_download *)
(* at the storage nodes.                                                   *)
(*                                                                         *)
(* The plan lists the chunks of the file in order and, for chunk c, the    *)
(* nodes c, c+1 and c+2 modulo the number of nodes (build_download_plan).  *)
(* The client takes the chunks in turn and, for each, the nodes in turn    *)
(* until one delivers as many units as the plan says; a unit stands for    *)
(* the bytes of one recv.  Every unit is written to the destination file   *)
(* as it arrives.                                                          *)
(*                                                                         *)
(* Failures: nodes crash and restart, a connection to a live node times    *)
(* out or breaks, a disk stops being readable in the middle of a block,    *)
(* and a node may not (or no longer) hold the block: the file was removed  *)
(* meanwhile, or the plan was computed from another node list.  A set of   *)
(* nodes, any one, is spared all of this: reliable.                        *)
(***************************************************************************)
EXTENDS Integers, Sequences

CONSTANTS NodeCount,   \* length of the metadata server's storage_nodes
          ChunkCount,  \* chunks in the plan
          Size,        \* units of a chunk in the plan, by index
          ReadSize,    \* units a node reads from its disk at a time
          ErrorLength  \* units of the answer ACK_ERR

ASSUME DownloadAssumption ==
  /\ NodeCount \in Nat \ 0..2 /\ ChunkCount \in Nat /\ ErrorLength \in Nat \ {0}
  /\ ReadSize \in Nat \ {0}
  /\ Size \in [0..(ChunkCount - 1) -> Nat]

Nodes  == 0..(NodeCount - 1)
Chunks == 0..(ChunkCount - 1)

\* The replicas of a chunk in the order the plan lists them.
PlanNodes(c) == <<c % NodeCount, (c + 1) % NodeCount, (c + 2) % NodeCount>>

Piece(c, k) == [of |-> c, at |-> k]    \* unit k of chunk c
Error == ChunkCount                    \* "of" of the units of ACK_ERR
Block(c)   == [k \in 1..Size[c] |-> Piece(c, k)]
ErrorReply == [k \in 1..ErrorLength |-> Piece(Error, k)]

\* How much of chunk c a node may have sent when the next read of its disk
\* fails; and what it has sent in the end, serve() having answered the
\* exception of the handler with ACK_ERR on the same connection.
ReadPoints(c) == {k \in 0..Size[c] : k % ReadSize = 0 \/ k = Size[c]}
BrokenOff(c, k) == SubSeq(Block(c), 1, k) \o ErrorReply

VARIABLES
  reliable, \* nodes that stay up, reachable and keep their blocks: fixed
  up,       \* nodes whose daemon is running
  holds,    \* holds[n]: the chunks whose block file node n has
  chunk,    \* index of the chunk being downloaded
  attempt,  \* position in PlanNodes(chunk) of the node being tried
  pc,       \* "connect", "request", "receive", "lost", "ok" or "failed"
  stream,   \* what the serving node still has to send on this connection
  got,      \* bytes_received of this attempt
  dest      \* the destination file

vars == <<reliable, up, holds, chunk, attempt, pc, stream, got, dest>>
cluster == <<reliable, up, holds>>

Server == PlanNodes(chunk)[attempt]

TypeOK ==
  /\ reliable \subseteq up /\ up \subseteq Nodes
  /\ holds \in [Nodes -> SUBSET Chunks]
  /\ chunk \in 0..ChunkCount
  /\ attempt \in 1..3
  /\ pc \in {"connect", "request", "receive", "lost", "ok", "failed"}
  /\ Len(stream) \in Nat
  /\ chunk \in Chunks => got \in 0..Size[chunk]
  /\ \A k \in DOMAIN dest : dest[k].of \in Chunks \cup {Error}

Init ==
  /\ up \in SUBSET Nodes /\ reliable \in SUBSET up
  /\ holds = [n \in Nodes |-> {c \in Chunks : \E a \in 1..3 : PlanNodes(c)[a] = n}]
  /\ chunk = 0 /\ attempt = 1
  /\ pc = IF ChunkCount = 0 THEN "ok" ELSE "connect"
  /\ stream = <<>> /\ got = 0 /\ dest = <<>>

-----------------------------------------------------------------------------
(* The client.                                                             *)

\* Mutants of NextReplica: one attempt too many; ...
NextReplicaOneMore ==
  /\ IF attempt <= 3 THEN attempt' = attempt + 1 /\ pc' = "connect"
                     ELSE pc' = "failed" /\ UNCHANGED attempt
  /\ stream' = <<>> /\ got' = 0
  /\ UNCHANGED <<cluster, chunk, dest>>

\* ... bytes_received is not reset; ...
NextReplicaKeepsCount ==
  /\ IF attempt < 3 THEN attempt' = attempt + 1 /\ pc' = "connect"
                    ELSE pc' = "failed" /\ UNCHANGED attempt
  /\ stream' = <<>>
  /\ UNCHANGED <<cluster, chunk, got, dest>>

\* ... the last replica is never tried; ...
NextReplicaOneLess ==
  /\ IF attempt < 2 THEN attempt' = attempt + 1 /\ pc' = "connect"
                    ELSE pc' = "failed" /\ UNCHANGED attempt
  /\ stream' = <<>> /\ got' = 0
  /\ UNCHANGED <<cluster, chunk, dest>>

\* ... the exception ends the download.
NextReplicaNever ==
  /\ pc' = "failed"
  /\ stream' = <<>> /\ got' = 0
  /\ UNCHANGED <<cluster, chunk, attempt, dest>>

\* The except branch of the loop: try the next node of the plan, or raise
\* when there is none.  dest_file is left as it is.
NextReplica ==
  /\ IF attempt < 3 THEN attempt' = attempt + 1 /\ pc' = "connect"
                    ELSE pc' = "failed" /\ UNCHANGED attempt
  /\ stream' = <<>> /\ got' = 0
  /\ UNCHANGED <<cluster, chunk, dest>>

\* The download of the chunk has returned: go on with the next one.
NextChunk ==
  /\ chunk' = chunk + 1 /\ attempt' = 1
  /\ pc' = IF chunk + 1 = ChunkCount THEN "ok" ELSE "connect"
  /\ stream' = <<>> /\ got' = 0

Connect ==
  /\ pc = "connect" /\ Server \in up
  /\ pc' = "request"
  /\ UNCHANGED <<cluster, chunk, attempt, stream, got, dest>>

ConnectFails ==
  /\ pc = "connect" /\ (Server \notin up \/ Server \notin reliable)
  /\ NextReplica

\* recv returns a unit of the answer and it is written to the file.
Receive ==
  /\ pc = "receive" /\ got < Size[chunk] /\ stream # <<>>
  /\ dest' = Append(dest, Head(stream))
  /\ stream' = Tail(stream)
  /\ got' = got + 1
  /\ UNCHANGED <<cluster, chunk, attempt, pc>>

\* The loop ends when the planned number of units has been received.  For an
\* empty chunk it never asks for the answer at all.
ReceiveEnds ==
  /\ pc \in {"request", "receive", "lost"} /\ got = Size[chunk]
  /\ NextChunk
  /\ UNCHANGED <<cluster, dest>>

\* Mutant of EndOfStream: a short answer is taken for the chunk.
EndOfStreamAccepted ==
  /\ pc = "receive" /\ got < Size[chunk] /\ stream = <<>>
  /\ NextChunk
  /\ UNCHANGED <<cluster, dest>>

\* recv returns b"" (the node closed the connection), which raises IOError.
EndOfStream ==
  /\ pc = "receive" /\ got < Size[chunk] /\ stream = <<>>
  /\ NextReplica

\* Mutant of ConnectionLost: no timeout; only a node that is down is noticed.
ConnectionLostWhileDown ==
  /\ pc \in {"request", "receive", "lost"} /\ got < Size[chunk]
  /\ Server \notin up
  /\ NextReplica

\* A timeout, or the connection breaks: the daemon died or the network did.
ConnectionLost ==
  /\ pc \in {"request", "receive", "lost"} /\ got < Size[chunk]
  /\ Server \notin reliable
  /\ NextReplica

-----------------------------------------------------------------------------
(* The storage nodes.                                                      *)

\* handle_download: the answer ACK_ERR if there is no block file; the block
\* file; or as much of it as can be read, and ACK_ERR behind it.
HandleDownload ==
  /\ pc = "request" /\ Server \in up
  /\ pc' = "receive"
  /\ \/ chunk \notin holds[Server] /\ stream' = ErrorReply
     \/ chunk \in holds[Server] /\ stream' = Block(chunk)
     \/ /\ chunk \in holds[Server] /\ Server \notin reliable
        /\ \E k \in ReadPoints(chunk) : stream' = BrokenOff(chunk, k)
  /\ UNCHANGED <<cluster, chunk, attempt, got, dest>>

\* The daemon is killed; a request it has not read yet is lost with the
\* connection, what it has sent may still arrive.
Crash(n) ==
  /\ n \in up \ reliable
  /\ up' = up \ {n}
  /\ pc' = IF pc = "request" /\ n = Server THEN "lost" ELSE pc
  /\ UNCHANGED <<reliable, holds, chunk, attempt, stream, got, dest>>

Restart(n) ==
  /\ n \in Nodes \ up
  /\ up' = up \cup {n}
  /\ UNCHANGED <<reliable, holds, chunk, attempt, pc, stream, got, dest>>

\* handle_delete, on behalf of another client.  A block being served stays
\* readable through the open file.
HandleDelete(n, c) ==
  /\ n \in up \ reliable /\ c \in holds[n]
  /\ holds' = [holds EXCEPT ![n] = @ \ {c}]
  /\ UNCHANGED <<reliable, up, chunk, attempt, pc, stream, got, dest>>

ClientStep == Connect \/ ConnectFails \/ Receive \/ ReceiveEnds \/ EndOfStream
                \/ ConnectionLost

Next ==
  \/ ClientStep \/ HandleDownload
  \/ \E n \in Nodes : Crash(n) \/ Restart(n) \/ \E c \in Chunks : HandleDelete(n, c)

Spec == Init /\ [][Next]_vars

\* The client keeps running (its socket timeouts bound every wait) and a live
\* node serves the connections it has accepted.
FairSpec == Spec /\ WF_vars(ClientStep) /\ WF_vars(HandleDownload)

-----------------------------------------------------------------------------
(* Properties.                                                             *)

\* The first c chunks of the file that was uploaded.
Original[c \in 0..ChunkCount] ==
  IF c = 0 THEN <<>> ELSE Original[c - 1] \o Block(c - 1)

\* ACK_ERR is shorter than what a node reads last of any chunk, so that behind
\* a part of the chunk, or instead of it, it never fills the chunk up.
ErrorFillsNoChunk ==
  \A c \in Chunks : \A k \in ReadPoints(c) : k < Size[c] => k + ErrorLength < Size[c]

\* If ACK_ERR fills up no chunk: whatever was tried before, the attempt that
\* completes a chunk has just written the whole block, in order, at the end of
\* the destination file, and not a part of it with ACK_ERR behind, although
\* the node sends both as data (transfer.py:47-57, tcp.py:76-81, 115-117).
ChunkArrivesWhole ==
  [][ErrorFillsNoChunk /\ chunk' = chunk + 1 =>
       LET before == Len(dest) - Size[chunk]
       IN  before >= 0 /\ SubSeq(dest, before + 1, Len(dest)) = Block(chunk)]_vars

\* What broken attempts may do is add: under the same condition, a download
\* that reports success and has written exactly as many units as the file has,
\* has written the file (transfer.py:47-64).
RightLengthIsRightFile ==
  ErrorFillsNoChunk /\ pc = "ok" /\ Len(dest) = Len(Original[ChunkCount])
    => dest = Original[ChunkCount]

\* A download is refused only after every replica of the chunk has been tried,
\* so never while one of them is reliable (transfer.py:47-63).
RefusedOnlyWithoutReplica ==
  pc = "failed" => \A a \in 1..3 : PlanNodes(chunk)[a] \notin reliable

\* A download ends, successfully or with an error, whatever the nodes do:
\* every wait of the client is bounded by its socket timeout.
DownloadEnds == <>(pc \in {"ok", "failed"})

\* With a reliable replica of every chunk, the download succeeds, whatever
\* happens to the nodes that are tried before it.
ReliableReplicaSuffices ==
  (\A c \in Chunks : \E a \in 1..3 : PlanNodes(c)[a] \in reliable)
    => <>(pc = "ok")

-----------------------------------------------------------------------------
\* latex/02-requirements.tex:75 and 03-design.tex:194: the failover shifts to
\* a replica transparently and "with zero data loss", so a download that
\* reports success has written the file that was uploaded.
FailoverIsTransparent == pc = "ok" => dest = Original[ChunkCount]

=============================================================================
