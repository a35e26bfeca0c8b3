------------------------------ MODULE Pipeline ------------------------------
(***************************************************************************)
(* The replication pipeline of common/tcp.py for ONE chunk: the client     *)
(* (ChunkStreamSender.send_with_pipeline) streams the chunk to node 1, and *)
(* each node (FileReceiver.serve / handle_pipeline_upload, one thread per  *)
(* accepted connection) stages it in a .tmp file while forwarding it to    *)
(* the next node.  The last node promotes its staged file and answers; the *)
(* answer travels back up, each node promoting its own copy when the node  *)
(* below it said ACK_OK.                                                   *)
(*                                                                         *)
(* Link i is the TCP connection from party i-1 to node i; party 0 is the   *)
(* client.  A chunk is Size units of data, a unit being whatever one recv  *)
(* returns (at most 4096 bytes).  A chunk file name is never uploaded      *)
(* twice (it contains the fresh id of the file row), so one attempt is     *)
(* the whole life of its blocks until they are deleted.                    *)
(*                                                                         *)
(* Failures: a party's process dies (its kernel closes its sockets, its    *)
(* files stay), a connection cannot be made, a socket operation times out  *)
(* or is reset, a file operation raises, and a link is cut silently (no    *)
(* byte and no end-of-file passes any more).                               *)
(***************************************************************************)
EXTENDS Integers

CONSTANTS N,      \* length of the chain: the primary and its pipeline targets
          Size    \* units of data in the chunk; 0 for an empty file

ASSUME ChainAssumption == N \in Nat \ {0} /\ Size \in Nat

Nodes == 1..N

NoBlock == -1     \* os.path.exists(file_path) is False

VARIABLES
  client,   \* where send_with_pipeline is, and its outcome
  pc,       \* where the thread serving link i is
  failed,   \* pipeline_failed of node i
  link,     \* the upstream end of link i: "none", "open" or "closed"
  sent,     \* units the upstream end has put on link i
  rcvd,     \* units node i has received, i.e. bytes_received
  reply,    \* what node i has answered on link i
  staged,   \* node i has its .tmp file (its contents are rcvd[i] units)
  block,    \* the units in node i's final block file, or NoBlock
  cut       \* the links that have silently stopped carrying anything

vars == <<client, pc, failed, link, sent, rcvd, reply, staged, block, cut>>

clientData == <<sent, rcvd, reply, staged, block, failed>>

NodeSteps == {"listen", "connect", "stage", "receive", "await", "promote",
              "discard", "replyOK", "replyErr", "closed", "crashed"}

ClientSteps == {"connect", "stream", "await", "ok", "failed", "dead"}

TypeOK ==
  /\ client \in ClientSteps
  /\ pc     \in [Nodes -> NodeSteps]
  /\ failed \in [Nodes -> BOOLEAN]
  /\ link   \in [Nodes -> {"none", "open", "closed"}]
  /\ sent   \in [Nodes -> 0..Size]
  /\ rcvd   \in [Nodes -> 0..Size]
  /\ reply  \in [Nodes -> {"none", "OK", "ERR"}]
  /\ staged \in [Nodes -> BOOLEAN]
  /\ block  \in [Nodes -> 0..Size \cup {NoBlock}]
  /\ cut    \in SUBSET Nodes

Init ==
  /\ client = "connect"
  /\ pc     = [i \in Nodes |-> "listen"]
  /\ failed = [i \in Nodes |-> FALSE]
  /\ link   = [i \in Nodes |-> "none"]
  /\ sent   = [i \in Nodes |-> 0]
  /\ rcvd   = [i \in Nodes |-> 0]
  /\ reply  = [i \in Nodes |-> "none"]
  /\ staged = [i \in Nodes |-> FALSE]
  /\ block  = [i \in Nodes |-> NoBlock]
  /\ cut    = {}

-----------------------------------------------------------------------------
(* What an endpoint can observe of the other one.                          *)

\* The thread of node i has ended, so its end of link i is closed.
Gone(i) == pc[i] \in {"closed", "crashed"}

\* What recv on link i sees at node i: data, or the end of the stream once
\* the upstream end is closed and everything it sent has been read.
DataReady(i)   == i \notin cut /\ rcvd[i] < sent[i]
EndOfStream(i) == i \notin cut /\ rcvd[i] = sent[i] /\ link[i] = "closed"

\* recv on link i returns at the upstream end: an answer, or end-of-file.
ReplyReady(i) == i \notin cut /\ (reply[i] # "none" \/ Gone(i))

\* Links after party p has closed its connection to the next node, if any.
WithoutNext(p) ==
  [j \in Nodes |-> IF j = p + 1 /\ link[j] = "open" THEN "closed" ELSE link[j]]

Goto(i, step) == pc' = [pc EXCEPT ![i] = step]

-----------------------------------------------------------------------------
(* The client: send_with_pipeline.                                         *)

ClientEnds(outcome) ==
  /\ client' = outcome
  /\ link' = WithoutNext(0)
  /\ UNCHANGED <<pc, clientData, cut>>

\* create_connection and sendall(header).  A connection whose header does
\* not arrive makes the node end its thread before it touches a file, which
\* is the same as no connection.
ClientConnect ==
  /\ client = "connect"
  /\ client' = "stream"
  /\ link' = [link EXCEPT ![1] = "open"]
  /\ UNCHANGED <<pc, clientData, cut>>

ClientConnectFails ==
  /\ client = "connect"
  /\ ClientEnds("failed")

\* Mutant of ClientSend: read past the chunk, into the next one.
ClientSendTooMuch ==
  /\ client = "stream"
  /\ sent' = [sent EXCEPT ![1] = @ + 1]
  /\ UNCHANGED <<client, pc, failed, link, rcvd, reply, staged, block, cut>>

ClientSend ==
  /\ client = "stream"
  /\ sent[1] < Size
  /\ sent' = [sent EXCEPT ![1] = @ + 1]
  /\ UNCHANGED <<client, pc, failed, link, rcvd, reply, staged, block, cut>>

\* The loop ends when the chunk is sent, or when the local file turns out to
\* be shorter than planned; the socket stays open either way.
ClientEndsStream ==
  /\ client = "stream"
  /\ client' = "await"
  /\ UNCHANGED <<pc, clientData, link, cut>>

\* Mutant of ClientVerdict: any answer is taken for success.
ClientVerdictAnyAnswer ==
  /\ client = "await"
  /\ ReplyReady(1)
  /\ ClientEnds(IF reply[1] # "none" THEN "ok" ELSE "failed")

ClientVerdict ==
  /\ client = "await"
  /\ ReplyReady(1)
  /\ ClientEnds(IF reply[1] = "OK" THEN "ok" ELSE "failed")

\* A socket timeout or a reset while sending or waiting: the exception
\* leaves the with block, which closes the socket.
ClientTimeout ==
  /\ client \in {"stream", "await"}
  /\ ClientEnds("failed")

ClientDies ==
  /\ client \in {"stream", "await"}
  /\ ClientEnds("dead")

-----------------------------------------------------------------------------
(* A node: accept loop, serve and handle_pipeline_upload.                  *)

\* The accept loop starts a thread; it reads the command and the header.
Accept(i) ==
  /\ pc[i] = "listen"
  /\ link[i] # "none"
  /\ i \notin cut
  /\ Goto(i, IF i < N THEN "connect" ELSE "stage")
  /\ UNCHANGED <<client, clientData, link, cut>>

ConnectNext(i) ==
  /\ pc[i] = "connect"
  /\ i + 1 \in Nodes
  /\ link' = [link EXCEPT ![i + 1] = "open"]
  /\ Goto(i, "stage")
  /\ UNCHANGED <<client, clientData, cut>>

\* Mutant of ConnectNextFails: pipeline_failed is not set.
ConnectNextFailsQuietly(i) ==
  /\ pc[i] = "connect"
  /\ Goto(i, "stage")
  /\ UNCHANGED <<client, clientData, link, cut>>

ConnectNextFails(i) ==
  /\ pc[i] = "connect"
  /\ failed' = [failed EXCEPT ![i] = TRUE]
  /\ Goto(i, "stage")
  /\ UNCHANGED <<client, link, sent, rcvd, reply, staged, block, cut>>

\* open(temp_file_path, "wb")
Stage(i) ==
  /\ pc[i] = "stage"
  /\ staged' = [staged EXCEPT ![i] = TRUE]
  /\ Goto(i, "receive")
  /\ UNCHANGED <<client, failed, link, sent, rcvd, reply, block, cut>>

\* One turn of the receive loop: write the unit and pass it on.
Receive(i) ==
  /\ pc[i] = "receive"
  /\ DataReady(i)
  /\ rcvd' = [rcvd EXCEPT ![i] = @ + 1]
  /\ IF i + 1 \in Nodes /\ ~failed[i]
     THEN \/ /\ sent' = [sent EXCEPT ![i + 1] = @ + 1]
             /\ UNCHANGED failed
          \/ /\ failed' = [failed EXCEPT ![i] = TRUE]   \* sendall raises OSError
             /\ UNCHANGED sent
     ELSE UNCHANGED <<sent, failed>>
  /\ UNCHANGED <<client, pc, link, reply, staged, block, cut>>

\* Mutants of ReceiveEnds: promote without waiting for the node below; ...
ReceiveEndsPromoting(i) ==
  /\ pc[i] = "receive"
  /\ rcvd[i] = Size \/ EndOfStream(i)
  /\ Goto(i, IF failed[i] THEN "discard" ELSE "promote")
  /\ UNCHANGED <<client, clientData, link, cut>>

\* ... a pause of the sender ends the loop like its end; ...
ReceiveEndsOnTimeout(i) ==
  /\ pc[i] = "receive"
  /\ Goto(i, IF failed[i] THEN "discard"
             ELSE IF i = N THEN "promote" ELSE "await")
  /\ UNCHANGED <<client, clientData, link, cut>>

\* ... the loop reads until the sender closes.
ReceiveEndsAtEOF(i) ==
  /\ pc[i] = "receive"
  /\ EndOfStream(i)
  /\ Goto(i, IF failed[i] THEN "discard"
             ELSE IF i = N THEN "promote" ELSE "await")
  /\ UNCHANGED <<client, clientData, link, cut>>

\* The loop ends: every byte has arrived, or recv returned b"".  The code
\* does not tell the two apart.
ReceiveEnds(i) ==
  /\ pc[i] = "receive"
  /\ rcvd[i] = Size \/ EndOfStream(i)
  /\ Goto(i, IF failed[i] THEN "discard"
             ELSE IF i = N THEN "promote" ELSE "await")
  /\ UNCHANGED <<client, clientData, link, cut>>

\* Mutant of AwaitReply: the answer is read and not compared with ACK_OK.
AwaitReplyUnread(i) ==
  /\ pc[i] = "await"
  /\ ReplyReady(i + 1)
  /\ link' = WithoutNext(i)
  /\ Goto(i, "promote")
  /\ UNCHANGED <<client, clientData, cut>>

\* recv(len(ACK_OK)) returns and the downstream socket is closed.  Only the
\* six bytes of ACK_OK count; recv may also return fewer of them.
AwaitReply(i) ==
  /\ pc[i] = "await"
  /\ ReplyReady(i + 1)
  /\ link' = WithoutNext(i)
  /\ \/ reply[i + 1] = "OK" /\ Goto(i, "promote")
     \/ Goto(i, "discard")
  /\ UNCHANGED <<client, clientData, cut>>

\* The 10 s timeout of the downstream socket, or a reset.
AwaitTimeout(i) ==
  /\ pc[i] = "await"
  /\ Goto(i, "discard")
  /\ UNCHANGED <<client, clientData, link, cut>>

\* Mutant of Promote: the staged file is copied and stays.
PromoteByCopy(i) ==
  /\ pc[i] = "promote"
  /\ block' = [block EXCEPT ![i] = rcvd[i]]
  /\ Goto(i, "replyOK")
  /\ UNCHANGED <<client, failed, link, sent, rcvd, reply, staged, cut>>

\* os.replace(temp_file_path, file_path)
Promote(i) ==
  /\ pc[i] = "promote"
  /\ block' = [block EXCEPT ![i] = rcvd[i]]
  /\ staged' = [staged EXCEPT ![i] = FALSE]
  /\ Goto(i, "replyOK")
  /\ UNCHANGED <<client, failed, link, sent, rcvd, reply, cut>>

\* os.remove(temp_file_path)
Discard(i) ==
  /\ pc[i] = "discard"
  /\ staged' = [staged EXCEPT ![i] = FALSE]
  /\ Goto(i, "replyErr")
  /\ UNCHANGED <<client, failed, link, sent, rcvd, reply, block, cut>>

\* Mutant of Reply: the thread ends and its downstream socket stays open.
ReplyKeepsNext(i) ==
  /\ pc[i] \in {"replyOK", "replyErr"}
  /\ reply' = [reply EXCEPT ![i] = IF pc[i] = "replyOK" THEN "OK" ELSE "ERR"]
  /\ Goto(i, "closed")
  /\ UNCHANGED <<client, failed, link, sent, rcvd, staged, block, cut>>

\* Send the answer and return: both sockets of the thread are closed.
Reply(i) ==
  /\ pc[i] \in {"replyOK", "replyErr"}
  /\ reply' = [reply EXCEPT ![i] = IF pc[i] = "replyOK" THEN "OK" ELSE "ERR"]
  /\ link' = WithoutNext(i)
  /\ Goto(i, "closed")
  /\ UNCHANGED <<client, failed, sent, rcvd, staged, block, cut>>

\* A file operation raises, or conn.recv does.  Only a failed os.replace
\* below a downstream ACK_OK is caught inside the handler, which then
\* removes the staged file; the others end in serve, which answers
\* ACK_ERROR and leaves the staged file where it is.
IOFailure(i) ==
  /\ pc[i] \in {"stage", "receive", "promote", "discard"}
  /\ Goto(i, IF pc[i] = "promote" /\ i < N THEN "discard" ELSE "replyErr")
  /\ UNCHANGED <<client, clientData, link, cut>>

\* The storage daemon is killed, before or after it accepted the connection.
Crash(i) ==
  /\ ~Gone(i)
  /\ link[i] # "none"
  /\ link' = WithoutNext(i)
  /\ Goto(i, "crashed")
  /\ UNCHANGED <<client, clientData, cut>>

-----------------------------------------------------------------------------
\* The network stops carrying link i without telling either end.
Cut(i) ==
  /\ link[i] # "none"
  /\ i \notin cut
  /\ cut' = cut \cup {i}
  /\ UNCHANGED <<client, pc, clientData, link>>

ClientStep ==
  \/ ClientConnect \/ ClientSend \/ ClientEndsStream \/ ClientVerdict
  \/ ClientConnectFails \/ ClientTimeout

Work(i) ==
  \/ Accept(i) \/ ConnectNext(i) \/ ConnectNextFails(i) \/ Stage(i)
  \/ Receive(i) \/ ReceiveEnds(i) \/ AwaitReply(i) \/ AwaitTimeout(i)
  \/ Promote(i) \/ Discard(i) \/ Reply(i)

Next ==
  \/ ClientStep \/ ClientDies
  \/ \E i \in Nodes : Work(i) \/ IOFailure(i) \/ Crash(i) \/ Cut(i)

Spec == Init /\ [][Next]_vars

\* Threads that can run do run, and the socket timeouts of the client and of
\* the downstream sockets fire.  Nothing obliges a failure to happen.
Fairness ==
  /\ WF_vars(ClientStep)
  /\ \A i \in Nodes : WF_vars(Work(i))

FairSpec == Spec /\ Fairness

-----------------------------------------------------------------------------
(* Safety.                                                                 *)

\* send_with_pipeline returns True only when every node of the chain holds
\* the complete chunk under its final name (the ACK cascade, tcp.py:55-57
\* and 181-203).
AckImpliesReplicated ==
  client = "ok" => \A i \in Nodes : block[i] = Size

\* Blocks are promoted from the tail to the head, and only the tail of the
\* chain can ever promote a truncated chunk: a node with a downstream holds a
\* block only if every node below it holds the complete chunk.
TailFirst ==
  \A i \in Nodes : i < N /\ block[i] # NoBlock =>
                     \A j \in i..N : block[j] = Size

\* A node that answered ACK_ERROR holds no block of its own, and one that
\* answered ACK_OK holds one and no staged file: the answer and the disk
\* agree whatever failed in between (tcp.py:181-203, 115-118).
ReplyMatchesDisk ==
  \A i \in Nodes : /\ reply[i] = "ERR" => block[i] = NoBlock
                   /\ reply[i] = "OK"  => block[i] # NoBlock /\ ~staged[i]

\* A block that is shorter than the chunk appears only at the tail and only
\* after the node above it has gone or given the connection up, so its ACK_OK
\* is never read as a success (tcp.py:171 and 200-203).
TruncatedMeansAbandoned ==
  \A i \in Nodes : block[i] \in 0..(Size - 1) =>
                     i = N /\ link[i] = "closed" /\ client # "ok"

-----------------------------------------------------------------------------
(* Why it holds: the inductive invariant.                                  *)

\* Nothing is received that was not sent, nor forwarded that was not received.
FlowsDown ==
  \A i \in Nodes : /\ rcvd[i] <= sent[i]
                   /\ i < N => sent[i + 1] <= rcvd[i]

\* A party that may still read an answer holds its downstream link open, and
\* one that has not connected has no downstream link yet.
HoldsLink ==
  /\ client = "connect" => link[1] = "none"
  /\ client \in {"stream", "await"} => link[1] = "open"
  /\ \A i \in Nodes :
       /\ pc[i] \in {"connect", "await"} => i < N
       /\ pc[i] \in {"listen", "connect"} /\ i < N => link[i + 1] = "none"
       /\ pc[i] \in {"stage", "receive"} /\ i < N /\ ~failed[i]
            => link[i + 1] = "open"
       /\ pc[i] = "await" => link[i + 1] = "open"

\* The disk of a node follows the step its thread is at.
DiskFollowsStep ==
  \A i \in Nodes :
    /\ block[i] \in {NoBlock, rcvd[i]}
    /\ ~Gone(i) /\ pc[i] # "replyOK" => block[i] = NoBlock
    /\ pc[i] = "replyOK" => block[i] # NoBlock /\ ~staged[i]
    /\ reply[i] # "none" => pc[i] = "closed"

\* Who may promote: the tail with the whole chunk or with what it got before
\* its upstream closed; another node only above complete blocks.
Promotable ==
  \A i \in Nodes : pc[i] = "promote" =>
    IF i = N THEN rcvd[i] = Size \/ link[i] = "closed"
             ELSE rcvd[i] = Size /\ \A j \in (i + 1)..N : block[j] = Size

\* A truncated block at the tail is behind a closed link.
TailCut == block[N] \in {NoBlock, Size} \/ link[N] = "closed"

\* The inductive invariant: it holds initially, every step preserves it, and
\* it implies each safety property above.
IInv ==
  /\ TypeOK
  /\ FlowsDown
  /\ HoldsLink
  /\ DiskFollowsStep
  /\ Promotable
  /\ TailCut
  /\ TailFirst
  /\ ReplyMatchesDisk
  /\ AckImpliesReplicated

-----------------------------------------------------------------------------
(* Refinement.                                                             *)

outcome == IF client \in {"ok", "failed", "dead"}
           THEN IF client = "ok" THEN "ok" ELSE "failed"
           ELSE "pending"

Write == INSTANCE ReplicatedWrite WITH stored <- block, verdict <- outcome

\* The pipeline implements the abstract replicated write: blocks appear once,
\* in chain order, never change, and success is final and never premature.
ImplementsReplicatedWrite == Write!Spec

-----------------------------------------------------------------------------
(* What the documentation says and the code does not do.                   *)

\* tcp.py:187 and :124: a staged file is promoted only on absolute success,
\* so no truncated block ever has a final name.
NoTruncatedBlock == \A i \in Nodes : block[i] \in {NoBlock, Size}

\* latex/03-design.tex:200: an interrupted pipeline aborts the transaction and
\* "the primary node returns an error to the client, preventing partial writes
\* or uncoordinated block states": once the primary has answered ACK_ERROR and
\* every thread has ended, no node holds a block.
ErrorLeavesNoBlock ==
  reply[1] = "ERR" /\ (\A i \in Nodes : Gone(i) \/ link[i] = "none")
    => \A i \in Nodes : block[i] = NoBlock

-----------------------------------------------------------------------------
(* Liveness.                                                               *)

\* A thread serving an upload ends, unless a link at or above it has been cut
\* silently: accepted connections have no timeout, so the end of the client
\* must propagate down the chain through closed sockets and 10 s timeouts.
HandlersEnd ==
  \A i \in Nodes : link[i] # "none" ~> Gone(i) \/ (\E j \in 1..i : j \in cut)

=============================================================================
