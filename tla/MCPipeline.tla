----------------------------- MODULE MCPipeline -----------------------------
(***************************************************************************)
(* Model-checking module of Pipeline.  The configurations use the chain of *)
(* three nodes that build_upload_plan hands out.  One run checks two kinds *)
(* of behaviour, told apart by the constant variable calm: those in which  *)
(* anything may fail, and those in which nothing does.                     *)
(***************************************************************************)
EXTENDS Pipeline

VARIABLE calm  \* nothing goes wrong in this behaviour

\* The steps of an upload in which nothing goes wrong: no timeout, failure,
\* crash or cut, the local file is as long as planned, and every ACK_OK is
\* read in one piece.
CalmStep ==
  \/ ClientConnect \/ ClientSend \/ ClientVerdict
  \/ sent[1] = Size /\ ClientEndsStream
  \/ \E i \in Nodes :
       \/ Accept(i) \/ ConnectNext(i) \/ Stage(i) \/ Promote(i) \/ Reply(i)
       \/ Receive(i) /\ UNCHANGED failed
       \/ ReceiveEnds(i)
       \/ AwaitReply(i) /\ (reply[i + 1] = "OK" => pc'[i] = "promote")

MCInit == Init /\ calm \in BOOLEAN
MCNext == /\ \/ calm /\ CalmStep
             \/ ~calm /\ Next
          /\ UNCHANGED calm

MCSpec == MCInit /\ [][MCNext]_<<vars, calm>>

\* In the calm behaviours some step is taken as long as one can be; in the
\* others the fairness is that of Pipeline.
MCFairSpec ==
  /\ MCSpec
  /\ WF_<<vars, calm>>(calm /\ MCNext)
  /\ WF_<<vars, calm>>(~calm /\ ClientStep /\ UNCHANGED calm)
  /\ \A i \in Nodes : WF_<<vars, calm>>(~calm /\ Work(i) /\ UNCHANGED calm)

\* Without failures an upload succeeds, with no timeout ever needed: the
\* client, the nodes that forward and the ACK cascade never wait for one
\* another in a circle, whatever the interleaving.
CalmUploadSucceeds == calm => <>(client = "ok")

=============================================================================
