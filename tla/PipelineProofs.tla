--------------------------- MODULE PipelineProofs ---------------------------
(***************************************************************************)
(* Proofs about Pipeline, for every chain length and every chunk size.     *)
(***************************************************************************)
EXTENDS Pipeline, TLAPS

\* The initial state satisfies the inductive invariant.
LEMMA InitIInv == Init => IInv
<1>1. SUFFICES ASSUME Init PROVE IInv
  OBVIOUS
<1>2. TypeOK
  BY <1>1, ChainAssumption
     DEF Init, TypeOK, ClientSteps, NodeSteps, Nodes, NoBlock
<1>3. QED
  BY <1>1, <1>2, ChainAssumption
     DEF Init, IInv, FlowsDown, HoldsLink, DiskFollowsStep, Promotable,
         TailCut, TailFirst, ReplyMatchesDisk, AckImpliesReplicated, Nodes,
         NoBlock, Gone

\* Every step preserves the inductive invariant.
LEMMA NextIInv == IInv /\ [Next]_vars => IInv'
<1> SUFFICES ASSUME IInv, [Next]_vars PROVE IInv'
  OBVIOUS
<1> USE ChainAssumption DEF IInv, TypeOK, ClientSteps, NodeSteps, Nodes,
        NoBlock, clientData, Goto, WithoutNext, Gone, ClientEnds
<1>1. CASE ClientConnect
  <2>1. TypeOK'
    BY <1>1 DEF ClientConnect
  <2>2. FlowsDown'
    BY <1>1 DEF ClientConnect, FlowsDown
  <2>3. HoldsLink'
    BY <1>1 DEF ClientConnect, HoldsLink
  <2>4. DiskFollowsStep'
    BY <1>1 DEF ClientConnect, DiskFollowsStep
  <2>5. ReplyMatchesDisk'
    BY <1>1 DEF ClientConnect, ReplyMatchesDisk
  <2>6. Promotable'
    BY <1>1 DEF ClientConnect, HoldsLink, Promotable
  <2>7. TailCut'
    BY <1>1 DEF ClientConnect, HoldsLink, TailCut
  <2>8. TailFirst'
    BY <1>1 DEF ClientConnect, TailFirst
  <2>9. AckImpliesReplicated'
    BY <1>1 DEF ClientConnect, AckImpliesReplicated
  <2>10. QED
    BY <2>1, <2>2, <2>3, <2>4, <2>5, <2>6, <2>7, <2>8, <2>9 DEF IInv
<1>2. CASE ClientConnectFails
  <2>1. TypeOK'
    BY <1>2 DEF ClientConnectFails
  <2>2. FlowsDown'
    BY <1>2 DEF ClientConnectFails, FlowsDown
  <2>3. HoldsLink'
    BY <1>2 DEF ClientConnectFails, HoldsLink
  <2>4. DiskFollowsStep'
    BY <1>2 DEF ClientConnectFails, DiskFollowsStep
  <2>5. ReplyMatchesDisk'
    BY <1>2 DEF ClientConnectFails, ReplyMatchesDisk
  <2>6. Promotable'
    BY <1>2 DEF ClientConnectFails, Promotable
  <2>7. TailCut'
    BY <1>2 DEF ClientConnectFails, TailCut
  <2>8. TailFirst'
    BY <1>2 DEF ClientConnectFails, TailFirst
  <2>9. AckImpliesReplicated'
    BY <1>2 DEF ClientConnectFails, AckImpliesReplicated
  <2>10. QED
    BY <2>1, <2>2, <2>3, <2>4, <2>5, <2>6, <2>7, <2>8, <2>9 DEF IInv
<1>3. CASE ClientSend
  <2>1. TypeOK'
    BY <1>3 DEF ClientSend
  <2>2. FlowsDown'
    <3>1. sent' = [sent EXCEPT ![1] = sent[1] + 1] /\ rcvd' = rcvd
      BY <1>3 DEF ClientSend
    <3>2. \A k \in Nodes : sent'[k] = IF k = 1 THEN sent[1] + 1 ELSE sent[k]
      BY <3>1
    <3>3. QED
      BY <3>1, <3>2 DEF FlowsDown
  <2>3. HoldsLink'
    BY <1>3 DEF ClientSend, HoldsLink
  <2>4. DiskFollowsStep'
    BY <1>3 DEF ClientSend, DiskFollowsStep
  <2>5. ReplyMatchesDisk'
    BY <1>3 DEF ClientSend, ReplyMatchesDisk
  <2>6. Promotable'
    BY <1>3 DEF ClientSend, Promotable
  <2>7. TailCut'
    BY <1>3 DEF ClientSend, TailCut
  <2>8. TailFirst'
    BY <1>3 DEF ClientSend, TailFirst
  <2>9. AckImpliesReplicated'
    BY <1>3 DEF ClientSend, AckImpliesReplicated
  <2>10. QED
    BY <2>1, <2>2, <2>3, <2>4, <2>5, <2>6, <2>7, <2>8, <2>9 DEF IInv
<1>4. CASE ClientEndsStream
  <2>1. TypeOK'
    BY <1>4 DEF ClientEndsStream
  <2>2. FlowsDown'
    BY <1>4 DEF ClientEndsStream, FlowsDown
  <2>3. HoldsLink'
    BY <1>4 DEF ClientEndsStream, HoldsLink
  <2>4. DiskFollowsStep'
    BY <1>4 DEF ClientEndsStream, DiskFollowsStep
  <2>5. ReplyMatchesDisk'
    BY <1>4 DEF ClientEndsStream, ReplyMatchesDisk
  <2>6. Promotable'
    BY <1>4 DEF ClientEndsStream, Promotable
  <2>7. TailCut'
    BY <1>4 DEF ClientEndsStream, TailCut
  <2>8. TailFirst'
    BY <1>4 DEF ClientEndsStream, TailFirst
  <2>9. AckImpliesReplicated'
    BY <1>4 DEF ClientEndsStream, AckImpliesReplicated
  <2>10. QED
    BY <2>1, <2>2, <2>3, <2>4, <2>5, <2>6, <2>7, <2>8, <2>9 DEF IInv
<1>5. CASE ClientVerdict
  <2>1. TypeOK'
    BY <1>5 DEF ClientVerdict, ReplyReady
  <2>2. FlowsDown'
    BY <1>5 DEF ClientVerdict, ReplyReady, FlowsDown
  <2>3. HoldsLink'
    BY <1>5 DEF ClientVerdict, ReplyReady, HoldsLink
  <2>4. DiskFollowsStep'
    BY <1>5 DEF ClientVerdict, ReplyReady, DiskFollowsStep
  <2>5. ReplyMatchesDisk'
    BY <1>5 DEF ClientVerdict, ReplyReady, ReplyMatchesDisk
  <2>6. Promotable'
    BY <1>5 DEF ClientVerdict, ReplyReady, Promotable
  <2>7. TailCut'
    BY <1>5 DEF ClientVerdict, ReplyReady, TailCut
  <2>8. TailFirst'
    BY <1>5 DEF ClientVerdict, ReplyReady, TailFirst
  <2>9. AckImpliesReplicated'
    BY <1>5 DEF ClientVerdict, HoldsLink, ReplyMatchesDisk, TailCut,
               TailFirst, AckImpliesReplicated
  <2>10. QED
    BY <2>1, <2>2, <2>3, <2>4, <2>5, <2>6, <2>7, <2>8, <2>9 DEF IInv
<1>6. CASE ClientTimeout
  <2>1. TypeOK'
    BY <1>6 DEF ClientTimeout
  <2>2. FlowsDown'
    BY <1>6 DEF ClientTimeout, FlowsDown
  <2>3. HoldsLink'
    BY <1>6 DEF ClientTimeout, HoldsLink
  <2>4. DiskFollowsStep'
    BY <1>6 DEF ClientTimeout, DiskFollowsStep
  <2>5. ReplyMatchesDisk'
    BY <1>6 DEF ClientTimeout, ReplyMatchesDisk
  <2>6. Promotable'
    BY <1>6 DEF ClientTimeout, Promotable
  <2>7. TailCut'
    BY <1>6 DEF ClientTimeout, TailCut
  <2>8. TailFirst'
    BY <1>6 DEF ClientTimeout, TailFirst
  <2>9. AckImpliesReplicated'
    BY <1>6 DEF ClientTimeout, AckImpliesReplicated
  <2>10. QED
    BY <2>1, <2>2, <2>3, <2>4, <2>5, <2>6, <2>7, <2>8, <2>9 DEF IInv
<1>7. CASE ClientDies
  <2>1. TypeOK'
    BY <1>7 DEF ClientDies
  <2>2. FlowsDown'
    BY <1>7 DEF ClientDies, FlowsDown
  <2>3. HoldsLink'
    BY <1>7 DEF ClientDies, HoldsLink
  <2>4. DiskFollowsStep'
    BY <1>7 DEF ClientDies, DiskFollowsStep
  <2>5. ReplyMatchesDisk'
    BY <1>7 DEF ClientDies, ReplyMatchesDisk
  <2>6. Promotable'
    BY <1>7 DEF ClientDies, Promotable
  <2>7. TailCut'
    BY <1>7 DEF ClientDies, TailCut
  <2>8. TailFirst'
    BY <1>7 DEF ClientDies, TailFirst
  <2>9. AckImpliesReplicated'
    BY <1>7 DEF ClientDies, AckImpliesReplicated
  <2>10. QED
    BY <2>1, <2>2, <2>3, <2>4, <2>5, <2>6, <2>7, <2>8, <2>9 DEF IInv
<1>8. ASSUME NEW i \in Nodes, Accept(i) PROVE IInv'
  <2>1. TypeOK'
    BY <1>8 DEF Accept
  <2>2. FlowsDown'
    BY <1>8 DEF Accept, FlowsDown
  <2>3. HoldsLink'
    BY <1>8 DEF Accept, HoldsLink
  <2>4. DiskFollowsStep'
    BY <1>8 DEF Accept, DiskFollowsStep
  <2>5. ReplyMatchesDisk'
    BY <1>8 DEF Accept, ReplyMatchesDisk
  <2>6. Promotable'
    BY <1>8 DEF Accept, Promotable
  <2>7. TailCut'
    BY <1>8 DEF Accept, TailCut
  <2>8. TailFirst'
    BY <1>8 DEF Accept, TailFirst
  <2>9. AckImpliesReplicated'
    BY <1>8 DEF Accept, AckImpliesReplicated
  <2>10. QED
    BY <2>1, <2>2, <2>3, <2>4, <2>5, <2>6, <2>7, <2>8, <2>9 DEF IInv
<1>9. ASSUME NEW i \in Nodes, ConnectNext(i) PROVE IInv'
  <2>1. TypeOK'
    BY <1>9 DEF ConnectNext
  <2>2. FlowsDown'
    BY <1>9 DEF ConnectNext, FlowsDown
  <2>3. HoldsLink'
    BY <1>9 DEF ConnectNext, HoldsLink
  <2>4. DiskFollowsStep'
    BY <1>9 DEF ConnectNext, DiskFollowsStep
  <2>5. ReplyMatchesDisk'
    BY <1>9 DEF ConnectNext, ReplyMatchesDisk
  <2>6. Promotable'
    BY <1>9 DEF ConnectNext, HoldsLink, Promotable
  <2>7. TailCut'
    BY <1>9 DEF ConnectNext, HoldsLink, TailCut
  <2>8. TailFirst'
    BY <1>9 DEF ConnectNext, TailFirst
  <2>9. AckImpliesReplicated'
    BY <1>9 DEF ConnectNext, AckImpliesReplicated
  <2>10. QED
    BY <2>1, <2>2, <2>3, <2>4, <2>5, <2>6, <2>7, <2>8, <2>9 DEF IInv
<1>10. ASSUME NEW i \in Nodes, ConnectNextFails(i) PROVE IInv'
  <2>1. TypeOK'
    BY <1>10 DEF ConnectNextFails
  <2>2. FlowsDown'
    BY <1>10 DEF ConnectNextFails, FlowsDown
  <2>3. HoldsLink'
    BY <1>10 DEF ConnectNextFails, HoldsLink
  <2>4. DiskFollowsStep'
    BY <1>10 DEF ConnectNextFails, DiskFollowsStep
  <2>5. ReplyMatchesDisk'
    BY <1>10 DEF ConnectNextFails, ReplyMatchesDisk
  <2>6. Promotable'
    BY <1>10 DEF ConnectNextFails, Promotable
  <2>7. TailCut'
    BY <1>10 DEF ConnectNextFails, TailCut
  <2>8. TailFirst'
    BY <1>10 DEF ConnectNextFails, TailFirst
  <2>9. AckImpliesReplicated'
    BY <1>10 DEF ConnectNextFails, AckImpliesReplicated
  <2>10. QED
    BY <2>1, <2>2, <2>3, <2>4, <2>5, <2>6, <2>7, <2>8, <2>9 DEF IInv
<1>11. ASSUME NEW i \in Nodes, Stage(i) PROVE IInv'
  <2>1. TypeOK'
    BY <1>11 DEF Stage
  <2>2. FlowsDown'
    BY <1>11 DEF Stage, FlowsDown
  <2>3. HoldsLink'
    BY <1>11 DEF Stage, HoldsLink
  <2>4. DiskFollowsStep'
    BY <1>11 DEF Stage, DiskFollowsStep
  <2>5. ReplyMatchesDisk'
    BY <1>11 DEF Stage, DiskFollowsStep, ReplyMatchesDisk
  <2>6. Promotable'
    BY <1>11 DEF Stage, Promotable
  <2>7. TailCut'
    BY <1>11 DEF Stage, TailCut
  <2>8. TailFirst'
    BY <1>11 DEF Stage, TailFirst
  <2>9. AckImpliesReplicated'
    BY <1>11 DEF Stage, AckImpliesReplicated
  <2>10. QED
    BY <2>1, <2>2, <2>3, <2>4, <2>5, <2>6, <2>7, <2>8, <2>9 DEF IInv
<1>12. ASSUME NEW i \in Nodes, Receive(i) PROVE IInv'
  <2>a. /\ rcvd[i] \in Int /\ rcvd[i] < Size /\ rcvd[i] < sent[i]
        /\ rcvd' = [rcvd EXCEPT ![i] = rcvd[i] + 1]
        /\ UNCHANGED <<client, pc, link, reply, staged, block, cut>>
    BY <1>12 DEF Receive, DataReady
  <2>b. failed' \in [Nodes -> BOOLEAN]
    <3>1. failed' = failed \/ failed' = [failed EXCEPT ![i] = TRUE]
      BY <1>12 DEF Receive
    <3>2. QED
      BY <3>1
  <2>c. \/ sent' = sent
        \/ i + 1 \in Nodes /\ sent' = [sent EXCEPT ![i + 1] = sent[i + 1] + 1]
    BY <1>12 DEF Receive
  <2>1. TypeOK'
    <3>1. ASSUME i + 1 \in Nodes
          PROVE  sent[i + 1] \in Nat /\ sent[i + 1] <= rcvd[i]
      BY <3>1 DEF FlowsDown
    <3>2. rcvd' \in [Nodes -> 0..Size]
      BY <2>a
    <3>3. sent' \in [Nodes -> 0..Size]
      <4>1. CASE sent' = sent
        BY <4>1
      <4>2. CASE i + 1 \in Nodes /\ sent' = [sent EXCEPT ![i + 1] = sent[i + 1] + 1]
        <5>1. sent[i + 1] + 1 \in 0..Size
          BY <2>a, <3>1, <4>2
        <5>2. QED
          BY <4>2, <5>1
      <4>3. QED
        BY <2>c, <4>1, <4>2
    <3>4. QED
      BY <2>a, <2>b, <3>2, <3>3
  <2>2. FlowsDown'
    <3>1. CASE sent' = sent
      BY <2>a, <3>1 DEF FlowsDown
    <3>2. CASE i + 1 \in Nodes /\ sent' = [sent EXCEPT ![i + 1] = sent[i + 1] + 1]
      <4>1. ASSUME NEW k \in Nodes PROVE rcvd'[k] <= sent'[k]
        <5>1. /\ rcvd[k] <= sent[k] /\ sent[k] <= sent'[k]
              /\ rcvd[k] \in Int /\ sent[k] \in Int /\ sent'[k] \in Int
          BY <3>2 DEF FlowsDown
        <5>2. CASE k = i
          <6>1. rcvd'[k] = rcvd[k] + 1 /\ rcvd[k] < sent[k]
            BY <2>a, <5>2
          <6>2. QED
            BY <5>1, <6>1
        <5>3. CASE k # i
          <6>1. rcvd'[k] = rcvd[k]
            BY <2>a, <5>3
          <6>2. QED
            BY <5>1, <6>1
        <5>4. QED
          BY <5>2, <5>3
      <4>2. ASSUME NEW k \in Nodes, k < N PROVE sent'[k + 1] <= rcvd'[k]
        <5>1. /\ sent[k + 1] <= rcvd[k] /\ k + 1 \in Nodes
              /\ sent[k + 1] \in Int /\ rcvd[k] \in Int
          BY <4>2 DEF FlowsDown
        <5>2. CASE k = i
          BY <2>a, <3>2, <5>1, <5>2
        <5>3. CASE k # i
          BY <2>a, <3>2, <5>1, <5>3
        <5>4. QED
          BY <5>2, <5>3
      <4>3. QED
        BY <4>1, <4>2 DEF FlowsDown
    <3>3. QED
      BY <2>c, <3>1, <3>2
  <2>3. HoldsLink'
    BY <1>12 DEF Receive, DataReady, HoldsLink
  <2>4. DiskFollowsStep'
    BY <1>12 DEF Receive, DataReady, DiskFollowsStep
  <2>5. ReplyMatchesDisk'
    BY <1>12 DEF Receive, DataReady, ReplyMatchesDisk
  <2>6. Promotable'
    BY <1>12 DEF Receive, DataReady, Promotable
  <2>7. TailCut'
    BY <1>12 DEF Receive, DataReady, TailCut
  <2>8. TailFirst'
    BY <1>12 DEF Receive, DataReady, TailFirst
  <2>9. AckImpliesReplicated'
    BY <1>12 DEF Receive, DataReady, AckImpliesReplicated
  <2>10. QED
    BY <2>1, <2>2, <2>3, <2>4, <2>5, <2>6, <2>7, <2>8, <2>9 DEF IInv
<1>13. ASSUME NEW i \in Nodes, ReceiveEnds(i) PROVE IInv'
  <2>1. TypeOK'
    BY <1>13 DEF ReceiveEnds, EndOfStream
  <2>2. FlowsDown'
    BY <1>13 DEF ReceiveEnds, EndOfStream, FlowsDown
  <2>3. HoldsLink'
    BY <1>13 DEF ReceiveEnds, EndOfStream, HoldsLink
  <2>4. DiskFollowsStep'
    BY <1>13 DEF ReceiveEnds, EndOfStream, DiskFollowsStep
  <2>5. ReplyMatchesDisk'
    BY <1>13 DEF ReceiveEnds, EndOfStream, ReplyMatchesDisk
  <2>6. Promotable'
    BY <1>13 DEF ReceiveEnds, EndOfStream, Promotable
  <2>7. TailCut'
    BY <1>13 DEF ReceiveEnds, EndOfStream, TailCut
  <2>8. TailFirst'
    BY <1>13 DEF ReceiveEnds, EndOfStream, TailFirst
  <2>9. AckImpliesReplicated'
    BY <1>13 DEF ReceiveEnds, EndOfStream, AckImpliesReplicated
  <2>10. QED
    BY <2>1, <2>2, <2>3, <2>4, <2>5, <2>6, <2>7, <2>8, <2>9 DEF IInv
<1>14. ASSUME NEW i \in Nodes, AwaitReply(i) PROVE IInv'
  <2>1. TypeOK'
    BY <1>14 DEF AwaitReply, ReplyReady
  <2>2. FlowsDown'
    BY <1>14 DEF AwaitReply, ReplyReady, FlowsDown
  <2>a. /\ i < N /\ i + 1 \in Nodes /\ pc[i] = "await" /\ link[i + 1] = "open"
        /\ UNCHANGED <<client, clientData, cut>>
    BY <1>14 DEF AwaitReply, HoldsLink
  <2>b. \/ pc' = [pc EXCEPT ![i] = "promote"] /\ reply[i + 1] = "OK"
        \/ pc' = [pc EXCEPT ![i] = "discard"]
    BY <1>14 DEF AwaitReply
  <2>c. link' = [link EXCEPT ![i + 1] = "closed"]
    BY <1>14, <2>a DEF AwaitReply
  <2>d. /\ pc'[i] \in {"promote", "discard"}
        /\ \A k \in Nodes : k # i => pc'[k] = pc[k]
    BY <2>b
  <2>e. \A k \in Nodes : k # i + 1 => link'[k] = link[k]
    BY <2>a, <2>c
  <2>3. HoldsLink'
    <3>1. 1 \in Nodes /\ 1 # i + 1
      BY <2>a
    <3>2. link'[1] = link[1] /\ client' = client /\ failed' = failed
      BY <2>a, <2>e, <3>1
    <3> SUFFICES ASSUME NEW k \in Nodes
                 PROVE  (/\ pc[k] \in {"connect", "await"} => k < N
                         /\ pc[k] \in {"listen", "connect"} /\ k < N
                              => link[k + 1] = "none"
                         /\ pc[k] \in {"stage", "receive"} /\ k < N /\ ~failed[k]
                              => link[k + 1] = "open"
                         /\ pc[k] = "await" => link[k + 1] = "open")'
      BY <3>2 DEF HoldsLink
    <3>3. CASE k = i
      BY <2>d, <3>3
    <3>4. CASE k # i
      <4>1. pc'[k] = pc[k]
        BY <2>d, <3>4
      <4>2. k < N => link'[k + 1] = link[k + 1]
        BY <2>e, <3>4
      <4>3. QED
        BY <3>2, <4>1, <4>2 DEF HoldsLink
    <3>5. QED
      BY <3>3, <3>4
  <2>4. DiskFollowsStep'
    <3> SUFFICES ASSUME NEW k \in Nodes
                 PROVE  (/\ block[k] \in {NoBlock, rcvd[k]}
                         /\ ~Gone(k) /\ pc[k] # "replyOK" => block[k] = NoBlock
                         /\ pc[k] = "replyOK" => block[k] # NoBlock /\ ~staged[k]
                         /\ reply[k] # "none" => pc[k] = "closed")'
      BY DEF DiskFollowsStep
    <3>1. CASE k = i
      BY <2>a, <2>d, <3>1 DEF DiskFollowsStep, Gone
    <3>2. CASE k # i
      BY <2>a, <2>d, <3>2 DEF DiskFollowsStep, Gone
    <3>3. QED
      BY <3>1, <3>2
  <2>5. ReplyMatchesDisk'
    BY <1>14 DEF AwaitReply, ReplyReady, ReplyMatchesDisk
  <2>6. Promotable'
    <3>1. CASE pc' = [pc EXCEPT ![i] = "discard"]
      BY <2>a, <2>c, <3>1 DEF Promotable
    <3>2. CASE pc' = [pc EXCEPT ![i] = "promote"] /\ reply[i + 1] = "OK"
      <4>1. block[i + 1] # NoBlock
        BY <2>a, <3>2 DEF ReplyMatchesDisk
      <4>2. \A j \in (i + 1)..N : block[j] = Size
        BY <2>a, <4>1 DEF TailCut, TailFirst
      <4>3. rcvd[i] = Size
        <5>1. rcvd[i + 1] = Size
          BY <2>a, <4>1, <4>2 DEF DiskFollowsStep
        <5>2. QED
          BY <2>a, <5>1 DEF FlowsDown
      <4>4. QED
        BY <2>a, <2>c, <3>2, <4>2, <4>3 DEF Promotable
    <3>3. QED
      BY <2>b, <3>1, <3>2
  <2>7. TailCut'
    BY <1>14 DEF AwaitReply, ReplyReady, TailCut
  <2>8. TailFirst'
    BY <1>14 DEF AwaitReply, ReplyReady, TailFirst
  <2>9. AckImpliesReplicated'
    BY <1>14 DEF AwaitReply, ReplyReady, AckImpliesReplicated
  <2>10. QED
    BY <2>1, <2>2, <2>3, <2>4, <2>5, <2>6, <2>7, <2>8, <2>9 DEF IInv
<1>15. ASSUME NEW i \in Nodes, AwaitTimeout(i) PROVE IInv'
  <2>1. TypeOK'
    BY <1>15 DEF AwaitTimeout
  <2>2. FlowsDown'
    BY <1>15 DEF AwaitTimeout, FlowsDown
  <2>3. HoldsLink'
    BY <1>15 DEF AwaitTimeout, HoldsLink
  <2>4. DiskFollowsStep'
    BY <1>15 DEF AwaitTimeout, DiskFollowsStep
  <2>5. ReplyMatchesDisk'
    BY <1>15 DEF AwaitTimeout, ReplyMatchesDisk
  <2>6. Promotable'
    BY <1>15 DEF AwaitTimeout, Promotable
  <2>7. TailCut'
    BY <1>15 DEF AwaitTimeout, TailCut
  <2>8. TailFirst'
    BY <1>15 DEF AwaitTimeout, TailFirst
  <2>9. AckImpliesReplicated'
    BY <1>15 DEF AwaitTimeout, AckImpliesReplicated
  <2>10. QED
    BY <2>1, <2>2, <2>3, <2>4, <2>5, <2>6, <2>7, <2>8, <2>9 DEF IInv
<1>16. ASSUME NEW i \in Nodes, Promote(i) PROVE IInv'
  <2>1. TypeOK'
    BY <1>16 DEF Promote
  <2>2. FlowsDown'
    BY <1>16 DEF Promote, FlowsDown
  <2>3. HoldsLink'
    BY <1>16 DEF Promote, HoldsLink
  <2>4. DiskFollowsStep'
    BY <1>16 DEF Promote, DiskFollowsStep
  <2>5. ReplyMatchesDisk'
    BY <1>16 DEF Promote, DiskFollowsStep, ReplyMatchesDisk
  <2>6. Promotable'
    BY <1>16 DEF Promote, DiskFollowsStep, Promotable
  <2>7. TailCut'
    BY <1>16 DEF Promote, Promotable, TailCut
  <2>8. TailFirst'
    BY <1>16 DEF Promote, DiskFollowsStep, Promotable, TailFirst
  <2>9. AckImpliesReplicated'
    BY <1>16 DEF Promote, DiskFollowsStep, AckImpliesReplicated
  <2>10. QED
    BY <2>1, <2>2, <2>3, <2>4, <2>5, <2>6, <2>7, <2>8, <2>9 DEF IInv
<1>17. ASSUME NEW i \in Nodes, Discard(i) PROVE IInv'
  <2>1. TypeOK'
    BY <1>17 DEF Discard
  <2>2. FlowsDown'
    BY <1>17 DEF Discard, FlowsDown
  <2>3. HoldsLink'
    BY <1>17 DEF Discard, HoldsLink
  <2>4. DiskFollowsStep'
    BY <1>17 DEF Discard, DiskFollowsStep
  <2>5. ReplyMatchesDisk'
    BY <1>17 DEF Discard, ReplyMatchesDisk
  <2>6. Promotable'
    BY <1>17 DEF Discard, Promotable
  <2>7. TailCut'
    BY <1>17 DEF Discard, TailCut
  <2>8. TailFirst'
    BY <1>17 DEF Discard, TailFirst
  <2>9. AckImpliesReplicated'
    BY <1>17 DEF Discard, AckImpliesReplicated
  <2>10. QED
    BY <2>1, <2>2, <2>3, <2>4, <2>5, <2>6, <2>7, <2>8, <2>9 DEF IInv
<1>18. ASSUME NEW i \in Nodes, Reply(i) PROVE IInv'
  <2>1. TypeOK'
    BY <1>18 DEF Reply
  <2>2. FlowsDown'
    BY <1>18 DEF Reply, FlowsDown
  <2>3. HoldsLink'
    BY <1>18 DEF Reply, HoldsLink
  <2>4. DiskFollowsStep'
    BY <1>18 DEF Reply, DiskFollowsStep
  <2>5. ReplyMatchesDisk'
    BY <1>18 DEF Reply, DiskFollowsStep, ReplyMatchesDisk
  <2>6. Promotable'
    BY <1>18 DEF Reply, Promotable
  <2>7. TailCut'
    BY <1>18 DEF Reply, TailCut
  <2>8. TailFirst'
    BY <1>18 DEF Reply, TailFirst
  <2>9. AckImpliesReplicated'
    BY <1>18 DEF Reply, AckImpliesReplicated
  <2>10. QED
    BY <2>1, <2>2, <2>3, <2>4, <2>5, <2>6, <2>7, <2>8, <2>9 DEF IInv
<1>19. ASSUME NEW i \in Nodes, IOFailure(i) PROVE IInv'
  <2>1. TypeOK'
    BY <1>19 DEF IOFailure
  <2>2. FlowsDown'
    BY <1>19 DEF IOFailure, FlowsDown
  <2>3. HoldsLink'
    BY <1>19 DEF IOFailure, HoldsLink
  <2>4. DiskFollowsStep'
    BY <1>19 DEF IOFailure, DiskFollowsStep
  <2>5. ReplyMatchesDisk'
    BY <1>19 DEF IOFailure, ReplyMatchesDisk
  <2>6. Promotable'
    BY <1>19 DEF IOFailure, Promotable
  <2>7. TailCut'
    BY <1>19 DEF IOFailure, TailCut
  <2>8. TailFirst'
    BY <1>19 DEF IOFailure, TailFirst
  <2>9. AckImpliesReplicated'
    BY <1>19 DEF IOFailure, AckImpliesReplicated
  <2>10. QED
    BY <2>1, <2>2, <2>3, <2>4, <2>5, <2>6, <2>7, <2>8, <2>9 DEF IInv
<1>20. ASSUME NEW i \in Nodes, Crash(i) PROVE IInv'
  <2>1. TypeOK'
    BY <1>20 DEF Crash
  <2>2. FlowsDown'
    BY <1>20 DEF Crash, FlowsDown
  <2>3. HoldsLink'
    BY <1>20 DEF Crash, HoldsLink
  <2>4. DiskFollowsStep'
    BY <1>20 DEF Crash, DiskFollowsStep
  <2>5. ReplyMatchesDisk'
    BY <1>20 DEF Crash, ReplyMatchesDisk
  <2>6. Promotable'
    BY <1>20 DEF Crash, Promotable
  <2>7. TailCut'
    BY <1>20 DEF Crash, TailCut
  <2>8. TailFirst'
    BY <1>20 DEF Crash, TailFirst
  <2>9. AckImpliesReplicated'
    BY <1>20 DEF Crash, AckImpliesReplicated
  <2>10. QED
    BY <2>1, <2>2, <2>3, <2>4, <2>5, <2>6, <2>7, <2>8, <2>9 DEF IInv
<1>21. ASSUME NEW i \in Nodes, Cut(i) PROVE IInv'
  <2>1. TypeOK'
    BY <1>21 DEF Cut
  <2>2. FlowsDown'
    BY <1>21 DEF Cut, FlowsDown
  <2>3. HoldsLink'
    BY <1>21 DEF Cut, HoldsLink
  <2>4. DiskFollowsStep'
    BY <1>21 DEF Cut, DiskFollowsStep
  <2>5. ReplyMatchesDisk'
    BY <1>21 DEF Cut, ReplyMatchesDisk
  <2>6. Promotable'
    BY <1>21 DEF Cut, Promotable
  <2>7. TailCut'
    BY <1>21 DEF Cut, TailCut
  <2>8. TailFirst'
    BY <1>21 DEF Cut, TailFirst
  <2>9. AckImpliesReplicated'
    BY <1>21 DEF Cut, AckImpliesReplicated
  <2>10. QED
    BY <2>1, <2>2, <2>3, <2>4, <2>5, <2>6, <2>7, <2>8, <2>9 DEF IInv
<1>22. CASE UNCHANGED vars
  BY <1>22 DEF vars, FlowsDown, HoldsLink, DiskFollowsStep, ReplyMatchesDisk,
              Promotable, TailCut, TailFirst, AckImpliesReplicated
<1>23. QED
  BY <1>1, <1>2, <1>3, <1>4, <1>5, <1>6, <1>7, <1>8, <1>9, <1>10, <1>11,
     <1>12, <1>13, <1>14, <1>15, <1>16, <1>17, <1>18, <1>19, <1>20, <1>21,
     <1>22 DEF Next, ClientStep, Work

\* The inductive invariant holds in every reachable state: what the threads
\* of the chain, their sockets and their files have in common at every moment.
THEOREM InductiveInvariant == Spec => []IInv
BY InitIInv, NextIInv, PTL DEF Spec

\* Every reachable state is well typed (the state of client and nodes).
THEOREM TypeCorrect == Spec => []TypeOK
<1>1. IInv => TypeOK
  BY DEF IInv
<1>2. QED
  BY <1>1, InductiveInvariant, PTL

\* The client's True means a complete block on every node of the chain,
\* whatever fails and however the threads interleave.
THEOREM AckIsReplicated == Spec => []AckImpliesReplicated
<1>1. IInv => AckImpliesReplicated
  BY DEF IInv
<1>2. QED
  BY <1>1, InductiveInvariant, PTL

\* Blocks are promoted from the tail to the head of the chain, and a node
\* that forwards never promotes a truncated one.
THEOREM PromotedTailFirst == Spec => []TailFirst
<1>1. IInv => TailFirst
  BY DEF IInv
<1>2. QED
  BY <1>1, InductiveInvariant, PTL

\* What a node answered is what its disk holds.
THEOREM AnswersMatchDisk == Spec => []ReplyMatchesDisk
<1>1. IInv => ReplyMatchesDisk
  BY DEF IInv
<1>2. QED
  BY <1>1, InductiveInvariant, PTL

\* A truncated block lies only at the tail, behind a closed link, and is never
\* part of an upload reported as successful.
THEOREM TruncationIsAbandoned == Spec => []TruncatedMeansAbandoned
<1>1. IInv => TruncatedMeansAbandoned
  <2> SUFFICES ASSUME IInv, NEW i \in Nodes, block[i] \in 0..(Size - 1)
               PROVE  i = N /\ link[i] = "closed" /\ client # "ok"
    BY DEF TruncatedMeansAbandoned
  <2>1. N \in Nat \ {0} /\ Size \in Nat /\ i \in 1..N
    BY ChainAssumption DEF Nodes
  <2>2. block[i] # NoBlock /\ block[i] # Size
    BY <2>1 DEF NoBlock
  <2>3. i = N
    <3>1. ~(i < N)
      <4>1. i \in i..N
        BY <2>1
      <4>2. QED
        BY <4>1, <2>2 DEF IInv, TailFirst
    <3>2. QED
      BY <2>1, <3>1
  <2>4. link[i] = "closed"
    BY <2>2, <2>3 DEF IInv, TailCut
  <2>5. client # "ok"
    BY <2>2 DEF IInv, AckImpliesReplicated
  <2>6. QED
    BY <2>3, <2>4, <2>5
<1>2. QED
  BY <1>1, InductiveInvariant, PTL

-----------------------------------------------------------------------------
(* Refinement: every step of the pipeline is a step of ReplicatedWrite or  *)
(* leaves its state alone.                                                 *)

\* A step that changes neither a block nor the client is a stuttering step.
LEMMA OtherStepsStutter ==
  ASSUME UNCHANGED <<client, block>>
  PROVE  UNCHANGED <<block, outcome>>
BY DEF outcome

\* os.replace on node i stores the chunk in the abstract write.
LEMMA PromoteStores ==
  ASSUME IInv, NEW i \in Nodes, Promote(i)
  PROVE  Write!Next
<1>1. /\ block[i] = NoBlock /\ block' = [block EXCEPT ![i] = rcvd[i]]
      /\ rcvd[i] \in 0..Size /\ UNCHANGED outcome
  BY DEF IInv, Promote, DiskFollowsStep, Gone, TypeOK, outcome
<1>2. /\ i < N => rcvd[i] = Size
      /\ \A j \in Nodes : j > i => block[j] = Size
  BY ChainAssumption DEF IInv, Promote, Promotable, Nodes
<1>3. Write!Store(i, rcvd[i])
  BY <1>1, <1>2
     DEF Write!Store, Write!CompleteBelow, Write!Replicas, Write!Missing,
         Nodes, NoBlock
<1>4. QED
  BY <1>1, <1>3 DEF Write!Next, Write!Replicas, Nodes

\* The end of the client is the abstract verdict, and it is "ok" only when
\* every replica is complete.
LEMMA ClientEndDecides ==
  ASSUME IInv, IInv', UNCHANGED block,
         client \in {"connect", "stream", "await"},
         client' \in {"ok", "failed", "dead"}
  PROVE  Write!Next
<1>1. CASE client' = "ok"
  <2>1. Write!Confirm
    BY <1>1 DEF IInv, AckImpliesReplicated, outcome, Write!Confirm,
               Write!CompleteBelow, Write!Replicas, Nodes
  <2>2. QED
    BY <2>1 DEF Write!Next
<1>2. CASE client' # "ok"
  <2>1. Write!GiveUp
    BY <1>2 DEF outcome, Write!GiveUp
  <2>2. QED
    BY <2>1 DEF Write!Next
<1>3. QED
  BY <1>1, <1>2

\* The pipeline implements the abstract replicated write.
THEOREM Refinement == Spec => ImplementsReplicatedWrite
<1>1. Init => Write!Init
  BY DEF Init, Write!Init, Write!Replicas, Write!Missing, Nodes, NoBlock,
         outcome
<1>2. IInv /\ IInv' /\ [Next]_vars => [Write!Next]_(Write!rwVars)
  <2> SUFFICES ASSUME IInv, IInv', [Next]_vars
               PROVE  Write!Next \/ UNCHANGED <<block, outcome>>
    BY DEF Write!rwVars
  <2>1. CASE ClientConnect \/ ClientSend \/ ClientEndsStream
    BY <2>1 DEF ClientConnect, ClientSend, ClientEndsStream, clientData,
               outcome
  <2>2. CASE ClientVerdict \/ ClientConnectFails \/ ClientTimeout \/ ClientDies
    <3>1. /\ client \in {"connect", "stream", "await"}
          /\ client' \in {"ok", "failed", "dead"}
          /\ UNCHANGED block
      BY <2>2 DEF ClientVerdict, ClientConnectFails, ClientTimeout, ClientDies,
                 ClientEnds, clientData
    <3>2. QED
      BY <3>1, ClientEndDecides
  <2>3. ASSUME NEW i \in Nodes, Work(i)
        PROVE  Write!Next \/ UNCHANGED <<block, outcome>>
    <3>1. CASE Promote(i)
      BY <3>1, PromoteStores
    <3>2. CASE ~Promote(i)
      <4>1. UNCHANGED <<client, block>>
        BY <2>3, <3>2
           DEF Work, Accept, ConnectNext, ConnectNextFails, Stage, Receive,
               ReceiveEnds, AwaitReply, AwaitTimeout, Discard, Reply,
               clientData
      <4>2. QED
        BY <4>1, OtherStepsStutter
    <3>3. QED
      BY <3>1, <3>2
  <2>4. ASSUME NEW i \in Nodes, IOFailure(i) \/ Crash(i) \/ Cut(i)
        PROVE  UNCHANGED <<block, outcome>>
    BY <2>4 DEF IOFailure, Crash, Cut, clientData, outcome
  <2>5. CASE UNCHANGED vars
    BY <2>5 DEF vars, outcome
  <2>6. QED
    BY <2>1, <2>2, <2>3, <2>4, <2>5 DEF Next, ClientStep
<1>3. QED
  BY <1>1, <1>2, InductiveInvariant, PTL
     DEF Spec, ImplementsReplicatedWrite, Write!Spec

=============================================================================
