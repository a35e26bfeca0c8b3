--------------------------- MODULE DownloadProofs ---------------------------
(***************************************************************************)
(* Proofs about Download, for every number of nodes and chunks, every size *)
(* of the chunks, of a read and of the answer ACK_ERR.                     *)
(*                                                                         *)
(* The inductive invariant says where the units of the destination file    *)
(* come from: of the attempt that runs (Serving), of the chunks completed  *)
(* before (Prefix), and which replicas have been given up (Exhausted).     *)
(***************************************************************************)
EXTENDS Download, TLAPS, SequenceTheorems, LeastGreatest

Units == [of : 0..ChunkCount, at : Nat]

\* The types of the variables, and what pc says about the chunk and the count.
TypeInv ==
  /\ reliable \subseteq up /\ up \subseteq Nodes
  /\ holds \in [Nodes -> SUBSET Chunks]
  /\ chunk \in 0..ChunkCount
  /\ attempt \in 1..3
  /\ pc \in {"connect", "request", "receive", "lost", "ok", "failed"}
  /\ stream \in Seq(Units) /\ dest \in Seq(Units) /\ got \in Nat
  /\ IF pc = "ok" THEN chunk = ChunkCount
                  ELSE chunk \in Chunks /\ got <= Size[chunk]
  /\ pc # "receive" => got = 0

\* A reliable node still holds every chunk the plan expects there.
Kept ==
  \A n \in reliable : \A c \in Chunks :
    (\E a \in 1..3 : PlanNodes(c)[a] = n) => c \in holds[n]

\* The node answers s: got units of it are the last ones of dest, the others
\* are still to come.
Answering(s) ==
  /\ got <= Len(s) /\ Len(stream) = Len(s) - got
  /\ \A k \in 1..Len(stream) : stream[k] = s[got + k]
  /\ got <= Len(dest)
  /\ \A k \in 1..got : dest[Len(dest) - got + k] = s[k]

\* What is being received is the block or, from a node that is not reliable, as
\* much of it as the node could read, or nothing of it, and ACK_ERR.
Serving ==
  pc = "receive" =>
    \/ Answering(Block(chunk))
    \/ /\ Server \notin reliable
       /\ \E k \in ReadPoints(chunk) : Answering(BrokenOff(chunk, k))

\* The replicas given up, and the one about to be, are not reliable.
Exhausted ==
  /\ \A a \in 1..3 : a < attempt \/ pc = "failed"
                       => PlanNodes(chunk)[a] \notin reliable
  /\ pc = "lost" => Server \notin reliable

\* The units before those of this attempt: as many as the chunks before this
\* one have or more and, when not more, those of the file.
Prefix ==
  ErrorFillsNoChunk =>
    /\ Len(dest) >= Len(Original[chunk]) + got
    /\ Len(dest) = Len(Original[chunk]) + got =>
         \A k \in 1..Len(Original[chunk]) : dest[k] = Original[chunk][k]

IInv == TypeInv /\ Kept /\ Serving /\ Exhausted /\ Prefix

-----------------------------------------------------------------------------
(* The plan, the blocks and the file.                                      *)

\* A block and the answer ACK_ERR are sequences of units.
LEMMA Answers ==
  /\ \A c \in Chunks : /\ Block(c) \in Seq(Units) /\ Len(Block(c)) = Size[c]
                       /\ \A k \in 1..Size[c] : Block(c)[k] = Piece(c, k)
  /\ ErrorReply \in Seq(Units) /\ Len(ErrorReply) = ErrorLength
<1>1. ASSUME NEW c \in Chunks
      PROVE  /\ Block(c) \in Seq(Units) /\ Len(Block(c)) = Size[c]
             /\ \A k \in 1..Size[c] : Block(c)[k] = Piece(c, k)
  <2>1. Size[c] \in Nat /\ c \in 0..ChunkCount
    BY DownloadAssumption DEF Chunks
  <2>2. \A k \in 1..Size[c] : Piece(c, k) \in Units
    BY <2>1 DEF Piece, Units
  <2>3. QED
    BY <2>1, <2>2 DEF Block
<1>2. ErrorReply \in Seq(Units) /\ Len(ErrorReply) = ErrorLength
  <2>1. ErrorLength \in Nat /\ Error \in 0..ChunkCount
    BY DownloadAssumption DEF Error
  <2>2. \A k \in 1..ErrorLength : Piece(Error, k) \in Units
    BY <2>1 DEF Piece, Units
  <2>3. QED
    BY <2>1, <2>2 DEF ErrorReply
<1>3. QED
  BY <1>1, <1>2

\* What a node sends that cannot read all of a block: its beginning, and ACK_ERR.
LEMMA BrokenAnswers ==
  ASSUME NEW c \in Chunks, NEW k \in ReadPoints(c)
  PROVE  /\ k \in 0..Size[c] /\ Size[c] \in Nat
         /\ BrokenOff(c, k) \in Seq(Units) /\ Len(BrokenOff(c, k)) = k + ErrorLength
         /\ \A i \in 1..k : BrokenOff(c, k)[i] = Block(c)[i]
<1>1. k \in 0..Size[c] /\ Size[c] \in Nat /\ ErrorLength \in Nat
  BY DownloadAssumption DEF ReadPoints, Chunks
<1>2. /\ Block(c) \in Seq(Units) /\ Len(Block(c)) = Size[c]
      /\ ErrorReply \in Seq(Units) /\ Len(ErrorReply) = ErrorLength
  BY Answers
<1> DEFINE part == SubSeq(Block(c), 1, k)
<1>3. \A i \in 1..k : Block(c)[i] \in Units
  BY <1>1, <1>2, ElementOfSeq
<1>4. /\ part \in Seq(Units) /\ Len(part) = k
      /\ \A i \in 1..k : part[i] = Block(c)[i]
  BY <1>1, <1>3, SubSeqProperties
<1> HIDE DEF part
<1>5. /\ part \o ErrorReply \in Seq(Units)
      /\ Len(part \o ErrorReply) = k + ErrorLength
      /\ \A i \in 1..(k + ErrorLength) : (part \o ErrorReply)[i] =
           IF i <= k THEN part[i] ELSE ErrorReply[i - k]
  BY <1>2, <1>4, ConcatProperties
<1>6. \A i \in 1..k : i \in 1..(k + ErrorLength) /\ i <= k
  BY <1>1
<1>7. QED
  BY <1>1, <1>4, <1>5, <1>6 DEF BrokenOff, part

\* A node without the block sends nothing of it.
LEMMA NothingOfIt ==
  ASSUME NEW c \in Chunks
  PROVE  0 \in ReadPoints(c) /\ BrokenOff(c, 0) = ErrorReply
<1>1. 0 \in ReadPoints(c)
  <2>1. Size[c] \in Nat /\ ReadSize \in Nat \ {0}
    BY DownloadAssumption DEF Chunks
  <2>2. 0 % ReadSize = 0
    BY <2>1
  <2>3. QED
    BY <2>1, <2>2 DEF ReadPoints
<1>2. SubSeq(Block(c), 1, 0) = <<>>
  BY DEF Block
<1>3. QED
  BY <1>1, <1>2, Answers, ConcatEmptySeq DEF BrokenOff

\* The nodes of a plan are nodes.
LEMMA PlannedOnNodes ==
  ASSUME NEW c \in 0..ChunkCount, NEW a \in 1..3
  PROVE  PlanNodes(c)[a] \in Nodes
<1>1. \A i \in Nat : i % NodeCount \in Nodes
  BY DownloadAssumption DEF Nodes
<1>2. c \in Nat
  BY DownloadAssumption
<1>3. QED
  BY <1>1, <1>2 DEF PlanNodes

\* The recursion that defines Original has a solution up to any chunk.
LEMMA OriginalExists ==
  \A n \in 0..ChunkCount : \E f :
    f = [c \in 0..n |-> IF c = 0 THEN <<>> ELSE f[c - 1] \o Block(c - 1)]
<1> DEFINE Solves(f, n) ==
      f = [c \in 0..n |-> IF c = 0 THEN <<>> ELSE f[c - 1] \o Block(c - 1)]
           Bad == {n \in 0..ChunkCount : ~ \E f : Solves(f, n)}
<1>1. SUFFICES ASSUME Bad # {} PROVE FALSE
  OBVIOUS
<1>2. Bad \subseteq 0..ChunkCount /\ 0..ChunkCount \subseteq Nat
  <2> HIDE DEF Solves
  <2>1. QED
    BY DownloadAssumption
<1> HIDE DEF Bad
<1>3. PICK n \in Bad : \A m \in Bad : n <= m
  BY <1>1, <1>2, LeastExists
<1>4. CASE n = 0
  <2>1. Solves([c \in 0..0 |-> <<>>], 0)
    OBVIOUS
  <2>2. QED
    BY <2>1, <1>3, <1>4 DEF Bad
<1>5. CASE n # 0
  <2>1. n - 1 \in 0..ChunkCount /\ n - 1 \notin Bad /\ n \in Nat
    BY <1>3, <1>5, <1>2, DownloadAssumption
  <2>2. PICK f : Solves(f, n - 1)
    BY <2>1 DEF Bad
  <2> DEFINE g == [c \in 0..n |-> IF c = n THEN f[n - 1] \o Block(n - 1) ELSE f[c]]
  <2>3. ASSUME NEW c \in 0..n
        PROVE  g[c] = IF c = 0 THEN <<>> ELSE g[c - 1] \o Block(c - 1)
    <3>1. CASE c = n
      BY <3>1, <2>1, <1>5
    <3>2. CASE c # n
      <4>1. c \in 0..(n - 1) /\ (c # 0 => c - 1 \in 0..n /\ c - 1 # n)
        BY <3>2, <2>1
      <4>2. g[c] = f[c] /\ (c # 0 => g[c - 1] = f[c - 1])
        BY <4>1, <3>2
      <4>3. f[c] = IF c = 0 THEN <<>> ELSE f[c - 1] \o Block(c - 1)
        BY <4>1, <2>2
      <4>4. QED
        BY <4>2, <4>3
    <3>3. QED
      BY <3>1, <3>2
  <2>4. Solves(g, n)
    <3>1. [c \in 0..n |-> g[c]]
            = [c \in 0..n |-> IF c = 0 THEN <<>> ELSE g[c - 1] \o Block(c - 1)]
      BY <2>3
    <3>2. QED
      BY <3>1
  <2>5. QED
    BY <2>4, <1>3 DEF Bad
<1>6. QED
  BY <1>4, <1>5

\* The file is the blocks of its chunks, one after the other.
LEMMA OriginalUnfolds ==
  /\ Original[0] = <<>>
  /\ \A c \in Chunks : Original[c + 1] = Original[c] \o Block(c)
<1> DEFINE Def(f) == f = [c \in 0..ChunkCount |->
                            IF c = 0 THEN <<>> ELSE f[c - 1] \o Block(c - 1)]
<1>1. \E f : Def(f)
  <2>1. ChunkCount \in 0..ChunkCount
    BY DownloadAssumption
  <2>2. QED
    BY <2>1, OriginalExists, Zenon
<1>2. Def(Original)
  BY <1>1 DEF Original
<1>3. Original[0] = <<>>
  BY <1>2, DownloadAssumption
<1>4. ASSUME NEW c \in Chunks PROVE Original[c + 1] = Original[c] \o Block(c)
  <2>1. c + 1 \in 0..ChunkCount /\ c + 1 # 0 /\ (c + 1) - 1 = c
    BY DownloadAssumption DEF Chunks
  <2>2. QED
    BY <1>2, <2>1
<1>5. QED
  BY <1>3, <1>4

\* So it is a sequence of units.
LEMMA OriginalIsFile == \A c \in 0..ChunkCount : Original[c] \in Seq(Units)
<1> DEFINE Bad == {n \in 0..ChunkCount : Original[n] \notin Seq(Units)}
<1>1. SUFFICES ASSUME Bad # {} PROVE FALSE
  OBVIOUS
<1>2. Bad \subseteq Nat
  BY DownloadAssumption
<1>3. PICK n \in Bad : \A m \in Bad : n <= m
  BY <1>1, <1>2, LeastExists
<1>4. n # 0
  <2>1. <<>> \in Seq(Units)
    OBVIOUS
  <2>2. QED
    BY <1>3, <2>1, OriginalUnfolds
<1>5. n - 1 \in Chunks /\ n - 1 \in 0..ChunkCount /\ n - 1 \notin Bad
  BY <1>2, <1>3, <1>4, DownloadAssumption DEF Chunks
<1>6. Original[n - 1] \in Seq(Units) /\ Block(n - 1) \in Seq(Units)
  BY <1>5, Answers
<1>7. Original[(n - 1) + 1] \in Seq(Units)
  BY <1>5, <1>6, OriginalUnfolds, ConcatProperties
<1>8. QED
  BY <1>7, <1>2, <1>3

\* A chunk of the plan lengthens the file by its size.
LEMMA FileGrows ==
  ASSUME NEW c \in Chunks
  PROVE  /\ Len(Original[c + 1]) = Len(Original[c]) + Size[c]
         /\ Len(Original[c]) \in Nat /\ Size[c] \in Nat
         /\ \A k \in 1..Len(Original[c]) : Original[c + 1][k] = Original[c][k]
         /\ \A k \in 1..Size[c] :
              Original[c + 1][Len(Original[c]) + k] = Block(c)[k]
<1>1. Original[c] \in Seq(Units) /\ Block(c) \in Seq(Units)
  BY OriginalIsFile, Answers, DownloadAssumption DEF Chunks
<1>2. Original[c + 1] = Original[c] \o Block(c) /\ Len(Block(c)) = Size[c]
  BY OriginalUnfolds, Answers
<1>3. Size[c] \in Nat /\ Len(Original[c]) \in Nat
  BY <1>1, DownloadAssumption DEF Chunks
<1>4. \A i \in 1..(Len(Original[c]) + Size[c]) : Original[c + 1][i] =
        IF i <= Len(Original[c]) THEN Original[c][i]
                                 ELSE Block(c)[i - Len(Original[c])]
  BY <1>1, <1>2, ConcatProperties
<1>5. Len(Original[c + 1]) = Len(Original[c]) + Size[c]
  BY <1>1, <1>2, ConcatProperties
<1>6. ASSUME NEW k \in 1..Len(Original[c])
      PROVE  Original[c + 1][k] = Original[c][k]
  BY <1>3, <1>4
<1>7. ASSUME NEW k \in 1..Size[c]
      PROVE  Original[c + 1][Len(Original[c]) + k] = Block(c)[k]
  <2>1. /\ Len(Original[c]) + k \in 1..(Len(Original[c]) + Size[c])
        /\ ~ (Len(Original[c]) + k <= Len(Original[c]))
        /\ (Len(Original[c]) + k) - Len(Original[c]) = k
    BY <1>3
  <2>2. QED
    BY <1>4, <2>1
<1>8. QED
  BY <1>3, <1>5, <1>6, <1>7

-----------------------------------------------------------------------------
(* The steps.                                                              *)

LEMMA InitInv == Init => IInv
<1> SUFFICES ASSUME Init PROVE IInv
  OBVIOUS
<1>1. ChunkCount # 0 => 0 \in Chunks /\ Size[0] \in Nat
  BY DownloadAssumption DEF Chunks
<1>2. TypeInv
  BY <1>1, DownloadAssumption DEF Init, TypeInv
<1>3. Kept
  BY <1>2 DEF Init, Kept, TypeInv
<1>4. Serving /\ Exhausted
  BY DEF Init, Serving, Exhausted
<1>5. Prefix
  <2>1. Len(Original[0]) = 0
    BY OriginalUnfolds
  <2>2. QED
    BY <2>1 DEF Init, Prefix
<1>6. QED
  BY <1>2, <1>3, <1>4, <1>5 DEF IInv

\* Giving up a node that is not reliable.
LEMMA GivesUp ==
  ASSUME IInv, NextReplica, Server \notin reliable, pc # "ok"
  PROVE  IInv'
<1> USE DEF NextReplica, cluster
<1>1. TypeInv'
  <2>1. stream' \in Seq(Units) /\ got' = 0
    BY EmptySeq
  <2>2. Size[chunk] \in Nat
    BY DownloadAssumption DEF IInv, TypeInv, Chunks
  <2>3. attempt' \in 1..3 /\ pc' \in {"connect", "failed"}
    BY DEF IInv, TypeInv
  <2>4. QED
    BY <2>1, <2>2, <2>3 DEF IInv, TypeInv
<1>2. Kept'
  BY DEF IInv, Kept
<1>3. Serving'
  BY DEF Serving
<1>4. Exhausted'
  <2>1. ASSUME NEW a \in 1..3, a < attempt' \/ pc' = "failed"
        PROVE  PlanNodes(chunk)[a] \notin reliable
    <3>1. a < attempt \/ a = attempt
      BY <2>1 DEF IInv, TypeInv
    <3>2. QED
      BY <3>1 DEF IInv, Exhausted, Server
  <2>2. pc' # "lost"
    OBVIOUS
  <2>3. QED
    BY <2>1, <2>2 DEF Exhausted
<1>5. Prefix'
  <2>1. Len(Original[chunk]) \in Nat /\ Len(dest) \in Nat /\ got \in Nat
    BY OriginalIsFile DEF IInv, TypeInv
  <2>2. ErrorFillsNoChunk' = ErrorFillsNoChunk
    BY DEF ErrorFillsNoChunk
  <2>3. QED
    BY <2>1, <2>2 DEF IInv, Prefix
<1>6. QED
  BY <1>1, <1>2, <1>3, <1>4, <1>5 DEF IInv

\* When bytes_received reaches the planned size, the units this attempt has
\* written are the block: what else a node sends is shorter than the block, or
\* all of it with ACK_ERR behind.
LEMMA Arrived ==
  ASSUME IInv, pc # "ok", got = Size[chunk], ErrorFillsNoChunk
  PROVE  /\ Size[chunk] <= Len(dest)
         /\ \A k \in 1..Size[chunk] :
              dest[Len(dest) - Size[chunk] + k] = Block(chunk)[k]
<1>1. chunk \in Chunks /\ Size[chunk] \in Nat /\ Len(dest) \in Nat
  BY DownloadAssumption DEF IInv, TypeInv, Chunks
<1>2. CASE Size[chunk] = 0
  BY <1>1, <1>2
<1>3. CASE Size[chunk] # 0
  <2>1. pc = "receive"
    BY <1>3 DEF IInv, TypeInv
  <2>2. CASE Answering(Block(chunk))
    BY <2>2 DEF Answering
  <2>3. ASSUME NEW k \in ReadPoints(chunk), Answering(BrokenOff(chunk, k))
        PROVE  /\ Size[chunk] <= Len(dest)
               /\ \A i \in 1..Size[chunk] :
                    dest[Len(dest) - Size[chunk] + i] = Block(chunk)[i]
    <3>1. /\ k \in 0..Size[chunk] /\ Len(BrokenOff(chunk, k)) = k + ErrorLength
          /\ \A i \in 1..k : BrokenOff(chunk, k)[i] = Block(chunk)[i]
      BY <1>1, <2>3, BrokenAnswers
    <3>2. ~ (k < Size[chunk] /\ k + ErrorLength < Size[chunk])
      <4>1. Size[chunk] <= k + ErrorLength /\ ErrorLength \in Nat
        BY <2>3, <3>1, DownloadAssumption DEF Answering
      <4>2. QED
        BY <1>1, <3>1, <4>1
    <3>3. k = Size[chunk]
      BY <1>1, <2>3, <3>1, <3>2 DEF ErrorFillsNoChunk
    <3>4. QED
      BY <2>3, <3>1, <3>3 DEF Answering
  <2>4. QED
    BY <2>1, <2>2, <2>3 DEF IInv, Serving
<1>4. QED
  BY <1>2, <1>3

LEMMA ReceiveInv ==
  ASSUME IInv, Receive
  PROVE  IInv'
<1> USE DEF Receive, cluster
<1>1. /\ chunk \in Chunks /\ chunk \in 0..ChunkCount /\ Size[chunk] \in Nat
      /\ got \in Nat /\ got + 1 <= Size[chunk] /\ stream \in Seq(Units)
      /\ dest \in Seq(Units) /\ stream # <<>>
  BY DownloadAssumption DEF IInv, TypeInv, Chunks
<1>2. /\ Head(stream) = stream[1] /\ Head(stream) \in Units
      /\ stream' \in Seq(Units) /\ Len(stream') = Len(stream) - 1
      /\ Len(stream) \in Nat \ {0}
      /\ \A k \in 1..Len(stream') : stream'[k] = stream[k + 1]
  BY <1>1, HeadTailProperties, LenProperties
<1>3. /\ dest' \in Seq(Units) /\ Len(dest') = Len(dest) + 1 /\ Len(dest) \in Nat
      /\ \A k \in 1..Len(dest) : dest'[k] = dest[k]
      /\ dest'[Len(dest) + 1] = stream[1]
  BY <1>1, <1>2, AppendProperties, LenProperties
<1>4. TypeInv'
  BY <1>1, <1>2, <1>3 DEF IInv, TypeInv
<1>5. Kept'
  BY DEF IInv, Kept
<1>6. ASSUME NEW s, Len(s) \in Nat, Answering(s) PROVE Answering(s)'
  <2>1. got' <= Len(s) /\ Len(stream') = Len(s) - got' /\ got' <= Len(dest')
    BY <1>1, <1>2, <1>3, <1>6 DEF Answering
  <2>2. ASSUME NEW k \in 1..Len(stream') PROVE stream'[k] = s[got' + k]
    <3>1. stream'[k] = stream[k + 1] /\ k + 1 \in 1..Len(stream)
      BY <1>2
    <3>2. stream[k + 1] = s[got + (k + 1)] /\ got + (k + 1) = got' + k
      BY <3>1, <1>1, <1>6 DEF Answering
    <3>3. QED
      BY <3>1, <3>2
  <2>3. ASSUME NEW k \in 1..got' PROVE dest'[Len(dest') - got' + k] = s[k]
    <3>1. Len(dest') - got' + k = Len(dest) - got + k
      BY <1>1, <1>3
    <3>2. CASE k <= got
      <4>1. k \in 1..got /\ Len(dest) - got + k \in 1..Len(dest)
        BY <3>2, <1>1, <1>3, <1>6 DEF Answering
      <4>2. QED
        BY <3>1, <4>1, <1>3, <1>6 DEF Answering
    <3>3. CASE k = got + 1
      <4>1. Len(dest) - got + k = Len(dest) + 1 /\ 1 \in 1..Len(stream)
        BY <3>3, <1>1, <1>2, <1>3
      <4>2. dest'[Len(dest) + 1] = s[got + 1]
        BY <4>1, <1>3, <1>6 DEF Answering
      <4>3. QED
        BY <3>1, <4>1, <4>2, <3>3
    <3>4. k <= got \/ k = got + 1
      BY <1>1
    <3>5. QED
      BY <3>2, <3>3, <3>4
  <2>4. QED
    BY <2>1, <2>2, <2>3 DEF Answering
<1>7. Serving'
  <2>1. Answering(Block(chunk)) => Answering(Block(chunk))'
    BY <1>1, <1>6, Answers
  <2>2. ASSUME NEW k \in ReadPoints(chunk), Answering(BrokenOff(chunk, k))
        PROVE  Answering(BrokenOff(chunk, k))'
    <3>1. Len(BrokenOff(chunk, k)) \in Nat
      BY <1>1, BrokenAnswers, DownloadAssumption
    <3>2. QED
      BY <1>6, <2>2, <3>1
  <2>3. CASE Answering(Block(chunk))
    BY <2>1, <2>3 DEF Serving, Answering
  <2>4. CASE Server \notin reliable /\ \E k \in ReadPoints(chunk) : Answering(BrokenOff(chunk, k))
    BY <2>2, <2>4 DEF Serving, Answering, Server
  <2>5. QED
    BY <2>3, <2>4 DEF IInv, Serving
<1>8. Exhausted'
  BY DEF IInv, Exhausted, Server
<1>9. Prefix'
  <2>1. Len(Original[chunk]) \in Nat
    BY <1>1, OriginalIsFile
  <2>2. ErrorFillsNoChunk' = ErrorFillsNoChunk
    BY DEF ErrorFillsNoChunk
  <2>3. SUFFICES ASSUME ErrorFillsNoChunk PROVE
          /\ Len(dest') >= Len(Original[chunk]) + got'
          /\ Len(dest') = Len(Original[chunk]) + got' =>
               \A k \in 1..Len(Original[chunk]) : dest'[k] = Original[chunk][k]
    BY <2>2 DEF Prefix
  <2>4. /\ Len(dest) >= Len(Original[chunk]) + got
        /\ Len(dest) = Len(Original[chunk]) + got =>
             \A k \in 1..Len(Original[chunk]) : dest[k] = Original[chunk][k]
    BY <2>3 DEF IInv, Prefix
  <2>5. \A k \in 1..Len(Original[chunk]) : k \in 1..Len(dest)
    BY <1>1, <1>3, <2>1, <2>4
  <2> DEFINE len == Len(Original[chunk])
  <2>6. got' = got + 1 /\ Len(dest') = Len(dest) + 1 /\ Len(dest) \in Nat
    BY <1>3
  <2> HIDE DEF Receive, len
  <2>7. len \in Nat /\ got \in Nat /\ Len(dest) >= len + got
    BY <1>1, <2>1, <2>4 DEF len
  <2>8. Len(dest') >= len + got'
    BY <2>6, <2>7
  <2>9. ASSUME Len(dest') = len + got', NEW k \in 1..Len(Original[chunk])
        PROVE  dest'[k] = Original[chunk][k]
    <3>1. Len(dest) = len + got
      BY <2>6, <2>7, <2>9
    <3>2. dest[k] = Original[chunk][k] /\ dest'[k] = dest[k]
      BY <3>1, <1>3, <2>4, <2>5, <2>9 DEF len
    <3>3. QED
      BY <3>2
  <2>10. QED
    BY <2>8, <2>9 DEF len
<1>10. QED
  BY <1>4, <1>5, <1>7, <1>8, <1>9 DEF IInv

LEMMA ReceiveEndsInv ==
  ASSUME IInv, ReceiveEnds
  PROVE  IInv'
<1> USE DEF ReceiveEnds, NextChunk, cluster
<1>1. chunk \in Chunks /\ got = Size[chunk] /\ pc # "ok" /\ got \in Nat
  BY DEF IInv, TypeInv
<1>2. chunk \in Nat /\ chunk + 1 \in 0..ChunkCount
  BY <1>1, DownloadAssumption DEF Chunks
<1>3. TypeInv'
  <2>1. chunk + 1 # ChunkCount => chunk + 1 \in Chunks /\ Size[chunk + 1] \in Nat
    BY <1>2, DownloadAssumption DEF Chunks
  <2>2. QED
    BY <1>2, <2>1 DEF IInv, TypeInv
<1>4. Kept'
  BY DEF IInv, Kept
<1>5. Serving' /\ Exhausted'
  BY DEF Serving, Exhausted
<1>6. Prefix'
  <2> SUFFICES ASSUME ErrorFillsNoChunk' PROVE
        /\ Len(dest) >= Len(Original[chunk + 1])
        /\ Len(dest) = Len(Original[chunk + 1]) =>
             \A k \in 1..Len(Original[chunk + 1]) : dest[k] = Original[chunk + 1][k]
    BY <1>2, OriginalIsFile DEF Prefix
  <2> DEFINE before == Len(Original[chunk])
  <2>1. /\ Len(Original[chunk + 1]) = before + Size[chunk]
        /\ before \in Nat /\ Size[chunk] \in Nat /\ Len(dest) \in Nat
    BY <1>1, FileGrows DEF IInv, TypeInv
  <2>2. ErrorFillsNoChunk
    BY DEF ErrorFillsNoChunk
  <2>3. /\ Len(dest) >= before + Size[chunk]
        /\ Len(dest) = before + Size[chunk] =>
             \A k \in 1..before : dest[k] = Original[chunk][k]
    BY <1>1, <2>2 DEF IInv, Prefix
  <2>4. ASSUME Len(dest) = before + Size[chunk], NEW k \in 1..(before + Size[chunk])
        PROVE  dest[k] = Original[chunk + 1][k]
    <3>1. CASE k <= before
      <4>1. k \in 1..before
        BY <3>1, <2>1
      <4>2. dest[k] = Original[chunk][k]
        BY <4>1, <2>3, <2>4
      <4>3. QED
        BY <4>1, <4>2, <1>1, FileGrows
    <3>2. CASE k > before
      <4> DEFINE j == k - before
      <4>1. j \in 1..Size[chunk] /\ k = before + j /\ Len(dest) - Size[chunk] + j = k
        BY <3>2, <2>1, <2>4
      <4>2. dest[k] = Block(chunk)[j]
        BY <4>1, <1>1, <2>2, Arrived
      <4>3. Original[chunk + 1][before + j] = Block(chunk)[j]
        BY <4>1, <1>1, FileGrows
      <4>4. QED
        BY <4>1, <4>2, <4>3
    <3>3. QED
      BY <3>1, <3>2, <2>1
  <2>5. QED
    BY <2>1, <2>3, <2>4
<1>7. QED
  BY <1>3, <1>4, <1>5, <1>6 DEF IInv

LEMMA EndOfStreamInv ==
  ASSUME IInv, EndOfStream
  PROVE  IInv'
<1>1. chunk \in Chunks /\ Size[chunk] \in Nat /\ got \in Nat /\ pc # "ok"
  BY DownloadAssumption DEF IInv, TypeInv, EndOfStream, Chunks
<1>2. ~ Answering(Block(chunk))
  BY <1>1, Answers DEF EndOfStream, Answering
<1>3. Server \notin reliable
  BY <1>2 DEF IInv, Serving, EndOfStream
<1>4. QED
  BY <1>1, <1>3, GivesUp DEF EndOfStream

LEMMA HandleDownloadInv ==
  ASSUME IInv, HandleDownload
  PROVE  IInv'
<1> USE DEF HandleDownload, cluster
<1>1. /\ chunk \in Chunks /\ chunk \in 0..ChunkCount /\ got = 0
      /\ dest \in Seq(Units) /\ Len(dest) \in Nat /\ attempt \in 1..3
  BY DEF IInv, TypeInv
<1>2. TypeInv'
  <2>1. Block(chunk) \in Seq(Units) /\ ErrorReply \in Seq(Units)
    BY <1>1, Answers
  <2>2. \A k \in ReadPoints(chunk) : BrokenOff(chunk, k) \in Seq(Units)
    BY <1>1, BrokenAnswers
  <2>3. stream' \in Seq(Units)
    BY <2>1, <2>2
  <2>4. QED
    BY <1>1, <2>3 DEF IInv, TypeInv
<1>3. Kept'
  BY DEF IInv, Kept
<1>4. Serving'
  <2>1. chunk \in holds[Server] \/ Server \notin reliable
    BY <1>1 DEF IInv, Kept, Server
  <2>2. ASSUME NEW s, Len(s) \in Nat, stream' = s PROVE Answering(s)'
    BY <1>1, <2>2 DEF Answering
  <2>3. CASE stream' = Block(chunk)
    <3>1. Len(Block(chunk)) \in Nat
      BY <1>1, Answers, DownloadAssumption DEF Chunks
    <3>2. Answering(Block(chunk))'
      BY <2>2, <2>3, <3>1
    <3>3. QED
      BY <3>2 DEF Serving
  <2>4. ASSUME NEW k \in ReadPoints(chunk), stream' = BrokenOff(chunk, k),
               Server \notin reliable
        PROVE  Serving'
    <3>1. Len(BrokenOff(chunk, k)) \in Nat
      BY <1>1, <2>4, BrokenAnswers, DownloadAssumption
    <3>2. Answering(BrokenOff(chunk, k))'
      BY <2>2, <2>4, <3>1
    <3>3. QED
      BY <2>4, <3>2 DEF Serving, Server
  <2>5. CASE chunk \notin holds[Server] /\ stream' = ErrorReply
    BY <1>1, <2>1, <2>4, <2>5, NothingOfIt
  <2>6. QED
    BY <2>3, <2>4, <2>5
<1>5. Exhausted'
  BY DEF IInv, Exhausted
<1>6. Prefix'
  BY DEF IInv, Prefix, ErrorFillsNoChunk
<1>7. QED
  BY <1>2, <1>3, <1>4, <1>5, <1>6 DEF IInv

\* What the nodes do leaves the client alone, but for a request that is lost.
LEMMA NodesInv ==
  ASSUME IInv, NEW n \in Nodes,
         Crash(n) \/ Restart(n) \/ \E c \in Chunks : HandleDelete(n, c)
  PROVE  IInv'
<1>1. /\ UNCHANGED <<reliable, chunk, attempt, stream, got, dest>>
      /\ \/ pc' = pc
         \/ pc = "request" /\ pc' = "lost" /\ Server \notin reliable
  <2>1. CASE Crash(n)
    BY <2>1 DEF Crash
  <2>2. CASE Restart(n)
    BY <2>2 DEF Restart
  <2>3. CASE \E c \in Chunks : HandleDelete(n, c)
    BY <2>3 DEF HandleDelete
  <2>4. QED
    BY <2>1, <2>2, <2>3
<1>2. TypeInv'
  <2>1. reliable \subseteq up' /\ up' \subseteq Nodes
    BY DEF Crash, Restart, HandleDelete, IInv, TypeInv
  <2>2. holds' \in [Nodes -> SUBSET Chunks]
    BY DEF Crash, Restart, HandleDelete, IInv, TypeInv
  <2>3. QED
    BY <1>1, <2>1, <2>2 DEF IInv, TypeInv
<1>3. Kept'
  <2>1. \A m \in reliable : holds'[m] = holds[m]
    BY DEF Crash, Restart, HandleDelete, IInv, TypeInv
  <2>2. QED
    BY <1>1, <2>1 DEF IInv, Kept
<1>4. Serving'
  BY <1>1 DEF IInv, Serving, Answering, Server
<1>5. Exhausted'
  BY <1>1 DEF IInv, Exhausted, Server
<1>6. Prefix'
  BY <1>1 DEF IInv, Prefix, ErrorFillsNoChunk
<1>7. QED
  BY <1>2, <1>3, <1>4, <1>5, <1>6 DEF IInv

LEMMA NextInv == IInv /\ [Next]_vars => IInv'
<1> SUFFICES ASSUME IInv, [Next]_vars PROVE IInv'
  OBVIOUS
<1>1. CASE Connect
  <2>1. TypeInv' /\ Kept'
    BY <1>1 DEF Connect, cluster, IInv, TypeInv, Kept
  <2>2. Serving' /\ Exhausted' /\ Prefix'
    BY <1>1 DEF Connect, cluster, IInv, Serving, Exhausted, Prefix, ErrorFillsNoChunk
  <2>3. QED
    BY <2>1, <2>2 DEF IInv
<1>2. CASE ConnectFails
  BY <1>2, GivesUp DEF ConnectFails, IInv, TypeInv
<1>3. CASE ConnectionLost
  BY <1>3, GivesUp DEF ConnectionLost
<1>4. CASE UNCHANGED vars
  <2>1. TypeInv' /\ Kept'
    BY <1>4 DEF vars, IInv, TypeInv, Kept
  <2>2. Serving' /\ Exhausted' /\ Prefix'
    BY <1>4 DEF vars, IInv, Serving, Answering, Server, Exhausted, Prefix,
                ErrorFillsNoChunk
  <2>3. QED
    BY <2>1, <2>2 DEF IInv
<1>5. QED
  BY <1>1, <1>2, <1>3, <1>4, ReceiveInv, ReceiveEndsInv, EndOfStreamInv,
     HandleDownloadInv, NodesInv DEF Next, ClientStep

-----------------------------------------------------------------------------
(* The theorems.                                                           *)

\* Whatever the nodes do, the destination file is the file as far as the chunks
\* before this one arrived at once, the attempt that runs has added a beginning of
\* what its node answers, and the replicas before it were given up (transfer.py:40-63).
THEOREM InductiveInvariant == Spec => []IInv
<1>1. QED
  BY InitInv, NextInv, PTL DEF Spec

\* The download is always in a state of its loop: the count of an attempt never
\* exceeds the planned size, the attempt is one of the three replicas.
THEOREM TypeCorrect == Spec => []TypeOK
<1>1. ASSUME IInv PROVE TypeOK
  <2>1. Len(stream) \in Nat
    BY <1>1 DEF IInv, TypeInv
  <2>2. ASSUME NEW k \in DOMAIN dest PROVE dest[k].of \in Chunks \cup {Error}
    <3>1. dest[k] \in Units
      BY <1>1 DEF IInv, TypeInv
    <3>2. QED
      BY <3>1, DownloadAssumption DEF Units, Chunks, Error
  <2>3. chunk \in Chunks => got \in 0..Size[chunk]
    <3>1. chunk \in Chunks => Size[chunk] \in Nat /\ chunk # ChunkCount
      BY DownloadAssumption DEF Chunks
    <3>2. QED
      BY <3>1, <1>1 DEF IInv, TypeInv
  <2>4. QED
    BY <1>1, <2>1, <2>2, <2>3 DEF IInv, TypeInv, TypeOK
<1>2. QED
  BY <1>1, InductiveInvariant, PTL

\* If ACK_ERR fills up no chunk: whatever nodes were tried before and whatever
\* they sent, a part of the block with ACK_ERR behind included, the attempt
\* that completes a chunk has just written the whole block, in order, at the
\* end of the destination file (transfer.py:47-57, tcp.py:76-81, 115-117).
THEOREM ChunksArriveWhole == Spec => ChunkArrivesWhole
<1> DEFINE Whole ==
      ErrorFillsNoChunk /\ chunk' = chunk + 1 =>
        LET before == Len(dest) - Size[chunk]
        IN  before >= 0 /\ SubSeq(dest, before + 1, Len(dest)) = Block(chunk)
<1>1. ASSUME IInv, [Next]_vars PROVE [Whole]_vars
  <2> SUFFICES ASSUME ErrorFillsNoChunk, chunk' = chunk + 1
               PROVE  Whole
    BY DEF Whole
  <2>1. chunk \in Nat
    BY <1>1, DownloadAssumption DEF IInv, TypeInv
  <2>2. ReceiveEnds
    <3>1. chunk' # chunk
      BY <2>1
    <3>2. QED
      BY <3>1, <1>1 DEF vars, Next, ClientStep, Connect, ConnectFails, Receive,
           EndOfStream, ConnectionLost, NextReplica, HandleDownload, Crash, Restart,
           HandleDelete
  <2>3. pc # "ok" /\ got = Size[chunk] /\ chunk \in Chunks
    BY <2>2, <1>1 DEF ReceiveEnds, IInv, TypeInv
  <2> DEFINE size == Size[chunk]
             before == Len(dest) - size
             last == SubSeq(dest, before + 1, Len(dest))
  <2>4. /\ dest \in Seq(Units) /\ Len(dest) \in Nat /\ size \in Nat
        /\ Block(chunk) \in Seq(Units) /\ Len(Block(chunk)) = size
    BY <2>3, <1>1, Answers, DownloadAssumption DEF IInv, TypeInv, Chunks
  <2>5. before >= 0 /\ before + 1 \in Int
    BY <2>3, <2>4, <1>1, Arrived
  <2>6. \A i \in (before + 1)..Len(dest) : dest[i] \in Units
    BY <2>4, <2>5, ElementOfSeq
  <2>7. /\ last \in Seq(Units)
        /\ Len(last) = IF before + 1 <= Len(dest) THEN Len(dest) - (before + 1) + 1 ELSE 0
        /\ \A i \in 1..(Len(dest) - (before + 1) + 1) :
             last[i] = dest[(before + 1) + i - 1]
    <3>1. before + 1 \in Int /\ Len(dest) \in Int
      BY <2>4, <2>5
    <3>2. QED
      BY <2>6, <3>1, SubSeqProperties
  <2>8. Len(last) = size
    BY <2>4, <2>5, <2>7
  <2>9. ASSUME NEW k \in 1..size PROVE last[k] = Block(chunk)[k]
    <3>1. last[k] = dest[before + k]
      BY <2>4, <2>7
    <3>2. dest[before + k] = Block(chunk)[k]
      BY <2>3, <1>1, Arrived
    <3>3. QED
      BY <3>1, <3>2
  <2>10. last = Block(chunk)
    BY <2>4, <2>7, <2>8, <2>9, SeqEqual
  <2>11. QED
    BY <2>5, <2>10
<1>2. QED
  BY <1>1, InductiveInvariant, PTL DEF Spec, ChunkArrivesWhole

\* If ACK_ERR fills up no chunk, broken attempts add to the destination file
\* and never lose, reorder or change anything: a download that reports success
\* and has written as many units as the file has, has written the file
\* (transfer.py:47-64).
THEOREM RightLength == Spec => []RightLengthIsRightFile
<1>1. ASSUME IInv PROVE RightLengthIsRightFile
  <2> SUFFICES ASSUME ErrorFillsNoChunk, pc = "ok",
                      Len(dest) = Len(Original[ChunkCount])
               PROVE  dest = Original[ChunkCount]
    BY DEF RightLengthIsRightFile
  <2>1. /\ chunk = ChunkCount /\ got = 0 /\ dest \in Seq(Units)
        /\ Original[ChunkCount] \in Seq(Units) /\ Len(Original[ChunkCount]) \in Nat
    BY <1>1, OriginalIsFile, DownloadAssumption DEF IInv, TypeInv
  <2>2. \A k \in 1..Len(Original[ChunkCount]) : dest[k] = Original[ChunkCount][k]
    BY <1>1, <2>1 DEF IInv, Prefix
  <2>3. QED
    BY <2>1, <2>2, SeqEqual
<1>2. QED
  BY <1>1, InductiveInvariant, PTL

\* A download is refused only after all three replicas of a chunk have been
\* tried, and none of them was reliable (transfer.py:47-63).
THEOREM RefusedOnly == Spec => []RefusedOnlyWithoutReplica
<1>1. ASSUME IInv PROVE RefusedOnlyWithoutReplica
  BY <1>1 DEF IInv, Exhausted, RefusedOnlyWithoutReplica
<1>2. QED
  BY <1>1, InductiveInvariant, PTL

=============================================================================
