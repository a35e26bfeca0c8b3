--------------------------- MODULE PlacementProofs ---------------------------
(***************************************************************************)
(* Proofs about Placement, for every block size, every file size and every *)
(* list of distinct nodes.                                                 *)
(***************************************************************************)
EXTENDS Placement, TLAPS

-----------------------------------------------------------------------------
(* Arithmetic.                                                             *)

\* The quotient and remainder of a division, as the provers see them.
LEMMA DivMod ==
  ASSUME NEW x \in Nat, NEW n \in Nat \ {0}
  PROVE  /\ x \div n \in Int
         /\ x % n \in 0..(n - 1)
         /\ x = n * (x \div n) + (x % n)
<1>1. x \div n \in Int
  OBVIOUS
<1>2. x % n \in 0..(n - 1)
  OBVIOUS
<1>3. x = n * (x \div n) + (x % n)
  OBVIOUS
<1>4. QED
  BY <1>1, <1>2, <1>3

\* Three consecutive numbers have different remainders modulo n >= 3.
LEMMA RemaindersDiffer ==
  ASSUME NEW i \in Nat, NEW n \in Nat, n >= 3, NEW a \in 0..2, NEW b \in 0..2,
         (i + a) % n = (i + b) % n
  PROVE  a = b
<1> DEFINE p == (i + a) \div n
           q == (i + b) \div n
<1>1. p \in Int /\ q \in Int /\ a - b = n * p - n * q
  <2>1. i + a = n * p + ((i + a) % n) /\ p \in Int /\ (i + a) % n \in Int
    BY DivMod
  <2>2. i + b = n * q + ((i + b) % n) /\ q \in Int /\ (i + b) % n \in Int
    BY DivMod
  <2>3. QED
    BY <2>1, <2>2
<1> HIDE DEF p, q
<1>2. ASSUME NEW u \in Int, NEW v \in Int, u > v
      PROVE  n * u >= n * v + n
  <2>1. n * (u - v) >= n
    BY <1>2
  <2>2. n * (u - v) = n * u - n * v
    OBVIOUS
  <2>3. QED
    BY <2>1, <2>2
<1>3. CASE p = q
  BY <1>1, <1>3
<1>4. CASE p > q
  BY <1>1, <1>2, <1>4
<1>5. CASE p < q
  BY <1>1, <1>2, <1>5
<1>6. QED
  BY <1>1, <1>3, <1>4, <1>5

\* chunk_count is the size in blocks, rounded up, and at least one.
LEMMA CountRoundsUp ==
  ASSUME NEW size \in Nat
  PROVE  /\ ChunkCount(size) \in Nat \ {0}
         /\ size <= ChunkCount(size) * BlockSize
         /\ size > 0 => (ChunkCount(size) - 1) * BlockSize < size
<1>1. CASE size = 0
  BY <1>1, PlacementAssumption DEF ChunkCount
<1>2. CASE size > 0
  <2> DEFINE n == (size + BlockSize - 1) \div BlockSize
  <2>1. /\ n \in Int /\ n * BlockSize <= size + BlockSize - 1
        /\ size + BlockSize - 1 < n * BlockSize + BlockSize
    BY PlacementAssumption
  <2>2. (n - 1) * BlockSize = n * BlockSize - BlockSize
    BY <2>1, PlacementAssumption
  <2>3. n >= 1
    BY <2>1, <1>2, PlacementAssumption
  <2>4. ChunkCount(size) = n
    BY <1>2 DEF ChunkCount
  <2>5. QED
    BY <1>2, <2>1, <2>2, <2>3, <2>4, PlacementAssumption
<1>3. QED
  BY <1>1, <1>2

\* A list of at least three distinct nodes gives three distinct replicas.
LEMMA ReplicasOfListDiffer ==
  ASSUME NEW list \in NodeLists, Len(list) >= 3, NEW index \in Nat,
         NEW a \in 1..3, NEW b \in 1..3,
         PlannedNodes(list, index)[a] = PlannedNodes(list, index)[b]
  PROVE  a = b
<1> DEFINE slot(x) == (index + x - 1) % Len(list)
<1>1. list \in Seq(Int) /\ \A x, y \in DOMAIN list : list[x] = list[y] => x = y
  BY PlacementAssumption
<1>2. Len(list) \in Nat \ {0} /\ DOMAIN list = 1..Len(list)
  BY <1>1
<1>3. ASSUME NEW x \in 1..3 PROVE slot(x) \in 0..(Len(list) - 1)
  <2>1. index + x - 1 \in Nat
    OBVIOUS
  <2>2. QED
    BY <1>2, <2>1, DivMod
<1>4. list[slot(a) + 1] = list[slot(b) + 1]
  BY DEF PlannedNodes
<1>5. slot(a) = slot(b)
  <2>1. slot(a) + 1 \in DOMAIN list /\ slot(b) + 1 \in DOMAIN list
    BY <1>2, <1>3
  <2>2. slot(a) + 1 = slot(b) + 1
    BY <1>1, <1>4, <2>1
  <2>3. QED
    BY <1>3, <2>2
<1>6. /\ a - 1 \in 0..2 /\ b - 1 \in 0..2
      /\ index + a - 1 = index + (a - 1) /\ index + b - 1 = index + (b - 1)
  OBVIOUS
<1>7. a - 1 = b - 1
  BY <1>2, <1>5, <1>6, RemaindersDiffer
<1>8. QED
  BY <1>7

-----------------------------------------------------------------------------
(* The inductive invariant.                                                *)

\* The chunk that the next turn of the loop plans.
LEMMA NextChunkIsPlanned ==
  ASSUME PlanInv, phase = "plan", Len(chunks) < ChunkCount(fileSize)
  PROVE  LET size == SmallerOf(BlockSize, fileSize - offset)
         IN  /\ size \in Nat
             /\ offset \in Nat
             /\ offset = Covered(Len(chunks))
             /\ offset + size = Covered(Len(chunks) + 1)
<1> DEFINE n == Len(chunks)
           c == ChunkCount(fileSize)
<1>1. /\ n \in Nat /\ c \in Nat \ {0} /\ n <= c - 1
      /\ fileSize \in Nat /\ BlockSize \in Nat \ {0}
  <2>1. fileSize \in Nat /\ BlockSize \in Nat \ {0} /\ Len(chunks) \in Nat
    BY PlacementAssumption DEF PlanInv
  <2>2. ChunkCount(fileSize) \in Nat \ {0}
    BY <2>1, CountRoundsUp
  <2>3. QED
    BY <2>1, <2>2
<1>2. fileSize = 0 => n = 0
  BY <1>1, PlacementAssumption DEF ChunkCount
<1>3. n * BlockSize <= fileSize
  <2>1. CASE fileSize = 0
    BY <1>1, <1>2, <2>1
  <2>2. CASE fileSize > 0
    <3>1. (c - 1) * BlockSize < fileSize
      BY <1>1, <2>2, CountRoundsUp
    <3>2. n * BlockSize <= (c - 1) * BlockSize
      BY <1>1
    <3>3. n * BlockSize \in Int /\ (c - 1) * BlockSize \in Int
      BY <1>1
    <3>4. QED
      BY <1>1, <3>1, <3>2, <3>3
  <2>3. QED
    BY <1>1, <2>1, <2>2
<1>4. (n + 1) * BlockSize = n * BlockSize + BlockSize /\ n * BlockSize \in Nat
  BY <1>1
<1>5. offset = n * BlockSize
  <2>1. offset = SmallerOf(n * BlockSize, fileSize)
    BY DEF PlanInv, Covered
  <2>2. QED
    BY <1>1, <1>3, <1>4, <2>1 DEF SmallerOf
<1>6. /\ Covered(n) = SmallerOf(n * BlockSize, fileSize)
      /\ Covered(n + 1) = SmallerOf(n * BlockSize + BlockSize, fileSize)
  BY <1>4 DEF Covered
<1> HIDE DEF n, c
<1>7. LET size == SmallerOf(BlockSize, fileSize - offset)
      IN  /\ size \in Nat /\ offset \in Nat /\ offset = Covered(n)
          /\ offset + size = Covered(n + 1)
  BY <1>1, <1>3, <1>4, <1>5, <1>6 DEF SmallerOf
<1>8. QED
  BY <1>7 DEF n

\* The initial state satisfies the invariant.
LEMMA InitPlanInv == Init => PlanInv
<1> SUFFICES ASSUME Init PROVE PlanInv
  OBVIOUS
<1>1. fileSize \in Nat /\ BlockSize \in Nat \ {0} /\ chunks = <<>> /\ offset = 0
  BY PlacementAssumption DEF Init
<1>2. ChunkCount(fileSize) \in Nat \ {0}
  BY <1>1, CountRoundsUp
<1>3. Covered(0) = 0
  BY <1>1 DEF Covered, SmallerOf
<1>4. QED
  BY <1>1, <1>2, <1>3 DEF Init, PlanInv

\* Every step preserves it.
LEMMA NextPlanInv == PlanInv /\ [Next]_vars => PlanInv'
<1> SUFFICES ASSUME PlanInv, [Next]_vars PROVE PlanInv'
  OBVIOUS
<1>1. CASE StartPlan
  BY <1>1 DEF StartPlan, PlanInv, Covered, PlannedChunk
<1>2. CASE PlanChunk
  <2> DEFINE size == SmallerOf(BlockSize, fileSize - offset)
             new  == [index |-> Len(chunks), offset |-> offset, size |-> size,
                      replicas |-> PlannedNodes(storageNodes, Len(chunks))]
  <2>1. /\ phase = "plan" /\ Len(chunks) < ChunkCount(fileSize)
        /\ chunks' = Append(chunks, new) /\ offset' = offset + size
        /\ UNCHANGED <<storageNodes, fileSize, phase, plannedWith>>
    BY <1>2 DEF PlanChunk
  <2>2. /\ size \in Nat /\ offset \in Nat /\ offset = Covered(Len(chunks))
        /\ offset + size = Covered(Len(chunks) + 1)
    BY <2>1, NextChunkIsPlanned
  <2>3. new.replicas \in [1..3 -> Int]
    <3>1. /\ storageNodes \in Seq(Int) /\ Len(storageNodes) \in Nat
          /\ Len(storageNodes) >= 3 /\ Len(chunks) \in Nat
      BY <2>1, PlacementAssumption DEF PlanInv
    <3>2. ASSUME NEW a \in 1..3
          PROVE  storageNodes[((Len(chunks) + a - 1) % Len(storageNodes)) + 1] \in Int
      <4>1. Len(chunks) + a - 1 \in Nat
        BY <3>1
      <4>2. (Len(chunks) + a - 1) % Len(storageNodes) \in 0..(Len(storageNodes) - 1)
        <5>1. Len(storageNodes) \in Nat \ {0}
          BY <3>1
        <5>2. QED
          BY <4>1, <5>1, DivMod
      <4>3. QED
        BY <3>1, <4>2
    <3>3. QED
      BY <3>2 DEF PlannedNodes
  <2>4. /\ chunks' \in Seq([index : Nat, offset : Nat, size : Nat,
                            replicas : [1..3 -> Int]])
        /\ Len(chunks') = Len(chunks) + 1 /\ chunks'[Len(chunks) + 1] = new
        /\ \A k \in 1..Len(chunks) : chunks'[k] = chunks[k]
    <3>1. new \in [index : Nat, offset : Nat, size : Nat, replicas : [1..3 -> Int]]
      BY <2>2, <2>3 DEF PlanInv
    <3> HIDE DEF new
    <3>2. QED
      BY <2>1, <3>1 DEF PlanInv
  <2>5. \A k \in Nat : Covered(k)' = Covered(k)
    BY <2>1 DEF Covered
  <2>6. \A k \in 1..Len(chunks') : (chunks[k] = PlannedChunk(k))'
    <3> SUFFICES ASSUME NEW k \in 1..Len(chunks') PROVE (chunks[k] = PlannedChunk(k))'
      OBVIOUS
    <3>1. PlannedChunk(k)' = PlannedChunk(k)
      BY <2>1 DEF PlannedChunk, Covered
    <3>2. CASE k <= Len(chunks)
      BY <2>4, <3>1, <3>2 DEF PlanInv
    <3>3. CASE k = Len(chunks) + 1
      <4>1. Len(chunks) \in Nat /\ k - 1 = Len(chunks)
        BY <3>3 DEF PlanInv
      <4>2. offset = Covered(k - 1) /\ Covered(k) = offset + size
        BY <2>2, <3>3, <4>1
      <4>3. size = Covered(k) - Covered(k - 1)
        BY <2>2, <4>2
      <4>4. plannedWith = storageNodes
        BY <2>1 DEF PlanInv
      <4>5. new = PlannedChunk(k)
        BY <4>1, <4>2, <4>3, <4>4 DEF PlannedChunk
      <4>6. chunks'[k] = new
        BY <2>4, <3>3
      <4>7. QED
        BY <3>1, <4>5, <4>6
    <3>4. QED
      BY <2>4, <3>2, <3>3 DEF PlanInv
  <2>7. Len(chunks') <= ChunkCount(fileSize)
    <3>1. fileSize \in Nat /\ Len(chunks) \in Nat
      BY PlacementAssumption DEF PlanInv
    <3>2. ChunkCount(fileSize) \in Nat
      BY <3>1, CountRoundsUp
    <3>3. QED
      BY <2>1, <2>4, <3>1, <3>2
  <2>8. offset' = Covered(Len(chunks'))
    BY <2>1, <2>2, <2>4
  <2>9. QED
    BY <2>1, <2>4, <2>5, <2>6, <2>7, <2>8 DEF PlanInv, ChunkCount
<1>3. CASE Commit
  BY <1>3 DEF Commit, PlanInv, Covered, PlannedChunk
<1>4. CASE RestartServer
  BY <1>4 DEF RestartServer, PlanInv, Covered, PlannedChunk
<1>5. CASE UNCHANGED vars
  BY <1>5 DEF vars, PlanInv, Covered, PlannedChunk
<1>6. QED
  BY <1>1, <1>2, <1>3, <1>4, <1>5 DEF Next

\* Every chunk planned so far covers the block of the file it stands for and
\* is placed on the replicas of its index (the loop of build_upload_plan).
THEOREM PlanInvariant == Spec => []PlanInv
BY InitPlanInv, NextPlanInv, PTL DEF Spec

-----------------------------------------------------------------------------
(* What the invariant gives.                                               *)

\* Covered(k) is a length of the file, the whole file after the last chunk,
\* and grows with every chunk of a file that is not empty.
LEMMA CoveredGrows ==
  ASSUME fileSize \in Nat, NEW k \in 1..ChunkCount(fileSize)
  PROVE  /\ Covered(0) = 0
         /\ Covered(k) \in Nat /\ Covered(k - 1) \in Nat
         /\ Covered(ChunkCount(fileSize)) = fileSize
         /\ fileSize > 0 => Covered(k - 1) < Covered(k)
<1> DEFINE c == ChunkCount(fileSize)
<1>1. /\ BlockSize \in Nat \ {0} /\ c \in Nat \ {0}
      /\ fileSize <= c * BlockSize
      /\ fileSize > 0 => (c - 1) * BlockSize < fileSize
  BY PlacementAssumption, CountRoundsUp
<1> HIDE DEF c
<1>2. k \in 1..c
  BY DEF c
<1>3. /\ k * BlockSize \in Nat /\ (k - 1) * BlockSize \in Nat
      /\ k * BlockSize = (k - 1) * BlockSize + BlockSize
      /\ c * BlockSize \in Nat /\ (c - 1) * BlockSize \in Nat
      /\ 0 * BlockSize = 0
  BY <1>1, <1>2
<1>4. (k - 1) * BlockSize <= (c - 1) * BlockSize
  BY <1>1, <1>2
<1>5. Covered(0) = 0 /\ Covered(k) \in Nat /\ Covered(k - 1) \in Nat
  BY <1>3 DEF Covered, SmallerOf
<1>6. Covered(c) = fileSize
  BY <1>1, <1>3 DEF Covered, SmallerOf
<1>7. fileSize > 0 => Covered(k - 1) < Covered(k)
  BY <1>1, <1>3, <1>4 DEF Covered, SmallerOf
<1>8. QED
  BY <1>5, <1>6, <1>7 DEF c

\* What the invariant says of one planned chunk.
LEMMA ChunkFields ==
  ASSUME PlanInv, NEW k \in DOMAIN chunks
  PROVE  /\ k \in 1..Len(chunks) /\ chunks # <<>>
         /\ chunks[k].index = k - 1
         /\ chunks[k].offset = Covered(k - 1)
         /\ chunks[k].size = Covered(k) - Covered(k - 1)
         /\ chunks[k].replicas = PlannedNodes(plannedWith, k - 1)
<1>1. k \in 1..Len(chunks) /\ chunks # <<>>
  <2> DEFINE Chunk == [index : Nat, offset : Nat, size : Nat,
                       replicas : [1..3 -> Int]]
  <2>1. chunks \in Seq(Chunk)
    BY DEF PlanInv
  <2> HIDE DEF Chunk
  <2>2. QED
    BY <2>1
<1>2. chunks[k] = PlannedChunk(k)
  BY <1>1 DEF PlanInv
<1>3. QED
  BY <1>1, <1>2 DEF PlannedChunk

\* No chunk is longer than a block, and none starts beyond the end of the file.
LEMMA CoveredFits ==
  ASSUME fileSize \in Nat, NEW n \in Nat
  PROVE  /\ Covered(n) \in 0..fileSize
         /\ n > 0 => Covered(n) - Covered(n - 1) \in 0..BlockSize
<1>1. /\ BlockSize \in Nat \ {0} /\ n * BlockSize \in Nat
      /\ n > 0 => /\ (n - 1) * BlockSize \in Nat
                  /\ n * BlockSize = (n - 1) * BlockSize + BlockSize
  BY PlacementAssumption
<1>2. Covered(n) \in 0..fileSize
  BY <1>1 DEF Covered, SmallerOf
<1>3. n > 0 => Covered(n) - Covered(n - 1) \in 0..BlockSize
  BY <1>1 DEF Covered, SmallerOf
<1>4. QED
  BY <1>2, <1>3

\* The loop never plans a chunk longer than LOGICAL_BLOCK_SIZE, nor one that
\* starts beyond the end of the file, and its offset never overshoots it.
THEOREM TypeCorrect == Spec => []TypeOK
<1>1. PlanInv => TypeOK
  <2> SUFFICES ASSUME PlanInv PROVE TypeOK
    OBVIOUS
  <2>1. fileSize \in Nat /\ Len(chunks) \in Nat
    BY PlacementAssumption DEF PlanInv
  <2>2. offset \in 0..fileSize
    BY <2>1, CoveredFits DEF PlanInv
  <2>3. ASSUME NEW k \in DOMAIN chunks
        PROVE  chunks[k].size \in 0..BlockSize /\ chunks[k].offset \in 0..fileSize
    <3>1. k \in 1..Len(chunks) /\ k \in Nat /\ k - 1 \in Nat /\ k > 0
      <4>1. k \in 1..Len(chunks)
        BY ChunkFields
      <4>2. QED
        BY <4>1, <2>1
    <3>2. Covered(k) - Covered(k - 1) \in 0..BlockSize /\ Covered(k - 1) \in 0..fileSize
      BY <2>1, <3>1, CoveredFits
    <3>3. QED
      BY <3>2, ChunkFields
  <2>4. QED
    BY <2>2, <2>3 DEF PlanInv, TypeOK
<1>2. QED
  BY <1>1, PlanInvariant, PTL

\* The chunks of every committed plan tile the file, for every file size and
\* every block size.
THEOREM PlanTilesFile == Spec => []ChunksTileFile
<1>1. PlanInv => ChunksTileFile
  <2> SUFFICES ASSUME PlanInv, phase = "committed"
               PROVE  ChunksTileFile
    BY DEF ChunksTileFile
  <2> DEFINE c == ChunkCount(fileSize)
  <2>1. fileSize \in Nat /\ c \in Nat \ {0} /\ Len(chunks) = c
    BY PlacementAssumption, CountRoundsUp DEF PlanInv
  <2>2. DOMAIN chunks = 1..c
    BY <2>1 DEF PlanInv
  <2>3. \A k \in 1..c : /\ chunks[k].offset = Covered(k - 1)
                        /\ chunks[k].size = Covered(k) - Covered(k - 1)
    BY <2>2, ChunkFields
  <2>4. ASSUME NEW k \in 1..c
        PROVE  /\ Covered(0) = 0
               /\ Covered(k) \in Nat /\ Covered(k - 1) \in Nat
               /\ Covered(c) = fileSize
               /\ fileSize > 0 => Covered(k - 1) < Covered(k)
    BY <2>1, CoveredGrows
  <2> HIDE DEF c
  <2>5. chunks[1].offset = 0
    BY <2>1, <2>3, <2>4
  <2>6. ASSUME NEW k \in 2..c
        PROVE  chunks[k].offset = chunks[k - 1].offset + chunks[k - 1].size
    <3>1. k \in 1..c /\ k - 1 \in 1..c /\ k - 1 \in Int
      BY <2>1
    <3>2. Covered(k - 1) \in Nat /\ Covered((k - 1) - 1) \in Nat
      BY <2>4, <3>1
    <3>3. QED
      BY <2>3, <3>1, <3>2
  <2>7. chunks[c].offset + chunks[c].size = fileSize
    <3>1. c \in 1..c
      BY <2>1
    <3>2. QED
      BY <2>3, <2>4, <3>1
  <2>8. fileSize > 0 => \A k \in 1..c : chunks[k].size > 0
    BY <2>3, <2>4
  <2>9. QED
    BY <2>1, <2>2, <2>5, <2>6, <2>7, <2>8 DEF ChunksTileFile
<1>2. QED
  BY <1>1, PlanInvariant, PTL

\* Every chunk is planned on three different nodes, for every list of at least
\* three distinct nodes.
THEOREM PlanReplicates == Spec => []ReplicasDistinct
<1>1. PlanInv => ReplicasDistinct
  <2> SUFFICES ASSUME PlanInv, NEW k \in DOMAIN chunks,
                      NEW a \in 1..3, NEW b \in 1..3,
                      chunks[k].replicas[a] = chunks[k].replicas[b]
               PROVE  a = b
    BY DEF ReplicasDistinct
  <2>1. k \in 1..Len(chunks) /\ k - 1 \in Nat /\ chunks # <<>>
    <3>1. k \in 1..Len(chunks) /\ chunks # <<>>
      BY ChunkFields
    <3>2. Len(chunks) \in Nat
      BY DEF PlanInv
    <3>3. QED
      BY <3>1, <3>2
  <2>2. chunks[k].replicas = PlannedNodes(plannedWith, k - 1)
    BY ChunkFields
  <2>3. plannedWith \in NodeLists /\ Len(plannedWith) >= 3
    BY <2>1 DEF PlanInv
  <2>4. QED
    BY <2>1, <2>2, <2>3, ReplicasOfListDiffer
<1>2. QED
  BY <1>1, PlanInvariant, PTL

-----------------------------------------------------------------------------
(* The placements that are worked out again.                               *)

\* The three placements are the same function of the list and the index.
LEMMA PlacementsAgree ==
  ASSUME NEW list, NEW index \in Nat
  PROVE  /\ \A a \in 1..3 : AskedNodes(list, index)[a] = PlannedNodes(list, index)[a]
         /\ ErasedNodes(list, index) = {AskedNodes(list, index)[a] : a \in 1..3}
<1> DEFINE node(x) == list[(x % Len(list)) + 1]
<1>1. /\ AskedNodes(list, index)[1] = node(index)
      /\ AskedNodes(list, index)[2] = node(index + 1)
      /\ AskedNodes(list, index)[3] = node(index + 2)
  BY DEF AskedNodes
<1>2. \A a \in 1..3 : PlannedNodes(list, index)[a] = node(index + a - 1)
  BY DEF PlannedNodes
<1>3. index + 1 - 1 = index /\ index + 2 - 1 = index + 1 /\ index + 3 - 1 = index + 2
      /\ index + 0 = index
  OBVIOUS
<1>4. ErasedNodes(list, index) = {node(index + a) : a \in 0..2}
  BY DEF ErasedNodes
<1> HIDE DEF node
<1>5. \A a \in 1..3 : AskedNodes(list, index)[a] = PlannedNodes(list, index)[a]
  <2>1. /\ PlannedNodes(list, index)[1] = node(index)
        /\ PlannedNodes(list, index)[2] = node(index + 1)
        /\ PlannedNodes(list, index)[3] = node(index + 2)
    BY <1>2, <1>3
  <2>2. QED
    BY <1>1, <2>1
<1>6. ErasedNodes(list, index) = {node(index), node(index + 1), node(index + 2)}
  <2>1. {node(index + a) : a \in 0..2} = {node(index + 0), node(index + 1), node(index + 2)}
    OBVIOUS
  <2>2. QED
    BY <1>3, <1>4, <2>1
<1>7. {AskedNodes(list, index)[a] : a \in 1..3}
        = {node(index), node(index + 1), node(index + 2)}
  BY <1>1
<1>8. QED
  BY <1>5, <1>6, <1>7

\* Where the rotation does not wrap, nodes added behind the list change nothing.
LEMMA AddedNodesUnasked ==
  ASSUME NEW list \in NodeLists, NEW old \in NodeLists, Continues(list, old),
         NEW index \in Nat, index + 2 < Len(old), NEW a \in 1..3
  PROVE  PlannedNodes(list, index)[a] = PlannedNodes(old, index)[a]
<1> DEFINE x == index + a - 1
<1>1. Len(list) \in Nat /\ Len(old) \in Nat
  BY PlacementAssumption
<1>2. x \in Nat /\ x < Len(old) /\ x < Len(list)
  BY <1>1 DEF Continues
<1>3. ASSUME NEW n \in Nat, x < n PROVE x % n = x
  <2>1. n \in Nat \ {0}
    BY <1>2, <1>3
  <2>2. QED
    BY <1>2, <1>3, <2>1
<1>4. PlannedNodes(list, index)[a] = list[x + 1] /\ PlannedNodes(old, index)[a] = old[x + 1]
  <2>1. x % Len(list) = x /\ x % Len(old) = x
    BY <1>1, <1>2, <1>3
  <2>2. QED
    BY <2>1 DEF PlannedNodes
<1>5. x + 1 \in 1..Len(old)
  BY <1>1, <1>2
<1>6. QED
  BY <1>4, <1>5 DEF Continues

\* Three different numbers from one to three are all of them.
LEMMA ThreeOfThree ==
  ASSUME NEW p \in 1..3, NEW q \in 1..3, NEW r \in 1..3, p # q, p # r, q # r
  PROVE  {p, q, r} = 1..3
OBVIOUS

\* Of three nodes every chunk is placed on all.
LEMMA AllOfThree ==
  ASSUME NEW list \in NodeLists, Len(list) = 3, NEW index \in Nat
  PROVE  {PlannedNodes(list, index)[a] : a \in 1..3} = {list[k] : k \in 1..3}
<1> DEFINE slot(a) == ((index + a - 1) % Len(list)) + 1
<1>1. ASSUME NEW a \in 1..3 PROVE slot(a) \in 1..3 /\ PlannedNodes(list, index)[a] = list[slot(a)]
  <2>1. index + a - 1 \in Nat
    OBVIOUS
  <2>2. (index + a - 1) % Len(list) \in 0..2
    BY <2>1, DivMod
  <2>3. QED
    BY <2>2 DEF PlannedNodes
<1>2. ASSUME NEW a \in 1..3, NEW b \in 1..3, slot(a) = slot(b) PROVE a = b
  <2>1. PlannedNodes(list, index)[a] = PlannedNodes(list, index)[b]
    BY <1>1, <1>2
  <2>2. Len(list) >= 3
    OBVIOUS
  <2> HIDE DEF slot
  <2>3. QED
    BY <2>1, <2>2, ReplicasOfListDiffer
<1> HIDE DEF slot
<1>3. {slot(1), slot(2), slot(3)} = 1..3
  <2>1. slot(1) \in 1..3 /\ slot(2) \in 1..3 /\ slot(3) \in 1..3
    BY <1>1
  <2>2. slot(1) # slot(2) /\ slot(1) # slot(3) /\ slot(2) # slot(3)
    BY <1>2
  <2>3. QED
    BY <2>1, <2>2, ThreeOfThree
<1>4. \A k \in 1..3 : \E a \in 1..3 : slot(a) = k
  BY <1>3
<1>5. QED
  BY <1>1, <1>4

\* A list of the same three nodes in another order has the same nodes.
LEMMA ReorderedNodes ==
  ASSUME NEW list \in NodeLists, NEW old \in NodeLists, Len(old) = 3, Reorders(list, old)
  PROVE  {list[k] : k \in 1..3} = {old[m] : m \in 1..3}
<1>1. /\ Len(list) = 3 /\ DOMAIN list = 1..3
      /\ \A x, y \in 1..3 : list[x] = list[y] => x = y
  BY PlacementAssumption DEF Reorders
<1>2. ASSUME NEW k \in 1..3 PROVE \E m \in 1..3 : list[k] = old[m]
  BY <1>1 DEF Reorders
<1>3. PICK p \in 1..3 : list[1] = old[p]
  BY <1>2
<1>4. PICK q \in 1..3 : list[2] = old[q]
  BY <1>2
<1>5. PICK r \in 1..3 : list[3] = old[r]
  BY <1>2
<1>6. p # q /\ p # r /\ q # r
  BY <1>1, <1>3, <1>4, <1>5
<1>7. {p, q, r} = 1..3
  BY <1>6, ThreeOfThree
<1>8. \A m \in 1..3 : \E k \in 1..3 : list[k] = old[m]
  BY <1>3, <1>4, <1>5, <1>7
<1>9. QED
  BY <1>2, <1>8

\* Whatever list the server is given later, a removal erases a chunk where a
\* download asks for it, which is where it was stored as long as the list is the
\* old one, is continued behind a chunk that did not wrap, or is a reordering of
\* three nodes.
THEOREM PlacementsMeet == Spec => []AskedWhereStored
<1>1. PlanInv => AskedWhereStored
  <2> SUFFICES ASSUME PlanInv, phase = "committed", NEW k \in DOMAIN chunks
               PROVE  LET index  == chunks[k].index
                          asked  == AskedNodes(storageNodes, index)
                          stored == chunks[k].replicas
                      IN  /\ ErasedNodes(storageNodes, index) = {asked[a] : a \in 1..3}
                          /\ (storageNodes = plannedWith
                                \/ (/\ Continues(storageNodes, plannedWith)
                                    /\ index + 2 < Len(plannedWith)))
                               => \A a \in 1..3 : asked[a] = stored[a]
                          /\ Len(plannedWith) = 3 /\ Reorders(storageNodes, plannedWith)
                               => {asked[a] : a \in 1..3} = {stored[a] : a \in 1..3}
    BY DEF AskedWhereStored
  <2> DEFINE index  == chunks[k].index
             asked  == AskedNodes(storageNodes, index)
             stored == chunks[k].replicas
  <2>1. index \in Nat /\ stored = PlannedNodes(plannedWith, index)
    <3>1. k \in 1..Len(chunks) /\ Len(chunks) \in Nat
      BY ChunkFields DEF PlanInv
    <3>2. QED
      BY <3>1, ChunkFields
  <2>2. storageNodes \in NodeLists /\ plannedWith \in NodeLists
    BY DEF PlanInv
  <2> HIDE DEF index, stored
  <2>3. /\ \A a \in 1..3 : asked[a] = PlannedNodes(storageNodes, index)[a]
        /\ ErasedNodes(storageNodes, index) = {asked[a] : a \in 1..3}
    BY <2>1, PlacementsAgree
  <2> HIDE DEF asked
  <2>4. ASSUME \/ storageNodes = plannedWith
               \/ Continues(storageNodes, plannedWith) /\ index + 2 < Len(plannedWith)
        PROVE  \A a \in 1..3 : asked[a] = stored[a]
    BY <2>1, <2>2, <2>3, <2>4, AddedNodesUnasked
  <2>5. ASSUME Len(plannedWith) = 3, Reorders(storageNodes, plannedWith)
        PROVE  {asked[a] : a \in 1..3} = {stored[a] : a \in 1..3}
    <3>1. Len(storageNodes) = 3
      BY <2>5 DEF Reorders
    <3>2. {PlannedNodes(storageNodes, index)[a] : a \in 1..3} = {storageNodes[m] : m \in 1..3}
      BY <2>1, <2>2, <3>1, AllOfThree
    <3>3. {PlannedNodes(plannedWith, index)[a] : a \in 1..3} = {plannedWith[m] : m \in 1..3}
      BY <2>1, <2>2, <2>5, AllOfThree
    <3>4. {storageNodes[m] : m \in 1..3} = {plannedWith[m] : m \in 1..3}
      BY <2>2, <2>5, ReorderedNodes
    <3>5. {asked[a] : a \in 1..3} = {PlannedNodes(storageNodes, index)[a] : a \in 1..3}
      BY <2>3
    <3>6. QED
      BY <2>1, <3>2, <3>3, <3>4, <3>5
  <2>6. QED
    BY <2>3, <2>4, <2>5 DEF index, asked, stored
<1>2. QED
  BY <1>1, PlanInvariant, PTL

=============================================================================
