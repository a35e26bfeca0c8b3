--------------------------- MODULE FileLifeProofs ---------------------------
(***************************************************************************)
(* What the abstract life of a file promises, for every set of chunk       *)
(* indexes.                                                                *)
(***************************************************************************)
EXTENDS FileLife, TLAPS

\* Rows and reports are about files that were planned.
PlannedOnly ==
  /\ lastId \in Nat
  /\ live \subseteq Planned
  /\ registered \subseteq Planned \X Chunks
  /\ confirmed \subseteq Planned

\* The inductive invariant.
IInv == PlannedOnly /\ LiveIsStored /\ NoGaps /\ ConfirmedIsWhole

LEMMA PlanStep ==
  ASSUME IInv, Plan
  PROVE  IInv'
<1>1. lastId + 1 \notin Planned /\ Planned \subseteq Planned' /\ lastId' \in Planned'
  BY DEF IInv, PlannedOnly, Plan, Planned
<1>2. PlannedOnly'
  <2>1. lastId' \in Nat /\ live' \subseteq Planned' /\ confirmed' \subseteq Planned'
    BY <1>1 DEF IInv, PlannedOnly, Plan
  <2>2. registered' \subseteq Planned' \X Chunks
    BY <1>1 DEF IInv, PlannedOnly, Plan
  <2>3. QED
    BY <2>1, <2>2 DEF PlannedOnly
<1>3. \A c \in registered' : c[1] \in live' => c \in registered /\ c[1] \in live
  BY <1>1 DEF IInv, PlannedOnly, Plan
<1>4. LiveIsStored' /\ NoGaps'
  BY <1>3 DEF IInv, LiveIsStored, NoGaps, Plan
<1>5. ConfirmedIsWhole'
  BY <1>1 DEF IInv, PlannedOnly, ConfirmedIsWhole, Plan
<1>6. QED
  BY <1>2, <1>4, <1>5 DEF IInv

LEMMA RegisterStep ==
  ASSUME IInv, NEW file \in Planned, NEW index \in Chunks, Register(file, index)
  PROVE  IInv'
<1> USE DEF IInv, Register
<1>1. PlannedOnly'
  BY DEF PlannedOnly, Planned
<1>2. LiveIsStored'
  BY DEF LiveIsStored
<1>3. NoGaps'
  BY DEF NoGaps
<1>4. ConfirmedIsWhole'
  BY DEF ConfirmedIsWhole
<1>5. QED
  BY <1>1, <1>2, <1>3, <1>4

LEMMA RemoveStep ==
  ASSUME IInv, NEW ids \in SUBSET Planned, Remove(ids)
  PROVE  IInv'
<1> USE DEF IInv, Remove
<1>1. PlannedOnly'
  BY DEF PlannedOnly, Planned
<1>2. \A c : c \in registered /\ c[1] \in live' => c \in registered'
  OBVIOUS
<1>3. LiveIsStored'
  BY DEF LiveIsStored
<1>4. NoGaps'
  BY <1>2 DEF NoGaps
<1>5. ConfirmedIsWhole'
  BY <1>2 DEF ConfirmedIsWhole
<1>6. QED
  BY <1>1, <1>3, <1>4, <1>5

LEMMA OtherStep ==
  ASSUME IInv, NEW file \in Planned,
         \/ Confirm(file)
         \/ \E index \in Chunks : Store(file, index) \/ Erase(file, index)
  PROVE  IInv'
<1> USE DEF IInv, Confirm, Store, Erase
<1>1. PlannedOnly'
  BY DEF PlannedOnly, Planned
<1>2. LiveIsStored'
  BY DEF LiveIsStored
<1>3. NoGaps'
  BY DEF NoGaps
<1>4. ConfirmedIsWhole'
  BY DEF ConfirmedIsWhole
<1>5. QED
  BY <1>1, <1>2, <1>3, <1>4

\* A live file's registered chunks are stored and begin with the first one, and
\* a confirmed file is whole until it is removed.
THEOREM LifeIsSafe == Spec => [](LiveIsStored /\ NoGaps /\ ConfirmedIsWhole)
<1>1. Init => IInv
  BY DEF Init, IInv, PlannedOnly, LiveIsStored, NoGaps, ConfirmedIsWhole
<1>2. UNCHANGED vars /\ IInv => IInv'
  BY DEF IInv, PlannedOnly, LiveIsStored, NoGaps, ConfirmedIsWhole, vars, Planned
<1>3. IInv /\ [Next]_vars => IInv'
  BY <1>2, PlanStep, RegisterStep, RemoveStep, OtherStep DEF Next
<1>4. IInv => LiveIsStored /\ NoGaps /\ ConfirmedIsWhole
  BY DEF IInv
<1>5. QED
  BY <1>1, <1>3, <1>4, PTL DEF Spec

=============================================================================
