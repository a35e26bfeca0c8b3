--------------------------- MODULE ReplicatedWrite ---------------------------
(***************************************************************************)
(* What the upload of one chunk promises, without connections, threads or  *)
(* staging files: each of the N replicas stores the chunk at most once,    *)
(* from the tail of the chain to its head, and the client is told "ok"     *)
(* only after all of them have stored all of it.  What it does not promise *)
(* is visible as well: the tail may store a truncated chunk, and an upload *)
(* reported as failed may have stored any suffix of the chain, also after  *)
(* the client was told.                                                    *)
(***************************************************************************)
EXTENDS Integers

CONSTANTS N, Size

Replicas == 1..N
Missing  == -1

VARIABLES stored,   \* units replica i has stored, or Missing
          verdict   \* "pending", "ok" or "failed"

rwVars == <<stored, verdict>>

Init == /\ stored  = [i \in Replicas |-> Missing]
        /\ verdict = "pending"

\* Replicas i+1..N have stored the whole chunk.
CompleteBelow(i) == \A j \in Replicas : j > i => stored[j] = Size

Store(i, units) ==
  /\ stored[i] = Missing
  /\ CompleteBelow(i)
  /\ i < N => units = Size
  /\ stored' = [stored EXCEPT ![i] = units]
  /\ UNCHANGED verdict

Confirm == /\ verdict = "pending"
           /\ CompleteBelow(0)
           /\ verdict' = "ok"
           /\ UNCHANGED stored

GiveUp == /\ verdict = "pending"
          /\ verdict' = "failed"
          /\ UNCHANGED stored

Next == \/ \E i \in Replicas, units \in 0..Size : Store(i, units)
        \/ Confirm
        \/ GiveUp

Spec == Init /\ [][Next]_rwVars

=============================================================================
