------------------------------ MODULE FileLife ------------------------------
(***************************************************************************)
(* What the metadata server, the clients and the storage nodes promise     *)
(* together about the life of a file, whatever fails: an abstract          *)
(* specification that FileStore implements.                                *)
(*                                                                         *)
(* A file is planned with an id that was never used before, is live as     *)
(* long as its row is in the files table, and once gone is gone for good.  *)
(* Its chunks are stored before they are registered, are registered in the *)
(* order of their indexes, and are erased only when the file is gone.      *)
(***************************************************************************)
EXTENDS Integers

CONSTANT Chunks  \* chunk indexes of an uploaded file

VARIABLES
  lastId,      \* the last id that was handed out
  live,        \* files that have a row
  registered,  \* chunks <<file, index>> that have a row
  stored,      \* chunks that are complete on all their replicas
  confirmed    \* files whose upload was reported as a success

vars == <<lastId, live, registered, stored, confirmed>>

Planned == 1..lastId

Init ==
  /\ lastId = 0
  /\ live = {} /\ registered = {} /\ stored = {} /\ confirmed = {}

Plan ==
  /\ lastId' = lastId + 1
  /\ live' = live \cup {lastId'}
  /\ UNCHANGED <<registered, stored, confirmed>>

Store(file, index) ==
  /\ stored' = stored \cup {<<file, index>>}
  /\ UNCHANGED <<lastId, live, registered, confirmed>>

\* Rows for a file that is gone harm nobody: nothing reads them.
Register(file, index) ==
  /\ file \in live => /\ <<file, index>> \in stored
                      /\ \A i \in Chunks : i < index => <<file, i>> \in registered
  /\ registered' = registered \cup {<<file, index>>}
  /\ UNCHANGED <<lastId, live, stored, confirmed>>

Confirm(file) ==
  /\ file \in live => {file} \X Chunks \subseteq registered
  /\ confirmed' = confirmed \cup {file}
  /\ UNCHANGED <<lastId, live, registered, stored>>

\* The rows of a file and those of its chunks go in one transaction; a user's
\* files all go at once.
Remove(ids) ==
  /\ live' = live \ ids
  /\ registered' = {c \in registered : c[1] \notin ids}
  /\ UNCHANGED <<lastId, stored, confirmed>>

Erase(file, index) ==
  /\ file \notin live
  /\ stored' = stored \ {<<file, index>>}
  /\ UNCHANGED <<lastId, live, registered, confirmed>>

Next ==
  \/ Plan
  \/ \E file \in Planned :
       \/ Confirm(file)
       \/ \E index \in Chunks :
            Store(file, index) \/ Register(file, index) \/ Erase(file, index)
  \/ \E ids \in SUBSET Planned : Remove(ids)

Spec == Init /\ [][Next]_vars

-----------------------------------------------------------------------------

\* A live file's registered chunks are complete on their replicas: no reader
\* of the plan of a live file is sent to a node that has nothing.
LiveIsStored ==
  \A c \in registered : c[1] \in live => c \in stored

\* The registered chunks of a live file begin with the first one: a download
\* in the middle of the registration gets a beginning of the file.
NoGaps ==
  \A c \in registered : c[1] \in live =>
    \A i \in Chunks : i < c[2] => <<c[1], i>> \in registered

\* A file reported as uploaded is whole until it is removed.
ConfirmedIsWhole ==
  \A file \in confirmed \cap live : {file} \X Chunks \subseteq registered

=============================================================================
