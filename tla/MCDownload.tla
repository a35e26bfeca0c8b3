----------------------------- MODULE MCDownload -----------------------------
(* Instances of Download: sizes of the chunks of the file to download.     *)
EXTENDS Download

FourThenTwo  == [c \in Chunks |-> IF c = 0 THEN 4 ELSE 2]
TwoUnitsEach == [c \in Chunks |-> 2]

=============================================================================
