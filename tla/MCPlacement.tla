----------------------------- MODULE MCPlacement -----------------------------
(* Instances of Placement: files of up to five and a third blocks; lists     *)
(* that are empty, too short, just long enough, reordered, extended, with a  *)
(* node replaced.                                                            *)
EXTENDS Placement

Sizes == 0..16
Lists == {<<>>, <<1, 2>>, <<1, 2, 3>>, <<2, 3, 1>>, <<1, 2, 3, 4>>, <<1, 2, 3, 4, 5>>,
          <<4, 2, 3>>}
=============================================================================
