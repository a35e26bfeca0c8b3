----------------------------- MODULE MCSession ------------------------------
(* Instances of Session. *)
EXTENDS Session, TLC

\* No password is treated differently from another.
AnyPassword == Permutations(Passwords)

Whole16 == [name \in Names |-> name]
ByName == [name \in Names |-> IF name = "devil" THEN 2 ELSE 1]

Divided == [p \in Processes |->
  IF p = 1 THEN {"register", "login", "logout"} ELSE {"register", "login", "userdel"}]
TwoAndThree == [p \in Processes |-> IF p = 1 THEN 2 ELSE 3]

=============================================================================
