--------------------------- MODULE ClosureContract ---------------------------
(***************************************************************************)
(* What the dependency chase promises (docs/depchase-closure-contract.md,  *)
(* section 2): starting from the operator's resources, a round adopts      *)
(* adoptable targets of references that managed resources hold, config     *)
(* generation may omit some of the result, and once the chase is over the  *)
(* managed set no longer changes.                                          *)
(***************************************************************************)
CONSTANTS Addr,       \* Terraform addresses
          Operator,   \* the selection the chase starts from
          Adoptable   \* importable, unclaimed and in scope

VARIABLES
  refers,   \* which resource's configuration names which other resource
  managed,  \* the resources being imported
  open      \* the chase is still running

vars == <<refers, managed, open>>

Init ==
  /\ refers \in SUBSET (Addr \X Addr)
  /\ managed = Operator
  /\ open = TRUE

ReferredTo(a) == \E m \in managed : <<m, a>> \in refers

(* One round; it is the last one when it ends in an error. *)
Adopt(S) ==
  /\ open
  /\ S # {}
  /\ \A a \in S : a \in Adoptable /\ ReferredTo(a)
  /\ managed' \in SUBSET (managed \cup S)
  /\ open' \in BOOLEAN
  /\ UNCHANGED refers

Close ==
  /\ open
  /\ open' = FALSE
  /\ UNCHANGED <<refers, managed>>

Next == Close \/ \E S \in SUBSET Addr : Adopt(S)
Spec == Init /\ [][Next]_vars
=============================================================================
