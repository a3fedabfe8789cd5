------------------------------ MODULE MCServices ------------------------------
(***************************************************************************)
(* The outside services for TLC: a room whose own light is l1; a text that  *)
(* mentions lights and names another, one that leaves them to a pronoun, and*)
(* one that is refused.  Requests of the assistant are alike.               *)
(***************************************************************************)
EXTENDS OutsideServices, TLC

Says(class, mentions, refers, names) ==
  [class |-> class, mentions |-> mentions, refers |-> refers, names |-> names]
Sayings == {Says("change", TRUE, FALSE, {"l2"}), Says("change", FALSE, TRUE, {}),
            Says("refused", FALSE, FALSE, {})}
Curated == [s \in Sessions |-> {"l1"}]
Alike == Permutations(Requests)
=============================================================================
