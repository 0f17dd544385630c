------------------------ MODULE MCStratumConnection ------------------------
(* Instances of StratumConnection small enough for TLC.                    *)
EXTENDS StratumConnection, TLC

CONSTANTS d1, n1, n2, t1, u1, t2

(* A den's name, one that does not resolve, and an address.                *)
SomeNames == {[den |-> d1, routed |-> TRUE, valid |-> TRUE],
              [den |-> d1, routed |-> FALSE, valid |-> FALSE],
              [den |-> NoDen, routed |-> TRUE, valid |-> TRUE]}

(* One nonce that can be written in two ways, and a weaker one.            *)
ParsedOf == (t1 :> n1) @@ (u1 :> n1) @@ (t2 :> n2)

ProofOf == (n1 :> 2) @@ (n2 :> 1)

(* The two ways are alike to everything the model says.                    *)
Spellings == Permutations({t1, u1})
=============================================================================
