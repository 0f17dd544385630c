------------------------------- MODULE MCWeb --------------------------------
(* An instance of Web small enough for TLC.                                *)
EXTENDS Web, TLC

CONSTANTS o, m, t1, i1, i2

(* The operator opens the den and changes it, and so does somebody else.   *)
Body(key, vis, own, mine) ==
  [key |-> key, at |-> 0, vis |-> vis, source |-> IF own THEN "operator" ELSE "platform",
   url |-> own, auth |-> own, mine |-> mine]
Creates ==
  {Body(o, "PUBLIC", FALSE, TRUE), Body(o, "UNLISTED", TRUE, FALSE), Body(m, "PUBLIC", FALSE, FALSE)}

(* Join events signed before, within and after what the window allows.     *)
Joins == {[key |-> m, at |-> t, wish |-> w] : t \in {-1, 1, 2}, w \in {"yes", "unset"}}
         \cup {[key |-> o, at |-> 0, wish |-> "no"]}

(* Fees that round, and dust thresholds at, below and above a due amount.  *)
Term(rule, fee, dust) == [rule |-> rule, fee |-> fee, dust |-> dust]
SplitTerms ==
  {Term("PPLNS", 3, 0), Term("PPLNS", 0, 32), Term("PPLNS", 15, 34), Term("SOLO_SHOWCASE", 3, 25)}

(* The invoices are alike.                                                 *)
InvoicesAlike == Permutations(Ids)
=============================================================================
