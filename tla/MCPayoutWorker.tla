--------------------------- MODULE MCPayoutWorker ---------------------------
(* Instances of PayoutWorker small enough for TLC.                         *)
EXTENDS PayoutWorker

CONSTANTS b1, b2, m1, m2, m3, w1, w2

(* A block that owes dust to m2 and m3, and one that pays m1 in its        *)
(* coinbase: the same one, or a second.                                    *)
OneDirect    == {<<b1, m1>>}
SecondDirect == {<<b2, m1>>}
OneDust      == {<<b1, m2>>}
TwoDust      == {<<b1, m2>>, <<b1, m3>>}
=============================================================================
