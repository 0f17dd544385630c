------------------------------- MODULE MCPool -------------------------------
(* An instance of Pool small enough for TLC.                               *)
EXTENDS Pool

CONSTANTS c1, c2, d1, r1, r2, w1, w2

(* A job pays the rig nothing, less than either threshold, less than one   *)
(* of them, or enough.                                                     *)
Line(kind, sats) == [kind |-> kind, mine |-> sats, total |-> 10]
DenLines == {Line(k, 0) : k \in {"other", "garbled", "subscribed"}} \cup {Line("job", s) : s \in {0, 1, 8, 9}}
ProxyConfigs ==
  {[rule |-> r, minShare |-> 90, minSats |-> 2, strict |-> s] :
     r \in {"SOLO_SHOWCASE", "PPLNS"}, s \in BOOLEAN}
=============================================================================
