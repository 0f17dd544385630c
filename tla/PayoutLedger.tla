---------------------------- MODULE PayoutLedger ----------------------------
(***************************************************************************)
(* What the Lightning fan-out promises to the operator whose wallet pays:  *)
(* an entry leaves the pool of unpaid entries once and for good, only then *)
(* is the wallet asked to pay it, it is asked at most once, and it moves   *)
(* the sats at most once.  Nothing is promised about when, or whether.     *)
(***************************************************************************)
EXTENDS Naturals

CONSTANT Entries

VARIABLES
  pool,   \* entries nobody has taken yet
  sends,  \* how often the wallet was asked to pay an entry
  moves   \* how often the wallet paid it

LInit ==
  /\ pool = Entries
  /\ sends = [a \in Entries |-> 0]
  /\ moves = [a \in Entries |-> 0]

(* Entries are taken to be paid, or given up.                              *)
Withdraw ==
  /\ pool' \subseteq pool
  /\ UNCHANGED <<sends, moves>>

Send(a) ==
  /\ a \notin pool
  /\ sends[a] = 0
  /\ sends' = [sends EXCEPT ![a] = 1]
  /\ UNCHANGED <<pool, moves>>

Move(a) ==
  /\ moves[a] < sends[a]
  /\ moves' = [moves EXCEPT ![a] = @ + 1]
  /\ UNCHANGED <<pool, sends>>

LNext == Withdraw \/ \E a \in Entries : Send(a) \/ Move(a)

LSpec == LInit /\ [][LNext]_<<pool, sends, moves>>

=============================================================================
