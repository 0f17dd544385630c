------------------------- MODULE PayoutWorkerProofs -------------------------
(***************************************************************************)
(* Proofs about the payouts worker, for any number of worker processes,    *)
(* blocks and dust entries, and any number of crashes, errors and reorgs.  *)
(***************************************************************************)
EXTENDS PayoutWorker, TLAPS

(* Actions are unfolded by name; their frames by these abbreviations.      *)
USE DEF external, database, worker, history, faults, tick

-----------------------------------------------------------------------------
(* Type correctness                                                        *)

(* The initial state is well typed.                                        *)
LEMMA InitTypeOK == Init => TypeOK
  BY SnapshotAssumption
  DEF Init, TypeOK, BlockStatus, RowStatus, LoopState, LaneState

(* A tick that is abandoned leaves the process well typed.                 *)
LEMMA AbandonTypeOK ==
  ASSUME NEW w \in Workers, TypeOK, AbandonTick(w),
         UNCHANGED <<external, directRow, row, hash, zapped, verdict, known,
                     lane, crashes, reorgs>>,
         blk' \in [Blocks -> BlockStatus],
         errors' \in Nat,
         left' \subseteq Dust
  PROVE  TypeOK'
<1>1. OnlyInMemory(w) \subseteq Blocks
  BY DEF TypeOK, OnlyInMemory
<1> QED BY <1>1 DEF TypeOK, AbandonTick, LoopState

(* A lane only moves to the states a lane has.                             *)
LEMMA LaneToTypeOK ==
  ASSUME NEW w \in Workers, NEW a \in Dust, NEW from, NEW to \in LaneState,
         TypeOK, LaneTo(w, a, from, to)
  PROVE  lane' \in [Workers -> [Dust -> LaneState]]
  BY DEF TypeOK, LaneTo

(* Counting one more receipt keeps the counters natural.                   *)
LEMMA ReceiptTypeOK ==
  ASSUME NEW a \in Direct \cup Dust, TypeOK,
         receipts' = receipts \/ receipts' = [receipts EXCEPT ![a] = @ + 1]
  PROVE  receipts' \in [Direct \cup Dust -> Nat]
<1>1. receipts[a] + 1 \in Nat
  BY DEF TypeOK
<1> QED BY <1>1 DEF TypeOK

(* The steps of the tick loop preserve the types.                          *)
LEMMA TickTypeOK ==
  ASSUME NEW w \in Workers, TypeOK, TickStep(w) \/ NoClient(w)
  PROVE  TypeOK'
<1> USE SnapshotAssumption DEF Goto, Of
<1>1. CASE Start(w)
  BY <1>1 DEF TypeOK, Start, LoopState
<1>2. ASSUME NEW a \in Dust, ReconcileRow(w, a) PROVE TypeOK'
  <2>1. ReconcileOutcomes(w, a) \subseteq RowStatus
    BY DEF TypeOK, ReconcileOutcomes, RowStatus
  <2> QED BY <1>2, <2>1 DEF TypeOK, ReconcileRow
<1>3. ASSUME NEW a \in Dust, RecordDust(w, a) PROVE TypeOK'
  BY <1>3 DEF TypeOK, RecordDust, RowStatus
<1>4. CASE ReconcileDone(w)
  BY <1>4 DEF TypeOK, ReconcileDone, LoopState
<1>5. CASE FindCandidates(w)
  BY <1>5 DEF TypeOK, FindCandidates, LoopState
<1>6. ASSUME NEW b \in Blocks, ProbeTooYoung(w, b) PROVE TypeOK'
  BY <1>6 DEF TypeOK, ProbeTooYoung, LeaveForLater
<1>7. ASSUME NEW b \in Blocks, ProbeVerdict(w, b) PROVE TypeOK'
  BY <1>7 DEF TypeOK, ProbeVerdict, LoopState, BlockStatus
<1>8. ASSUME NEW b \in Blocks, PickBlock(w, b) PROVE TypeOK'
  BY <1>8 DEF TypeOK, PickBlock, NextBlock, LoopState
<1>9. CASE MarkBlock(w)
  BY <1>9 DEF TypeOK, MarkBlock, LoopState
<1>10. CASE EndTick(w)
  BY <1>10 DEF TypeOK, EndTick, LoopState
<1>11. ASSUME NEW a \in Direct, RecordDirect(w, a) PROVE TypeOK'
  <2>1. receipts' \in [Direct \cup Dust -> Nat]
    BY <1>11, ReceiptTypeOK DEF RecordDirect
  <2>2. item' \in [Workers -> SUBSET Direct] /\ pc' \in [Workers -> LoopState]
    <3>1. \/ UNCHANGED <<item, pc>>
          \/ /\ item' = [item EXCEPT ![w] = {a}]
             /\ pc' = [pc EXCEPT ![w] = "stamp"]
      BY <1>11 DEF RecordDirect
    <3>2. CASE UNCHANGED <<item, pc>>
      BY <3>2 DEF TypeOK
    <3>3. CASE /\ item' = [item EXCEPT ![w] = {a}]
               /\ pc' = [pc EXCEPT ![w] = "stamp"]
      BY <3>3 DEF TypeOK, LoopState
    <3> QED BY <3>1, <3>2, <3>3
  <2>3. todo' \in [Workers -> SUBSET (Direct \cup Dust)]
    BY <1>11 DEF TypeOK, RecordDirect
  <2> QED BY <1>11, <2>1, <2>2, <2>3 DEF TypeOK, RecordDirect
<1>12. CASE StampDirect(w)
  BY <1>12 DEF TypeOK, StampDirect, LoopState
<1>13. CASE DirectDone(w)
  BY <1>13 DEF TypeOK, DirectDone, LoopState
<1>14. CASE DustDone(w)
  BY <1>14 DEF TypeOK, DustDone, LoopState
<1>15. CASE PassGate(w)
  BY <1>15 DEF TypeOK, PassGate, LoopState
<1>16. CASE GateRefuses(w)
  <2>1. AbandonTick(w) /\ UNCHANGED <<external, database, verdict, known, lane,
                                      crashes, reorgs, errors, left>>
    BY <1>16 DEF GateRefuses
  <2> QED BY <2>1, AbandonTypeOK DEF TypeOK
<1>17. CASE ListPending(w)
  BY <1>17 DEF TypeOK, ListPending, LoopState, LaneState
<1>18. CASE AllDrained(w)
  BY <1>18 DEF TypeOK, AllDrained, LoopState
<1>19. CASE CloseBlock(w)
  BY <1>19 DEF TypeOK, CloseBlock, LoopState, BlockStatus
<1>20. CASE FanoutRejects(w)
  <2>1. AbandonTick(w) /\ UNCHANGED <<external, database, verdict, known, lane,
                                      crashes, reorgs, errors, left>>
    BY <1>20 DEF FanoutRejects
  <2> QED BY <2>1, AbandonTypeOK DEF TypeOK
<1>21. CASE NoClient(w)
  BY <1>21 DEF TypeOK, NoClient, LoopState, RowStatus
<1> QED BY <1>1, <1>2, <1>3, <1>4, <1>5, <1>6, <1>7, <1>8, <1>9, <1>10, <1>11,
           <1>12, <1>13, <1>14, <1>15, <1>16, <1>17, <1>18, <1>19, <1>20, <1>21
        DEF TickStep

(* The steps of one payment preserve the types.                            *)
LEMMA LaneTypeOK ==
  ASSUME NEW w \in Workers, NEW a \in Dust, TypeOK, LaneStep(w, a)
  PROVE  TypeOK'
<1> USE DEF LaneTo, LaneState, Busy
<1>1. CASE Claim(w, a)
  <2>1. row' \in [Dust -> RowStatus]
    <3>1. row' = row \/ row' = [row EXCEPT ![a] = "IN_FLIGHT"]
      BY <1>1 DEF Claim
    <3> QED BY <3>1 DEF TypeOK, RowStatus
  <2>2. lane' \in [Workers -> [Dust -> LaneState]]
    BY <1>1, LaneToTypeOK DEF Claim
  <2> QED BY <1>1, <2>1, <2>2 DEF TypeOK, Claim
<1>2. CASE Unpayable(w, a)
  BY <1>2 DEF TypeOK, Unpayable
<1>3. CASE SendPayment(w, a)
  BY <1>3 DEF TypeOK, SendPayment
<1>4. CASE WalletPays(w, a)
  BY <1>4 DEF TypeOK, WalletPays
<1>5. CASE WalletRefuses(w, a)
  BY <1>5 DEF TypeOK, WalletRefuses
<1>6. CASE TimeOut(w, a)
  BY <1>6 DEF TypeOK, TimeOut
<1>7. CASE WritePaid(w, a)
  BY <1>7 DEF TypeOK, WritePaid, RowStatus
<1>8. CASE PublishDust(w, a)
  <2>1. receipts' \in [Direct \cup Dust -> Nat]
    BY <1>8, ReceiptTypeOK DEF PublishDust
  <2>2. lane' \in [Workers -> [Dust -> LaneState]]
    BY <1>8, LaneToTypeOK DEF PublishDust
  <2> QED BY <1>8, <2>1, <2>2 DEF TypeOK, PublishDust
<1>9. CASE StampDust(w, a)
  BY <1>9 DEF TypeOK, StampDust
<1>10. CASE WriteFailed(w, a)
  BY <1>10 DEF TypeOK, WriteFailed, RowStatus
<1> QED BY <1>1, <1>2, <1>3, <1>4, <1>5, <1>6, <1>7, <1>8, <1>9, <1>10
        DEF LaneStep

(* Faults preserve the types.                                              *)
LEMMA FaultTypeOK ==
  ASSUME NEW w \in Workers, TypeOK, Fault(w)
  PROVE  TypeOK'
<1> USE DEF Error
<1>1. CASE TickFails(w)
  <2>1. errors' \in Nat /\ left' \subseteq Dust
    BY <1>1 DEF TypeOK, TickFails
  <2>2. blk' \in [Blocks -> BlockStatus]
    BY <1>1 DEF TypeOK, TickFails
  <2> QED BY <1>1, <2>1, <2>2, AbandonTypeOK DEF TickFails
<1>2. ASSUME NEW b \in Blocks, ProbeFails(w, b) PROVE TypeOK'
  BY <1>2 DEF TypeOK, ProbeFails, LeaveForLater
<1>3. CASE MarkFails(w)
  <2>1. blk' \in [Blocks -> BlockStatus] /\ stranded' \subseteq Blocks
    <3> PICK b \in block[w] :
               /\ blk' \in {blk, [blk EXCEPT ![b] = verdict[w]]}
               /\ stranded' \subseteq stranded \cup {b}
      BY <1>3 DEF MarkFails
    <3> QED BY DEF TypeOK
  <2>2. pc' \in [Workers -> LoopState]
    BY <1>3 DEF TypeOK, MarkFails, Goto, LoopState
  <2>3. block' \in [Workers -> SUBSET Blocks]
    BY <1>3 DEF TypeOK, MarkFails
  <2> QED BY <1>3, <2>1, <2>2, <2>3 DEF TypeOK, MarkFails
<1>4. ASSUME NEW a \in Dust, LaneThrows(w, a) PROVE TypeOK'
  <2>1. row' \in [Dust -> RowStatus]
    <3>1. row' \in {row, [row EXCEPT ![a] = IF @ = "PENDING" THEN "IN_FLIGHT"
                                                            ELSE @],
                    [row EXCEPT ![a] = "FAILED"]}
      BY <1>4 DEF LaneThrows
    <3> QED BY <3>1 DEF TypeOK, RowStatus
  <2>2. lane' \in [Workers -> [Dust -> LaneState]]
    BY <1>4, LaneToTypeOK DEF LaneThrows, LaneState
  <2>3. errors' \in Nat /\ left' \subseteq Dust
    BY <1>4 DEF TypeOK, LaneThrows
  <2> QED BY <1>4, <2>1, <2>2, <2>3 DEF TypeOK, LaneThrows
<1>5. ASSUME NEW a \in Dust, LaneCatches(w, a) PROVE TypeOK'
  <2>1. /\ row' \in {row, [row EXCEPT ![a] = "PAID"]}
        /\ hash' \subseteq hash \cup {a}
        /\ zapped' \subseteq zapped \cup {a}
    BY <1>5 DEF LaneCatches
  <2>2. row' \in [Dust -> RowStatus]
    BY <2>1 DEF TypeOK, RowStatus
  <2>3. lane' \in [Workers -> [Dust -> LaneState]]
    BY <1>5, LaneToTypeOK DEF LaneCatches, LaneState, Busy
  <2>4. errors' \in Nat
    BY <1>5 DEF TypeOK, LaneCatches
  <2>5. hash' \subseteq Dust /\ zapped' \subseteq Direct \cup Dust
    BY <2>1 DEF TypeOK
  <2> QED BY <1>5, <2>2, <2>3, <2>4, <2>5 DEF TypeOK, LaneCatches
<1>6. CASE Crash(w)
  <2>1. OnlyInMemory(w) \subseteq Blocks
    BY DEF TypeOK, OnlyInMemory
  <2> QED BY <1>6, <2>1
          DEF TypeOK, Crash, LoopState, LaneState, BlockStatus
<1>7. CASE MarkEscapes(w)
  <2>1. blk' \in [Blocks -> BlockStatus]
    <3> PICK b \in block[w] : blk' \in {blk, [blk EXCEPT ![b] = "ORPHANED"]}
      BY <1>7 DEF MarkEscapes
    <3> QED BY DEF TypeOK, BlockStatus
  <2>2. errors' \in Nat /\ left' \subseteq Dust
    BY <1>7 DEF TypeOK, MarkEscapes
  <2> QED BY <1>7, <2>1, <2>2, AbandonTypeOK DEF MarkEscapes
<1> QED BY <1>1, <1>2, <1>3, <1>4, <1>5, <1>6, <1>7 DEF Fault

(* The node and the wallet preserve the types.                             *)
LEMMA WorldTypeOK ==
  ASSUME TypeOK,
         \/ \E b \in Blocks : Bury(b) \/ Reorg(b)
         \/ \E a \in Dust : DecideAdrift(a)
  PROVE  TypeOK'
<1>1. ASSUME NEW b \in Blocks, Bury(b) PROVE TypeOK'
  BY <1>1 DEF TypeOK, Bury
<1>2. ASSUME NEW b \in Blocks, Reorg(b) PROVE TypeOK'
  BY <1>2 DEF TypeOK, Reorg
<1>3. ASSUME NEW a \in Dust, DecideAdrift(a) PROVE TypeOK'
  BY <1>3 DEF TypeOK, DecideAdrift
<1> QED BY <1>1, <1>2, <1>3

(* Every step preserves the types.                                         *)
LEMMA NextTypeOK == TypeOK /\ [Next]_vars => TypeOK'
<1> SUFFICES ASSUME TypeOK, [Next]_vars PROVE TypeOK'
  OBVIOUS
<1>1. CASE UNCHANGED vars
  BY <1>1 DEF vars, TypeOK
<1>2. CASE Next
  BY <1>2, TickTypeOK, LaneTypeOK, FaultTypeOK, WorldTypeOK DEF Next
<1> QED BY <1>1, <1>2

(* The worker's state and the database rows always have their types: no    *)
(* status, lane or loop position outside the ones the code names.          *)
THEOREM TypeCorrect == Spec => []TypeOK
  BY InitTypeOK, NextTypeOK, PTL DEF Spec

-----------------------------------------------------------------------------
(* What the steps of the tick loop leave alone                             *)

(* Nothing that the accounting is about changes.                           *)
Quiet == UNCHANGED <<asked, adrift, moved, row, hash, lane>>

(* What every step of the worker leaves alone.  Steps of the tick loop that *)
(* do not write LN_DUST rows or lanes are quiet.                           *)
LEMMA TickIsQuiet ==
  ASSUME NEW w \in Workers, TypeOK, TickStep(w) \/ NoClient(w)
  PROVE  \/ Quiet
         \/ \E a \in Dust : ReconcileRow(w, a) \/ RecordDust(w, a)
         \/ NoClient(w)
         \/ ListPending(w)
<1> USE DEF Quiet
<1>1. CASE Start(w) \/ ReconcileDone(w) \/ FindCandidates(w) \/ MarkBlock(w)
  BY <1>1 DEF Start, ReconcileDone, FindCandidates, MarkBlock
<1>2. ASSUME NEW b \in Blocks,
             ProbeTooYoung(w, b) \/ ProbeVerdict(w, b) \/ PickBlock(w, b)
      PROVE  Quiet
  BY <1>2 DEF ProbeTooYoung, LeaveForLater, ProbeVerdict, PickBlock
<1>3. CASE EndTick(w) \/ StampDirect(w) \/ DirectDone(w) \/ DustDone(w)
  BY <1>3 DEF EndTick, StampDirect, DirectDone, DustDone
<1>4. ASSUME NEW a \in Direct, RecordDirect(w, a) PROVE Quiet
  BY <1>4 DEF RecordDirect
<1>5. CASE PassGate(w) \/ GateRefuses(w) \/ AllDrained(w) \/ CloseBlock(w)
           \/ FanoutRejects(w)
  BY <1>5 DEF PassGate, GateRefuses, AllDrained, CloseBlock, FanoutRejects
<1> QED BY <1>1, <1>2, <1>3, <1>4, <1>5 DEF TickStep

(* Only a start reads payment hashes.                                      *)
LEMMA OnlyStartKnows ==
  ASSUME NEW w \in Workers, TickStep(w) \/ NoClient(w), ~Start(w)
  PROVE  UNCHANGED known
  BY DEF TickStep, ReconcileRow, RecordDust, ReconcileDone, FindCandidates,
         ProbeTooYoung, LeaveForLater, ProbeVerdict, PickBlock, MarkBlock,
         EndTick, RecordDirect, StampDirect, DirectDone, DustDone, PassGate,
         GateRefuses, ListPending, AllDrained, CloseBlock, FanoutRejects,
         NoClient

-----------------------------------------------------------------------------
(* Where a payment hash can be                                             *)

(* The hash goes in with PAID, and only a later error makes that FAILED.   *)
HashMeansDecided == \A a \in hash : row[a] \in {"PAID", "FAILED"}

(* The reconciliation has read no row with a hash.                         *)
NothingKnown == \A w \in Workers : known[w] = {}

HashInv == TypeOK /\ HashMeansDecided /\ NothingKnown

(* No row has a hash before it is PAID or FAILED, and from then on it stays *)
(* one of the two, so a row that is listed as IN_FLIGHT has none.          *)
LEMMA NextHashInv == HashInv /\ [Next]_vars => HashInv'
<1> SUFFICES ASSUME HashInv, [Next]_vars PROVE HashInv'
  OBVIOUS
<1> USE DEF HashInv, HashMeansDecided, NothingKnown
<1>1. TypeOK /\ TypeOK'
  BY NextTypeOK
<1>2. CASE UNCHANGED <<row, hash, known>>
  BY <1>1, <1>2
<1>3. CASE UNCHANGED vars
  BY <1>2, <1>3 DEF vars
<1>4. ASSUME NEW b \in Blocks, Bury(b) \/ Reorg(b) PROVE HashInv'
  BY <1>2, <1>4 DEF Bury, Reorg
<1>5. ASSUME NEW a \in Dust, DecideAdrift(a) PROVE HashInv'
  BY <1>2, <1>5 DEF DecideAdrift
<1>6. ASSUME NEW w \in Workers, TickStep(w) \/ NoClient(w) PROVE HashInv'
  <2>1. CASE Quiet
    <3>1. CASE Start(w)
      <4>1. {a \in Dust : row[a] = "IN_FLIGHT"} \cap hash = {}
        BY <1>1 DEF TypeOK
      <4> QED BY <1>1, <3>1, <4>1 DEF Start, TypeOK
    <3>2. CASE ~Start(w)
      BY <1>2, <1>6, <2>1, <3>2, OnlyStartKnows DEF Quiet
    <3> QED BY <3>1, <3>2
  <2>2. ASSUME NEW a \in Dust, ReconcileRow(w, a) PROVE HashInv'
    <3>1. row' = [row EXCEPT ![a] = "FAILED"]
      BY <2>2 DEF ReconcileRow, ReconcileOutcomes
    <3> QED BY <1>1, <2>2, <3>1 DEF ReconcileRow, TypeOK
  <2>3. ASSUME NEW a \in Dust, RecordDust(w, a) PROVE HashInv'
    BY <1>1, <2>3 DEF RecordDust, TypeOK
  <2>4. CASE NoClient(w)
    BY <1>1, <2>4 DEF NoClient, TypeOK
  <2>5. CASE ListPending(w)
    BY <1>2, <2>5 DEF ListPending
  <2> QED BY <1>1, <1>6, <2>1, <2>2, <2>3, <2>4, <2>5, TickIsQuiet
<1>7. ASSUME NEW w \in Workers, NEW a \in Dust, LaneStep(w, a) PROVE HashInv'
  <2>1. CASE Claim(w, a)
    BY <1>1, <2>1 DEF Claim, TypeOK
  <2>2. CASE WritePaid(w, a)
    BY <1>1, <2>2 DEF WritePaid, TypeOK
  <2>3. CASE WriteFailed(w, a)
    BY <1>1, <2>3 DEF WriteFailed, TypeOK
  <2>4. CASE \/ Unpayable(w, a) \/ SendPayment(w, a) \/ WalletPays(w, a)
             \/ WalletRefuses(w, a) \/ TimeOut(w, a) \/ PublishDust(w, a)
             \/ StampDust(w, a)
    BY <1>2, <2>4 DEF Unpayable, SendPayment, WalletPays, WalletRefuses,
                      TimeOut, PublishDust, StampDust
  <2> QED BY <1>7, <2>1, <2>2, <2>3, <2>4 DEF LaneStep
<1>8. ASSUME NEW w \in Workers, Fault(w) PROVE HashInv'
  <2>1. CASE TickFails(w) \/ MarkFails(w) \/ MarkEscapes(w)
    BY <1>2, <2>1 DEF TickFails, MarkFails, MarkEscapes
  <2>2. ASSUME NEW b \in Blocks, ProbeFails(w, b) PROVE HashInv'
    BY <1>2, <2>2 DEF ProbeFails, LeaveForLater
  <2>3. ASSUME NEW a \in Dust, LaneThrows(w, a) PROVE HashInv'
    <3>1. UNCHANGED <<hash, known>>
      BY <2>3 DEF LaneThrows
    <3>2. \A x \in Dust : \/ row'[x] = row[x]
                         \/ row[x] = "PENDING"
                         \/ row'[x] = "FAILED"
      <4>1. row' \in {row, [row EXCEPT ![a] = IF @ = "PENDING" THEN "IN_FLIGHT"
                                                              ELSE @],
                      [row EXCEPT ![a] = "FAILED"]}
        BY <2>3 DEF LaneThrows
      <4> QED BY <1>1, <4>1 DEF TypeOK
    <3> QED BY <1>1, <3>1, <3>2 DEF TypeOK
  <2>4. ASSUME NEW a \in Dust, LaneCatches(w, a) PROVE HashInv'
    <3>1. UNCHANGED known
      BY <2>4 DEF LaneCatches
    <3>2. \/ UNCHANGED <<row, hash>>
          \/ /\ row' = [row EXCEPT ![a] = "PAID"]
             /\ hash' \subseteq hash \cup {a}
      BY <2>4 DEF LaneCatches
    <3> QED BY <1>1, <3>1, <3>2 DEF TypeOK
  <2>5. CASE Crash(w)
    BY <1>1, <2>5 DEF Crash, TypeOK
  <2> QED BY <1>8, <2>1, <2>2, <2>3, <2>4, <2>5 DEF Fault
<1> QED BY <1>3, <1>4, <1>5, <1>6, <1>7, <1>8 DEF Next

(* In every reachable state only decided rows have a hash.                 *)
LEMMA HashInvariant == Spec => []HashInv
<1>1. Init => HashInv
  BY InitTypeOK DEF Init, HashInv, HashMeansDecided, NothingKnown
<1> QED BY <1>1, NextHashInv, PTL DEF Spec

-----------------------------------------------------------------------------
(* The accounting of payments                                              *)

Pooled(a) == row[a] \in {"NONE", "PENDING"}

(* An entry still in the pool has never been sent and nobody works on it.  *)
PoolUntouched ==
  \A a \in Dust : Pooled(a) =>
    asked[a] = 0 /\ \A w \in Workers : lane[w][a] \notin Busy

(* One process at most works on an entry, however many there are.          *)
OneHolder ==
  \A a \in Dust, v \in Workers, w \in Workers :
    lane[v][a] \in Busy /\ lane[w][a] \in Busy => v = w

(* What a lane knows about the wallet.                                     *)
LaneKnows ==
  \A a \in Dust, w \in Workers :
    /\ lane[w][a] = "claimed" => asked[a] = 0
    /\ lane[w][a] = "asking" => asked[a] = 1 /\ adrift[a] = 0 /\ moved[a] = 0
    /\ lane[w][a] \in {"settled", "paid", "published"} => moved[a] = 1

(* The wallet settles or keeps open no more than it was asked for.         *)
WalletAccount ==
  \A a \in Dust : asked[a] <= 1 /\ adrift[a] + moved[a] <= asked[a]

(* A stored payment hash belongs to a settled payment.                     *)
HashIsBacked == \A a \in hash : moved[a] = 1

PaymentInv ==
  /\ TypeOK
  /\ PoolUntouched
  /\ OneHolder
  /\ LaneKnows
  /\ WalletAccount
  /\ HashIsBacked
  /\ PaidIsBacked

(* The accounting holds initially.                                         *)
LEMMA InitPaymentInv == Init => PaymentInv
  BY InitTypeOK
  DEF Init, PaymentInv, PoolUntouched, OneHolder, LaneKnows, WalletAccount,
      HashIsBacked, PaidIsBacked, Pooled, Busy

(* A quiet step keeps the accounting.                                      *)
LEMMA QuietPaymentInv ==
  ASSUME PaymentInv, TypeOK', Quiet
  PROVE  PaymentInv'
  BY DEF PaymentInv, Quiet, PoolUntouched, OneHolder, LaneKnows, WalletAccount,
         HashIsBacked, PaidIsBacked, Pooled

(* The tick loop keeps the accounting: it adds rows to the pool, empties it *)
(* when there is no client, queues rows, and reconciles.                   *)
LEMMA TickPaymentInv ==
  ASSUME NEW w \in Workers, PaymentInv, NothingKnown,
         TickStep(w) \/ NoClient(w)
  PROVE  PaymentInv'
<1>1. TypeOK /\ TypeOK'
  BY TickTypeOK DEF PaymentInv
<1>2. CASE Quiet
  BY <1>1, <1>2, QuietPaymentInv
<1>3. ASSUME NEW a \in Dust, ReconcileRow(w, a) PROVE PaymentInv'
  <2>1. UNCHANGED <<asked, adrift, moved, hash, lane>>
    BY <1>3 DEF ReconcileRow
  <2>2. PICK s \in ReconcileOutcomes(w, a) : row' = [row EXCEPT ![a] = s]
    BY <1>3 DEF ReconcileRow
  <2>3. s \in {"NONE", "PENDING"} => s = row[a]
    BY <2>2 DEF ReconcileOutcomes
  <2>4. s # "PAID"
    BY <2>2 DEF ReconcileOutcomes, NothingKnown
  <2>5. PoolUntouched'
    BY <1>1, <2>1, <2>2, <2>3 DEF PaymentInv, PoolUntouched, Pooled, TypeOK
  <2>6. PaidIsBacked'
    BY <1>1, <2>1, <2>2, <2>4 DEF PaymentInv, PaidIsBacked, TypeOK
  <2> QED BY <1>1, <2>1, <2>5, <2>6
          DEF PaymentInv, OneHolder, LaneKnows, WalletAccount, HashIsBacked
<1>4. ASSUME NEW a \in Dust, RecordDust(w, a) PROVE PaymentInv'
  <2>1. UNCHANGED <<asked, adrift, moved, hash, lane>>
    BY <1>4 DEF RecordDust
  <2>2. \A x \in Dust : /\ Pooled(x)' => Pooled(x)
                        /\ row'[x] = "PAID" => row[x] = "PAID"
    BY <1>1, <1>4 DEF RecordDust, Pooled, TypeOK
  <2> QED BY <1>1, <2>1, <2>2
          DEF PaymentInv, PoolUntouched, OneHolder, LaneKnows, WalletAccount,
              HashIsBacked, PaidIsBacked
<1>5. CASE NoClient(w)
  <2>1. UNCHANGED <<asked, adrift, moved, hash, lane>>
    BY <1>5 DEF NoClient
  <2>2. \A x \in Dust : /\ Pooled(x)' => Pooled(x)
                        /\ row'[x] = "PAID" => row[x] = "PAID"
    BY <1>1, <1>5 DEF NoClient, Pooled, TypeOK
  <2> QED BY <1>1, <2>1, <2>2
          DEF PaymentInv, PoolUntouched, OneHolder, LaneKnows, WalletAccount,
              HashIsBacked, PaidIsBacked
<1>6. CASE ListPending(w)
  <2>1. UNCHANGED <<asked, adrift, moved, hash, row>>
    BY <1>6 DEF ListPending
  <2>2. \A v \in Workers, x \in Dust :
          lane'[v][x] = lane[v][x] \/ lane'[v][x] = "queued"
    BY <1>1, <1>6 DEF ListPending, TypeOK
  <2> QED BY <1>1, <2>1, <2>2
          DEF PaymentInv, PoolUntouched, OneHolder, LaneKnows, WalletAccount,
              HashIsBacked, PaidIsBacked, Pooled, Busy
<1> QED BY <1>1, <1>2, <1>3, <1>4, <1>5, <1>6, TickIsQuiet

(* The claim takes the entry out of the pool, so nobody else holds it.     *)
LEMMA ClaimPaymentInv ==
  ASSUME NEW w \in Workers, NEW a \in Dust, PaymentInv, Claim(w, a)
  PROVE  PaymentInv'
<1>1. TypeOK /\ TypeOK'
  BY LaneTypeOK DEF PaymentInv, LaneStep
<1>2. UNCHANGED <<asked, adrift, moved, hash>>
  BY DEF Claim
<1>3. CASE row[a] = "PENDING"
  <2>1. /\ lane' = [lane EXCEPT ![w][a] = "claimed"]
        /\ row' = [row EXCEPT ![a] = "IN_FLIGHT"]
    BY <1>3 DEF Claim, LaneTo
  <2>2. asked[a] = 0 /\ \A v \in Workers : lane[v][a] \notin Busy
    BY <1>3 DEF PaymentInv, PoolUntouched, Pooled
  <2>3. PoolUntouched'
    BY <1>1, <1>2, <2>1 DEF PaymentInv, PoolUntouched, Pooled, TypeOK
  <2>4. OneHolder'
    BY <1>1, <2>1, <2>2 DEF PaymentInv, OneHolder, TypeOK
  <2>5. LaneKnows'
    BY <1>1, <1>2, <2>1, <2>2 DEF PaymentInv, LaneKnows, TypeOK
  <2> QED BY <1>1, <1>2, <2>1, <2>3, <2>4, <2>5
          DEF PaymentInv, WalletAccount, HashIsBacked, PaidIsBacked, TypeOK
<1>4. CASE row[a] # "PENDING"
  <2>1. UNCHANGED row /\ lane' = [lane EXCEPT ![w][a] = "done"]
    BY <1>4 DEF Claim, LaneTo
  <2>2. \A v \in Workers, x \in Dust :
          lane'[v][x] = lane[v][x] \/ lane'[v][x] = "done"
    BY <1>1, <2>1 DEF TypeOK
  <2> QED BY <1>1, <1>2, <2>1, <2>2
          DEF PaymentInv, PoolUntouched, OneHolder, LaneKnows, WalletAccount,
              HashIsBacked, PaidIsBacked, Pooled, Busy
<1> QED BY <1>3, <1>4

(* A lane that is at work moves on to another state: what must be shown of  *)
(* the step is only what concerns this entry.                              *)
LEMMA LanePaymentInv ==
  ASSUME NEW w \in Workers, NEW a \in Dust, NEW from \in Busy, NEW to,
         PaymentInv, TypeOK', LaneTo(w, a, from, to),
         \A x \in Dust \ {a} : /\ asked'[x] = asked[x]
                               /\ adrift'[x] = adrift[x]
                               /\ moved'[x] = moved[x]
                               /\ row'[x] = row[x]
                               /\ x \in hash' <=> x \in hash,
         ~Pooled(a)',
         /\ to = "claimed" => asked'[a] = 0
         /\ to = "asking" => asked'[a] = 1 /\ adrift'[a] = 0 /\ moved'[a] = 0
         /\ to \in {"settled", "paid", "published"} => moved'[a] = 1,
         asked'[a] <= 1 /\ adrift'[a] + moved'[a] <= asked'[a],
         a \in hash' => moved'[a] = 1,
         row'[a] = "PAID" => moved'[a] = 1
  PROVE  PaymentInv'
<1>1. TypeOK /\ lane[w][a] = from
  BY DEF PaymentInv, LaneTo
<1>2. lane' = [lane EXCEPT ![w][a] = to]
  BY DEF LaneTo
<1>3. lane'[w][a] = to
  BY <1>1, <1>2 DEF TypeOK
<1>4. \A v \in Workers, x \in Dust :
        v # w \/ x # a => lane'[v][x] = lane[v][x]
  BY <1>1, <1>2 DEF TypeOK
<1>5. \A v \in Workers : v # w => lane[v][a] \notin Busy
  BY <1>1 DEF PaymentInv, OneHolder
<1>6. PoolUntouched'
  BY <1>4 DEF PaymentInv, PoolUntouched, Pooled
<1>7. OneHolder'
  BY <1>4, <1>5 DEF PaymentInv, OneHolder
<1>8. LaneKnows'
  <2> SUFFICES ASSUME NEW x \in Dust, NEW v \in Workers
               PROVE  /\ lane'[v][x] = "claimed" => asked'[x] = 0
                      /\ lane'[v][x] = "asking" =>
                           asked'[x] = 1 /\ adrift'[x] = 0 /\ moved'[x] = 0
                      /\ lane'[v][x] \in {"settled", "paid", "published"} =>
                           moved'[x] = 1
    BY DEF LaneKnows
  <2>1. CASE x = a /\ v = w
    BY <1>3, <2>1
  <2>2. CASE x = a /\ v # w
    BY <1>4, <1>5, <2>2 DEF Busy
  <2>3. CASE x # a
    BY <1>4, <2>3 DEF PaymentInv, LaneKnows
  <2> QED BY <2>1, <2>2, <2>3
<1>9. WalletAccount'
  BY DEF PaymentInv, WalletAccount
<1>10. HashIsBacked' /\ PaidIsBacked'
  <2>1. \A x \in Dust : x \in hash' => moved'[x] = 1
    BY DEF PaymentInv, HashIsBacked
  <2>2. \A x \in Dust : row'[x] = "PAID" => moved'[x] = 1
    BY DEF PaymentInv, PaidIsBacked
  <2> QED BY <2>1, <2>2 DEF HashIsBacked, PaidIsBacked, TypeOK
<1> QED BY <1>6, <1>7, <1>8, <1>9, <1>10 DEF PaymentInv

(* Whoever works on an entry has taken it out of the pool.                 *)
LEMMA BusyNotPooled ==
  ASSUME NEW w \in Workers, NEW a \in Dust, PaymentInv, lane[w][a] \in Busy
  PROVE  ~Pooled(a)
  BY DEF PaymentInv, PoolUntouched

(* The steps of one payment keep the accounting.                           *)
LEMMA LaneStepPaymentInv ==
  ASSUME NEW w \in Workers, NEW a \in Dust, PaymentInv, LaneStep(w, a)
  PROVE  PaymentInv'
<1>1. TypeOK /\ TypeOK'
  BY LaneTypeOK DEF PaymentInv
<1>2. /\ asked[a] <= 1
      /\ adrift[a] + moved[a] <= asked[a]
      /\ asked[a] \in Nat /\ adrift[a] \in Nat /\ moved[a] \in Nat
      /\ a \in hash => moved[a] = 1
      /\ row[a] = "PAID" => moved[a] = 1
  BY DEF PaymentInv, WalletAccount, HashIsBacked, PaidIsBacked, TypeOK
<1>3. /\ lane[w][a] = "claimed" => asked[a] = 0
      /\ lane[w][a] = "asking" => asked[a] = 1 /\ adrift[a] = 0 /\ moved[a] = 0
      /\ lane[w][a] \in {"settled", "paid", "published"} => moved[a] = 1
  BY DEF PaymentInv, LaneKnows
<1>4. CASE Claim(w, a)
  BY <1>4, ClaimPaymentInv
<1>5. CASE Unpayable(w, a)
  <2>1. LaneTo(w, a, "claimed", "failing")
    BY <1>5 DEF Unpayable
  <2>2. UNCHANGED <<asked, adrift, moved, row, hash>>
    BY <1>5 DEF Unpayable
  <2>3. ~Pooled(a)
    BY <2>1, BusyNotPooled DEF LaneTo, Busy
  <2> QED BY <1>1, <1>2, <2>1, <2>2, <2>3, LanePaymentInv DEF Busy, Pooled
<1>6. CASE SendPayment(w, a)
  <2>1. LaneTo(w, a, "claimed", "asking")
    BY <1>6 DEF SendPayment
  <2>2. UNCHANGED <<adrift, moved, row, hash>>
    BY <1>6 DEF SendPayment
  <2>3. asked' = [asked EXCEPT ![a] = @ + 1] /\ asked[a] = 0
    BY <1>3, <1>6, <2>1 DEF SendPayment, LaneTo
  <2>4. asked'[a] = 1 /\ \A x \in Dust \ {a} : asked'[x] = asked[x]
    BY <1>1, <2>3 DEF TypeOK
  <2>5. ~Pooled(a)
    BY <2>1, BusyNotPooled DEF LaneTo, Busy
  <2> QED BY <1>1, <1>2, <2>1, <2>2, <2>3, <2>4, <2>5, LanePaymentInv
          DEF Busy, Pooled
<1>7. CASE WalletPays(w, a)
  <2>1. LaneTo(w, a, "asking", "settled")
    BY <1>7 DEF WalletPays
  <2>2. UNCHANGED <<asked, adrift, row, hash>>
    BY <1>7 DEF WalletPays
  <2>3. moved' = [moved EXCEPT ![a] = @ + 1]
    BY <1>7 DEF WalletPays
  <2>4. asked[a] = 1 /\ adrift[a] = 0 /\ moved[a] = 0
    BY <1>3, <2>1 DEF LaneTo
  <2>5. moved'[a] = 1 /\ \A x \in Dust \ {a} : moved'[x] = moved[x]
    BY <1>1, <2>3, <2>4 DEF TypeOK
  <2>6. ~Pooled(a)
    BY <2>1, BusyNotPooled DEF LaneTo, Busy
  <2> QED BY <1>1, <1>2, <2>1, <2>2, <2>4, <2>5, <2>6, LanePaymentInv
          DEF Busy, Pooled
<1>8. CASE WalletRefuses(w, a)
  <2>1. LaneTo(w, a, "asking", "failing")
    BY <1>8 DEF WalletRefuses
  <2>2. UNCHANGED <<asked, adrift, moved, row, hash>>
    BY <1>8 DEF WalletRefuses
  <2>3. ~Pooled(a)
    BY <2>1, BusyNotPooled DEF LaneTo, Busy
  <2> QED BY <1>1, <1>2, <2>1, <2>2, <2>3, LanePaymentInv DEF Busy, Pooled
<1>9. CASE TimeOut(w, a)
  <2>1. LaneTo(w, a, "asking", "failing")
    BY <1>9 DEF TimeOut
  <2>2. UNCHANGED <<asked, moved, row, hash>>
    BY <1>9 DEF TimeOut
  <2>3. adrift' = [adrift EXCEPT ![a] = @ + 1]
    BY <1>9 DEF TimeOut
  <2>4. asked[a] = 1 /\ adrift[a] = 0 /\ moved[a] = 0
    BY <1>3, <2>1 DEF LaneTo
  <2>5. adrift'[a] = 1 /\ \A x \in Dust \ {a} : adrift'[x] = adrift[x]
    BY <1>1, <2>3, <2>4 DEF TypeOK
  <2>6. ~Pooled(a)
    BY <2>1, BusyNotPooled DEF LaneTo, Busy
  <2> QED BY <1>1, <1>2, <2>1, <2>2, <2>4, <2>5, <2>6, LanePaymentInv
          DEF Busy, Pooled
<1>10. CASE WritePaid(w, a)
  <2>1. LaneTo(w, a, "settled", "paid")
    BY <1>10 DEF WritePaid
  <2>2. UNCHANGED <<asked, adrift, moved>>
    BY <1>10 DEF WritePaid
  <2>3. row' = [row EXCEPT ![a] = "PAID"]
    BY <1>10 DEF WritePaid
  <2>4. moved[a] = 1
    BY <1>3, <2>1 DEF LaneTo
  <2>5. row'[a] = "PAID" /\ \A x \in Dust \ {a} : row'[x] = row[x]
    BY <1>1, <2>3 DEF TypeOK
  <2>6. \A x \in Dust \ {a} : x \in hash' <=> x \in hash
    BY <1>10 DEF WritePaid
  <2> QED BY <1>1, <1>2, <2>1, <2>2, <2>4, <2>5, <2>6, LanePaymentInv
          DEF Busy, Pooled
<1>11. CASE PublishDust(w, a)
  <2>1. LaneTo(w, a, "paid", "done") \/ LaneTo(w, a, "paid", "published")
    BY <1>11 DEF PublishDust
  <2>2. UNCHANGED <<asked, adrift, moved, row, hash>>
    BY <1>11 DEF PublishDust
  <2>3. ~Pooled(a) /\ moved[a] = 1
    BY <1>3, <2>1, BusyNotPooled DEF LaneTo, Busy
  <2> QED BY <1>1, <1>2, <2>1, <2>2, <2>3, LanePaymentInv DEF Busy, Pooled
<1>12. CASE StampDust(w, a)
  <2>1. LaneTo(w, a, "published", "done")
    BY <1>12 DEF StampDust
  <2>2. UNCHANGED <<asked, adrift, moved, row, hash>>
    BY <1>12 DEF StampDust
  <2>3. ~Pooled(a)
    BY <2>1, BusyNotPooled DEF LaneTo, Busy
  <2> QED BY <1>1, <1>2, <2>1, <2>2, <2>3, LanePaymentInv DEF Busy, Pooled
<1>13. CASE WriteFailed(w, a)
  <2>1. LaneTo(w, a, "failing", "failed")
    BY <1>13 DEF WriteFailed
  <2>2. UNCHANGED <<asked, adrift, moved, hash>>
    BY <1>13 DEF WriteFailed
  <2>3. row'[a] = "FAILED" /\ \A x \in Dust \ {a} : row'[x] = row[x]
    BY <1>1, <1>13 DEF WriteFailed, TypeOK
  <2> QED BY <1>1, <1>2, <2>1, <2>2, <2>3, LanePaymentInv DEF Busy, Pooled
<1> QED BY <1>4, <1>5, <1>6, <1>7, <1>8, <1>9, <1>10, <1>11, <1>12, <1>13
        DEF LaneStep

(* Database errors keep the accounting: a claim that took effect although  *)
(* its call threw has left the pool, and nobody works on the entry.        *)
LEMMA ThrowPaymentInv ==
  ASSUME NEW w \in Workers, NEW a \in Dust, PaymentInv,
         LaneThrows(w, a) \/ LaneCatches(w, a)
  PROVE  PaymentInv'
<1>1. TypeOK /\ TypeOK'
  BY FaultTypeOK DEF PaymentInv, Fault
<1>2. UNCHANGED <<asked, adrift, moved>> /\ (LaneThrows(w, a) => hash' = hash)
  BY DEF LaneThrows, LaneCatches
<1>3. /\ asked[a] <= 1
      /\ adrift[a] + moved[a] <= asked[a]
      /\ a \in hash => moved[a] = 1
      /\ row[a] = "PAID" => moved[a] = 1
  BY DEF PaymentInv, WalletAccount, HashIsBacked, PaidIsBacked
<1>4. CASE LaneTo(w, a, "queued", "thrown") /\ hash' = hash /\
           row' \in {row, [row EXCEPT ![a] = IF @ = "PENDING" THEN "IN_FLIGHT"
                                                              ELSE @]}
  <2>1. \A v \in Workers, x \in Dust :
          lane'[v][x] = lane[v][x] \/ lane'[v][x] = "thrown"
    BY <1>1, <1>4 DEF LaneTo, TypeOK
  <2>2. \A x \in Dust : /\ Pooled(x)' => Pooled(x)
                        /\ row'[x] = "PAID" => row[x] = "PAID"
    <3>1. row' \in {row, [row EXCEPT ![a] = IF @ = "PENDING" THEN "IN_FLIGHT"
                                                            ELSE @]}
      BY <1>4
    <3>2. TypeOK
      BY <1>1
    <3> QED BY <3>1, <3>2 DEF Pooled, TypeOK
  <2> QED BY <1>1, <1>2, <1>4, <2>1, <2>2
          DEF PaymentInv, PoolUntouched, OneHolder, LaneKnows, WalletAccount,
              HashIsBacked, PaidIsBacked, Busy
<1>5. CASE LaneTo(w, a, "claimed", "thrown") /\ UNCHANGED <<row, hash>>
  <2>1. ~Pooled(a)
    BY <1>5, BusyNotPooled DEF LaneTo, Busy
  <2> QED BY <1>1, <1>2, <1>3, <1>5, <2>1, LanePaymentInv DEF Busy, Pooled
<1>6. CASE LaneTo(w, a, "failing", "thrown") /\ hash' = hash /\
           row' \in {row, [row EXCEPT ![a] = "FAILED"]}
  <2>1. ~Pooled(a)
    BY <1>6, BusyNotPooled DEF LaneTo, Busy
  <2>2. ~Pooled(a)' /\ (row'[a] = "PAID" => row[a] = "PAID")
    BY <1>1, <1>6, <2>1 DEF Pooled, TypeOK
  <2>3. \A x \in Dust \ {a} : row'[x] = row[x]
    BY <1>1, <1>6 DEF TypeOK
  <2> QED BY <1>1, <1>2, <1>3, <1>6, <2>2, <2>3, LanePaymentInv DEF Busy
<1>7. CASE LaneCatches(w, a)
  <2>1. PICK from \in {"settled", "paid", "published"} :
               LaneTo(w, a, from, "failing")
    BY <1>7 DEF LaneCatches
  <2>2. moved[a] = 1 /\ ~Pooled(a)
    BY <2>1, BusyNotPooled DEF LaneTo, Busy, PaymentInv, LaneKnows
  <2>3. row' \in {row, [row EXCEPT ![a] = "PAID"]}
    BY <1>7 DEF LaneCatches
  <2>4. ~Pooled(a)' /\ \A x \in Dust \ {a} : row'[x] = row[x]
    BY <1>1, <2>2, <2>3 DEF Pooled, TypeOK
  <2>5. \A x \in Dust \ {a} : x \in hash' <=> x \in hash
    BY <1>7 DEF LaneCatches
  <2> QED BY <1>1, <1>2, <1>3, <2>1, <2>2, <2>4, <2>5, LanePaymentInv DEF Busy
<1> QED BY <1>2, <1>4, <1>5, <1>6, <1>7 DEF LaneThrows

(* A crash abandons the requests of the process to the wallet.             *)
LEMMA CrashPaymentInv ==
  ASSUME NEW w \in Workers, PaymentInv, Crash(w)
  PROVE  PaymentInv'
<1>1. TypeOK /\ TypeOK'
  BY FaultTypeOK DEF PaymentInv, Fault
<1>2. UNCHANGED <<asked, moved, row, hash>>
  BY DEF Crash
<1>3. \A v \in Workers, x \in Dust :
        /\ v = w => lane'[v][x] = "none"
        /\ v # w => lane'[v][x] = lane[v][x]
  BY <1>1 DEF Crash, TypeOK
<1>4. \A x \in Dust :
        adrift'[x] = IF lane[w][x] = "asking" THEN adrift[x] + 1 ELSE adrift[x]
  BY DEF Crash
<1>5. PoolUntouched' /\ OneHolder'
  BY <1>2, <1>3 DEF PaymentInv, PoolUntouched, OneHolder, Pooled, Busy
<1>6. LaneKnows'
  <2> SUFFICES ASSUME NEW x \in Dust, NEW v \in Workers, v # w
               PROVE  /\ lane[v][x] = "claimed" => asked[x] = 0
                      /\ lane[v][x] = "asking" =>
                           asked[x] = 1 /\ adrift'[x] = 0 /\ moved[x] = 0
                      /\ lane[v][x] \in {"settled", "paid", "published"} =>
                           moved[x] = 1
    BY <1>2, <1>3 DEF LaneKnows
  <2>1. lane[v][x] = "asking" => lane[w][x] # "asking"
    BY DEF PaymentInv, OneHolder, Busy
  <2> QED BY <1>4, <2>1 DEF PaymentInv, LaneKnows
<1>7. WalletAccount'
  <2> SUFFICES ASSUME NEW x \in Dust
               PROVE  asked[x] <= 1 /\ adrift'[x] + moved[x] <= asked[x]
    BY <1>2 DEF WalletAccount
  <2>1. lane[w][x] = "asking" => asked[x] = 1 /\ adrift[x] = 0 /\ moved[x] = 0
    BY DEF PaymentInv, LaneKnows
  <2> QED BY <1>4, <2>1 DEF PaymentInv, WalletAccount
<1>8. HashIsBacked' /\ PaidIsBacked'
  BY <1>2 DEF PaymentInv, HashIsBacked, PaidIsBacked
<1> QED BY <1>1, <1>5, <1>6, <1>7, <1>8 DEF PaymentInv

(* The wallet settles a request whose caller is gone: only an entry that    *)
(* was asked for and not paid yet has one.                                 *)
LEMMA DecidePaymentInv ==
  ASSUME NEW a \in Dust, PaymentInv, DecideAdrift(a)
  PROVE  PaymentInv'
<1>1. TypeOK /\ TypeOK'
  BY WorldTypeOK DEF PaymentInv
<1>2. UNCHANGED <<asked, row, hash, lane>>
  BY DEF DecideAdrift
<1>3. asked[a] = 1 /\ adrift[a] = 1 /\ moved[a] = 0
  <2>1. asked[a] \in Nat /\ adrift[a] \in Nat /\ moved[a] \in Nat
    BY <1>1 DEF TypeOK
  <2>2. asked[a] <= 1 /\ adrift[a] + moved[a] <= asked[a] /\ adrift[a] > 0
    BY DEF DecideAdrift, PaymentInv, WalletAccount
  <2> QED BY <2>1, <2>2
<1>4. /\ adrift' = [adrift EXCEPT ![a] = 0]
      /\ moved' \in {moved, [moved EXCEPT ![a] = 1]}
  BY <1>3 DEF DecideAdrift
<1>5. /\ \A x \in Dust \ {a} : adrift'[x] = adrift[x] /\ moved'[x] = moved[x]
      /\ adrift'[a] = 0
      /\ moved'[a] \in {0, 1}
  BY <1>1, <1>3, <1>4 DEF TypeOK
<1>6. \A v \in Workers :
        lane[v][a] \notin {"asking", "settled", "paid", "published"}
  BY <1>3 DEF PaymentInv, LaneKnows
<1>7. LaneKnows'
  BY <1>2, <1>5, <1>6 DEF PaymentInv, LaneKnows
<1>8. WalletAccount'
  BY <1>2, <1>3, <1>5 DEF PaymentInv, WalletAccount
<1>9. HashIsBacked' /\ PaidIsBacked'
  BY <1>1, <1>2, <1>3, <1>5 DEF PaymentInv, HashIsBacked, PaidIsBacked, TypeOK
<1> QED BY <1>1, <1>2, <1>7, <1>8, <1>9
        DEF PaymentInv, PoolUntouched, OneHolder, Pooled

(* The accounting is inductive, given that recovery has no hash at hand.   *)
LEMMA NextPaymentInv ==
  PaymentInv /\ NothingKnown /\ [Next]_vars => PaymentInv'
<1> SUFFICES ASSUME PaymentInv, NothingKnown, [Next]_vars PROVE PaymentInv'
  OBVIOUS
<1>1. TypeOK /\ TypeOK'
  BY NextTypeOK DEF PaymentInv
<1>2. CASE UNCHANGED vars
  BY <1>1, <1>2, QuietPaymentInv DEF vars, Quiet
<1>3. ASSUME NEW b \in Blocks, Bury(b) \/ Reorg(b) PROVE PaymentInv'
  BY <1>1, <1>3, QuietPaymentInv DEF Bury, Reorg, Quiet
<1>4. ASSUME NEW a \in Dust, DecideAdrift(a) PROVE PaymentInv'
  BY <1>4, DecidePaymentInv
<1>5. ASSUME NEW w \in Workers, TickStep(w) \/ NoClient(w) PROVE PaymentInv'
  BY <1>5, TickPaymentInv
<1>6. ASSUME NEW w \in Workers, NEW a \in Dust, LaneStep(w, a) PROVE PaymentInv'
  BY <1>6, LaneStepPaymentInv
<1>7. ASSUME NEW w \in Workers, Fault(w) PROVE PaymentInv'
  <2>1. CASE TickFails(w)
    BY <1>1, <2>1, QuietPaymentInv DEF TickFails, Quiet
  <2>2. ASSUME NEW b \in Blocks, ProbeFails(w, b) PROVE PaymentInv'
    BY <1>1, <2>2, QuietPaymentInv DEF ProbeFails, LeaveForLater, Quiet
  <2>3. CASE MarkFails(w)
    BY <1>1, <2>3, QuietPaymentInv DEF MarkFails, Quiet
  <2>6. CASE MarkEscapes(w)
    BY <1>1, <2>6, QuietPaymentInv DEF MarkEscapes, Quiet
  <2>4. ASSUME NEW a \in Dust, LaneThrows(w, a) \/ LaneCatches(w, a)
        PROVE  PaymentInv'
    BY <2>4, ThrowPaymentInv
  <2>5. CASE Crash(w)
    BY <2>5, CrashPaymentInv
  <2> QED BY <1>7, <2>1, <2>2, <2>3, <2>4, <2>5, <2>6 DEF Fault
<1> QED BY <1>2, <1>3, <1>4, <1>5, <1>6, <1>7 DEF Next

(* The accounting holds in every reachable state.                          *)
LEMMA PaymentInvariant == Spec => []PaymentInv
  BY InitPaymentInv, NextPaymentInv, HashInvariant, PTL DEF Spec, HashInv

(* No dust entry is ever sent to the wallet twice, whatever crashes,       *)
(* errors, timeouts and parallel workers do.                               *)
THEOREM NeverPaidTwice == Spec => []AtMostOnePayment
<1>1. PaymentInv => AtMostOnePayment
  BY DEF PaymentInv, WalletAccount, AtMostOnePayment
<1> QED BY <1>1, PaymentInvariant, PTL

(* A row that says PAID stands for a payment the wallet has settled.       *)
THEOREM PaidRowsAreBacked == Spec => []PaidIsBacked
<1>1. PaymentInv => PaidIsBacked
  BY DEF PaymentInv
<1> QED BY <1>1, PaymentInvariant, PTL

-----------------------------------------------------------------------------
(* The fan-out implements the ledger                                       *)

(* A step that sends and settles nothing is a withdrawal or a stutter.     *)
LEMMA NoPaymentStep ==
  ASSUME TypeOK, UNCHANGED <<asked, moved>>,
         \A a \in Dust : Pooled(a)' => Pooled(a)
  PROVE  Ledger!LNext
  BY DEF Ledger!LNext, Ledger!Withdraw, Pooled

(* Sending and settling are the ledger's steps; every other step leaves the *)
(* wallet alone and never puts an entry back into the pool.                *)
LEMMA StepImplementsLedger ==
  ASSUME PaymentInv, [Next]_vars
  PROVE  Ledger!LNext
<1>1. TypeOK
  BY DEF PaymentInv
<1>2. CASE Quiet
  BY <1>1, <1>2, NoPaymentStep DEF Quiet, Pooled
<1>3. ASSUME NEW a \in Dust, DecideAdrift(a) PROVE Ledger!LNext
  <2>1. asked[a] \in Nat /\ adrift[a] \in Nat /\ moved[a] \in Nat
    BY <1>1 DEF TypeOK
  <2>2. adrift[a] + moved[a] <= asked[a] /\ adrift[a] > 0
    BY <1>3 DEF DecideAdrift, PaymentInv, WalletAccount
  <2>3. moved[a] < asked[a]
    BY <2>1, <2>2
  <2>4. UNCHANGED <<asked, row>>
    BY <1>3 DEF DecideAdrift
  <2>5. moved' = moved \/ moved' = [moved EXCEPT ![a] = @ + 1]
    BY <1>3 DEF DecideAdrift
  <2>6. CASE moved' = moved
    BY <1>1, <2>4, <2>6, NoPaymentStep DEF Pooled
  <2>7. CASE moved' = [moved EXCEPT ![a] = @ + 1]
    BY <2>3, <2>4, <2>7 DEF Ledger!LNext, Ledger!Move
  <2> QED BY <2>5, <2>6, <2>7
<1>4. ASSUME NEW w \in Workers, NEW a \in Dust, ReconcileRow(w, a)
      PROVE  Ledger!LNext
  <2>1. PICK s \in ReconcileOutcomes(w, a) : row' = [row EXCEPT ![a] = s]
    BY <1>4 DEF ReconcileRow
  <2>2. s \in {"NONE", "PENDING"} => s = row[a]
    BY <2>1 DEF ReconcileOutcomes
  <2>3. \A x \in Dust : Pooled(x)' => Pooled(x)
    BY <1>1, <2>1, <2>2 DEF Pooled, TypeOK
  <2>4. UNCHANGED <<asked, moved>>
    BY <1>4 DEF ReconcileRow
  <2> QED BY <1>1, <2>3, <2>4, NoPaymentStep
<1>5. ASSUME NEW w \in Workers, NEW a \in Dust, RecordDust(w, a)
      PROVE  Ledger!LNext
  <2>1. \A x \in Dust : Pooled(x)' => Pooled(x)
    BY <1>1, <1>5 DEF RecordDust, Pooled, TypeOK
  <2>2. UNCHANGED <<asked, moved>>
    BY <1>5 DEF RecordDust
  <2> QED BY <1>1, <2>1, <2>2, NoPaymentStep
<1>6. ASSUME NEW w \in Workers, NoClient(w) \/ ListPending(w)
      PROVE  Ledger!LNext
  <2>1. \A x \in Dust : Pooled(x)' => Pooled(x)
    BY <1>1, <1>6 DEF NoClient, ListPending, Pooled, TypeOK
  <2>2. UNCHANGED <<asked, moved>>
    BY <1>6 DEF NoClient, ListPending
  <2> QED BY <1>1, <2>1, <2>2, NoPaymentStep
<1>7. ASSUME NEW w \in Workers, NEW a \in Dust, LaneStep(w, a)
      PROVE  Ledger!LNext
  <2>1. CASE SendPayment(w, a)
    <3>1. lane[w][a] = "claimed"
      BY <2>1 DEF SendPayment, LaneTo
    <3>2. asked[a] = 0 /\ ~Pooled(a)
      BY <3>1, BusyNotPooled DEF PaymentInv, LaneKnows, Busy
    <3>3. asked' = [asked EXCEPT ![a] = 1] /\ UNCHANGED <<moved, row>>
      BY <2>1, <3>2 DEF SendPayment
    <3> QED BY <3>2, <3>3 DEF Ledger!LNext, Ledger!Send, Pooled
  <2>2. CASE WalletPays(w, a)
    <3>1. lane[w][a] = "asking"
      BY <2>2 DEF WalletPays, LaneTo
    <3>2. moved[a] < asked[a]
      BY <3>1 DEF PaymentInv, LaneKnows
    <3>3. moved' = [moved EXCEPT ![a] = @ + 1] /\ UNCHANGED <<asked, row>>
      BY <2>2 DEF WalletPays
    <3> QED BY <3>2, <3>3 DEF Ledger!LNext, Ledger!Move
  <2>3. CASE Claim(w, a) \/ WritePaid(w, a) \/ WriteFailed(w, a)
    <3>1. \A x \in Dust : Pooled(x)' => Pooled(x)
      BY <1>1, <2>3 DEF Claim, WritePaid, WriteFailed, Pooled, TypeOK
    <3>2. UNCHANGED <<asked, moved>>
      BY <2>3 DEF Claim, WritePaid, WriteFailed
    <3> QED BY <1>1, <3>1, <3>2, NoPaymentStep
  <2>4. CASE \/ Unpayable(w, a) \/ WalletRefuses(w, a) \/ TimeOut(w, a)
             \/ PublishDust(w, a) \/ StampDust(w, a)
    <3>1. UNCHANGED <<asked, moved, row>>
      BY <2>4 DEF Unpayable, WalletRefuses, TimeOut, PublishDust, StampDust
    <3> QED BY <1>1, <3>1, NoPaymentStep DEF Pooled
  <2> QED BY <1>7, <2>1, <2>2, <2>3, <2>4 DEF LaneStep
<1>8. ASSUME NEW w \in Workers, Fault(w) PROVE Ledger!LNext
  <2>1. CASE TickFails(w) \/ MarkFails(w) \/ MarkEscapes(w) \/ Crash(w)
    <3>1. UNCHANGED <<asked, moved, row>>
      BY <2>1 DEF TickFails, MarkFails, MarkEscapes, Crash
    <3> QED BY <1>1, <3>1, NoPaymentStep DEF Pooled
  <2>2. ASSUME NEW b \in Blocks, ProbeFails(w, b) PROVE Ledger!LNext
    <3>1. UNCHANGED <<asked, moved, row>>
      BY <2>2 DEF ProbeFails, LeaveForLater
    <3> QED BY <1>1, <3>1, NoPaymentStep DEF Pooled
  <2>3. ASSUME NEW a \in Dust, LaneThrows(w, a) \/ LaneCatches(w, a)
        PROVE  Ledger!LNext
    <3>1. row' \in {row, [row EXCEPT ![a] = IF @ = "PENDING" THEN "IN_FLIGHT"
                                                              ELSE @],
                    [row EXCEPT ![a] = "FAILED"], [row EXCEPT ![a] = "PAID"]}
      BY <2>3 DEF LaneThrows, LaneCatches
    <3>2. \A x \in Dust : Pooled(x)' => Pooled(x)
      BY <1>1, <3>1 DEF Pooled, TypeOK
    <3>3. UNCHANGED <<asked, moved>>
      BY <2>3 DEF LaneThrows, LaneCatches
    <3> QED BY <1>1, <3>2, <3>3, NoPaymentStep
  <2> QED BY <1>8, <2>1, <2>2, <2>3 DEF Fault
<1>9. CASE UNCHANGED vars
  BY <1>2, <1>9 DEF vars, Quiet
<1>10. ASSUME NEW b \in Blocks, Bury(b) \/ Reorg(b) PROVE Ledger!LNext
  BY <1>2, <1>10 DEF Bury, Reorg, Quiet
<1>11. ASSUME NEW w \in Workers, TickStep(w) \/ NoClient(w)
       PROVE  Ledger!LNext
  BY <1>1, <1>2, <1>4, <1>5, <1>6, <1>11, TickIsQuiet
<1> QED BY <1>3, <1>7, <1>8, <1>9, <1>10, <1>11 DEF Next

(* Crashes, errors and parallel workers included, the fan-out implements   *)
(* the payment ledger: taken once, asked for once, moved once.             *)
THEOREM FanoutKeepsLedger == Spec => KeepsLedger
<1>1. Init => Ledger!LInit
  BY DEF Init, Ledger!LInit
<1>2. PaymentInv /\ [Next]_vars
        => [Ledger!LNext]_<<{a \in Dust : row[a] \in {"NONE", "PENDING"}},
                            asked, moved>>
  BY StepImplementsLedger
<1> QED BY <1>1, <1>2, PaymentInvariant, PTL
        DEF Spec, KeepsLedger, Ledger!LSpec

-----------------------------------------------------------------------------
(* Maturity comes first                                                    *)

(* A block counts as deep once the node has reported it buried: it may     *)
(* leave the best chain afterwards.                                        *)
Deep(b) == b \in buried

(* What the tick loop has picked up is deep, except for a block it is about *)
(* to mark as an orphan.                                                   *)
LoopIsDeep ==
  \A w \in Workers :
    /\ \A b \in matured[w] : Deep(b)
    /\ \A b \in block[w] :
         pc[w] # "mark" \/ verdict[w] # "ORPHANED" => Deep(b)
    /\ \A a \in todo[w] : Deep(a[1])

(* A block is marked mature, and has rows, lanes and requests, only if deep.*)
RecordsAreDeep ==
  /\ \A b \in Blocks : blk[b] \in {"MATURED", "DUST_FANNED_OUT"} => Deep(b)
  /\ \A a \in directRow : Deep(a[1])
  /\ \A a \in Dust : row[a] # "NONE" \/ asked[a] > 0 => Deep(a[1])
  /\ \A w \in Workers, a \in Dust : lane[w][a] # "none" => Deep(a[1])

(* A block that is buried now has been reported so.                        *)
ChainIsKnown == \A b \in Blocks : chain[b] = "deep" => Deep(b)

MaturityInv == TypeOK /\ ChainIsKnown /\ LoopIsDeep /\ RecordsAreDeep

(* The tick loop picks up, marks and records deep blocks only.             *)
LEMMA TickMaturityInv ==
  ASSUME NEW w \in Workers, MaturityInv, TypeOK', TickStep(w) \/ NoClient(w)
  PROVE  MaturityInv'
<1> USE SnapshotAssumption
    DEF MaturityInv, ChainIsKnown, LoopIsDeep, RecordsAreDeep, Deep, Goto, Of
<1>1. CASE Start(w)
  BY <1>1 DEF Start, TypeOK
<1>2. ASSUME NEW a \in Dust, ReconcileRow(w, a) PROVE MaturityInv'
  <2>1. PICK s \in ReconcileOutcomes(w, a) : row' = [row EXCEPT ![a] = s]
    BY <1>2 DEF ReconcileRow
  <2>2. Deep(a[1])
    BY <1>2 DEF ReconcileRow
  <2> QED BY <1>2, <2>1, <2>2 DEF ReconcileRow, TypeOK
<1>3. ASSUME NEW a \in Dust, RecordDust(w, a) PROVE MaturityInv'
  BY <1>3 DEF RecordDust, TypeOK
<1>4. CASE ReconcileDone(w)
  BY <1>4 DEF ReconcileDone, TypeOK
<1>5. CASE FindCandidates(w)
  BY <1>5 DEF FindCandidates, TypeOK
<1>6. ASSUME NEW b \in Blocks, ProbeTooYoung(w, b) PROVE MaturityInv'
  BY <1>6 DEF ProbeTooYoung, LeaveForLater, TypeOK
<1>7. ASSUME NEW b \in Blocks, ProbeVerdict(w, b) PROVE MaturityInv'
  BY <1>7 DEF ProbeVerdict, TypeOK
<1>8. ASSUME NEW b \in Blocks, PickBlock(w, b) PROVE MaturityInv'
  BY <1>8 DEF PickBlock, NextBlock, TypeOK
<1>9. CASE MarkBlock(w)
  BY <1>9 DEF MarkBlock, TypeOK
<1>10. CASE EndTick(w)
  BY <1>10 DEF EndTick, NextBlock, TypeOK
<1>11. ASSUME NEW a \in Direct, RecordDirect(w, a) PROVE MaturityInv'
  BY <1>11 DEF RecordDirect, TypeOK
<1>12. CASE StampDirect(w)
  BY <1>12 DEF StampDirect, TypeOK
<1>13. CASE DirectDone(w)
  BY <1>13 DEF DirectDone, TypeOK
<1>14. CASE DustDone(w) \/ PassGate(w)
  BY <1>14 DEF DustDone, PassGate, TypeOK
<1>15. CASE GateRefuses(w) \/ FanoutRejects(w)
  <2>1. AbandonTick(w) /\ UNCHANGED <<external, database, verdict, lane>>
    BY <1>15 DEF GateRefuses, FanoutRejects
  <2> QED BY <2>1 DEF AbandonTick, TypeOK
<1>16. CASE ListPending(w)
  BY <1>16 DEF ListPending, TypeOK
<1>17. CASE AllDrained(w)
  BY <1>17 DEF AllDrained, TypeOK
<1>18. CASE CloseBlock(w)
  BY <1>18 DEF CloseBlock, TypeOK
<1>19. CASE NoClient(w)
  BY <1>19 DEF NoClient, TypeOK
<1> QED BY <1>1, <1>2, <1>3, <1>4, <1>5, <1>6, <1>7, <1>8, <1>9, <1>10, <1>11,
           <1>12, <1>13, <1>14, <1>15, <1>16, <1>17, <1>18, <1>19
        DEF TickStep

(* A lane that moves on works for a deep block, as it did before.          *)
LEMMA LaneMaturityInv ==
  ASSUME NEW w \in Workers, NEW a \in Dust, NEW from \in LaneState \ {"none"},
         NEW to, MaturityInv, TypeOK', LaneTo(w, a, from, to),
         UNCHANGED <<chain, buried, blk, directRow, pc, matured, block, verdict,
                     todo>>,
         \A x \in Dust \ {a} : row'[x] = row[x] /\ asked'[x] = asked[x]
  PROVE  MaturityInv'
<1>1. Deep(a[1])
  BY DEF MaturityInv, RecordsAreDeep, LaneTo
<1>2. \A v \in Workers, x \in Dust : x # a => lane'[v][x] = lane[v][x]
  BY DEF MaturityInv, TypeOK, LaneTo
<1> QED BY <1>1, <1>2
        DEF MaturityInv, ChainIsKnown, LoopIsDeep, RecordsAreDeep, Deep

(* The steps of one payment concern a deep block.                          *)
LEMMA PaymentMaturityInv ==
  ASSUME NEW w \in Workers, NEW a \in Dust, MaturityInv, TypeOK',
         LaneStep(w, a) \/ LaneThrows(w, a) \/ LaneCatches(w, a)
  PROVE  MaturityInv'
<1>1. TypeOK
  BY DEF MaturityInv
<1>2. PICK from \in LaneState \ {"none"}, to \in LaneState :
             LaneTo(w, a, from, to)
  BY DEF LaneStep, Claim, Unpayable, SendPayment, WalletPays, WalletRefuses,
         TimeOut, WritePaid, PublishDust, StampDust, WriteFailed, LaneThrows,
         LaneCatches, LaneState, Busy
<1>3. UNCHANGED <<chain, buried, blk, directRow, pc, matured, block, verdict,
                  todo>>
  BY DEF LaneStep, Claim, Unpayable, SendPayment, WalletPays, WalletRefuses,
         TimeOut, WritePaid, PublishDust, StampDust, WriteFailed, LaneThrows,
         LaneCatches
<1>4. \A x \in Dust \ {a} : asked'[x] = asked[x]
  <2>1. asked' = asked \/ asked' = [asked EXCEPT ![a] = @ + 1]
    BY DEF LaneStep, Claim, Unpayable, SendPayment, WalletPays, WalletRefuses,
           TimeOut, WritePaid, PublishDust, StampDust, WriteFailed, LaneThrows,
           LaneCatches
  <2> QED BY <1>1, <2>1 DEF TypeOK
<1>5. \A x \in Dust \ {a} : row'[x] = row[x]
  <2>1. \/ row' = row
        \/ row' = [row EXCEPT ![a] = "IN_FLIGHT"]
        \/ row' = [row EXCEPT ![a] = "PAID"]
        \/ row' = [row EXCEPT ![a] = "FAILED"]
        \/ row' = [row EXCEPT ![a] = IF @ = "PENDING" THEN "IN_FLIGHT" ELSE @]
    BY DEF LaneStep, Claim, Unpayable, SendPayment, WalletPays, WalletRefuses,
           TimeOut, WritePaid, PublishDust, StampDust, WriteFailed, LaneThrows,
           LaneCatches
  <2> QED BY <1>1, <2>1 DEF TypeOK
<1> QED BY <1>2, <1>3, <1>4, <1>5, LaneMaturityInv

(* Maturity is inductive: what was reported buried stays so.               *)
LEMMA NextMaturityInv == MaturityInv /\ [Next]_vars => MaturityInv'
<1> SUFFICES ASSUME MaturityInv, [Next]_vars PROVE MaturityInv'
  OBVIOUS
<1>1. TypeOK /\ TypeOK'
  BY NextTypeOK DEF MaturityInv
<1> USE DEF MaturityInv, ChainIsKnown, LoopIsDeep, RecordsAreDeep, Deep
<1>2. CASE UNCHANGED vars
  BY <1>1, <1>2 DEF vars
<1>3. ASSUME NEW b \in Blocks, Bury(b) \/ Reorg(b) PROVE MaturityInv'
  <2>1. /\ \A c \in Blocks : Deep(c) => Deep(c)'
        /\ ChainIsKnown'
    BY <1>1, <1>3 DEF Bury, Reorg, TypeOK
  <2>2. UNCHANGED <<blk, directRow, row, asked, lane, pc, matured, block,
                    verdict, todo>>
    BY <1>3 DEF Bury, Reorg
  <2> QED BY <1>1, <2>1, <2>2, SnapshotAssumption DEF TypeOK
<1>4. ASSUME NEW a \in Dust, DecideAdrift(a) PROVE MaturityInv'
  BY <1>1, <1>4 DEF DecideAdrift
<1>5. ASSUME NEW w \in Workers, TickStep(w) \/ NoClient(w) PROVE MaturityInv'
  BY <1>1, <1>5, TickMaturityInv
<1>6. ASSUME NEW w \in Workers, NEW a \in Dust,
             LaneStep(w, a) \/ LaneThrows(w, a) \/ LaneCatches(w, a)
      PROVE  MaturityInv'
  BY <1>1, <1>6, PaymentMaturityInv
<1>7. ASSUME NEW w \in Workers, Fault(w) PROVE MaturityInv'
  <2>1. CASE TickFails(w)
    BY <1>1, <2>1 DEF TickFails, AbandonTick, TypeOK
  <2>2. ASSUME NEW b \in Blocks, ProbeFails(w, b) PROVE MaturityInv'
    BY <1>1, <2>2 DEF ProbeFails, LeaveForLater
  <2>3. CASE MarkFails(w)
    BY <1>1, <2>3 DEF MarkFails, Goto, TypeOK
  <2>4. CASE Crash(w)
    <3>1. UNCHANGED <<chain, buried, blk, directRow, row, asked>>
      BY <2>4 DEF Crash
    <3>2. \A v \in Workers, x \in Dust :
            lane'[v][x] = "none" \/ lane'[v][x] = lane[v][x]
      BY <1>1, <2>4 DEF Crash, TypeOK
    <3>3. LoopIsDeep'
      BY <1>1, <2>4, <3>1 DEF Crash, TypeOK
    <3> QED BY <1>1, <3>1, <3>2, <3>3
  <2>5. CASE MarkEscapes(w)
    <3>1. PICK b \in block[w] :
                 blk' \in {blk, [blk EXCEPT ![b] = "ORPHANED"]}
      BY <2>5 DEF MarkEscapes
    <3>2. \A c \in Blocks : blk'[c] \in {"MATURED", "DUST_FANNED_OUT"} =>
                             blk[c] \in {"MATURED", "DUST_FANNED_OUT"}
      BY <1>1, <3>1 DEF TypeOK
    <3> QED BY <1>1, <2>5, <3>2 DEF MarkEscapes, AbandonTick, TypeOK
  <2> QED BY <1>6, <1>7, <2>1, <2>2, <2>3, <2>4, <2>5 DEF Fault
<1> QED BY <1>2, <1>3, <1>4, <1>5, <1>6, <1>7 DEF Next

(* Nothing is recorded or sent for a block the node never had buried,      *)
(* whatever the chain does between the query and the update, or later.     *)
THEOREM MaturityComesFirst == Spec => []NothingBeforeMaturity
<1>1. Init => MaturityInv
  BY InitTypeOK
  DEF Init, MaturityInv, ChainIsKnown, LoopIsDeep, RecordsAreDeep, Deep
<1>2. MaturityInv => NothingBeforeMaturity
  BY DEF MaturityInv, RecordsAreDeep, Deep, NothingBeforeMaturity
<1> QED BY <1>1, <1>2, NextMaturityInv, PTL DEF Spec

=============================================================================
