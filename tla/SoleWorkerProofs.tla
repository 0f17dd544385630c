-------------------------- MODULE SoleWorkerProofs --------------------------
(***************************************************************************)
(* What the payouts worker promises when it is the only process: statuses  *)
(* move forward, one receipt goes out per row, and a block is closed only  *)
(* over payments that all succeeded.  infrastructure/coolify starts one     *)
(* payouts container; two of them break each of the three promises, while  *)
(* those of PayoutWorkerProofs hold for any number.                        *)
(***************************************************************************)
EXTENDS PayoutWorkerProofs

USE DEF external, database, worker, history, faults, tick

(* The deployment of the repository: one process of this worker.           *)
SoleWorker == \E w : Workers = {w}

-----------------------------------------------------------------------------
(* What the tick loop holds agrees with the database                       *)

(* Where the tick loop is working on one block.                            *)
Working == {"direct", "stamp", "dust", "gate", "list", "paying", "close"}

(* A candidate is FOUND, and so is the block about to be marked; a block    *)
(* that waits to be paid out, or is being paid out, is MATURED.  The loop  *)
(* works on one block at a time.                                           *)
Hands(w) ==
  /\ \A b \in block[w], c \in block[w] : b = c
  /\ \A b \in cand[w] : blk[b] = "FOUND"
  /\ pc[w] = "mark" =>
       /\ verdict[w] \in {"MATURED", "ORPHANED"}
       /\ \A b \in block[w] : blk[b] = "FOUND" /\ b \notin cand[w]
  /\ \A b \in matured[w] : blk[b] = "MATURED"
  /\ pc[w] \in Working =>
       \A b \in block[w] : blk[b] = "MATURED" /\ b \notin matured[w]
  /\ pc[w] \in {"direct", "stamp", "dust"} =>
       \A a \in todo[w] : a[1] \in block[w]

HandsInv == SoleWorker /\ TypeOK /\ \A w \in Workers : Hands(w)

(* The tick loop keeps its hands in agreement.                             *)
LEMMA TickHands ==
  ASSUME NEW w \in Workers, TypeOK, Hands(w), TickStep(w) \/ NoClient(w)
  PROVE  Hands(w)'
<1> USE SnapshotAssumption DEF Goto, Of, Hands, Working
<1>1. CASE Start(w)
  BY <1>1 DEF Start, TypeOK
<1>2. ASSUME NEW a \in Dust, ReconcileRow(w, a) \/ RecordDust(w, a)
      PROVE  Hands(w)'
  BY <1>2 DEF ReconcileRow, RecordDust, TypeOK
<1>3. CASE ReconcileDone(w)
  BY <1>3 DEF ReconcileDone, TypeOK
<1>4. CASE FindCandidates(w)
  <2>1. cand'[w] \subseteq {b \in Blocks : blk[b] = "FOUND"}
    BY <1>4 DEF FindCandidates, TypeOK
  <2>2. pc'[w] = "probe" /\ UNCHANGED <<blk, matured, block, verdict, todo>>
    BY <1>4 DEF FindCandidates, TypeOK
  <2> QED BY <2>1, <2>2
<1>5. ASSUME NEW b \in Blocks, ProbeTooYoung(w, b) PROVE Hands(w)'
  BY <1>5 DEF ProbeTooYoung, LeaveForLater, TypeOK
<1>6. ASSUME NEW b \in Blocks, ProbeVerdict(w, b) PROVE Hands(w)'
  BY <1>6 DEF ProbeVerdict, TypeOK
<1>7. ASSUME NEW b \in Blocks, PickBlock(w, b) PROVE Hands(w)'
  BY <1>7 DEF PickBlock, TypeOK
<1>8. CASE MarkBlock(w)
  <2>1. PICK b \in block[w] :
               /\ blk' = [blk EXCEPT ![b] = verdict[w]]
               /\ matured' = IF verdict[w] = "MATURED"
                               THEN [matured EXCEPT ![w] = @ \cup {b}]
                               ELSE matured
    BY <1>8 DEF MarkBlock
  <2>2. /\ pc'[w] = "probe" /\ pc[w] = "mark"
        /\ block'[w] = {} /\ UNCHANGED cand
    BY <1>8 DEF MarkBlock, TypeOK
  <2>3. b \in Blocks /\ blk[b] = "FOUND" /\ b \notin cand[w]
    BY <2>2 DEF TypeOK
  <2>4. \A c \in Blocks : blk'[c] = IF c = b THEN verdict[w] ELSE blk[c]
    BY <2>1 DEF TypeOK
  <2>5. matured'[w] \subseteq IF verdict[w] = "MATURED" THEN matured[w] \cup {b}
                                                        ELSE matured[w]
    BY <2>1 DEF TypeOK
  <2>6. cand[w] \subseteq Blocks /\ matured[w] \subseteq Blocks
    BY DEF TypeOK
  <2>7. \A c \in cand'[w] : blk'[c] = "FOUND"
    BY <2>2, <2>3, <2>4, <2>6
  <2>8. \A c \in matured'[w] : blk'[c] = "MATURED"
    <3>1. \A c \in matured[w] : c # b
      BY <2>3
    <3> QED BY <2>2, <2>3, <2>4, <2>5, <2>6, <3>1
  <2> QED BY <2>2, <2>7, <2>8
<1>9. CASE EndTick(w)
  BY <1>9 DEF EndTick, TypeOK
<1>10. ASSUME NEW a \in Direct, RecordDirect(w, a) PROVE Hands(w)'
  <2>1. pc[w] = "direct" /\ pc'[w] \in {"direct", "stamp"}
    BY <1>10 DEF RecordDirect, TypeOK
  <2>2. todo'[w] \subseteq todo[w]
    BY <1>10 DEF RecordDirect, TypeOK
  <2>3. UNCHANGED <<blk, cand, matured, block, verdict>>
    BY <1>10 DEF RecordDirect
  <2> QED BY <2>1, <2>2, <2>3
<1>11. CASE StampDirect(w)
  BY <1>11 DEF StampDirect, TypeOK
<1>12. CASE DirectDone(w)
  BY <1>12 DEF DirectDone, TypeOK
<1>13. CASE DustDone(w) \/ PassGate(w)
  BY <1>13 DEF DustDone, PassGate, TypeOK
<1>14. CASE GateRefuses(w) \/ FanoutRejects(w)
  BY <1>14 DEF GateRefuses, FanoutRejects, AbandonTick, TypeOK
<1>15. CASE ListPending(w)
  BY <1>15 DEF ListPending, TypeOK
<1>16. CASE AllDrained(w)
  BY <1>16 DEF AllDrained, TypeOK
<1>17. CASE CloseBlock(w)
  <2>1. PICK b \in block[w] : blk' = [blk EXCEPT ![b] = "DUST_FANNED_OUT"]
    BY <1>17 DEF CloseBlock
  <2>2. /\ pc'[w] = "pick" /\ pc[w] = "close"
        /\ block'[w] = {} /\ UNCHANGED <<cand, matured>>
    BY <1>17 DEF CloseBlock, TypeOK
  <2>3. b \in Blocks /\ blk[b] = "MATURED" /\ b \notin matured[w]
    BY <2>2 DEF TypeOK
  <2> QED BY <2>1, <2>2, <2>3 DEF TypeOK
<1>18. CASE NoClient(w)
  BY <1>18 DEF NoClient, TypeOK
<1> QED BY <1>1, <1>2, <1>3, <1>4, <1>5, <1>6, <1>7, <1>8, <1>9, <1>10, <1>11,
           <1>12, <1>13, <1>14, <1>15, <1>16, <1>17, <1>18
        DEF TickStep

(* The steps of one payment touch neither statuses nor the tick loop.      *)
LEMMA LaneLeavesTick ==
  ASSUME NEW w \in Workers, NEW a \in Dust,
         LaneStep(w, a) \/ LaneThrows(w, a) \/ LaneCatches(w, a)
  PROVE  UNCHANGED <<blk, tick>>
  BY DEF LaneStep, Claim, Unpayable, SendPayment, WalletPays, WalletRefuses,
         TimeOut, WritePaid, PublishDust, StampDust, WriteFailed, LaneThrows,
         LaneCatches

(* Faults of the tick loop keep its hands in agreement.                    *)
LEMMA FaultHands ==
  ASSUME NEW w \in Workers, TypeOK, Hands(w), Fault(w)
  PROVE  Hands(w)'
<1> USE DEF Hands, Working
<1>1. CASE TickFails(w)
  BY <1>1 DEF TickFails, AbandonTick, TypeOK
<1>2. ASSUME NEW b \in Blocks, ProbeFails(w, b) PROVE Hands(w)'
  BY <1>2 DEF ProbeFails, LeaveForLater, TypeOK
<1>3. CASE MarkFails(w)
  <2>1. PICK b \in block[w] : blk' \in {blk, [blk EXCEPT ![b] = verdict[w]]}
    BY <1>3 DEF MarkFails
  <2>2. /\ pc'[w] = "probe" /\ pc[w] = "mark"
        /\ block'[w] = {} /\ UNCHANGED <<cand, matured>>
    BY <1>3 DEF MarkFails, Goto, TypeOK
  <2>3. b \in Blocks /\ blk[b] = "FOUND" /\ b \notin cand[w]
    BY <2>2 DEF TypeOK
  <2>4. \A c \in Blocks : c # b => blk'[c] = blk[c]
    BY <2>1 DEF TypeOK
  <2> QED BY <2>2, <2>3, <2>4 DEF TypeOK
<1>4. ASSUME NEW a \in Dust, LaneThrows(w, a) \/ LaneCatches(w, a)
      PROVE  Hands(w)'
  BY <1>4, LaneLeavesTick
<1>5. CASE Crash(w)
  BY <1>5 DEF Crash, TypeOK
<1>6. CASE MarkEscapes(w)
  BY <1>6 DEF MarkEscapes, AbandonTick, TypeOK
<1> QED BY <1>1, <1>2, <1>3, <1>4, <1>5, <1>6 DEF Fault

(* With one process, what the tick loop holds stays true of the database.  *)
LEMMA NextHandsInv == HandsInv /\ [Next]_vars => HandsInv'
<1> SUFFICES ASSUME HandsInv, [Next]_vars PROVE HandsInv'
  OBVIOUS
<1>1. SoleWorker /\ TypeOK /\ TypeOK' /\ \A w \in Workers : Hands(w)
  BY NextTypeOK DEF HandsInv
<1>2. CASE UNCHANGED <<blk, tick>>
  BY <1>1, <1>2 DEF HandsInv, Hands, SoleWorker
<1>3. CASE UNCHANGED vars
  BY <1>2, <1>3 DEF vars
<1>4. ASSUME NEW b \in Blocks, Bury(b) \/ Reorg(b) PROVE HandsInv'
  BY <1>2, <1>4 DEF Bury, Reorg
<1>5. ASSUME NEW a \in Dust, DecideAdrift(a) PROVE HandsInv'
  BY <1>2, <1>5 DEF DecideAdrift
<1>6. ASSUME NEW w \in Workers, TickStep(w) \/ NoClient(w) \/ Fault(w)
      PROVE  HandsInv'
  <2>1. Hands(w)'
    BY <1>1, <1>6, TickHands, FaultHands
  <2> QED BY <1>1, <2>1 DEF HandsInv, SoleWorker
<1>7. ASSUME NEW w \in Workers, NEW a \in Dust, LaneStep(w, a)
      PROVE  HandsInv'
  BY <1>2, <1>7, LaneLeavesTick
<1> QED BY <1>3, <1>4, <1>5, <1>6, <1>7 DEF Next

(* It is true in every reachable state.                                    *)
LEMMA HandsInvariant == SoleWorker /\ Spec => []HandsInv
<1>1. SoleWorker /\ Init => HandsInv
  BY InitTypeOK DEF Init, HandsInv, Hands, Working
<1> QED BY <1>1, NextHandsInv, PTL DEF Spec

-----------------------------------------------------------------------------
(* Statuses move forward                                                   *)

Forward ==
  \A b \in Blocks :
    \/ blk'[b] = blk[b]
    \/ blk[b] = "FOUND" /\ blk'[b] \in {"MATURED", "ORPHANED"}
    \/ blk[b] = "MATURED" /\ blk'[b] = "DUST_FANNED_OUT"

(* Only the maturity watcher and the end of a fan-out write a status.      *)
LEMMA WhoWritesStatus ==
  ASSUME [Next]_vars
  PROVE  \/ UNCHANGED blk
         \/ \E w \in Workers : \/ MarkBlock(w) \/ CloseBlock(w)
                               \/ MarkFails(w) \/ MarkEscapes(w)
<1>1. ASSUME NEW w \in Workers, TickStep(w) \/ NoClient(w),
             ~MarkBlock(w), ~CloseBlock(w)
      PROVE  UNCHANGED blk
  BY <1>1 DEF TickStep, Start, ReconcileRow, RecordDust, ReconcileDone,
       FindCandidates, ProbeTooYoung, LeaveForLater, ProbeVerdict, PickBlock,
       EndTick, RecordDirect, StampDirect, DirectDone, DustDone, PassGate,
       GateRefuses, ListPending, AllDrained, FanoutRejects, NoClient
<1>2. ASSUME NEW w \in Workers, NEW a \in Dust, LaneStep(w, a)
      PROVE  UNCHANGED blk
  BY <1>2, LaneLeavesTick
<1>3. ASSUME NEW w \in Workers, Fault(w), ~MarkFails(w), ~MarkEscapes(w)
      PROVE  UNCHANGED blk
  <2>1. ASSUME NEW a \in Dust, LaneThrows(w, a) \/ LaneCatches(w, a)
        PROVE  UNCHANGED blk
    BY <2>1, LaneLeavesTick
  <2> QED BY <1>3, <2>1 DEF Fault, TickFails, ProbeFails, LeaveForLater, Crash
<1>4. CASE UNCHANGED vars
  BY <1>4 DEF vars
<1>5. ASSUME NEW b \in Blocks, Bury(b) \/ Reorg(b) PROVE UNCHANGED blk
  BY <1>5 DEF Bury, Reorg
<1>6. ASSUME NEW a \in Dust, DecideAdrift(a) PROVE UNCHANGED blk
  BY <1>6 DEF DecideAdrift
<1> QED BY <1>1, <1>2, <1>3, <1>4, <1>5, <1>6 DEF Next

(* They find the status they expect, so it moves forward.                  *)
LEMMA StepMovesForward ==
  ASSUME HandsInv, [Next]_vars
  PROVE  Forward
<1>1. TypeOK /\ \A w \in Workers : Hands(w)
  BY DEF HandsInv
<1>2. CASE UNCHANGED blk
  BY <1>2 DEF Forward
<1>3. ASSUME NEW w \in Workers, MarkBlock(w) \/ MarkFails(w) \/ MarkEscapes(w)
      PROVE  Forward
  <2>1. PICK b \in block[w] : blk' \in {blk, [blk EXCEPT ![b] = verdict[w]]}
    BY <1>3 DEF MarkBlock, MarkFails, MarkEscapes
  <2>2. pc[w] = "mark"
    BY <1>3 DEF MarkBlock, MarkFails, MarkEscapes, Goto
  <2>3. blk[b] = "FOUND" /\ verdict[w] \in {"MATURED", "ORPHANED"}
    BY <1>1, <2>2 DEF Hands
  <2> QED BY <1>1, <2>1, <2>3 DEF Forward, TypeOK
<1>4. ASSUME NEW w \in Workers, CloseBlock(w) PROVE Forward
  <2>1. PICK b \in block[w] : blk' = [blk EXCEPT ![b] = "DUST_FANNED_OUT"]
    BY <1>4 DEF CloseBlock
  <2>2. pc[w] = "close"
    BY <1>4 DEF CloseBlock, Goto
  <2>3. blk[b] = "MATURED"
    BY <1>1, <2>2 DEF Hands, Working
  <2> QED BY <1>1, <2>1, <2>3 DEF Forward, TypeOK
<1> QED BY <1>2, <1>3, <1>4, WhoWritesStatus

(* With one process a block's status only moves forward: an orphan stays an *)
(* orphan, and a block that is fanned out is never put back to MATURED.    *)
THEOREM StatusOnlyForward == SoleWorker /\ Spec => StatusMovesForward
<1>1. HandsInv /\ [Next]_vars => [Forward]_vars
  BY StepMovesForward
<1> QED BY <1>1, HandsInvariant, PTL DEF Spec, StatusMovesForward, Forward

-----------------------------------------------------------------------------
(* A closed block is paid                                                  *)

(* The payout of the block has not begun: it waits for the node, for its    *)
(* turn in the tick, or for its direct outputs to be recorded.             *)
Unpaid(w, b) ==
  \/ blk[b] = "FOUND"
  \/ b \in matured[w]
  \/ pc[w] \in {"direct", "stamp"} /\ b \in block[w]

(* How far the row of an entry is, by where the tick loop is.              *)
RowByLoop(w, a) ==
  /\ Unpaid(w, a[1]) => row[a] = "NONE" /\ lane[w][a] = "none"
  /\ pc[w] = "dust" /\ a[1] \in block[w] =>
       /\ lane[w][a] = "none"
       /\ row[a] = IF a \in todo[w] THEN "NONE" ELSE "PENDING"
  /\ pc[w] \in {"gate", "list"} /\ a[1] \in block[w] =>
       row[a] = "PENDING" /\ lane[w][a] = "none"
  /\ pc[w] = "paying" /\ a[1] \in block[w] => lane[w][a] # "none"
  /\ pc[w] = "close" /\ a[1] \in block[w] => lane[w][a] = "done"
  /\ pc[w] \in {"down", "reconcile"} => lane[w][a] = "none"
  /\ pc[w] = "reconcile" /\ a \in todo[w] => row[a] = "IN_FLIGHT"

(* What a lane says about its row; a lane that is failing says nothing.    *)
RowByLane(w, a) ==
  /\ lane[w][a] = "queued" => row[a] = "PENDING"
  /\ lane[w][a] \in {"claimed", "asking", "settled"} => row[a] = "IN_FLIGHT"
  /\ lane[w][a] \in {"paid", "published", "done"} => row[a] = "PAID"

(* A closed block is paid and no lane works on it.                         *)
Closed(w, a) ==
  blk[a[1]] = "DUST_FANNED_OUT" =>
    row[a] = "PAID" /\ lane[w][a] \in {"none", "done"}

Entry(w, a) == RowByLoop(w, a) /\ RowByLane(w, a) /\ Closed(w, a)

EntryInv ==
  /\ HandsInv
  /\ Concurrency > 0
  /\ \A w \in Workers, a \in Dust : Entry(w, a)

(* The tick loop brings each row as far as it should be.                   *)
LEMMA TickEntry ==
  ASSUME Concurrency > 0, NEW w \in Workers, NEW a \in Dust, TypeOK, Hands(w),
         Entry(w, a), TickStep(w) \/ NoClient(w)
  PROVE  Entry(w, a)'
<1> USE SnapshotAssumption
    DEF Goto, Entry, RowByLoop, RowByLane, Closed, Unpaid
<1>0. a[1] \in Blocks /\ row[a] \in RowStatus /\ lane[w][a] \in LaneState
  BY DEF TypeOK
<1>1. CASE Start(w)
  BY <1>0, <1>1 DEF Start, TypeOK
<1>2. ASSUME NEW x \in Dust, ReconcileRow(w, x) PROVE Entry(w, a)'
  <2>1. PICK s : row' = [row EXCEPT ![x] = s]
    BY <1>2 DEF ReconcileRow
  <2>2. x # a => row'[a] = row[a]
    BY <2>1 DEF TypeOK
  <2>3. /\ pc[w] = "reconcile" /\ x \in todo[w]
        /\ todo'[w] = todo[w] \ {x}
        /\ UNCHANGED <<blk, lane, pc, matured, block>>
    BY <1>2 DEF ReconcileRow, TypeOK
  <2> QED BY <1>0, <2>2, <2>3
<1>3. ASSUME NEW x \in Dust, RecordDust(w, x) PROVE Entry(w, a)'
  <2>1. x # a => row'[a] = row[a]
    BY <1>3 DEF RecordDust, TypeOK
  <2>2. x = a => row'[a] = IF row[a] = "NONE" THEN "PENDING" ELSE row[a]
    BY <1>3 DEF RecordDust, TypeOK
  <2>3. /\ pc[w] = "dust" /\ x \in todo[w]
        /\ todo'[w] = todo[w] \ {x}
        /\ UNCHANGED <<blk, lane, pc, matured, block>>
    BY <1>3 DEF RecordDust, TypeOK
  <2>4. x[1] \in block[w] /\ blk[x[1]] = "MATURED" /\ x[1] \notin matured[w]
    BY <2>3 DEF Hands, Working
  <2> QED BY <1>0, <2>1, <2>2, <2>3, <2>4
<1>4. CASE ReconcileDone(w)
  BY <1>4 DEF ReconcileDone, TypeOK
<1>5. CASE FindCandidates(w)
  BY <1>5 DEF FindCandidates, TypeOK
<1>6. ASSUME NEW b \in Blocks, ProbeTooYoung(w, b) PROVE Entry(w, a)'
  BY <1>6 DEF ProbeTooYoung, LeaveForLater, TypeOK
<1>7. ASSUME NEW b \in Blocks, ProbeVerdict(w, b) PROVE Entry(w, a)'
  BY <1>7 DEF ProbeVerdict, TypeOK
<1>8. ASSUME NEW b \in Blocks, PickBlock(w, b) PROVE Entry(w, a)'
  BY <1>8 DEF PickBlock, NextBlock, TypeOK
<1>9. CASE MarkBlock(w)
  <2>1. PICK b \in block[w] :
               /\ blk' = [blk EXCEPT ![b] = verdict[w]]
               /\ matured' = IF verdict[w] = "MATURED"
                               THEN [matured EXCEPT ![w] = @ \cup {b}]
                               ELSE matured
    BY <1>9 DEF MarkBlock
  <2>2. /\ pc'[w] = "probe" /\ pc[w] = "mark"
        /\ UNCHANGED <<row, lane, todo>>
    BY <1>9 DEF MarkBlock, TypeOK
  <2>3. b \in Blocks /\ blk[b] = "FOUND"
        /\ verdict[w] \in {"MATURED", "ORPHANED"}
    BY <2>2 DEF Hands, TypeOK
  <2>4. \A c \in Blocks : blk'[c] = IF c = b THEN verdict[w] ELSE blk[c]
    BY <2>1 DEF TypeOK
  <2>5. matured'[w] \subseteq matured[w] \cup {b}
    BY <2>1 DEF TypeOK
  <2> QED BY <1>0, <2>2, <2>3, <2>4, <2>5
<1>10. CASE EndTick(w)
  BY <1>10 DEF EndTick, TypeOK
<1>11. ASSUME NEW x \in Direct, RecordDirect(w, x) PROVE Entry(w, a)'
  <2>1. pc[w] = "direct" /\ pc'[w] \in {"direct", "stamp"}
    BY <1>11 DEF RecordDirect, TypeOK
  <2>2. UNCHANGED <<blk, row, lane, matured, block>>
    BY <1>11 DEF RecordDirect
  <2> QED BY <2>1, <2>2
<1>12. CASE StampDirect(w)
  BY <1>12 DEF StampDirect, TypeOK
<1>13. CASE DirectDone(w)
  <2>1. a[1] \in block[w] => a \in todo'[w]
    BY <1>13 DEF DirectDone, Of, TypeOK
  <2>2. pc[w] = "direct" /\ pc'[w] = "dust"
        /\ UNCHANGED <<blk, row, lane, matured, block>>
    BY <1>13 DEF DirectDone, TypeOK
  <2> QED BY <2>1, <2>2
<1>14. CASE DustDone(w) \/ PassGate(w)
  BY <1>14 DEF DustDone, PassGate, TypeOK
<1>15. CASE GateRefuses(w) \/ FanoutRejects(w)
  BY <1>15 DEF GateRefuses, FanoutRejects, AbandonTick, TypeOK
<1>16. CASE ListPending(w)
  <2>1. lane'[w][a] = IF row[a] = "PENDING" /\ a[1] \in block[w]
                        THEN "queued" ELSE lane[w][a]
    BY <1>16 DEF ListPending, TypeOK
  <2>2. pc[w] = "list" /\ pc'[w] = "paying"
        /\ UNCHANGED <<blk, row, matured, block, todo>>
    BY <1>16 DEF ListPending, TypeOK
  <2> QED BY <1>0, <2>1, <2>2 DEF Hands, Working
<1>17. CASE AllDrained(w)
  <2>1. PICK b \in block[w] :
          /\ Lanes(w, b, Busy \cup {"thrown"}) = {}
          /\ Lanes(w, b, {"queued"}) = {}
          /\ \/ Goto(w, "paying", "close") /\ Lanes(w, b, {"failed"}) = {}
             \/ Goto(w, "paying", "pick")
    BY <1>17 DEF AllDrained
  <2>2. UNCHANGED <<blk, row, lane, matured, block, todo>>
    BY <1>17 DEF AllDrained
  <2>3. CASE Goto(w, "paying", "pick")
    BY <2>2, <2>3 DEF TypeOK
  <2>4. CASE Goto(w, "paying", "close") /\ Lanes(w, b, {"failed"}) = {}
    <3>1. a[1] \in block[w] => a[1] = b
      BY DEF Hands
    <3>2. pc[w] = "paying" /\ pc'[w] = "close"
      BY <2>4 DEF TypeOK
    <3>3. a[1] = b => lane[w][a] = "done"
      BY <1>0, <2>1, <2>4, <3>2 DEF Lanes, Of, LaneState, Busy
    <3> QED BY <2>2, <3>1, <3>2, <3>3
  <2> QED BY <2>1, <2>3, <2>4
<1>18. CASE CloseBlock(w)
  <2>1. PICK b \in block[w] : blk' = [blk EXCEPT ![b] = "DUST_FANNED_OUT"]
    BY <1>18 DEF CloseBlock
  <2>2. /\ pc[w] = "close" /\ pc'[w] = "pick"
        /\ UNCHANGED <<row, lane, matured, todo>>
    BY <1>18 DEF CloseBlock, TypeOK
  <2>3. /\ a[1] # b => blk'[a[1]] = blk[a[1]]
        /\ a[1] = b => blk'[a[1]] = "DUST_FANNED_OUT"
    BY <1>0, <2>1 DEF TypeOK
  <2>4. a[1] = b => a[1] \notin matured[w] /\ lane[w][a] = "done"
    BY <2>2 DEF Hands, Working
  <2> QED BY <2>2, <2>3, <2>4
<1>19. CASE NoClient(w)
  <2>1. row'[a] = IF row[a] = "PENDING" /\ a[1] \in block[w]
                    THEN "FAILED" ELSE row[a]
    BY <1>19 DEF NoClient
  <2>2. /\ pc[w] = "list" /\ pc'[w] = "pick"
        /\ UNCHANGED <<blk, lane, matured, todo>>
    BY <1>19 DEF NoClient, TypeOK
  <2> QED BY <2>1, <2>2
<1> QED BY <1>1, <1>2, <1>3, <1>4, <1>5, <1>6, <1>7, <1>8, <1>9, <1>10, <1>11,
           <1>12, <1>13, <1>14, <1>15, <1>16, <1>17, <1>18, <1>19
        DEF TickStep

(* The row of an entry follows its lane.                                   *)
LEMMA LaneEntry ==
  ASSUME NEW w \in Workers, NEW a \in Dust, NEW x \in Dust, TypeOK,
         Entry(w, a), LaneStep(w, x) \/ LaneThrows(w, x) \/ LaneCatches(w, x)
  PROVE  Entry(w, a)'
<1>1. UNCHANGED <<blk, tick>>
  BY LaneLeavesTick
<1>2. PICK from \in LaneState \ {"none", "done"}, to \in LaneState \ {"none"} :
             LaneTo(w, x, from, to)
  BY DEF LaneStep, Claim, Unpayable, SendPayment, WalletPays, WalletRefuses,
         TimeOut, WritePaid, PublishDust, StampDust, WriteFailed, LaneThrows,
         LaneCatches, LaneState, Busy
<1>3. \/ row' = row
      \/ row' = [row EXCEPT ![x] = "IN_FLIGHT"]
      \/ row' = [row EXCEPT ![x] = "PAID"]
      \/ row' = [row EXCEPT ![x] = "FAILED"]
      \/ row' = [row EXCEPT ![x] = IF @ = "PENDING" THEN "IN_FLIGHT" ELSE @]
  BY DEF LaneStep, Claim, Unpayable, SendPayment, WalletPays, WalletRefuses,
         TimeOut, WritePaid, PublishDust, StampDust, WriteFailed, LaneThrows,
         LaneCatches
<1>4. CASE x # a
  <2>1. row'[a] = row[a]
    BY <1>3, <1>4 DEF TypeOK
  <2>2. lane'[w][a] = lane[w][a]
    BY <1>2, <1>4 DEF LaneTo, TypeOK
  <2> QED BY <1>1, <2>1, <2>2
          DEF Entry, RowByLoop, RowByLane, Closed, Unpaid
<1>5. CASE x = a
  <2>1. lane[w][a] = from /\ lane'[w][a] = to
    BY <1>2, <1>5 DEF LaneTo, TypeOK
  <2>2. RowByLane(w, a)'
    <3> USE <1>5 DEF LaneTo, Entry, RowByLane, TypeOK
    <3>1. CASE Claim(w, a)
      BY <3>1 DEF Claim
    <3>2. CASE Unpayable(w, a) \/ SendPayment(w, a) \/ WalletPays(w, a)
               \/ WalletRefuses(w, a) \/ TimeOut(w, a)
      BY <3>2 DEF Unpayable, SendPayment, WalletPays, WalletRefuses, TimeOut
    <3>3. CASE WritePaid(w, a)
      BY <3>3 DEF WritePaid
    <3>4. CASE PublishDust(w, a) \/ StampDust(w, a)
      BY <3>4 DEF PublishDust, StampDust
    <3>5. CASE WriteFailed(w, a)
      BY <3>5 DEF WriteFailed
    <3>6. CASE LaneThrows(w, a) \/ LaneCatches(w, a)
      <4>1. to \in {"thrown", "failing"}
        BY <2>1, <3>6 DEF LaneThrows, LaneCatches
      <4> QED BY <2>1, <4>1
    <3> QED BY <3>1, <3>2, <3>3, <3>4, <3>5, <3>6 DEF LaneStep
  <2>3. ~Unpaid(w, a[1])'
    BY <1>1, <2>1 DEF Entry, RowByLoop, Unpaid
  <2> QED BY <1>1, <2>1, <2>2, <2>3 DEF Entry, RowByLoop, Closed
<1> QED BY <1>4, <1>5

(* Faults leave a row where it may be; a process that died has no lanes.   *)
LEMMA FaultEntry ==
  ASSUME NEW w \in Workers, NEW a \in Dust, TypeOK, Hands(w), Entry(w, a),
         Fault(w)
  PROVE  Entry(w, a)'
<1> USE SnapshotAssumption DEF Entry, RowByLoop, RowByLane, Closed, Unpaid
<1>1. CASE TickFails(w)
  BY <1>1 DEF TickFails, AbandonTick, TypeOK
<1>2. ASSUME NEW b \in Blocks, ProbeFails(w, b) PROVE Entry(w, a)'
  BY <1>2 DEF ProbeFails, LeaveForLater, TypeOK
<1>3. CASE MarkFails(w)
  <2>1. PICK b \in block[w] : blk' \in {blk, [blk EXCEPT ![b] = verdict[w]]}
    BY <1>3 DEF MarkFails
  <2>2. /\ pc'[w] = "probe" /\ pc[w] = "mark"
        /\ UNCHANGED <<row, lane, matured, todo>>
    BY <1>3 DEF MarkFails, Goto, TypeOK
  <2>3. b \in Blocks /\ blk[b] = "FOUND"
        /\ verdict[w] \in {"MATURED", "ORPHANED"}
    BY <2>2 DEF Hands, TypeOK
  <2>4. \A c \in Blocks : blk'[c] = blk[c] \/ blk'[c] = verdict[w]
    BY <2>1 DEF TypeOK
  <2>5. a[1] \in Blocks
    OBVIOUS
  <2> QED BY <2>2, <2>3, <2>4, <2>5
<1>4. ASSUME NEW x \in Dust, LaneThrows(w, x) \/ LaneCatches(w, x)
      PROVE  Entry(w, a)'
  BY <1>4, LaneEntry
<1>5. CASE Crash(w)
  BY <1>5 DEF Crash, TypeOK
<1>6. CASE MarkEscapes(w)
  <2>1. PICK b \in block[w] : blk' \in {blk, [blk EXCEPT ![b] = "ORPHANED"]}
    BY <1>6 DEF MarkEscapes
  <2>2. /\ pc'[w] = "idle" /\ pc[w] = "mark"
        /\ matured'[w] = {} /\ block'[w] = {}
        /\ UNCHANGED <<row, lane>>
    BY <1>6 DEF MarkEscapes, AbandonTick, TypeOK
  <2>3. \A c \in Blocks : blk'[c] = blk[c] \/ blk'[c] = "ORPHANED"
    BY <2>1 DEF TypeOK
  <2>4. a[1] \in Blocks
    OBVIOUS
  <2> QED BY <2>2, <2>3, <2>4
<1> QED BY <1>1, <1>2, <1>3, <1>4, <1>5, <1>6 DEF Fault

(* With one process every entry stays where its block says it is.          *)
LEMMA NextEntryInv == EntryInv /\ [Next]_vars => EntryInv'
<1> SUFFICES ASSUME EntryInv, [Next]_vars PROVE EntryInv'
  OBVIOUS
<1>1. /\ SoleWorker /\ TypeOK /\ HandsInv' /\ Concurrency > 0
      /\ \A w \in Workers : Hands(w)
      /\ \A w \in Workers, a \in Dust : Entry(w, a)
  BY NextHandsInv DEF EntryInv, HandsInv
<1> SUFFICES ASSUME NEW w \in Workers, NEW a \in Dust PROVE Entry(w, a)'
  BY <1>1 DEF EntryInv
<1>2. CASE UNCHANGED <<blk, row, lane, tick>>
  BY <1>1, <1>2 DEF Entry, RowByLoop, RowByLane, Closed, Unpaid
<1>3. CASE UNCHANGED vars
  BY <1>2, <1>3 DEF vars
<1>4. ASSUME NEW b \in Blocks, Bury(b) \/ Reorg(b) PROVE Entry(w, a)'
  BY <1>2, <1>4 DEF Bury, Reorg
<1>5. ASSUME NEW x \in Dust, DecideAdrift(x) PROVE Entry(w, a)'
  BY <1>2, <1>5 DEF DecideAdrift
<1>6. ASSUME NEW v \in Workers,
             \/ TickStep(v) \/ NoClient(v) \/ Fault(v)
             \/ \E x \in Dust : LaneStep(v, x)
      PROVE  Entry(w, a)'
  <2>1. v = w
    BY <1>1 DEF SoleWorker
  <2> QED BY <1>1, <1>6, <2>1, TickEntry, FaultEntry, LaneEntry
<1> QED BY <1>3, <1>4, <1>5, <1>6 DEF Next

(* It is so in every reachable state.                                      *)
LEMMA EntryInvariant == SoleWorker /\ Concurrency > 0 /\ Spec => []EntryInv
<1>1. SoleWorker /\ Concurrency > 0 /\ Init => EntryInv
  <2>1. SoleWorker /\ Init => HandsInv
    BY InitTypeOK DEF Init, HandsInv, Hands, Working
  <2>2. Init => \A w \in Workers, a \in Dust : Entry(w, a)
    BY SnapshotAssumption
    DEF Init, Entry, RowByLoop, RowByLane, Closed, Unpaid
  <2> QED BY <2>1, <2>2 DEF EntryInv
<1> QED BY <1>1, NextEntryInv, PTL DEF Spec

(* With one process whose PAYMENT_CONCURRENCY is not zero, DUST_FANNED_OUT *)
(* is written only over a fan-out that paid every entry.  (With zero the    *)
(* fan-out settles at once, and a block is closed over queued payments.)   *)
THEOREM ClosedIsPaid ==
  SoleWorker /\ Concurrency > 0 /\ Spec => []FannedOutMeansPaid
<1>1. EntryInv => FannedOutMeansPaid
  <2> SUFFICES ASSUME EntryInv, NEW a \in Dust, blk[a[1]] = "DUST_FANNED_OUT"
               PROVE  row[a] = "PAID"
    BY DEF FannedOutMeansPaid
  <2> PICK w \in Workers : TRUE
    BY DEF EntryInv, HandsInv, SoleWorker
  <2> QED BY DEF EntryInv, Entry, Closed
<1> QED BY <1>1, EntryInvariant, PTL

-----------------------------------------------------------------------------
(* One receipt per row                                                     *)

(* The direct output has not been recorded: its block waits, or the tick    *)
(* loop has yet to come to it.                                             *)
Unrecorded(w, a) ==
  \/ blk[a[1]] = "FOUND"
  \/ a[1] \in matured[w]
  \/ pc[w] \in {"direct", "stamp"} /\ a \in todo[w]

DirectReceipts ==
  \A w \in Workers, a \in Direct :
    receipts[a] <= 1 /\ (Unrecorded(w, a) => receipts[a] = 0)

(* A payment on its way to its receipt has none yet.  (For any number of    *)
(* processes: the claim decides who pays, and who pays publishes.)         *)
DustReceipts ==
  \A a \in Dust :
    /\ receipts[a] <= 1
    /\ Pooled(a) => receipts[a] = 0
    /\ \A w \in Workers :
         lane[w][a] \in {"claimed", "asking", "settled", "paid"} =>
           receipts[a] = 0

(* Only the recording of a direct output and the end of a payment publish. *)
LEMMA WhoPublishes ==
  ASSUME [Next]_vars
  PROVE  \/ UNCHANGED receipts
         \/ \E w \in Workers, a \in Direct : RecordDirect(w, a)
         \/ \E w \in Workers, a \in Dust : PublishDust(w, a)
<1>1. ASSUME NEW w \in Workers, TickStep(w) \/ NoClient(w),
             \A a \in Direct : ~RecordDirect(w, a)
      PROVE  UNCHANGED receipts
  BY <1>1 DEF TickStep, Start, ReconcileRow, RecordDust, ReconcileDone,
       FindCandidates, ProbeTooYoung, LeaveForLater, ProbeVerdict, PickBlock,
       MarkBlock, EndTick, StampDirect, DirectDone, DustDone, PassGate,
       GateRefuses, ListPending, AllDrained, CloseBlock, FanoutRejects, NoClient
<1>2. ASSUME NEW w \in Workers, NEW a \in Dust, LaneStep(w, a),
             ~PublishDust(w, a)
      PROVE  UNCHANGED receipts
  BY <1>2 DEF LaneStep, Claim, Unpayable, SendPayment, WalletPays,
       WalletRefuses, TimeOut, WritePaid, StampDust, WriteFailed
<1>3. ASSUME NEW w \in Workers, Fault(w) PROVE UNCHANGED receipts
  BY <1>3 DEF Fault, TickFails, ProbeFails, LeaveForLater, MarkFails,
       MarkEscapes, LaneThrows, LaneCatches, Crash
<1>4. CASE UNCHANGED vars
  BY <1>4 DEF vars
<1>5. ASSUME NEW b \in Blocks, Bury(b) \/ Reorg(b) PROVE UNCHANGED receipts
  BY <1>5 DEF Bury, Reorg
<1>6. ASSUME NEW a \in Dust, DecideAdrift(a) PROVE UNCHANGED receipts
  BY <1>6 DEF DecideAdrift
<1> QED BY <1>1, <1>2, <1>3, <1>4, <1>5, <1>6 DEF Next

(* An output is unrecorded before a step if it is after it, and a block the *)
(* tick loop picks up was waiting for it.                                  *)
LEMMA UnrecordedBefore ==
  ASSUME HandsInv, [Next]_vars, NEW w \in Workers, NEW a \in Direct,
         Unrecorded(w, a)'
  PROVE  /\ Unrecorded(w, a)
         /\ ~RecordDirect(w, a)
<1>1. TypeOK /\ Hands(w) /\ a[1] \in Blocks
  BY SnapshotAssumption DEF HandsInv
<1>2. Forward
  BY StepMovesForward
<1>3. blk'[a[1]] = "FOUND" => blk[a[1]] = "FOUND"
  BY <1>1, <1>2 DEF Forward
<1>4. CASE UNCHANGED tick
  <2>1. Unrecorded(w, a)
    BY <1>3, <1>4 DEF Unrecorded
  <2>2. a \in todo[w] => todo' # [todo EXCEPT ![w] = @ \ {a}]
    BY <1>1, <1>4 DEF TypeOK
  <2> QED BY <2>1, <2>2 DEF RecordDirect
<1>5. CASE UNCHANGED vars
  BY <1>4, <1>5 DEF vars
<1>6. ASSUME NEW b \in Blocks, Bury(b) \/ Reorg(b) PROVE UNCHANGED tick
  BY <1>6 DEF Bury, Reorg
<1>7. ASSUME NEW x \in Dust, DecideAdrift(x) PROVE UNCHANGED tick
  BY <1>7 DEF DecideAdrift
<1>8. ASSUME NEW v \in Workers, NEW x \in Dust,
             LaneStep(v, x) \/ LaneThrows(v, x) \/ LaneCatches(v, x)
      PROVE  UNCHANGED tick
  BY <1>8, LaneLeavesTick
<1>9. CASE TickStep(w) \/ NoClient(w)
  <2> USE SnapshotAssumption, <1>1, <1>3 DEF Unrecorded, Goto, Of
  <2>1. CASE Start(w) \/ ReconcileDone(w) \/ FindCandidates(w) \/ EndTick(w)
             \/ DirectDone(w) \/ DustDone(w) \/ PassGate(w) \/ AllDrained(w)
             \/ ListPending(w) \/ NoClient(w)
    BY <2>1 DEF Start, ReconcileDone, FindCandidates, EndTick, DirectDone,
         DustDone, PassGate, AllDrained, ListPending, NoClient, RecordDirect,
         TypeOK
  <2>2. ASSUME NEW x \in Dust, ReconcileRow(w, x) \/ RecordDust(w, x)
        PROVE  Unrecorded(w, a) /\ ~RecordDirect(w, a)
    BY <2>2 DEF ReconcileRow, RecordDust, RecordDirect, TypeOK
  <2>3. ASSUME NEW b \in Blocks, ProbeTooYoung(w, b) \/ ProbeVerdict(w, b)
        PROVE  Unrecorded(w, a) /\ ~RecordDirect(w, a)
    BY <2>3 DEF ProbeTooYoung, LeaveForLater, ProbeVerdict, RecordDirect, TypeOK
  <2>4. ASSUME NEW b \in Blocks, PickBlock(w, b)
        PROVE  Unrecorded(w, a) /\ ~RecordDirect(w, a)
    BY <2>4 DEF PickBlock, NextBlock, RecordDirect, TypeOK
  <2>5. CASE MarkBlock(w)
    <3>1. PICK b \in block[w] :
               matured' = IF verdict[w] = "MATURED"
                            THEN [matured EXCEPT ![w] = @ \cup {b}]
                            ELSE matured
      BY <2>5 DEF MarkBlock
    <3>2. pc[w] = "mark" /\ pc'[w] = "probe" /\ UNCHANGED todo
      BY <2>5 DEF MarkBlock, TypeOK
    <3>3. blk[b] = "FOUND"
      BY <3>2 DEF Hands
    <3>4. matured'[w] \subseteq matured[w] \cup {b}
      BY <3>1 DEF TypeOK
    <3> QED BY <3>2, <3>3, <3>4 DEF RecordDirect
  <2>6. ASSUME NEW x \in Direct, RecordDirect(w, x)
        PROVE  Unrecorded(w, a) /\ ~RecordDirect(w, a)
    <3>1. /\ pc[w] = "direct" /\ todo'[w] = todo[w] \ {x}
          /\ x \in todo[w] /\ UNCHANGED <<blk, matured>>
      BY <2>6 DEF RecordDirect, TypeOK
    <3>2. x[1] \in block[w] /\ blk[x[1]] = "MATURED" /\ x[1] \notin matured[w]
      BY <3>1 DEF Hands, Working
    <3>3. x # a
      BY <3>1, <3>2
    <3>4. ~RecordDirect(w, a)
      <4>1. ~ (todo' = [todo EXCEPT ![w] = @ \ {a}] /\ a \in todo[w])
        BY <3>1, <3>3 DEF TypeOK
      <4> QED BY <4>1 DEF RecordDirect
    <3> QED BY <3>1, <3>4
  <2>7. CASE StampDirect(w)
    BY <2>7 DEF StampDirect, RecordDirect, TypeOK
  <2>8. CASE GateRefuses(w) \/ FanoutRejects(w)
    BY <2>8 DEF GateRefuses, FanoutRejects, AbandonTick, RecordDirect, TypeOK
  <2>9. CASE CloseBlock(w)
    BY <2>9 DEF CloseBlock, RecordDirect, TypeOK
  <2> QED BY <1>9, <2>1, <2>2, <2>3, <2>4, <2>5, <2>6, <2>7, <2>8, <2>9
          DEF TickStep
<1>10. CASE Fault(w)
  <2> USE <1>1, <1>3 DEF Unrecorded, Goto
  <2>1. CASE TickFails(w)
    BY <2>1 DEF TickFails, AbandonTick, RecordDirect, TypeOK
  <2>2. ASSUME NEW b \in Blocks, ProbeFails(w, b)
        PROVE  Unrecorded(w, a) /\ ~RecordDirect(w, a)
    BY <2>2 DEF ProbeFails, LeaveForLater, RecordDirect, TypeOK
  <2>3. CASE MarkFails(w)
    BY <2>3 DEF MarkFails, RecordDirect, TypeOK
  <2>4. ASSUME NEW x \in Dust, LaneThrows(w, x) \/ LaneCatches(w, x)
        PROVE  Unrecorded(w, a) /\ ~RecordDirect(w, a)
    BY <1>4, <1>8, <2>4
  <2>5. CASE Crash(w)
    BY <2>5 DEF Crash, RecordDirect, TypeOK
  <2>6. CASE MarkEscapes(w)
    BY <2>6 DEF MarkEscapes, AbandonTick, RecordDirect, TypeOK
  <2> QED BY <1>10, <2>1, <2>2, <2>3, <2>4, <2>5, <2>6 DEF Fault
<1>11. \A v \in Workers : v = w
  BY DEF HandsInv, SoleWorker
<1> QED BY <1>4, <1>5, <1>6, <1>7, <1>8, <1>9, <1>10, <1>11 DEF Next

(* Recording a direct output publishes for it the first time only.         *)
LEMMA DirectReceiptsStep ==
  ASSUME HandsInv, DirectReceipts, [Next]_vars
  PROVE  DirectReceipts'
<1>1. TypeOK /\ Direct \cap Dust = {}
  BY SnapshotAssumption DEF HandsInv
<1> SUFFICES ASSUME NEW w \in Workers, NEW a \in Direct
             PROVE  receipts'[a] <= 1 /\ (Unrecorded(w, a)' => receipts'[a] = 0)
  BY DEF DirectReceipts
<1>2. receipts[a] <= 1 /\ (Unrecorded(w, a) => receipts[a] = 0)
  BY DEF DirectReceipts
<1>3. CASE receipts'[a] = receipts[a]
  BY <1>2, <1>3, UnrecordedBefore
<1>4. CASE RecordDirect(w, a)
  <2>1. Unrecorded(w, a)
    BY <1>4 DEF RecordDirect, Unrecorded
  <2>2. receipts[a] = 0 /\ ~Unrecorded(w, a)'
    BY <1>2, <1>4, <2>1, UnrecordedBefore
  <2>3. receipts' \in {receipts, [receipts EXCEPT ![a] = @ + 1]}
    BY <1>4 DEF RecordDirect
  <2> QED BY <1>1, <2>2, <2>3 DEF TypeOK
<1>5. ASSUME NEW x \in Direct, x # a, RecordDirect(w, x)
      PROVE  receipts'[a] = receipts[a]
  <2>1. receipts' \in {receipts, [receipts EXCEPT ![x] = @ + 1]}
    BY <1>5 DEF RecordDirect
  <2> QED BY <1>1, <1>5, <2>1 DEF TypeOK
<1>6. ASSUME NEW v \in Workers, NEW x \in Dust, PublishDust(v, x)
      PROVE  receipts'[a] = receipts[a]
  <2>1. receipts' \in {receipts, [receipts EXCEPT ![x] = @ + 1]} /\ x # a
    BY <1>1, <1>6 DEF PublishDust
  <2> QED BY <1>1, <2>1 DEF TypeOK
<1>7. \A v \in Workers : v = w
  BY DEF HandsInv, SoleWorker
<1> QED BY <1>3, <1>4, <1>5, <1>6, <1>7, WhoPublishes

(* No step puts an entry back into the pool: the ledger has no such step.  *)
LEMMA PoolOnlyShrinks ==
  ASSUME PaymentInv, [Next]_vars, NEW a \in Dust, Pooled(a)'
  PROVE  Pooled(a)
<1>1. Ledger!LNext
  BY StepImplementsLedger
<1>2. {x \in Dust : row'[x] \in {"NONE", "PENDING"}}
        \subseteq {x \in Dust : row[x] \in {"NONE", "PENDING"}}
  BY <1>1 DEF Ledger!LNext, Ledger!Withdraw, Ledger!Send, Ledger!Move
<1> QED BY <1>2 DEF Pooled

(* A payment that is on its way to its receipt after a step was so before, *)
(* or its row was just claimed out of the pool, which publishes nothing.     *)
LEMMA OnItsWayBefore ==
  ASSUME TypeOK, [Next]_vars, NEW w \in Workers, NEW a \in Dust,
         lane'[w][a] \in {"claimed", "asking", "settled", "paid"}
  PROVE  \/ lane[w][a] \in {"claimed", "asking", "settled", "paid"}
         \/ Pooled(a) /\ UNCHANGED receipts
<1>1. CASE UNCHANGED lane
  BY <1>1
<1>2. ASSUME NEW v \in Workers, TickStep(v) \/ NoClient(v)
      PROVE  lane[w][a] \in {"claimed", "asking", "settled", "paid"}
  <2>1. UNCHANGED lane \/ ListPending(v)
    BY <1>2, TickIsQuiet DEF Quiet, ReconcileRow, RecordDust, NoClient
  <2>2. CASE ListPending(v)
    <3>1. \A x \in Dust, u \in Workers :
            lane'[u][x] = lane[u][x] \/ lane'[u][x] = "queued"
      BY <2>2 DEF ListPending, TypeOK
    <3> QED BY <3>1
  <2> QED BY <1>1, <2>1, <2>2
<1>3. ASSUME NEW v \in Workers, NEW x \in Dust, LaneStep(v, x)
      PROVE  \/ lane[w][a] \in {"claimed", "asking", "settled", "paid"}
             \/ Pooled(a) /\ UNCHANGED receipts
  <2>1. CASE v = w /\ x = a
    BY <1>3, <2>1 DEF LaneStep, Claim, Unpayable, SendPayment, WalletPays,
         WalletRefuses, TimeOut, WritePaid, PublishDust, StampDust, WriteFailed,
         LaneTo, TypeOK, Pooled
  <2>2. CASE v # w \/ x # a
    <3>1. PICK to : lane' = [lane EXCEPT ![v][x] = to]
      BY <1>3 DEF LaneStep, Claim, Unpayable, SendPayment, WalletPays,
         WalletRefuses, TimeOut, WritePaid, PublishDust, StampDust, WriteFailed,
         LaneTo
    <3>2. lane'[w][a] = lane[w][a]
      BY <2>2, <3>1 DEF TypeOK
    <3> QED BY <3>2
  <2> QED BY <2>1, <2>2
<1>4. ASSUME NEW v \in Workers, Fault(v)
      PROVE  lane[w][a] \in {"claimed", "asking", "settled", "paid"}
  <2>1. CASE Crash(v)
    BY <2>1 DEF Crash, TypeOK
  <2>2. ASSUME NEW x \in Dust, LaneThrows(v, x) \/ LaneCatches(v, x)
        PROVE  lane[w][a] \in {"claimed", "asking", "settled", "paid"}
    <3>1. PICK to \in {"thrown", "failing"} :
                 lane' = [lane EXCEPT ![v][x] = to]
      BY <2>2 DEF LaneThrows, LaneCatches, LaneTo
    <3> QED BY <3>1 DEF TypeOK
  <2> QED BY <1>1, <1>4, <2>1, <2>2
          DEF Fault, TickFails, ProbeFails, LeaveForLater, MarkFails,
              MarkEscapes
<1>5. CASE UNCHANGED vars
  BY <1>1, <1>5 DEF vars
<1>6. ASSUME NEW b \in Blocks, Bury(b) \/ Reorg(b) PROVE UNCHANGED lane
  BY <1>6 DEF Bury, Reorg
<1>7. ASSUME NEW x \in Dust, DecideAdrift(x) PROVE UNCHANGED lane
  BY <1>7 DEF DecideAdrift
<1> QED BY <1>1, <1>2, <1>3, <1>4, <1>5, <1>6, <1>7 DEF Next

(* Only the holder of an entry publishes its receipt, and it has none yet.  *)
(* This is so for any number of processes.                                 *)
LEMMA DustReceiptsStep ==
  ASSUME PaymentInv, DustReceipts, [Next]_vars
  PROVE  DustReceipts'
<1>1. TypeOK /\ TypeOK' /\ Direct \cap Dust = {}
  BY SnapshotAssumption, NextTypeOK DEF PaymentInv
<1> SUFFICES ASSUME NEW a \in Dust
             PROVE  /\ receipts'[a] <= 1
                    /\ Pooled(a)' => receipts'[a] = 0
                    /\ \A w \in Workers :
                         lane'[w][a] \in {"claimed", "asking", "settled", "paid"}
                           => receipts'[a] = 0
  BY DEF DustReceipts
<1>2. /\ receipts[a] <= 1
      /\ Pooled(a) => receipts[a] = 0
      /\ \A w \in Workers :
           lane[w][a] \in {"claimed", "asking", "settled", "paid"} =>
             receipts[a] = 0
  BY DEF DustReceipts
<1>3. CASE receipts'[a] = receipts[a]
  BY <1>1, <1>2, <1>3, OnItsWayBefore, PoolOnlyShrinks
<1>4. ASSUME NEW v \in Workers, PublishDust(v, a), receipts'[a] # receipts[a]
      PROVE  /\ receipts'[a] <= 1
             /\ ~Pooled(a)'
             /\ \A w \in Workers :
                  lane'[w][a] \notin {"claimed", "asking", "settled", "paid"}
  <2>1. /\ LaneTo(v, a, "paid", "published") \/ LaneTo(v, a, "paid", "done")
        /\ receipts' = [receipts EXCEPT ![a] = @ + 1]
    BY <1>4 DEF PublishDust
  <2>2. receipts'[a] = 1
    BY <1>1, <1>2, <2>1 DEF LaneTo, TypeOK
  <2>3. lane[v][a] = "paid" /\ lane'[v][a] \in {"published", "done"}
    BY <1>1, <2>1 DEF LaneTo, TypeOK
  <2>4. ASSUME NEW w \in Workers, w # v
        PROVE  lane'[w][a] \notin {"claimed", "asking", "settled", "paid"}
    <3>1. lane[w][a] \notin Busy
      BY <2>3, <2>4 DEF PaymentInv, OneHolder, Busy
    <3>2. lane'[w][a] = lane[w][a]
      BY <1>1, <2>1, <2>4 DEF LaneTo, TypeOK
    <3> QED BY <3>1, <3>2 DEF Busy
  <2>5. ~Pooled(a)'
    BY <2>3, BusyNotPooled, PoolOnlyShrinks DEF Busy
  <2> QED BY <2>2, <2>3, <2>4, <2>5
<1>5. ASSUME NEW w \in Workers, NEW x \in Direct, RecordDirect(w, x)
      PROVE  receipts'[a] = receipts[a]
  <2>1. receipts' \in {receipts, [receipts EXCEPT ![x] = @ + 1]} /\ x # a
    BY <1>1, <1>5 DEF RecordDirect
  <2> QED BY <1>1, <2>1 DEF TypeOK
<1>6. ASSUME NEW v \in Workers, NEW x \in Dust, x # a, PublishDust(v, x)
      PROVE  receipts'[a] = receipts[a]
  <2>1. receipts' \in {receipts, [receipts EXCEPT ![x] = @ + 1]}
    BY <1>6 DEF PublishDust
  <2> QED BY <1>1, <1>6, <2>1 DEF TypeOK
<1> QED BY <1>3, <1>4, <1>5, <1>6, WhoPublishes

(* The receipts of dust payments, for any number of processes.             *)
LEMMA DustReceiptsInvariant == Spec => []DustReceipts
<1>1. Init => DustReceipts
  BY DEF Init, DustReceipts
<1>2. PaymentInv /\ DustReceipts /\ [Next]_vars => DustReceipts'
  BY DustReceiptsStep
<1> QED BY <1>1, <1>2, PaymentInvariant, PTL DEF Spec

(* With one process at most one zap receipt goes out for a payout row,      *)
(* whatever crashes and errors come between publishing and recording it.   *)
THEOREM ReceiptOnce == SoleWorker /\ Spec => []OneReceiptPerRow
<1>1. Init => DirectReceipts
  BY DEF Init, DirectReceipts
<1>2. HandsInv /\ DirectReceipts /\ [Next]_vars => DirectReceipts'
  BY DirectReceiptsStep
<1>3. HandsInv /\ DirectReceipts /\ DustReceipts => OneReceiptPerRow
  BY DEF HandsInv, SoleWorker, DirectReceipts, DustReceipts, OneReceiptPerRow
<1> QED BY <1>1, <1>2, <1>3, HandsInvariant, DustReceiptsInvariant, PTL DEF Spec

=============================================================================
