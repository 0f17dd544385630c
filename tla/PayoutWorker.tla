---------------------------- MODULE PayoutWorker ----------------------------
(***************************************************************************)
(* The payouts worker (apps/payouts): its tick loop, the maturity watcher, *)
(* the recording of on-chain payouts, the Lightning dust fan-out with its  *)
(* concurrent payment loops, and the reconciliation done at startup.       *)
(*                                                                         *)
(* Every await that changes the database, the wallet or the relays is a    *)
(* step of its own, taken together with the read that decides it, so that  *)
(* other payment loops, another worker process, a crash or a database      *)
(* error can come in between.  The operator's Lightning wallet and the     *)
(* Bitcoin node are external: the wallet may settle a payment whose caller *)
(* has timed out or died.                                                  *)
(***************************************************************************)
EXTENDS Naturals, FiniteSets

CONSTANTS
  Workers,      \* worker processes (one in the usual deployment)
  Blocks,       \* blocks found by one group
  Members,      \* members of that group
  Direct,       \* <<block, member>>: outputs of kind MEMBER in coinbaseOutputs
  Dust,         \* <<block, member>>: entries of the DUST_BUCKET's dustBreakdown
  Departed,     \* members without a Member row (removed by hand)
  Concurrency,  \* PAYMENT_CONCURRENCY
  PageSize,     \* take: 200 of the maturity query
  MaxCrashes,   \* bound: crashes of worker processes
  MaxErrors,    \* bound: database or node calls that throw
  MaxReorgs     \* bound: times a found block leaves the best chain

ASSUME SnapshotAssumption ==
  /\ Direct \subseteq Blocks \X Members
  /\ Dust \subseteq Blocks \X Members
  /\ Direct \cap Dust = {}

ASSUME BoundsAssumption ==
  /\ Concurrency \in Nat
  /\ PageSize \in Nat
  /\ MaxCrashes \in Nat
  /\ MaxErrors \in Nat
  /\ MaxReorgs \in Nat

VARIABLES
  \* the Bitcoin node and the operator's wallet
  chain,        \* where the node sees a block: "shallow", "deep" or "gone"
  buried,       \* blocks the node has ever reported buried (history)
  asked,        \* pay requests the wallet received for a dust entry (history)
  adrift,       \* requests still open at the wallet that nobody waits for
  moved,        \* payments the wallet settled (history)
  receipts,     \* zap receipts the relays accepted (history)
  \* the database
  blk,          \* Block.status
  directRow,    \* ON_CHAIN_COINBASE rows (always PAID)
  row,          \* status of the LN_DUST row, "NONE" before it exists
  hash,         \* dust rows whose lnPaymentHash is non-empty
  zapped,       \* rows whose zapEventId is set
  \* the worker processes
  pc,           \* where the tick loop of a worker is
  cand,         \* candidates of the maturity query not yet probed
  matured,      \* m.matured: blocks this tick still has to pay out
  block,        \* {} or the one block the tick loop is working on
  verdict,      \* the status that block is about to get
  known,        \* rows the reconciliation read with a payment hash
  todo,         \* rows the loop at pc still has to visit
  item,         \* {} or the one row whose receipt is on its way
  lane,         \* progress of each payment of the fan-out in this process
  \* bounds
  crashes, errors, reorgs,
  \* what the faults did (history, read by no step)
  stranded,     \* MATURED blocks a process lost with an abandoned tick
  left          \* rows that no loop and no recovery of this run will end

external == <<chain, buried, asked, adrift, moved, receipts>>
database == <<blk, directRow, row, hash, zapped>>
worker   == <<pc, cand, matured, block, verdict, known, todo, item, lane>>
history  == <<stranded, left>>
faults   == <<crashes, errors, reorgs, history>>
vars     == <<external, database, worker, faults>>

Of(set, b) == {a \in set : a[1] = b}

RowStatus   == {"NONE", "PENDING", "IN_FLIGHT", "PAID", "FAILED"}
BlockStatus == {"FOUND", "ORPHANED", "MATURED", "DUST_FANNED_OUT"}

(* The two loops of the process: the tick loop, and one lane per attempt.  *)
LoopState == {"down", "reconcile", "idle", "probe", "mark", "pick", "direct",
              "stamp", "dust", "gate", "list", "paying", "close"}
Busy      == {"claimed", "asking", "settled", "paid", "published", "failing"}
LaneState == {"none", "queued", "done", "failed", "thrown"} \cup Busy

Init ==
  /\ chain = [b \in Blocks |-> "shallow"]
  /\ buried = {}
  /\ asked = [a \in Dust |-> 0]
  /\ adrift = [a \in Dust |-> 0]
  /\ moved = [a \in Dust |-> 0]
  /\ receipts = [a \in Direct \cup Dust |-> 0]
  /\ blk = [b \in Blocks |-> "FOUND"]
  /\ directRow = {}
  /\ row = [a \in Dust |-> "NONE"]
  /\ hash = {}
  /\ zapped = {}
  /\ pc = [w \in Workers |-> "down"]
  /\ cand = [w \in Workers |-> {}]
  /\ matured = [w \in Workers |-> {}]
  /\ block = [w \in Workers |-> {}]
  /\ verdict = [w \in Workers |-> "FOUND"]
  /\ known = [w \in Workers |-> {}]
  /\ todo = [w \in Workers |-> {}]
  /\ item = [w \in Workers |-> {}]
  /\ lane = [w \in Workers |-> [a \in Dust |-> "none"]]
  /\ crashes = 0
  /\ errors = 0
  /\ reorgs = 0
  /\ stranded = {}
  /\ left = {}

-----------------------------------------------------------------------------
(* The Bitcoin node: a found block is buried under maturityConfs blocks,   *)
(* or leaves the best chain and may come back to it.  maturityConfs is a   *)
(* setting (MATURITY_CONFS), so a block that is deep may leave it too.     *)

Bury(b) ==
  /\ chain[b] = "shallow"
  /\ chain' = [chain EXCEPT ![b] = "deep"]
  /\ buried' = buried \cup {b}
  /\ UNCHANGED <<asked, adrift, moved, receipts, database, worker, faults>>

Reorg(b) ==
  /\ reorgs < MaxReorgs
  /\ chain' = [chain EXCEPT ![b] = IF @ = "gone" THEN "shallow" ELSE "gone"]
  /\ reorgs' = reorgs + 1
  /\ UNCHANGED <<buried, asked, adrift, moved, receipts, database, worker,
                 crashes, errors, history>>

(* The wallet decides a request whose caller has given up or died.         *)
DecideAdrift(a) ==
  /\ adrift[a] > 0
  /\ adrift' = [adrift EXCEPT ![a] = @ - 1]
  /\ \E settles \in BOOLEAN :
       moved' = IF settles THEN [moved EXCEPT ![a] = @ + 1] ELSE moved
  /\ UNCHANGED <<chain, buried, asked, receipts, database, worker, faults>>

-----------------------------------------------------------------------------
(* The tick loop.  Goto leaves what the process keeps besides pc alone.    *)

Goto(w, from, to) ==
  /\ pc[w] = from
  /\ pc' = [pc EXCEPT ![w] = to]

(* Mutant: a restart that does not look for rows left IN_FLIGHT.           *)
StartWithoutRecovery(w) ==
  /\ Goto(w, "down", "idle")
  /\ UNCHANGED <<external, database, cand, matured, block, verdict, known, todo,
                 item, lane, faults>>

(* Startup: read the rows a dead process left IN_FLIGHT, with their hash ... *)
Start(w) ==
  /\ Goto(w, "down", "reconcile")
  /\ LET open == {a \in Dust : row[a] = "IN_FLIGHT"} IN
       /\ todo' = [todo EXCEPT ![w] = open]
       /\ known' = [known EXCEPT ![w] = open \cap hash]
       /\ left' = left \ open
  /\ UNCHANGED <<external, database, cand, matured, block, verdict, item, lane,
                 crashes, errors, reorgs, stranded>>

(* Mutants: a row without a hash is presumed paid, or queued again.        *)
PresumePaid(w, a) == {"PAID"}
QueueAgain(w, a) == {"PENDING"}

(* ... and finalize them by that hash.  The update goes by id: whatever     *)
(* the row has become meanwhile is overwritten.  What the wallet can        *)
(* answer: settled is paid, open is pending, anything else is failed;       *)
(* without a client, or when the lookup throws, the row is left alone.      *)
ReconcileOutcomes(w, a) ==
  IF a \notin known[w]
    THEN {"FAILED"}
    ELSE {row[a]} \cup
         (IF moved[a] > 0 THEN {"PAID"}
          ELSE IF adrift[a] > 0 THEN {} ELSE {"FAILED"})

ReconcileRow(w, a) ==
  /\ pc[w] = "reconcile"
  /\ a \in todo[w]
  /\ todo' = [todo EXCEPT ![w] = @ \ {a}]
  /\ \E s \in ReconcileOutcomes(w, a) : row' = [row EXCEPT ![a] = s]
  /\ UNCHANGED <<external, blk, directRow, hash, zapped, pc, cand, matured,
                 block, verdict, known, item, lane, faults>>

ReconcileDone(w) ==
  /\ todo[w] = {}
  /\ Goto(w, "reconcile", "idle")
  /\ UNCHANGED <<external, database, cand, matured, block, verdict, known,
                 todo, item, lane, faults>>

(* Mutants: blocks that are MATURED already are taken up again, or every   *)
(* block that is no orphan.                                                *)
FindAgain(w) ==
  /\ Goto(w, "idle", "probe")
  /\ cand' = [cand EXCEPT ![w] =
               {b \in Blocks : blk[b] \in {"FOUND", "MATURED"}}]
  /\ UNCHANGED <<external, database, matured, block, verdict, known, todo,
                 item, lane, faults>>

FindNonOrphans(w) ==
  /\ Goto(w, "idle", "probe")
  /\ cand' = [cand EXCEPT ![w] = {b \in Blocks : blk[b] # "ORPHANED"}]
  /\ UNCHANGED <<external, database, matured, block, verdict, known, todo,
                 item, lane, faults>>

(* checkMaturity: one page of FOUND blocks, in no particular order.        *)
FindCandidates(w) ==
  LET found == {b \in Blocks : blk[b] = "FOUND"} IN
  /\ Goto(w, "idle", "probe")
  /\ \E page \in SUBSET found :
       /\ \/ page = found /\ Cardinality(found) <= PageSize
          \/ Cardinality(page) = PageSize
       /\ cand' = [cand EXCEPT ![w] = page]
  /\ UNCHANGED <<external, database, matured, block, verdict, known, todo,
                 item, lane, faults>>

(* getblock: a block that is too young is left for a later tick ...        *)
LeaveForLater(w, b) ==
  /\ pc[w] = "probe"
  /\ b \in cand[w]
  /\ cand' = [cand EXCEPT ![w] = @ \ {b}]
  /\ UNCHANGED <<external, database, pc, matured, block, verdict, known, todo,
                 item, lane, crashes, reorgs, history>>

(* Mutant: a block with exactly enough confirmations still counts as young.*)
ProbeOffByOne(w, b) ==
  /\ chain[b] # "gone"
  /\ LeaveForLater(w, b)
  /\ UNCHANGED errors

ProbeTooYoung(w, b) ==
  /\ chain[b] = "shallow"
  /\ LeaveForLater(w, b)
  /\ UNCHANGED errors

(* Mutant: whatever is in the chain is mature.                             *)
ProbeWithoutDepth(w, b) ==
  /\ b \in cand[w]
  /\ Goto(w, "probe", "mark")
  /\ cand' = [cand EXCEPT ![w] = @ \ {b}]
  /\ block' = [block EXCEPT ![w] = {b}]
  /\ verdict' = [verdict EXCEPT ![w] =
                   IF chain[b] = "gone" THEN "ORPHANED" ELSE "MATURED"]
  /\ UNCHANGED <<external, database, matured, known, todo, item, lane, faults>>

(* ... and otherwise a status is chosen for it.  "Block not found" counts  *)
(* as orphaned.                                                            *)
ProbeVerdict(w, b) ==
  /\ b \in cand[w]
  /\ chain[b] # "shallow"
  /\ Goto(w, "probe", "mark")
  /\ cand' = [cand EXCEPT ![w] = @ \ {b}]
  /\ block' = [block EXCEPT ![w] = {b}]
  /\ verdict' = [verdict EXCEPT ![w] =
                   IF chain[b] = "deep" THEN "MATURED" ELSE "ORPHANED"]
  /\ UNCHANGED <<external, database, matured, known, todo, item, lane, faults>>

MarkBlock(w) ==
  /\ Goto(w, "mark", "probe")
  /\ \E b \in block[w] :
       /\ blk' = [blk EXCEPT ![b] = verdict[w]]
       /\ matured' = IF verdict[w] = "MATURED"
                       THEN [matured EXCEPT ![w] = @ \cup {b}]
                       ELSE matured
  /\ block' = [block EXCEPT ![w] = {}]
  /\ UNCHANGED <<external, directRow, row, hash, zapped, cand, verdict, known,
                 todo, item, lane, faults>>

(* The loop over m.matured: the next block, or the end of the tick.        *)
NextBlock(w) == pc[w] = "pick" \/ (pc[w] = "probe" /\ cand[w] = {})

PickBlock(w, b) ==
  /\ NextBlock(w)
  /\ b \in matured[w]
  /\ pc' = [pc EXCEPT ![w] = "direct"]
  /\ matured' = [matured EXCEPT ![w] = @ \ {b}]
  /\ block' = [block EXCEPT ![w] = {b}]
  /\ todo' = [todo EXCEPT ![w] = Of(Direct, b)]
  /\ UNCHANGED <<external, database, cand, verdict, known, item, lane, faults>>

(* Mutant: a tick pays out one block and forgets the others.               *)
EndTickAfterOne(w) ==
  /\ NextBlock(w)
  /\ pc[w] = "pick" \/ matured[w] = {}
  /\ pc' = [pc EXCEPT ![w] = "idle"]
  /\ matured' = [matured EXCEPT ![w] = {}]
  /\ UNCHANGED <<external, database, cand, block, verdict, known, todo, item,
                 lane, faults>>

EndTick(w) ==
  /\ NextBlock(w)
  /\ matured[w] = {}
  /\ pc' = [pc EXCEPT ![w] = "idle"]
  /\ UNCHANGED <<external, database, cand, matured, block, verdict, known,
                 todo, item, lane, faults>>

(* recordOnChainPayouts: upsert the row of a coinbase output and, unless   *)
(* its receipt is recorded already, publish one.  A publication reported   *)
(* as rejected is only logged, even if a relay holds the event after all.  *)
RecordDirect(w, a) ==
  /\ pc[w] = "direct"
  /\ a \in todo[w]
  /\ directRow' = directRow \cup {a}
  /\ todo' = [todo EXCEPT ![w] = @ \ {a}]
  /\ \/ UNCHANGED <<receipts, item, pc>>
     \/ /\ a \notin zapped
        /\ receipts' = [receipts EXCEPT ![a] = @ + 1]
        /\ UNCHANGED <<item, pc>>
     \/ /\ a \notin zapped
        /\ receipts' = [receipts EXCEPT ![a] = @ + 1]
        /\ item' = [item EXCEPT ![w] = {a}]
        /\ pc' = [pc EXCEPT ![w] = "stamp"]
  /\ UNCHANGED <<chain, buried, asked, adrift, moved, blk, row, hash, zapped,
                 cand, matured, block, verdict, known, lane, faults>>

StampDirect(w) ==
  /\ Goto(w, "stamp", "direct")
  /\ zapped' = zapped \cup item[w]
  /\ item' = [item EXCEPT ![w] = {}]
  /\ UNCHANGED <<external, blk, directRow, row, hash, cand, matured, block,
                 verdict, known, todo, lane, faults>>

DirectDone(w) ==
  /\ todo[w] = {}
  /\ Goto(w, "direct", "dust")
  /\ todo' = [todo EXCEPT ![w] = UNION {Of(Dust, b) : b \in block[w]}]
  /\ UNCHANGED <<external, database, cand, matured, block, verdict, known,
                 item, lane, faults>>

(* Mutant: the rows get a status that PayoutAttempt does not have.         *)
RecordDustQueued(w, a) ==
  /\ pc[w] = "dust"
  /\ a \in todo[w]
  /\ row' = [row EXCEPT ![a] = IF @ = "NONE" THEN "QUEUED" ELSE @]
  /\ todo' = [todo EXCEPT ![w] = @ \ {a}]
  /\ UNCHANGED <<external, blk, directRow, hash, zapped, pc, cand, matured,
                 block, verdict, known, item, lane, faults>>

(* The dust entries go in as PENDING; a row that exists is left alone.     *)
RecordDust(w, a) ==
  /\ pc[w] = "dust"
  /\ a \in todo[w]
  /\ row' = [row EXCEPT ![a] = IF @ = "NONE" THEN "PENDING" ELSE @]
  /\ todo' = [todo EXCEPT ![w] = @ \ {a}]
  /\ UNCHANGED <<external, blk, directRow, hash, zapped, pc, cand, matured,
                 block, verdict, known, item, lane, faults>>

DustDone(w) ==
  /\ todo[w] = {}
  /\ Goto(w, "dust", "gate")
  /\ UNCHANGED <<external, database, cand, matured, block, verdict, known,
                 todo, item, lane, faults>>

-----------------------------------------------------------------------------
(* fanoutDust                                                              *)

(* Only a MATURED block is fanned out; otherwise the tick is abandoned.    *)
PassGate(w) ==
  /\ \A b \in block[w] : blk[b] = "MATURED"
  /\ Goto(w, "gate", "list")
  /\ UNCHANGED <<external, database, cand, matured, block, verdict, known,
                 todo, item, lane, faults>>

(* The blocks that are MATURED in the database and paid out, now or later  *)
(* in this tick, by this process: only its memory says so.                 *)
OnlyInMemory(w) ==
  {b \in block[w] \cup matured[w] : blk[b] = "MATURED"}

AbandonTick(w) ==
  /\ stranded' = stranded \cup OnlyInMemory(w)
  /\ pc' = [pc EXCEPT ![w] = "idle"]
  /\ cand' = [cand EXCEPT ![w] = {}]
  /\ matured' = [matured EXCEPT ![w] = {}]
  /\ block' = [block EXCEPT ![w] = {}]
  /\ todo' = [todo EXCEPT ![w] = {}]
  /\ item' = [item EXCEPT ![w] = {}]

GateRefuses(w) ==
  /\ pc[w] = "gate"
  /\ \E b \in block[w] : blk[b] # "MATURED"
  /\ AbandonTick(w)
  /\ UNCHANGED <<external, database, verdict, known, lane, crashes, errors,
                 reorgs, left>>

(* No usable Lightning credentials: nothing is sent, every PENDING row of  *)
(* the block fails at once, and the block stays MATURED.                   *)
NoClient(w) ==
  /\ Goto(w, "list", "pick")
  /\ row' = [a \in Dust |-> IF row[a] = "PENDING" /\ a[1] \in block[w]
                              THEN "FAILED" ELSE row[a]]
  /\ block' = [block EXCEPT ![w] = {}]
  /\ UNCHANGED <<external, blk, directRow, hash, zapped, cand, matured,
                 verdict, known, todo, item, lane, faults>>

ListPending(w) ==
  /\ Goto(w, "list", "paying")
  /\ lane' = [lane EXCEPT ![w] = [a \in Dust |->
                IF row[a] = "PENDING" /\ a[1] \in block[w]
                  THEN "queued" ELSE @[a]]]
  /\ UNCHANGED <<external, database, cand, matured, block, verdict, known,
                 todo, item, faults>>

Lanes(w, b, states) == {a \in Of(Dust, b) : lane[w][a] \in states}

(* Mutant: the block is closed although a payment failed.                  *)
DrainedIsDone(w) ==
  \E b \in block[w] :
    /\ Lanes(w, b, Busy \cup {"queued", "thrown"}) = {}
    /\ Goto(w, "paying", "close")
    /\ UNCHANGED <<external, database, cand, matured, block, verdict, known,
                   todo, item, lane, faults>>

(* runWithConcurrency has settled: every item went through a loop.  With   *)
(* no loop at all it settles at once, whatever is queued.  The block is    *)
(* done if no attempt failed.                                              *)
AllDrained(w) ==
  \E b \in block[w] :
    /\ Lanes(w, b, Busy \cup {"thrown"}) = {}
    /\ Concurrency > 0 => Lanes(w, b, {"queued"}) = {}
    /\ \/ Goto(w, "paying", "close") /\ Lanes(w, b, {"failed"}) = {}
       \/ Goto(w, "paying", "pick") /\ Lanes(w, b, {"failed"}) # {}
    /\ UNCHANGED <<external, database, cand, matured, block, verdict, known,
                   todo, item, lane, faults>>

CloseBlock(w) ==
  /\ Goto(w, "close", "pick")
  /\ \E b \in block[w] : blk' = [blk EXCEPT ![b] = "DUST_FANNED_OUT"]
  /\ block' = [block EXCEPT ![w] = {}]
  /\ UNCHANGED <<external, directRow, row, hash, zapped, cand, matured,
                 verdict, known, todo, item, lane, faults>>

(* Promise.all rejects as soon as one loop threw; the other loops go on    *)
(* in the background.                                                      *)
FanoutRejects(w) ==
  /\ pc[w] = "paying"
  /\ \E b \in block[w] : Lanes(w, b, {"thrown"}) # {}
  /\ AbandonTick(w)
  /\ UNCHANGED <<external, database, verdict, known, lane, crashes, errors,
                 reorgs, left>>

-----------------------------------------------------------------------------
(* One payment: an item of runWithConcurrency's queue.                     *)

LaneTo(w, a, from, to) ==
  /\ lane[w][a] = from
  /\ lane' = [lane EXCEPT ![w][a] = to]

tick == <<pc, cand, matured, block, verdict, known, todo, item>>

(* A loop is free: each busy lane holds one, each thrown lane killed one.  *)
LoopFree(w, b) == Cardinality(Lanes(w, b, Busy \cup {"thrown"})) < Concurrency

(* Mutant: the claim does not ask whether the row is still PENDING.        *)
ClaimBlindly(w, a) ==
  /\ LoopFree(w, a[1])
  /\ LaneTo(w, a, "queued", "claimed")
  /\ row' = [row EXCEPT ![a] = "IN_FLIGHT"]
  /\ UNCHANGED <<external, blk, directRow, hash, zapped, tick, faults>>

(* The conditional update PENDING -> IN_FLIGHT; a row another worker has   *)
(* taken is skipped.                                                       *)
Claim(w, a) ==
  /\ LoopFree(w, a[1])
  /\ IF row[a] = "PENDING"
       THEN /\ LaneTo(w, a, "queued", "claimed")
            /\ row' = [row EXCEPT ![a] = "IN_FLIGHT"]
       ELSE /\ LaneTo(w, a, "queued", "done")
            /\ UNCHANGED row
  /\ UNCHANGED <<external, blk, directRow, hash, zapped, tick, faults>>

(* The member is gone, or their Lightning address does not resolve to an   *)
(* invoice: nothing is sent.                                               *)
Unpayable(w, a) ==
  /\ LaneTo(w, a, "claimed", "failing")
  /\ UNCHANGED <<external, database, tick, faults>>

SendPayment(w, a) ==
  /\ a[2] \notin Departed
  /\ LaneTo(w, a, "claimed", "asking")
  /\ asked' = [asked EXCEPT ![a] = @ + 1]
  /\ UNCHANGED <<chain, buried, adrift, moved, receipts, database, tick, faults>>

WalletPays(w, a) ==
  /\ LaneTo(w, a, "asking", "settled")
  /\ moved' = [moved EXCEPT ![a] = @ + 1]
  /\ UNCHANGED <<chain, buried, asked, adrift, receipts, database, tick,
                 faults>>

WalletRefuses(w, a) ==
  /\ LaneTo(w, a, "asking", "failing")
  /\ UNCHANGED <<external, database, tick, faults>>

(* The client gives up (15 s for LNbits, 30 s for NWC, a lost connection,  *)
(* an answer it cannot parse); the wallet still has the request.           *)
TimeOut(w, a) ==
  /\ LaneTo(w, a, "asking", "failing")
  /\ adrift' = [adrift EXCEPT ![a] = @ + 1]
  /\ UNCHANGED <<chain, buried, asked, moved, receipts, database, tick, faults>>

(* PAID and the payment hash, which NWC may leave empty, go in together.   *)
WritePaid(w, a) ==
  /\ LaneTo(w, a, "settled", "paid")
  /\ row' = [row EXCEPT ![a] = "PAID"]
  /\ \E h \in SUBSET {a} : hash' = (hash \ {a}) \cup h
  /\ UNCHANGED <<external, blk, directRow, zapped, tick, faults>>

(* Publish the receipt unless one is recorded; what is reported as         *)
(* rejected is only logged, even if a relay holds the event after all.     *)
PublishDust(w, a) ==
  /\ \/ LaneTo(w, a, "paid", "done") /\ UNCHANGED receipts
     \/ /\ a \notin zapped
        /\ LaneTo(w, a, "paid", "done") \/ LaneTo(w, a, "paid", "published")
        /\ receipts' = [receipts EXCEPT ![a] = @ + 1]
  /\ UNCHANGED <<chain, buried, asked, adrift, moved, database, tick, faults>>

StampDust(w, a) ==
  /\ LaneTo(w, a, "published", "done")
  /\ zapped' = zapped \cup {a}
  /\ UNCHANGED <<external, blk, directRow, row, hash, tick, faults>>

(* The catch block: whatever went wrong, the row becomes FAILED.           *)
WriteFailed(w, a) ==
  /\ LaneTo(w, a, "failing", "failed")
  /\ row' = [row EXCEPT ![a] = "FAILED"]
  /\ UNCHANGED <<external, blk, directRow, hash, zapped, tick, faults>>

-----------------------------------------------------------------------------
(* Faults                                                                  *)

Error == errors < MaxErrors /\ errors' = errors + 1

(* A database call of the tick loop, or of the recovery at startup, throws:*)
(* the tick is abandoned, or recovery ends with the rows it has not ended. *)
TickFails(w) ==
  /\ Error
  /\ pc[w] \in {"reconcile", "direct", "stamp", "dust", "gate", "list", "close"}
  /\ left' = IF pc[w] = "reconcile" THEN left \cup (todo[w] \cap Dust)
                                    ELSE left
  /\ AbandonTick(w)
  /\ UNCHANGED <<external, database, verdict, known, lane, crashes, reorgs>>

(* The node does not answer for a block: reported, and left for later.     *)
ProbeFails(w, b) ==
  /\ Error
  /\ LeaveForLater(w, b)

(* The status update of the maturity watcher throws, before or after it    *)
(* took effect.  Inside the try the block is only reported as errored ...  *)
MarkFails(w) ==
  /\ Error
  /\ Goto(w, "mark", "probe")
  /\ \E b \in block[w] :
       \/ UNCHANGED <<blk, stranded>>
       \/ /\ blk' = [blk EXCEPT ![b] = verdict[w]]
          /\ stranded' = IF verdict[w] = "MATURED" THEN stranded \cup {b}
                                                   ELSE stranded
  /\ block' = [block EXCEPT ![w] = {}]
  /\ UNCHANGED <<external, directRow, row, hash, zapped, cand, matured,
                 verdict, known, todo, item, lane, crashes, reorgs, left>>

(* ... but a block the node does not know is marked ORPHANED in the catch, *)
(* and that update's error leaves checkMaturity: the tick is abandoned with*)
(* the blocks it had marked MATURED.                                       *)
MarkEscapes(w) ==
  /\ Error
  /\ pc[w] = "mark"
  /\ verdict[w] = "ORPHANED"
  /\ \E b \in block[w] : blk' \in {blk, [blk EXCEPT ![b] = "ORPHANED"]}
  /\ AbandonTick(w)
  /\ UNCHANGED <<external, directRow, row, hash, zapped, verdict, known, lane,
                 crashes, reorgs, left>>

(* A database call outside the try block throws and ends its loop: the     *)
(* claim (which may have taken effect), the member lookup, or the write of *)
(* FAILED (likewise).                                                      *)
LaneThrows(w, a) ==
  /\ Error
  /\ \/ /\ LoopFree(w, a[1])
        /\ LaneTo(w, a, "queued", "thrown")
        /\ row' \in {row, [row EXCEPT ![a] = IF @ = "PENDING" THEN "IN_FLIGHT"
                                                              ELSE @]}
     \/ LaneTo(w, a, "claimed", "thrown") /\ UNCHANGED row
     \/ /\ LaneTo(w, a, "failing", "thrown")
        /\ row' \in {row, [row EXCEPT ![a] = "FAILED"]}
  /\ left' = IF row'[a] = "IN_FLIGHT" THEN left \cup {a} ELSE left
  /\ UNCHANGED <<external, blk, directRow, hash, zapped, tick, crashes,
                 reorgs, stranded>>

(* A database call inside the try block throws after the payment and leads *)
(* to the catch: the write of PAID or of zapEventId (either may have taken *)
(* effect), or the read of zapEventId between them.                        *)
LaneCatches(w, a) ==
  /\ Error
  /\ \/ /\ LaneTo(w, a, "settled", "failing")
        /\ \/ UNCHANGED <<row, hash>>
           \/ /\ row' = [row EXCEPT ![a] = "PAID"]
              /\ \E h \in SUBSET {a} : hash' = (hash \ {a}) \cup h
        /\ UNCHANGED zapped
     \/ LaneTo(w, a, "paid", "failing") /\ UNCHANGED <<row, hash, zapped>>
     \/ /\ LaneTo(w, a, "published", "failing")
        /\ zapped' \in {zapped, zapped \cup {a}}
        /\ UNCHANGED <<row, hash>>
  /\ UNCHANGED <<external, blk, directRow, tick, crashes, reorgs, history>>

(* The process dies, or SIGTERM ends it between two ticks.  Requests it    *)
(* was waiting for stay with the wallet.                                   *)
Crash(w) ==
  /\ crashes < MaxCrashes
  /\ crashes' = crashes + 1
  /\ pc[w] # "down"
  /\ stranded' = stranded \cup OnlyInMemory(w)
  /\ pc' = [pc EXCEPT ![w] = "down"]
  /\ cand' = [cand EXCEPT ![w] = {}]
  /\ matured' = [matured EXCEPT ![w] = {}]
  /\ block' = [block EXCEPT ![w] = {}]
  /\ verdict' = [verdict EXCEPT ![w] = "FOUND"]
  /\ known' = [known EXCEPT ![w] = {}]
  /\ todo' = [todo EXCEPT ![w] = {}]
  /\ item' = [item EXCEPT ![w] = {}]
  /\ lane' = [lane EXCEPT ![w] = [a \in Dust |-> "none"]]
  /\ adrift' = [a \in Dust |-> IF lane[w][a] = "asking" THEN adrift[a] + 1
                                                        ELSE adrift[a]]
  /\ UNCHANGED <<chain, buried, asked, moved, receipts, database, errors,
                 reorgs, left>>

-----------------------------------------------------------------------------
(* What a worker does by itself, and what happens to it.                   *)

TickStep(w) ==
  \/ Start(w)
  \/ \E a \in Dust : ReconcileRow(w, a) \/ RecordDust(w, a)
  \/ ReconcileDone(w)
  \/ FindCandidates(w)
  \/ \E b \in Blocks : ProbeTooYoung(w, b) \/ ProbeVerdict(w, b)
                         \/ PickBlock(w, b)
  \/ MarkBlock(w)
  \/ EndTick(w)
  \/ \E a \in Direct : RecordDirect(w, a)
  \/ StampDirect(w)
  \/ DirectDone(w)
  \/ DustDone(w)
  \/ PassGate(w)
  \/ GateRefuses(w)
  \/ ListPending(w)
  \/ AllDrained(w)
  \/ CloseBlock(w)
  \/ FanoutRejects(w)

LaneStep(w, a) ==
  \/ Claim(w, a)
  \/ Unpayable(w, a)
  \/ SendPayment(w, a)
  \/ WalletPays(w, a)
  \/ WalletRefuses(w, a)
  \/ TimeOut(w, a)
  \/ WritePaid(w, a)
  \/ PublishDust(w, a)
  \/ StampDust(w, a)
  \/ WriteFailed(w, a)

Fault(w) ==
  \/ TickFails(w)
  \/ \E b \in Blocks : ProbeFails(w, b)
  \/ MarkFails(w)
  \/ MarkEscapes(w)
  \/ \E a \in Dust : LaneThrows(w, a) \/ LaneCatches(w, a)
  \/ Crash(w)

Next ==
  \/ \E b \in Blocks : Bury(b) \/ Reorg(b)
  \/ \E a \in Dust : DecideAdrift(a)
  \/ \E w \in Workers :
       \/ TickStep(w)
       \/ NoClient(w)
       \/ \E a \in Dust : LaneStep(w, a)
       \/ Fault(w)

Spec == Init /\ [][Next]_vars

(* Fairness.  A worker that is up keeps running, one that is down is       *)
(* started again; a payment loop whose client has a timeout always gets on,*)
(* and nothing else is promised: neither the wallet's answer nor the       *)
(* node's, nor that faults ever happen.                                    *)
FairSpec ==
  /\ Spec
  /\ \A w \in Workers : WF_vars(TickStep(w))
  /\ \A w \in Workers, a \in Dust : WF_vars(LaneStep(w, a))

-----------------------------------------------------------------------------
(* Properties                                                              *)

TypeOK ==
  /\ chain \in [Blocks -> {"shallow", "deep", "gone"}]
  /\ buried \subseteq Blocks
  /\ asked \in [Dust -> Nat]
  /\ adrift \in [Dust -> Nat]
  /\ moved \in [Dust -> Nat]
  /\ receipts \in [Direct \cup Dust -> Nat]
  /\ blk \in [Blocks -> BlockStatus]
  /\ directRow \subseteq Direct
  /\ row \in [Dust -> RowStatus]
  /\ hash \subseteq Dust
  /\ zapped \subseteq Direct \cup Dust
  /\ pc \in [Workers -> LoopState]
  /\ cand \in [Workers -> SUBSET Blocks]
  /\ matured \in [Workers -> SUBSET Blocks]
  /\ block \in [Workers -> SUBSET Blocks]
  /\ verdict \in [Workers -> BlockStatus]
  /\ known \in [Workers -> SUBSET Dust]
  /\ todo \in [Workers -> SUBSET (Direct \cup Dust)]
  /\ item \in [Workers -> SUBSET Direct]
  /\ lane \in [Workers -> [Dust -> LaneState]]
  /\ crashes \in Nat
  /\ errors \in Nat
  /\ reorgs \in Nat
  /\ stranded \subseteq Blocks
  /\ left \subseteq Dust

(* The worker, its crashes and its wallet together keep the promise of      *)
(* PayoutLedger: an entry is taken from the pool before the wallet is asked *)
(* to pay it, and asked for once.                                           *)
Ledger == INSTANCE PayoutLedger WITH
            Entries <- Dust,
            pool    <- {a \in Dust : row[a] \in {"NONE", "PENDING"}},
            sends   <- asked,
            moves   <- moved
KeepsLedger == Ledger!LSpec

(* No dust entry is ever paid twice: at most one pay request for it reaches *)
(* the wallet, whatever crashes, restarts, timeouts, database errors and    *)
(* parallel workers do (dust-fanout.ts: "never double-pays").               *)
AtMostOnePayment == \A a \in Dust : asked[a] <= 1

(* A row says PAID only when the wallet has settled its payment.            *)
PaidIsBacked == \A a \in Dust : row[a] = "PAID" => moved[a] = 1

(* Nothing is recorded or sent for a block that was never buried.  The      *)
(* worker acts on an answer of the node that may be stale: the block may    *)
(* have left the best chain since, and is paid all the same.               *)
NothingBeforeMaturity ==
  \A a \in Direct \cup Dust :
    (a \in directRow \/ (a \in Dust /\ asked[a] > 0)) => a[1] \in buried

(* At most one zap receipt goes out for a payout row (ARCHITECTURE.md: one  *)
(* receipt per member per block).                                           *)
OneReceiptPerRow == \A a \in Direct \cup Dust : receipts[a] <= 1

(* DUST_FANNED_OUT is written only over a fan-out that paid every entry.    *)
FannedOutMeansPaid ==
  \A a \in Dust : blk[a[1]] = "DUST_FANNED_OUT" => row[a] = "PAID"

(* A block's status only moves forward: an orphan stays an orphan and a     *)
(* block that is fanned out is never put back to MATURED.                   *)
StatusMovesForward ==
  [][\A b \in Blocks :
       \/ blk'[b] = blk[b]
       \/ blk[b] = "FOUND" /\ blk'[b] \in {"MATURED", "ORPHANED"}
       \/ blk[b] = "MATURED" /\ blk'[b] = "DUST_FANNED_OUT"]_vars

(* A row that says PAID keeps saying it.                                    *)
PaidIsFinal ==
  [][\A a \in Dust : row[a] = "PAID" => row'[a] = "PAID"]_vars

(* Recovery at startup never closes as FAILED a row whose payment settled  *)
(* (reconcile-inflight.ts: "paid=true -> mark PAID (we have the hash       *)
(* already)").  It does: the hash is stored with PAID, never before.       *)
RecoveryHonoursPayments ==
  [][\A w \in Workers, a \in Dust :
       ReconcileRow(w, a) /\ row'[a] = "FAILED" => moved[a] = 0]_vars

(* Every entry of the block has its row, and every payment its outcome.     *)
Settled(b) ==
  /\ Of(Direct, b) \subseteq directRow
  /\ \A a \in Of(Dust, b) : row[a] \in {"PAID", "FAILED"}

(* A block is never closed as DUST_FANNED_OUT while some worker is in the   *)
(* middle of paying one of its entries.                                     *)
NoPaymentAfterClose ==
  \A w \in Workers, a \in Dust :
    blk[a[1]] = "DUST_FANNED_OUT" =>
      lane[w][a] \notin {"claimed", "asking", "settled"}

(* No row stays IN_FLIGHT for good: its loop ends it, or the restart after  *)
(* a crash does (regtest/README.md: "all IN_FLIGHT rows settle"), except    *)
(* when the claim, the member lookup or the write of FAILED threw and ended *)
(* the loop, or recovery itself threw: that row waits for the next restart.*)
InFlightResolves ==
  <>[](\A a \in Dust : row[a] = "IN_FLIGHT" => a \in left)

(* A block that has matured is paid out: its direct outputs are recorded    *)
(* and each dust entry ends PAID or FAILED.                                 *)
MaturedIsSettled ==
  \A b \in Blocks : (blk[b] = "MATURED") ~> Settled(b)

(* In the end every block that has matured is paid out, unless the process *)
(* lost it while it was its turn or it waited for it: a crash, or a call    *)
(* that threw and abandoned the tick.  Errors of single payments, of other  *)
(* ticks and of the node strand nothing.                                   *)
SettledUnlessStranded ==
  <>[](\A b \in Blocks :
         blk[b] = "MATURED" => Settled(b) \/ b \in stranded)

(* A block that stays buried under maturityConfs blocks is noticed: it does *)
(* not stay FOUND.                                                          *)
BuriedIsNoticed ==
  <>[](\A b \in Blocks : chain[b] = "deep" => blk[b] # "FOUND")

=============================================================================
