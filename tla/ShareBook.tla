----------------------------- MODULE ShareBook -----------------------------
(***************************************************************************)
(* What one connection keeps of its accepted shares: the statistics of     *)
(* each 10-minute slot (StratumV1ClientStatistics.addShares and            *)
(* client-statistics.service.ts) and the best difficulties (the tail of    *)
(* handleMiningSubmission, address-settings.service.ts).                   *)
(*                                                                         *)
(* A call handles one share.  Calls interleave at their database calls;    *)
(* what is sent to the database first also takes effect first.             *)
(* Every share counts one; the difficulties it proves and is credited at   *)
(* are apart, as in the code.  A block found resets no best difficulty: the *)
(* code does so only on a null result, and SUBMIT_BLOCK returns none.      *)
(***************************************************************************)
EXTENDS Integers, Sequences, FiniteSets

CONSTANTS
  Proofs,     \* difficulties a share may prove
  MaxSlots,   \* bound: time slots
  MaxShares,  \* bound: shares
  MaxCalls    \* bound: shares handled at a time

VARIABLES
  slot,     \* the time slot it is
  mine,     \* currentTimeSlot, 0 before the first share
  count,    \* shares and acceptedCount in memory
  saved,    \* less than a minute since lastSave
  stats,    \* rows of each slot, with their shares
  calls,    \* shares being handled: [id, slot, proof, at]
  best,     \* bestDifficulty of the entity
  address,  \* bestDifficulty of the address, -1 without a row
  shares,   \* history: all shares
  crowded,  \* history: shares that were handled while another one was
  failed    \* history: a database call threw

book  == <<mine, count, saved, stats>>
bests == <<best, address>>
past  == <<shares, crowded, failed>>
vars  == <<slot, book, calls, bests, past>>

Shares == [id : 1..MaxShares, slot : 1..MaxSlots, proof : Proofs]

TypeOK ==
  /\ slot \in 1..MaxSlots /\ mine \in 0..MaxSlots
  /\ count \in 0..MaxShares /\ saved \in BOOLEAN
  /\ stats \in [1..MaxSlots -> Seq(0..MaxShares)]
  /\ \A k \in calls : [id |-> k.id, slot |-> k.slot, proof |-> k.proof] \in shares
  /\ best \in Proofs \cup {0} /\ address \in Proofs \cup {-1, 0}
  /\ shares \in SUBSET Shares
  /\ crowded \in SUBSET (1..MaxShares) /\ failed \in BOOLEAN

Init ==
  /\ slot = 1 /\ mine = 0 /\ count = 0 /\ saved = TRUE
  /\ stats = [s \in 1..MaxSlots |-> <<>>]
  /\ calls = {} /\ best = 0 /\ address = -1
  /\ shares = {} /\ crowded = {} /\ failed = FALSE
-----------------------------------------------------------------------------
(* A minute passes, perhaps into the next slot; a save waits for less than *)
(* a slot.                                                                 *)
Minute ==
  /\ saved' = FALSE
  /\ slot' \in {slot, slot + 1} \cap 1..MaxSlots
  /\ slot' # slot => \A k \in calls : k.at # "slot"
  /\ UNCHANGED <<mine, count, stats, calls, bests, past>>

(* update sets every row of the slot.                                      *)
Updated(s, n) == stats' = [stats EXCEPT ![s] = [i \in DOMAIN @ |-> n]]
Inserted(s, n) == stats' = [stats EXCEPT ![s] = Append(@, n)]
-----------------------------------------------------------------------------
(* addShares, up to its first database call: the first share is inserted,  *)
(* a share of the same slot is added (and saved once a minute), one of a   *)
(* new slot first saves the old slot.                                      *)

FirstShare ==
  /\ mine = 0
  /\ mine' = slot /\ count' = count + 1 /\ saved' = TRUE
  /\ Inserted(slot, count + 1)

SameSlot ==
  /\ mine = slot
  /\ count' = count + 1 /\ saved' = TRUE
  /\ IF saved THEN UNCHANGED stats ELSE Updated(slot, count + 1)
  /\ UNCHANGED mine

(* Mutant: the old slot is left without a last save.                       *)
LeaveUnsaved == mine \notin {0, slot} /\ UNCHANGED book

LeaveSlot ==
  /\ mine \notin {0, slot}
  /\ Updated(mine, count)
  /\ UNCHANGED <<mine, count, saved>>

Share(p) ==
  LET s == [id |-> Cardinality(shares) + 1, slot |-> slot, proof |-> p]
      Call(at) == [id |-> s.id, slot |-> slot, proof |-> p, at |-> at]
  IN  /\ s.id <= MaxShares /\ Cardinality(calls) < MaxCalls
      /\ shares' = shares \cup {s}
      /\ \/ (FirstShare \/ SameSlot) /\ calls' = calls \cup {Call("best")}
         \/ LeaveSlot /\ calls' = calls \cup {Call("slot")}
      /\ crowded' = crowded \cup IF calls = {} THEN {} ELSE {s.id} \cup {k.id : k \in calls}
      /\ UNCHANGED <<slot, bests, failed>>

Goto(k, at) == calls' = (calls \ {k}) \cup {[k EXCEPT !.at = at]}

(* The old slot is saved: the new one begins with this share.              *)
NewSlot(k) ==
  /\ k.at = "slot"
  /\ mine' = k.slot /\ count' = 1 /\ saved' = TRUE
  /\ Inserted(k.slot, 1)
  /\ Goto(k, "best")
  /\ UNCHANGED <<slot, bests, past>>

(* The statement throws and changes nothing: logged.                       *)
StatisticsThrow(k) ==
  /\ k.at = "slot"
  /\ Goto(k, "best")
  /\ failed' = TRUE
  /\ UNCHANGED <<slot, book, bests, shares, crowded>>

(* deleteOldStatistics, a day after the slot.                              *)
DeleteOldStatistics(s) ==
  /\ s + 1 < slot
  /\ stats[s] # <<>> /\ mine # s
  /\ stats' = [stats EXCEPT ![s] = <<>>]
  /\ UNCHANGED <<slot, mine, count, saved, calls, bests, past>>
-----------------------------------------------------------------------------
(* The best difficulty: compared with the entity's, written to the row,    *)
(* then to the entity, then compared with the address's and written there. *)

NotBetter(k) ==
  /\ k.at = "best" /\ k.proof <= best
  /\ calls' = calls \ {k}
  /\ UNCHANGED <<slot, book, bests, past>>

Better(k) ==
  /\ k.at = "best" /\ k.proof > best
  /\ Goto(k, "entity")
  /\ UNCHANGED <<slot, book, bests, past>>

(* Mutant: the best is added to.                                           *)
SumBest(p) == best' = best + p

RememberBest(p) == best' = p

(* The row is written; the address's settings are read, or created.        *)
BestOfEntity(k) ==
  /\ k.at = "entity"
  /\ RememberBest(k.proof)
  /\ address' = IF address = -1 THEN 0 ELSE address
  /\ IF k.proof > address' THEN Goto(k, "address") ELSE calls' = calls \ {k}
  /\ UNCHANGED <<slot, book, past>>

BestOfAddress(k) ==
  /\ k.at = "address"
  /\ address' = k.proof
  /\ calls' = calls \ {k}
  /\ UNCHANGED <<slot, book, best, past>>

(* The database throws: the handler ends, and the socket with it.          *)
BestThrows(k) ==
  /\ k.at # "slot"
  /\ calls' = calls \ {k}
  /\ failed' = TRUE
  /\ UNCHANGED <<slot, book, bests, shares, crowded>>

(* Another connection of the address has a better share.                   *)
OtherConnection(p) ==
  /\ p > address
  /\ address' = p
  /\ UNCHANGED <<slot, book, calls, best, past>>

Next ==
  \/ Minute
  \/ \E p \in Proofs : Share(p) \/ OtherConnection(p)
  \/ \E s \in 1..MaxSlots : DeleteOldStatistics(s)
  \/ \E k \in calls : \/ NewSlot(k) \/ StatisticsThrow(k) \/ NotBetter(k) \/ Better(k)
                      \/ BestOfEntity(k) \/ BestOfAddress(k) \/ BestThrows(k)

Spec == Init /\ [][Next]_vars
-----------------------------------------------------------------------------
In(s) == Cardinality({x \in shares : x.slot = s})

(* Of a slot that is over, a row counts every share of the slot, as long   *)
(* as one row only was made for it: the last save comes before the counter *)
(* is reset, whatever shares arrive in between.  Two shares that both find *)
(* the slot changed make two rows, and the first share's count is lost.    *)
SlotsAreComplete ==
  ~failed => \A s \in 1..MaxSlots :
    s < mine /\ Len(stats[s]) = 1 => stats[s][1] = In(s)

(* Without such a pair no slot has two rows, and none that had a share is  *)
(* missing while it is less than a day old.                                *)
OneRowPerSlot ==
  ~failed /\ crowded = {} => \A s \in 1..MaxSlots :
    /\ Len(stats[s]) <= 1
    /\ s + 1 >= slot /\ s <= mine /\ In(s) > 0 => Len(stats[s]) = 1

(* The best difficulty of a connection is some share's, and no worse than  *)
(* that of any share that was handled alone, whatever overlaps before or   *)
(* after: the comparison reads what the write before it left.  Nor does    *)
(* the address then fall behind such a share that was a record.  Shares    *)
(* that overlap may overwrite each other's.                                *)
Record(x) == \A y \in shares : y.id < x.id => y.proof < x.proof

Alone == {x \in shares : x.id \notin crowded /\ \A k \in calls : k.id # x.id}

BestIsKept ==
  ~failed =>
    /\ best > 0 => \E x \in shares : best = x.proof
    /\ \A x \in Alone : x.proof <= best /\ (Record(x) => x.proof <= address)
=============================================================================
