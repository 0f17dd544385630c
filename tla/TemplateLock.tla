---------------------------- MODULE TemplateLock ---------------------------
(***************************************************************************)
(* How several stratum processes get the template of a block: the table    *)
(* rpc_block, in which a process locks a height and saves its template     *)
(* (bitcoin-rpc.service.ts, rpc-block.service.ts), and the stream's calls, *)
(* of which switchMap uses only the newest (stratum-v1-jobs.service.ts).   *)
(*                                                                         *)
(* A template is named by the height of the chain it builds on.  Between   *)
(* two refreshes of a process there is time for a call, unless that waits  *)
(* for another process.  The node is external.                             *)
(***************************************************************************)
EXTENDS Integers

CONSTANTS
  Procs,      \* processes, each with its NODE_APP_INSTANCE
  MaxTip,     \* bound: height of the chain
  Crashing,   \* those that may die
  MaxCrashes  \* bound

ASSUME LockAssumption == MaxTip \in Nat \ {0} /\ MaxCrashes \in Nat

VARIABLES
  tip,     \* the node's block count
  height,  \* blockHeight of a process, 0 before the first poll
  row,     \* of a height: {} or its row
  calls,   \* getBlockTemplate calls
  has,     \* what a process has emitted for the height it knows: "none",
           \* a "current" template or an "old" one
  crashes  \* bound

vars == <<tip, height, row, calls, has, crashes>>

Heights == 1..MaxTip
Null    == 0
Rows    == [by : Procs, data : 0..MaxTip]
Steps   == {"get", "lock", "insert", "wait", "load", "save"}
Calls   == [proc : Procs, height : Heights, step : Steps, got : 0..MaxTip, live : BOOLEAN]

TypeOK ==
  /\ tip \in Heights /\ crashes \in 0..MaxCrashes
  /\ height \in [Procs -> 0..MaxTip] /\ has \in [Procs -> {"none", "current", "old"}]
  /\ row \in [Heights -> SUBSET Rows] /\ \A h \in Heights : \A r, s \in row[h] : r = s
  /\ calls \in SUBSET Calls

Init ==
  /\ tip = 1 /\ crashes = 0
  /\ height = [p \in Procs |-> 0] /\ has = [p \in Procs |-> "none"]
  /\ row = [h \in Heights |-> {}] /\ calls = {}
-----------------------------------------------------------------------------
(* The chain, the polls and the interval of a process.                     *)

Mine ==
  /\ tip < MaxTip
  /\ tip' = tip + 1
  /\ UNCHANGED <<height, row, calls, has, crashes>>

Left(p) == {c \in calls : c.proc = p}

(* Mutant: the results of the calls before this one are used as well.      *)
CallToo(p, h) ==
  calls' = calls \cup {[proc |-> p, height |-> h, step |-> "get", got |-> Null, live |-> TRUE]}

(* switchMap: the calls before this one go on, and nobody listens.         *)
Call(p, h) ==
  calls' = {c \in calls : c.proc # p} \cup {[c EXCEPT !.live = FALSE] : c \in Left(p)}
           \cup {[proc |-> p, height |-> h, step |-> "get", got |-> Null, live |-> TRUE]}

pollMiningInfo(p) ==
  /\ tip > height[p]
  /\ height' = [height EXCEPT ![p] = tip]
  /\ has' = [has EXCEPT ![p] = "none"]
  /\ Call(p, tip)
  /\ UNCHANGED <<tip, row, crashes>>

Refresh(p) ==
  /\ height[p] # 0 /\ \A c \in Left(p) : c.step = "wait"
  /\ Call(p, height[p])
  /\ UNCHANGED <<tip, height, row, has, crashes>>

(* A process dies, or an error of the node or the database ends its stream *)
(* and with it the process; it starts again.                               *)
Crash(p) ==
  /\ p \in Crashing /\ crashes < MaxCrashes
  /\ crashes' = crashes + 1
  /\ height' = [height EXCEPT ![p] = 0] /\ has' = [has EXCEPT ![p] = "none"]
  /\ calls' = calls \ Left(p)
  /\ UNCHANGED <<tip, row>>

(* The timer of app.service.ts.                                            *)
deleteOldBlocks ==
  /\ \E h \in Heights : row[h] # {} /\ \E g \in h + 1..MaxTip : row[g] # {}
  /\ row' = [h \in Heights |-> IF \E g \in h + 1..MaxTip : row[g] # {} THEN {} ELSE row[h]]
  /\ UNCHANGED <<tip, height, calls, has, crashes>>
-----------------------------------------------------------------------------
(* getBlockTemplate.                                                       *)

To(c, step) == (calls \ {c}) \cup {[c EXCEPT !.step = step]}
Write(h, r) == row' = [row EXCEPT ![h] = r]
Return(c, t) ==
  /\ calls' = calls \ {c}
  /\ has' = IF ~c.live THEN has
            ELSE [has EXCEPT ![c.proc] = IF t >= height[c.proc] THEN "current" ELSE "old"]

getBlock(h) == row[h]

Complete(h) == \E r \in getBlock(h) : r.data # Null

Get(c) ==
  /\ c.step = "get"
  /\ IF ~Complete(c.height) THEN calls' = To(c, "lock") /\ UNCHANGED has
     ELSE \E r \in {x \in getBlock(c.height) : x.data # Null} :
       IF r.by = c.proc THEN calls' = To(c, "load") /\ UNCHANGED has
       ELSE Return(c, r.data)
  /\ UNCHANGED <<tip, height, row, crashes>>

(* Mutant: as the comment at the call has it, only an insert can succeed.  *)
TakeNever(c) ==
  /\ UNCHANGED row
  /\ calls' = To(c, "wait")

(* What save finds it updates, where it differs: the holder, and the data  *)
(* if there are any by now.                                                *)
TakeOver(c) ==
  /\ Write(c.height, {[by |-> c.proc, data |-> Null] : r \in row[c.height]})
  /\ calls' = To(c, "load")

(* lockBlock's save looks the row up first.  (A save of data between the   *)
(* lookup and the update commutes with one of the two.)                    *)
LockLookup(c) ==
  /\ c.step = "lock"
  /\ IF row[c.height] # {} THEN TakeOver(c)
     ELSE calls' = To(c, "insert") /\ UNCHANGED row
  /\ UNCHANGED <<tip, height, has, crashes>>

(* Mutant: no key stops the second of two inserts.                         *)
InsertTwice(c) ==
  /\ c.step = "insert"
  /\ Write(c.height, row[c.height] \cup {[by |-> c.proc, data |-> Null]})
  /\ calls' = To(c, "load")
  /\ UNCHANGED <<tip, height, has, crashes>>

(* The unique key stops the second of two inserts.                         *)
LockInsert(c) ==
  /\ c.step = "insert"
  /\ IF row[c.height] = {} THEN Write(c.height, {[by |-> c.proc, data |-> Null]})
     ELSE UNCHANGED row
  /\ calls' = To(c, IF row[c.height] = {} THEN "load" ELSE "wait")
  /\ UNCHANGED <<tip, height, has, crashes>>

(* waitForBlock ends when the data are there; the template is loaded       *)
(* all the same.                                                           *)
waitForBlock(c) ==
  /\ c.step = "wait" /\ Complete(c.height)
  /\ calls' = To(c, "load")
  /\ UNCHANGED <<tip, height, row, has, crashes>>

Load(c) ==
  /\ c.step = "load"
  /\ calls' = (calls \ {c}) \cup {[c EXCEPT !.step = "save", !.got = tip]}
  /\ UNCHANGED <<tip, height, row, has, crashes>>

Save(c) ==
  /\ c.step = "save"
  /\ Write(c.height, {[r EXCEPT !.data = c.got] : r \in row[c.height]})
  /\ Return(c, c.got)
  /\ UNCHANGED <<tip, height, crashes>>

Proceed(c) ==
  \/ Get(c) \/ LockLookup(c) \/ LockInsert(c)
  \/ waitForBlock(c) \/ Load(c) \/ Save(c)

Next ==
  \/ Mine \/ deleteOldBlocks
  \/ \E p \in Procs : pollMiningInfo(p) \/ Refresh(p) \/ Crash(p)
  \/ \E c \in calls : Proceed(c)

Spec == Init /\ [][Next]_vars

(* Polls and intervals go on, and what a live call asks is answered.       *)
LiveCall(p) == \E c \in calls : c.proc = p /\ c.live /\ Proceed(c)
OldCall(p)  == \E c \in calls : c.proc = p /\ ~c.live /\ Proceed(c)

FairSpec ==
  /\ Spec
  /\ \A p \in Procs :
       WF_vars(pollMiningInfo(p)) /\ WF_vars(Refresh(p)) /\ WF_vars(LiveCall(p))
-----------------------------------------------------------------------------
(* Nothing older than the height a process knows is ever stored or         *)
(* returned for that height, whoever fetched it and whatever rows are      *)
(* erased, claimed again or deleted meanwhile.                             *)
NoOlderTemplate ==
  /\ \A h \in Heights : \A r \in row[h] : r.data = Null \/ r.data >= h
  /\ \A p \in Procs : \A c \in Left(p) : c.step = "save" => c.got >= c.height

(* Nor does a process emit one older than the height it knows, although    *)
(* the calls of earlier heights still come to their end.                   *)
TemplatesAreCurrent == NoOlderTemplate /\ \A p \in Procs : has[p] # "old"

(* Nobody waits for ever for a template: though the process that locked a  *)
(* height may die before it saves, every process at last works on the tip. *)
EveryoneGetsTheTip == <>[](\A p \in Procs : height[p] = tip /\ has[p] = "current")
=============================================================================
