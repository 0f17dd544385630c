--------------------------- MODULE VerifierProxy ---------------------------
(***************************************************************************)
(* The verifier a miner runs between rig and den (apps/verifier): it       *)
(* forwards every line, and looks at each job's coinbase on the way.       *)
(*                                                                         *)
(* A line is a record of what the parsers make of it.  Data arrive in      *)
(* chunks of several lines, each handled to its end without a pause.       *)
(***************************************************************************)
EXTENDS Integers, Sequences, SequencesExt

CONSTANTS
  Miners,   \* connections of rigs
  Configs,  \* rule, thresholds, strict
  Lines,    \* lines a den may send
  MaxLines  \* bound: lines of a connection

VARIABLES
  cfg,
  listening,  \* the server accepts connections
  conn,       \* of a miner: "none", "open", "closed"
  extranonce, \* of a miner: the subscription was seen
  sent,       \* history of a miner: lines its den sent
  passed      \* of a miner: lines its rig was given, and whether they were checked

vars == <<cfg, listening, conn, extranonce, sent, passed>>

Config == [rule : {"SOLO_SHOWCASE", "PPLNS"}, minShare : 0..100, minSats : Nat, strict : BOOLEAN]
Line   == [kind : {"other", "subscribed", "job", "garbled"}, mine : Nat, total : Nat]

TypeOK ==
  /\ cfg \in Config /\ listening \in BOOLEAN
  /\ conn \in [Miners -> {"none", "open", "closed"}]
  /\ extranonce \in [Miners -> BOOLEAN]
  /\ \A m \in Miners : \A i \in DOMAIN sent[m] : sent[m][i] \in Line
  /\ \A m \in Miners : \A i \in DOMAIN passed[m] :
       passed[m][i].line \in Line /\ passed[m][i].seen \in BOOLEAN

Init ==
  /\ cfg \in Configs /\ listening = TRUE
  /\ conn = [m \in Miners |-> "none"] /\ extranonce = [m \in Miners |-> FALSE]
  /\ sent = [m \in Miners |-> <<>>] /\ passed = [m \in Miners |-> <<>>]

Connect(m) ==
  /\ listening /\ conn[m] = "none"
  /\ conn' = [conn EXCEPT ![m] = "open"]
  /\ UNCHANGED <<cfg, listening, extranonce, sent, passed>>

(* verifyOutputs: the job pays my address, and enough of it.               *)
verifyOutputs(job) ==
  /\ job.mine > 0
  /\ IF cfg.rule = "SOLO_SHOWCASE" THEN 100 * job.mine >= cfg.minShare * job.total
     ELSE job.mine >= cfg.minSats

(* Mutant: the verdict only stops the lines after the job.                 *)
StopsLate(failed) == FALSE

(* A destroyed socket is not written to: the failing job stays behind.     *)
Stops(failed) == failed

(* One line.  A job before the subscription, or one that cannot be parsed, *)
(* is passed on unchecked.                                                 *)
Observe(s, line) ==
  LET seen   == line.kind = "job" /\ s.extranonce
      failed == seen /\ ~verifyOutputs(line) /\ cfg.strict
  IN  [open       |-> s.open /\ ~failed,
       failed     |-> s.failed \/ failed,
       extranonce |-> s.extranonce \/ line.kind = "subscribed",
       passed     |-> IF s.open /\ ~Stops(failed)
                      THEN Append(s.passed, [line |-> line, seen |-> seen]) ELSE s.passed]

(* A chunk from the den, of the lines that bring the connection from s0    *)
(* to s.  In strict mode a failing job ends the session and closes the      *)
(* server to new ones.                                                     *)
Fresh(m) ==
  [open |-> TRUE, failed |-> FALSE, extranonce |-> extranonce[m], passed |-> passed[m]]

DenData(m, chunk, s) ==
  /\ conn[m] = "open" /\ Len(sent[m]) + Len(chunk) <= MaxLines
  /\ sent' = [sent EXCEPT ![m] = @ \o chunk]
  /\ passed' = [passed EXCEPT ![m] = s.passed]
  /\ extranonce' = [extranonce EXCEPT ![m] = s.extranonce]
  /\ conn' = [conn EXCEPT ![m] = IF s.failed THEN "closed" ELSE @]
  /\ listening' = (listening /\ ~s.failed)
  /\ UNCHANGED cfg

(* A chunk is one line or two.                                             *)
OneLine(m, a)     == DenData(m, <<a>>, Observe(Fresh(m), a))
TwoLines(m, a, b) == DenData(m, <<a, b>>, Observe(Observe(Fresh(m), a), b))

(* Either socket closes, and the other with it.                            *)
closeBoth(m) ==
  /\ conn[m] = "open"
  /\ conn' = [conn EXCEPT ![m] = "closed"]
  /\ UNCHANGED <<cfg, listening, extranonce, sent, passed>>

Next ==
  \E m \in Miners :
    \/ Connect(m) \/ closeBoth(m)
    \/ \E a \in Lines : OneLine(m, a) \/ \E b \in Lines : TwoLines(m, a, b)

Spec == Init /\ [][Next]_vars
-----------------------------------------------------------------------------
(* In monitor mode the rig is given every line its den sends ("everything  *)
(* is forwarded", proxy.ts:3).  In strict mode it is given a prefix of     *)
(* them without a job that was checked and failed, whatever the chunks.    *)
PassesWhatItMay ==
  \A m \in Miners :
    LET lines == [i \in DOMAIN passed[m] |-> passed[m][i].line] IN
    /\ IsPrefix(lines, sent[m])
    /\ ~cfg.strict => lines = sent[m]
    /\ cfg.strict => \A i \in DOMAIN passed[m] : passed[m][i].seen => verifyOutputs(lines[i])
=============================================================================
