--------------------------- MODULE ClientRegistry --------------------------
(***************************************************************************)
(* The table of connected clients: its queue of inserts, heartbeats and    *)
(* deletions (client.service.ts), the timers of app.service.ts, and the    *)
(* connections that use it (stratum-v1.service.ts, and the calls that      *)
(* handle an accepted share in StratumV1Client.ts).                        *)
(*                                                                         *)
(* Time is counted in minutes; ages are cut off above Dead.  The timers    *)
(* run, as they do on the first instance.                                  *)
(***************************************************************************)
EXTENDS Integers

CONSTANTS
  Clients,  \* connections
  Beat,     \* minutes between two heartbeats
  Dead      \* minutes without update after which a row is dead

VARIABLES
  up,       \* connections whose socket is open
  leaving,  \* connections whose destroy waits for its delete
  entity,   \* connections that have an entity
  queue,    \* insertQueue
  batches,  \* inserts on their way
  row,      \* row of a client: "none", "live" or "deleted"
  idle,     \* minutes since updatedAt of the row
  beat,     \* minutes since updatedAt of the entity
  sharing,  \* connections with a share on its way to its heartbeat
  best,     \* connections with a share that may raise the best difficulty
  quiet,    \* history: minutes since a share last confirmed the row
  lost      \* history: connections whose insert failed

conns == <<up, leaving, entity>>
rows  == <<queue, batches, row, idle>>
work  == <<sharing, best>>
vars  == <<conns, rows, beat, work, quiet, lost>>

Never    == Dead + 1
Cap(age) == IF age > Dead THEN age ELSE age + 1

TypeOK ==
  /\ up \subseteq Clients /\ leaving \subseteq Clients /\ entity \subseteq Clients
  /\ queue \subseteq Clients /\ batches \in SUBSET SUBSET Clients
  /\ row \in [Clients -> {"none", "live", "deleted"}]
  /\ idle \in [Clients -> 0..Never] /\ beat \in [Clients -> 0..Never]
  /\ sharing \subseteq Clients /\ best \subseteq Clients
  /\ quiet \in [Clients -> 0..Never] /\ lost \subseteq Clients

Init ==
  /\ up = Clients /\ leaving = {} /\ entity = {}
  /\ queue = {} /\ batches = {} /\ row = [c \in Clients |-> "none"]
  /\ idle = [c \in Clients |-> 0] /\ beat = [c \in Clients |-> Never]
  /\ sharing = {} /\ best = {}
  /\ quiet = [c \in Clients |-> Never] /\ lost = {}
-----------------------------------------------------------------------------
(* Time and timers.                                                        *)

Tick ==
  /\ idle' = [c \in Clients |-> Cap(idle[c])]
  /\ beat' = [c \in Clients |-> Cap(beat[c])]
  /\ quiet' = [c \in Clients |-> Cap(quiet[c])]
  /\ UNCHANGED <<conns, queue, batches, row, work, lost>>

(* insertClients takes the queue ...                                       *)
Flush ==
  /\ queue # {}
  /\ queue' = {}
  /\ batches' = batches \cup {queue}
  /\ UNCHANGED <<conns, row, idle, beat, work, quiet, lost>>

(* ... and inserts it in one statement, or loses it.                       *)
Land(b) ==
  /\ batches' = batches \ {b}
  /\ row' = [c \in Clients |-> IF c \in b THEN "live" ELSE row[c]]
  /\ idle' = [c \in Clients |-> IF c \in b THEN 0 ELSE idle[c]]
  /\ UNCHANGED <<conns, queue, beat, work, quiet, lost>>

LoseBatch(b) ==
  /\ batches' = batches \ {b}
  /\ lost' = lost \cup b
  /\ UNCHANGED <<conns, queue, row, idle, beat, work, quiet>>

(* Mutant: a row is dead only when its client is connected.                *)
DeadUp(c)  == row[c] = "live" /\ idle[c] > Dead /\ c \in up

DeadRow(c) == row[c] = "live" /\ idle[c] > Dead

KillDeadClients ==
  /\ \E c \in Clients : DeadRow(c)
  /\ row' = [c \in Clients |-> IF DeadRow(c) THEN "deleted" ELSE row[c]]
  /\ UNCHANGED <<conns, queue, batches, idle, beat, work, quiet, lost>>

(* deleteOldClients; a day is longer than Dead.                            *)
DeleteOldClient(c) ==
  /\ row[c] = "deleted" /\ idle[c] > Dead
  /\ row' = [row EXCEPT ![c] = "none"]
  /\ UNCHANGED <<conns, queue, batches, idle, beat, work, quiet, lost>>

(* Another process, the first instance, starts: every row is deleted.      *)
DeleteAll ==
  /\ \E c \in Clients : row[c] = "live"
  /\ row' = [c \in Clients |-> IF row[c] = "live" THEN "deleted" ELSE row[c]]
  /\ UNCHANGED <<conns, queue, batches, idle, beat, work, quiet, lost>>
-----------------------------------------------------------------------------
(* Connections.                                                            *)

Close(c) ==
  /\ c \in up
  /\ up' = up \ {c} /\ leaving' = leaving \cup {c}
  /\ UNCHANGED <<entity, rows, beat, work, quiet, lost>>

(* destroy: there may be no row yet to delete.                             *)
Delete(c) ==
  /\ c \in leaving
  /\ leaving' = leaving \ {c}
  /\ row' = [row EXCEPT ![c] = IF @ = "live" THEN "deleted" ELSE @]
  /\ UNCHANGED <<up, entity, queue, batches, idle, beat, work, quiet, lost>>

(* A share is accepted: the first one queues the client's row.             *)
Share(c) ==
  /\ c \in up \ sharing
  /\ entity' = entity \cup {c}
  /\ queue' = IF c \in entity THEN queue ELSE queue \cup {c}
  /\ sharing' = sharing \cup {c}
  /\ UNCHANGED <<up, leaving, batches, row, idle, beat, best, quiet, lost>>

(* Mutant: a heartbeat is sent at twice the distance.                      *)
BeatsSeldom(c) ==
  IF beat[c] <= Dead THEN UNCHANGED <<beat, row, idle>>
  ELSE /\ beat' = [beat EXCEPT ![c] = 0]
       /\ row' = [row EXCEPT ![c] = IF @ = "none" THEN @ ELSE "live"]
       /\ idle' = [idle EXCEPT ![c] = IF row[c] = "none" THEN @ ELSE 0]

(* heartbeat: revives a deleted row, changes nothing when there is none    *)
(* yet; at most once a minute.                                             *)
Beats(c) ==
  IF beat[c] <= Beat THEN UNCHANGED <<beat, row, idle>>
  ELSE /\ beat' = [beat EXCEPT ![c] = 0]
       /\ row' = [row EXCEPT ![c] = IF @ = "none" THEN @ ELSE "live"]
       /\ idle' = [idle EXCEPT ![c] = IF row[c] = "none" THEN @ ELSE 0]

Heartbeat(c) ==
  /\ c \in sharing
  /\ Beats(c)
  /\ quiet' = [quiet EXCEPT ![c] = 0]
  /\ sharing' = sharing \ {c} /\ best' = best \cup {c}
  /\ UNCHANGED <<conns, queue, batches, lost>>

(* The statistics or the heartbeat throw: logged, and the handler goes on. *)
HeartbeatThrows(c) ==
  /\ c \in sharing
  /\ sharing' = sharing \ {c} /\ best' = best \cup {c}
  /\ UNCHANGED <<conns, rows, beat, quiet, lost>>

(* The share is no better than the best.                                   *)
NotBetter(c) ==
  /\ c \in best
  /\ best' = best \ {c}
  /\ UNCHANGED <<conns, rows, beat, sharing, quiet, lost>>

(* updateBestDifficulty touches updatedAt, of a deleted row as well.       *)
Better(c) ==
  /\ c \in best
  /\ best' = best \ {c}
  /\ idle' = [idle EXCEPT ![c] = IF row[c] = "none" THEN @ ELSE 0]
  /\ UNCHANGED <<conns, queue, batches, row, beat, sharing, quiet, lost>>

Handle(c) == Heartbeat(c) \/ HeartbeatThrows(c) \/ NotBetter(c) \/ Better(c)

Next ==
  \/ Tick \/ Flush \/ KillDeadClients \/ DeleteAll
  \/ \E b \in batches : Land(b) \/ LoseBatch(b)
  \/ \E c \in Clients : Close(c) \/ Delete(c) \/ Share(c) \/ Handle(c) \/ DeleteOldClient(c)

Spec == Init /\ [][Next]_vars

(* Timers fire and the database answers.                                   *)
BatchEnds == \E b \in batches : Land(b) \/ LoseBatch(b)

FairSpec ==
  /\ Spec
  /\ WF_vars(Tick) /\ WF_vars(Flush) /\ WF_vars(KillDeadClients) /\ WF_vars(BatchEnds)
  /\ \A c \in Clients : WF_vars(Delete(c)) /\ WF_vars(Handle(c))
-----------------------------------------------------------------------------
(* A connected client whose shares keep coming stays listed: its row is    *)
(* not taken for dead while the share that last confirmed it is younger    *)
(* than the time a row may be idle less the time between heartbeats.       *)
ActiveIsListed ==
  \A c \in up : DeadRow(c) => quiet[c] > Dead - Beat

(* A client that is gone disappears from the list for good, although a     *)
(* share still being handled, or an insert still queued, can bring its row *)
(* back after destroy deleted it.                                          *)
GoneIsForgotten == \A c \in Clients : <>[](c \notin up => row[c] # "live")
=============================================================================
