------------------------- MODULE StratumConnection -------------------------
(***************************************************************************)
(* One miner's connection: StratumV1Client and its socket listeners in     *)
(* stratum-v1.service.ts.  The miner sends any messages in any order; each *)
(* is handled by a call of handleMessage of its own, and the calls         *)
(* interleave wherever one waits: for the callback of a write, for the     *)
(* database, for a template.  The steps below are the synchronous          *)
(* stretches between two waits.                                            *)
(*                                                                         *)
(* A reply whose callback would do nothing more leaves no waiting call.    *)
(* Contents of messages are abstracted to what decides: the den a name     *)
(* routes to, whether it passes validation, how a submission is written,   *)
(* the nonce it is read as and the difficulty that proves.                 *)
(* Time is counted in ticks; ages are cut off above the grace window.      *)
(***************************************************************************)
EXTENDS Integers, FiniteSets

CONSTANTS
  Names,        \* records [den, routed, valid]: what authorize may ask for
  NoDen,        \* the den of a name that is not a den's
  Levels,       \* difficulties in use
  Default,      \* the difficulty of a new connection
  Cpuminer,     \* the fixed difficulty of the user agent "cpuminer"
  Texts,        \* submissions as written: nonce, time, version, ...
  Nonces,       \* the same as parsed: what a miner may find
  Parsed,       \* what each text stands for; several may be the same
  Proof,        \* the difficulty each nonce proves
  Grace,        \* vardiffGraceMs, in ticks
  CheckEvery,   \* the interval of checkDifficulty, in ticks
  MaxMessages,  \* bound: messages
  MaxCalls,     \* bound: calls that wait when a message or template arrives
  MaxJobs       \* bound: jobs built

ASSUME ConnectionAssumption ==
  /\ \A n \in Names : n.routed \in BOOLEAN /\ n.valid \in BOOLEAN
  /\ Levels \subseteq Nat /\ Default \in Levels /\ Cpuminer \in Levels
  /\ Parsed \in [Texts -> Nonces] /\ Proof \in [Nonces -> Nat]
  /\ Grace \in Nat /\ CheckEvery \in Nat \ {0}
  /\ MaxMessages \in Nat /\ MaxCalls \in Nat /\ MaxJobs \in Nat

Dens == {n.den : n \in Names} \cup {NoDen}

VARIABLES
  socket,      \* "open", "ended" (half closed), "destroyed" or "closed"
  session,     \* extraNonceAndSessionId is set
  agent,       \* userAgent of clientSubscription
  authorized,  \* clientAuthorization is set
  context,     \* the den of hashdenContext
  suggested,   \* clientSuggestedDifficulty is set
  used,        \* usedSuggestedDifficulty
  initialized, \* stratumInitialized
  listening,   \* stratumSubscription is live
  timer,       \* ticks until checkDifficulty, -1 without one
  leaving,     \* a destroy waits for its delete
  live,        \* sessionDifficulty
  since,       \* ticks since it was set, -1 before the first time
  regimes,     \* recentDifficulties but for the last, which is the live one
  told,        \* the last difficulty written, 0 before
  calls,       \* calls that wait (equal ones are one element)
  received,    \* messages so far
  jobs,        \* the jobs of this connection a share may name, with their den
  built,       \* jobs built
  hashes,      \* miningSubmissionHashes: of the texts
  begun,       \* history: runs of initStratum
  accepted,    \* history: submissions credited, with the times
  recorded,    \* history: dens a share was recorded for
  asked,       \* history: dens authorize asked for
  lately       \* history: ticks since each level was live

line    == <<socket, leaving>>
shake   == <<session, agent, authorized, context, suggested, used, initialized, begun>>
work    == <<listening, timer>>
vardiff == <<live, since, regimes, told, lately>>
table   == <<jobs, built>>
shares  == <<hashes, accepted, recorded>>
vars    == <<line, shake, work, vardiff, calls, received, table, shares, asked>>

Call(at, arg) == [at |-> at, arg |-> arg]

Stages == {"check", "suggest", "route", "announce", "template", "payouts",
           "latest", "block", "stats"}

Regimes == [difficulty : Levels, age : 0..(Grace + 1)]

LineOK == socket \in {"open", "ended", "destroyed", "closed"} /\ leaving \in BOOLEAN

ShakeOK ==
  /\ session \in BOOLEAN /\ agent \in {"none", "cpuminer", "other"}
  /\ authorized \in BOOLEAN /\ context \in Dens
  /\ suggested \in BOOLEAN /\ used \in BOOLEAN /\ initialized \in BOOLEAN
  /\ begun \in 0..2

WorkOK == listening \in BOOLEAN /\ timer \in -1..CheckEvery

VardiffOK ==
  /\ live \in Levels /\ since \in -1..(Grace + 1) /\ regimes \in SUBSET Regimes
  /\ told \in Levels \cup {0} /\ lately \in [Levels -> 0..(Grace + 1)]

CallsOK ==
  \A c \in calls :
    /\ c.at \in Stages
    /\ c.at = "route" => c.arg \in Names
    /\ c.at = "payouts" => c.arg \in Dens

TableOK == jobs \in SUBSET [id : 1..MaxJobs, den : Dens] /\ built \in 0..MaxJobs

SharesOK ==
  /\ hashes \in SUBSET [job : 1..MaxJobs, text : Texts]
  /\ accepted \in SUBSET [job : 1..MaxJobs, text : Texts, times : {1, 2}]
  /\ recorded \in SUBSET Dens

TypeOK ==
  /\ LineOK /\ ShakeOK /\ WorkOK /\ VardiffOK /\ CallsOK /\ TableOK /\ SharesOK
  /\ received \in 0..MaxMessages /\ asked \in SUBSET Dens

Init ==
  /\ socket = "open" /\ leaving = FALSE
  /\ session = FALSE /\ agent = "none" /\ authorized = FALSE /\ context = NoDen
  /\ suggested = FALSE /\ used = FALSE /\ initialized = FALSE /\ begun = 0
  /\ listening = FALSE /\ timer = -1
  /\ live = Default /\ since = -1 /\ regimes = {} /\ told = 0 /\ lately = [l \in Levels |-> Grace + 1]
  /\ calls = {} /\ received = 0
  /\ jobs = {} /\ built = 0
  /\ hashes = {} /\ accepted = {} /\ recorded = {}
  /\ asked = {}
-----------------------------------------------------------------------------
(* Difficulty.                                                             *)

Current == [difficulty |-> live, age |-> since]
Listed  == regimes \cup IF since = -1 THEN {} ELSE {Current}

(* setSessionDifficulty: what is older than the grace window goes, the new *)
(* target comes last.                                                      *)
SetDifficulty(d) ==
  /\ regimes' = {r \in Listed : r.age <= Grace}
  /\ live' = d /\ since' = 0

(* lately with d live from now on                                          *)
Lately(d) == lately' = [lately EXCEPT ![d] = 0]

(* Mutants: superseded targets count however old they are; the live one    *)
(* only while it is young.                                                 *)
CountsForever(r) == TRUE
CountsYoung(r)   == r.age <= Grace

Counts(r) == r = Current \/ r.age <= Grace

(* acceptableTarget: the targets a proof clears; a share is credited at    *)
(* the largest.                                                            *)
Cleared(proof) == {r.difficulty : r \in {x \in Listed : x.difficulty <= proof /\ Counts(x)}}
-----------------------------------------------------------------------------
(* The socket.                                                             *)

(* destroy, up to its first wait; the rest is Release.                     *)
Destroy == leaving' = (leaving \/ session)

(* write on a socket that is not open                                      *)
WriteRefused == /\ Destroy
                /\ socket' = IF socket = "ended" THEN "destroyed" ELSE socket

(* socket.end                                                              *)
EndSocket == socket' = IF socket = "open" THEN "ended" ELSE socket

(* Mutant: the interval is not cleared.                                    *)
StopStream == listening' = FALSE /\ UNCHANGED timer

StopWork == listening' = FALSE /\ timer' = -1

(* destroy, after the client's row was deleted                             *)
Release ==
  /\ leaving
  /\ leaving' = FALSE
  /\ StopWork
  /\ UNCHANGED <<socket, shake, vardiff, calls, received, table, shares, asked>>

Writing == {"check", "suggest", "announce"}

(* A pending write fails: its call gives up.                               *)
WriteFails(c) ==
  /\ c.at \in Writing
  /\ calls' = calls \ {c}
  /\ Destroy
  /\ socket' = CASE socket = "open" -> "ended" [] socket = "ended" -> "destroyed" [] OTHER -> socket
  /\ UNCHANGED <<shake, work, vardiff, received, table, shares, asked>>

(* The miner leaves, the socket times out, or the destruction completes:   *)
(* writes still pending fail, then the listener destroys a client that has *)
(* a session.                                                              *)
Close ==
  /\ socket # "closed"
  /\ socket' = "closed"
  /\ Destroy
  /\ calls' = {c \in calls : c.at \notin Writing}
  /\ UNCHANGED <<shake, work, vardiff, received, table, shares, asked>>
-----------------------------------------------------------------------------
(* sendNewMiningJob.  Connections outside dens have their job at once,     *)
(* those of a den wait for its template and then for its payouts.          *)

AddJob(den) ==
  /\ built < MaxJobs
  /\ built' = built + 1
  /\ jobs' = jobs \cup {[id |-> built + 1, den |-> den]}

StartSend(waiting) ==
  IF context = NoDen
  THEN /\ AddJob(NoDen)
       /\ IF socket = "open" THEN UNCHANGED line ELSE WriteRefused
       /\ calls' = waiting
  ELSE /\ calls' = waiting \cup {Call("template", NoDen)}
       /\ UNCHANGED <<table, line>>

(* getEffectiveJobTemplate answered or threw: the same either way here.    *)
TemplateKnown(c) ==
  /\ c.at = "template"
  /\ calls' = (calls \ {c}) \cup {Call("payouts", context)}
  /\ UNCHANGED <<line, shake, work, vardiff, received, table, shares, asked>>

PayoutsKnown(c) ==
  /\ c.at = "payouts"
  /\ AddJob(c.arg)
  /\ calls' = calls \ {c}
  /\ IF socket = "open" THEN UNCHANGED line ELSE WriteRefused
  /\ UNCHANGED <<shake, work, vardiff, received, shares, asked>>

NoPayouts(c) ==
  /\ c.at = "payouts"
  /\ calls' = calls \ {c}
  /\ EndSocket
  /\ UNCHANGED <<leaving, shake, work, vardiff, received, table, shares, asked>>
-----------------------------------------------------------------------------
(* initStratum, from the end of handleMessage.                             *)

(* Subscribing starts the interval; the stream may replay a template.      *)
Listen(waiting) ==
  /\ listening' = TRUE /\ timer' = CheckEvery
  /\ hashes' = {}
  /\ \/ StartSend(waiting)
     \/ calls' = waiting /\ UNCHANGED <<table, line>>

Flag == initialized' = TRUE

Initialize(waiting) ==
  LET d == IF agent = "cpuminer" THEN Cpuminer ELSE live
  IN  /\ Flag /\ begun < 2 /\ begun' = begun + 1
      /\ IF agent = "cpuminer" \/ since = -1
         THEN SetDifficulty(d) /\ Lately(d) ELSE UNCHANGED <<live, since, regimes, lately>>
      /\ IF suggested
         THEN Listen(waiting) /\ UNCHANGED told
         ELSE /\ UNCHANGED <<work, table, hashes>>
              /\ IF socket = "open"
                 THEN /\ told' = d
                      /\ calls' = waiting \cup {Call("announce", NoDen)}
                      /\ UNCHANGED line
                 ELSE calls' = waiting /\ WriteRefused /\ UNCHANGED told

(* The end of handleMessage: everything but the flags it never writes.     *)
EndOfMessage(waiting) ==
  IF agent # "none" /\ authorized /\ ~initialized
  THEN Initialize(waiting)
  ELSE calls' = waiting /\ UNCHANGED <<initialized, begun, line, work, vardiff, table, hashes>>

(* set_difficulty is written.                                              *)
Announced(c) ==
  /\ c.at = "announce"
  /\ Listen(calls \ {c})
  /\ UNCHANGED <<shake, vardiff, received, accepted, recorded, asked>>
-----------------------------------------------------------------------------
(* handleMessage, one definition per method.                               *)

(* A reply whose callback goes on at the end of handleMessage.             *)
Reply ==
  IF socket = "open"
  THEN /\ calls' = IF initialized THEN calls ELSE calls \cup {Call("check", NoDen)}
       /\ UNCHANGED line
  ELSE calls' = calls /\ WriteRefused

Replied(c) ==
  /\ c.at = "check"
  /\ EndOfMessage(calls \ {c})
  /\ UNCHANGED <<session, agent, authorized, context, suggested, used,
                 received, accepted, recorded, asked>>

Subscribe ==
  /\ session' = TRUE
  /\ agent' \in {"cpuminer", "other"}
  /\ IF socket = "open" THEN Reply ELSE calls' = calls /\ socket' = "destroyed" /\ leaving' = TRUE
  /\ UNCHANGED <<authorized, context, suggested, used, initialized, begun, work, vardiff, table, shares, asked>>

(* configure, and every message that fails validation, only get a reply.   *)
Configure ==
  /\ Reply
  /\ UNCHANGED <<shake, work, vardiff, table, shares, asked>>

(* A method that is not known goes straight to the end.                    *)
OtherMethod ==
  /\ EndOfMessage(calls)
  /\ UNCHANGED <<session, agent, authorized, context, suggested, used, accepted, recorded, asked>>

(* A line that is not JSON, or a submission before initStratum.            *)
Nonsense ==
  /\ EndSocket
  /\ UNCHANGED <<leaving, shake, work, vardiff, calls, table, shares, asked>>

Authorize ==
  \E name \in Names :
    /\ asked' = asked \cup {name.den}
    /\ calls' = calls \cup {Call("route", name)}
    /\ UNCHANGED <<line, shake, work, vardiff, table, shares>>

(* Mutant: the den of a routed name is dropped.                            *)
LostContext(name) == UNCHANGED context

SetContext(name) == context' = IF name.den = NoDen THEN context ELSE name.den

(* The name is a den's and resolved, or not a den's.  The context is set   *)
(* before the message is validated.                                        *)
Routed(c) ==
  /\ c.at = "route" /\ c.arg.routed
  /\ authorized' = (authorized \/ c.arg.valid)
  /\ SetContext(c.arg)
  /\ IF socket = "open"
     THEN /\ calls' = (calls \ {c}) \cup IF initialized THEN {} ELSE {Call("check", NoDen)}
          /\ UNCHANGED line
     ELSE calls' = calls \ {c} /\ WriteRefused
  /\ UNCHANGED <<session, agent, suggested, used, initialized, begun, work, vardiff,
                 received, table, shares, asked>>

(* The name is a den's and did not resolve: an error, and no more.         *)
NotRouted(c) ==
  /\ c.at = "route" /\ ~c.arg.routed
  /\ calls' = calls \ {c}
  /\ IF socket = "open" THEN UNCHANGED line ELSE WriteRefused
  /\ UNCHANGED <<shake, work, vardiff, received, table, shares, asked>>

(* The database is down: the message's handler ends the socket.            *)
RouteThrows(c) ==
  /\ c.at = "route"
  /\ calls' = calls \ {c}
  /\ EndSocket
  /\ UNCHANGED <<leaving, shake, work, vardiff, received, table, shares, asked>>

SuggestDifficulty ==
  /\ ~used
  /\ suggested' = TRUE
  /\ \E d \in Levels :
       /\ SetDifficulty(d) /\ Lately(d)
       /\ told' = IF socket = "open" THEN d ELSE told
  /\ IF socket = "open"
     THEN calls' = calls \cup {Call("suggest", NoDen)} /\ UNCHANGED line
     ELSE calls' = calls /\ WriteRefused
  /\ UNCHANGED <<session, agent, authorized, context, used, initialized, begun, work, table, shares, asked>>

(* The reply is written: no further suggestion is listened to.             *)
SuggestionTaken(c) ==
  /\ c.at = "suggest"
  /\ used' = TRUE
  /\ EndOfMessage(calls \ {c})
  /\ UNCHANGED <<session, agent, authorized, context, suggested,
                 received, accepted, recorded, asked>>
-----------------------------------------------------------------------------
(* handleMiningSubmission.                                                 *)

(* The answer to a share that is refused; nothing follows it.              *)
Refuse == /\ calls' = calls
          /\ IF socket = "open" THEN UNCHANGED line ELSE WriteRefused

Accept(id, text) ==
  accepted' = accepted \cup
    {[job |-> id, text |-> text,
      times |-> IF \E a \in accepted : a.job = id /\ a.text = text THEN 2 ELSE 1]}

(* A submission is known again by its text and judged on what that is      *)
(* parsed to, so the same nonce written otherwise is another submission.   *)
(* A duplicate, a share of a job that is gone and one that clears no       *)
(* target are refused.  One that does may also be a block.                 *)
Submit ==
  /\ initialized
  /\ \E id \in 1..built, text \in Texts :
       LET h       == [job |-> id, text |-> text]
           targets == Cleared(Proof[Parsed[text]])
       IN  /\ hashes' = hashes \cup {h}
           /\ IF h \notin hashes /\ targets # {} /\ \E j \in jobs : j.id = id
              THEN /\ Accept(id, text)
                   /\ \E stage \in {"block", "stats"}, d \in targets :
                        /\ \A t \in targets : t <= d
                        /\ calls' = calls \cup {Call(stage, d)}
                   /\ UNCHANGED line
              ELSE Refuse /\ UNCHANGED accepted
  /\ UNCHANGED <<shake, work, vardiff, table, recorded, asked>>

(* The job is there and its template is not: the handler ends the socket.  *)
SubmitThrows ==
  /\ initialized
  /\ \E j \in jobs, text \in Texts :
       /\ [job |-> j.id, text |-> text] \notin hashes
       /\ hashes' = hashes \cup {[job |-> j.id, text |-> text]}
  /\ EndSocket
  /\ UNCHANGED <<leaving, shake, work, vardiff, calls, table, accepted, recorded, asked>>

(* The block is submitted, saved and its finder notified.                  *)
BlockHandled(c) ==
  /\ c.at = "block"
  /\ calls' = (calls \ {c}) \cup {Call("stats", c.arg)}
  /\ UNCHANGED <<line, shake, work, vardiff, received, table, shares, asked>>

(* Saving the block throws: the socket is ended and the share is lost.     *)
BlockThrows(c) ==
  /\ c.at = "block"
  /\ calls' = calls \ {c}
  /\ EndSocket
  /\ UNCHANGED <<leaving, shake, work, vardiff, received, table, shares, asked>>

(* The statistics are written (an error is logged), the share is recorded  *)
(* for the den the connection has by now, unless that throws.              *)
Credit(c) ==
  /\ c.at = "stats"
  /\ calls' = calls \ {c}
  /\ recorded' \in {recorded, recorded \cup {context}}
  /\ context = NoDen => recorded' = recorded
  /\ IF socket = "open" THEN UNCHANGED line ELSE WriteRefused
  /\ UNCHANGED <<shake, work, vardiff, received, table, hashes, accepted, asked>>
-----------------------------------------------------------------------------
(* The stream of templates and the interval.                               *)

(* Mutant: the submissions seen are forgotten with every template.         *)
ForgetAlways(clear) == hashes' = {}

Forget(clear) == hashes' = IF clear THEN {} ELSE hashes

(* A template arrives.  That of a new block has emptied the table of jobs  *)
(* just before, and the submissions seen are forgotten with it.            *)
Template ==
  /\ listening /\ Cardinality(calls) <= MaxCalls
  /\ \E clear \in BOOLEAN :
       /\ Forget(clear)
       /\ LET before == IF clear THEN {} ELSE jobs IN
          IF context = NoDen
          THEN /\ built < MaxJobs
               /\ built' = built + 1
               /\ jobs' = before \cup {[id |-> built + 1, den |-> NoDen]}
               /\ IF socket = "open" THEN UNCHANGED line ELSE WriteRefused
               /\ UNCHANGED calls
          ELSE /\ jobs' = before
               /\ calls' = calls \cup {Call("template", NoDen)}
               /\ UNCHANGED <<built, line>>
  /\ UNCHANGED <<shake, work, vardiff, received, accepted, recorded, asked>>

(* Mutant: ages are not cut off.                                          *)
OlderAlways(age) == age + 1

Older(age) == IF age > Grace THEN age ELSE age + 1

(* Time passes, as long as shares are judged; a due check comes first.     *)
Tick ==
  /\ timer # 0 /\ socket \in {"open", "ended"}
  /\ timer' = IF timer > 0 THEN timer - 1 ELSE timer
  /\ since' = IF since = -1 THEN since ELSE Older(since)
  /\ regimes' = {[difficulty |-> r.difficulty, age |-> Older(r.age)] : r \in regimes}
  /\ lately' = [l \in Levels |-> IF l = live /\ since # -1 THEN 0 ELSE Older(lately[l])]
  /\ UNCHANGED <<line, shake, listening, live, told, calls, received, table, shares, asked>>

(* Mutant: the new difficulty is not written.                              *)
TellNothing(d) == UNCHANGED told

Tell(d) == told' = IF socket = "open" THEN d ELSE told

(* checkDifficulty: the statistics suggest nothing, or another level,      *)
(* which is set and written; the work that goes with it follows.           *)
CheckDifficulty ==
  /\ timer = 0
  /\ timer' = CheckEvery
  /\ \/ UNCHANGED <<vardiff, calls>>
     \/ \E d \in Levels \ {live} :
          /\ SetDifficulty(d) /\ Lately(d)
          /\ Tell(d)
          /\ calls' = calls \cup {Call("latest", NoDen)}
  /\ UNCHANGED <<line, shake, listening, received, table, shares, asked>>

(* The stream has a template: it is sent again.                            *)
Resend(c) ==
  /\ c.at = "latest"
  /\ StartSend(calls \ {c})
  /\ UNCHANGED <<shake, work, vardiff, received, shares, asked>>

Receive ==
  /\ socket \in {"open", "ended"}
  /\ received < MaxMessages /\ Cardinality(calls) <= MaxCalls
  /\ received' = received + 1
  /\ \/ Subscribe \/ Configure \/ OtherMethod \/ Nonsense \/ Authorize
     \/ SuggestDifficulty \/ Submit \/ SubmitThrows

Continue(c) ==
  \/ Replied(c) \/ Routed(c) \/ NotRouted(c) \/ RouteThrows(c) \/ SuggestionTaken(c)
  \/ Announced(c) \/ WriteFails(c)
  \/ TemplateKnown(c) \/ PayoutsKnown(c) \/ NoPayouts(c) \/ Resend(c)
  \/ BlockHandled(c) \/ BlockThrows(c) \/ Credit(c)

Next ==
  \/ Receive \/ Template \/ Tick \/ CheckDifficulty \/ Close \/ Release
  \/ \E c \in calls : Continue(c)

Spec == Init /\ [][Next]_vars
-----------------------------------------------------------------------------
(* A miner on an open connection has been told the difficulty its shares   *)
(* are held against, before any work and after every change of it, unless  *)
(* it is the fixed one of cpuminer, which is never sent to a miner that    *)
(* suggested another.                                                      *)
DifficultyIsKnown ==
  socket = "open" /\ initialized =>
    told = live \/ (live = Cpuminer /\ suggested)

(* No message is credited twice, letter for letter: the set of submissions *)
(* seen is emptied only when the jobs they were for are gone.  The same    *)
(* nonce written otherwise is credited again; this says nothing of it.     *)
CreditedOnce ==
  \A a \in accepted : a.times = 1

(* A share is credited at a difficulty it proves and that was the          *)
(* connection's target a grace window ago at the earliest.                 *)
CreditIsHonest ==
  [][\A c \in calls' \ calls, h \in hashes' \ hashes :
       c.at \in {"block", "stats"} => c.arg <= Proof[Parsed[h.text]] /\ lately[c.arg] <= Grace]_vars

(* A new submission for a job that is there is not refused for its         *)
(* difficulty when it proves the live target, however long it is live.     *)
LiveTargetCounts ==
  [][\A h \in hashes' \ hashes :
       /\ \E j \in jobs : j.id = h.job
       /\ Proof[Parsed[h.text]] >= live
       /\ socket = "open" /\ socket' = "open"
       => \E a \in accepted' : a.job = h.job /\ a.text = h.text]_vars

(* While a miner has asked for one den only, its work pays that den and    *)
(* its shares are recorded there: the den is known before the first job,   *)
(* and the calls that read it again after waiting agree.                   *)
WorksForItsDen ==
  \A d \in Dens : asked = {d} => (\A j \in jobs : j.den = d) /\ recorded \subseteq {d}

(* initStratum runs once, however the messages that may start it, and      *)
(* their callbacks, interleave: a second run would subscribe twice, and    *)
(* destroy knows one subscription.  A connection that is gone, and whose   *)
(* row is deleted, holds neither a subscription nor an interval, even when *)
(* initStratum ran while it was going.                                     *)
SubscribedOnceAndReleased ==
  /\ begun <= 1
  /\ socket = "closed" /\ ~leaving => ~listening /\ timer = -1

(* What vardiff.utils.ts promises: for a grace window after a change, a    *)
(* share that clears the difficulty before it is not refused for its       *)
(* difficulty.                                                             *)
InFlightSurvives ==
  [][\A h \in hashes' \ hashes :
       /\ \E j \in jobs : j.id = h.job
       /\ \E l \in Levels : l <= Proof[Parsed[h.text]] /\ lately[l] <= Grace
       /\ socket = "open" /\ socket' = "open"
       => \E a \in accepted' : a.job = h.job /\ a.text = h.text]_vars
=============================================================================
