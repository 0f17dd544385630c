---------------------------- MODULE StratumJobs ----------------------------
(***************************************************************************)
(* How work reaches the miners of one stratum process: the stream          *)
(* newMiningJob$ that turns new blocks and a 60 s interval into templates  *)
(* (stratum-v1-jobs.service.ts), the per-den template substitution with    *)
(* its 4 s cache (hashden.service.ts), and the part of a connection that   *)
(* turns a template into a job (StratumV1Client.sendNewMiningJob).         *)
(*                                                                         *)
(* A connection outside any den builds its job in the same turn of the     *)
(* event loop in which it is handed the template.  A connection of a den   *)
(* first waits for the den's template and then for its payouts, and other  *)
(* steps come in between.  The Bitcoin node is external; the process runs  *)
(* alone (NODE_APP_INSTANCE unset), so a template always is the node's.    *)
(*                                                                         *)
(* Time is counted in periods of the interval.                             *)
(***************************************************************************)
EXTENDS Integers

CONSTANTS
  Conns,         \* connections that ever finish their handshake
  DenConns,      \* those whose authorization was routed to a den
  Dens,          \* the dens
  DenOf,         \* the den of each connection in DenConns
  OperatorDens,  \* dens whose templateSource is OPERATOR_RPC
  Lifetime,      \* 5 minutes, in periods
  SlowNode,      \* whether something is emitted while getblocktemplate runs
  MaxTip,        \* bound: height of the chain
  MaxTime,       \* bound: periods
  MaxTemplates,  \* bound: templates built
  MaxChecks      \* bound: vardiff adjustments

ASSUME DensAssumption ==
  /\ DenConns \subseteq Conns
  /\ DenOf \in [DenConns -> Dens]
  /\ OperatorDens \subseteq Dens

ASSUME JobBoundsAssumption ==
  /\ Lifetime \in Nat /\ SlowNode \in BOOLEAN
  /\ MaxTip \in Nat \ {0} /\ MaxTime \in Nat /\ MaxTemplates \in Nat /\ MaxChecks \in Nat

VARIABLES
  tip,          \* the node's block count
  now,          \* time
  seen,         \* _newBlock$: last height announced, 0 before the first
  interval,     \* last value of the interval, -1 when it starts
  lastInterval, \* lastIntervalCount, -2 while undefined
  skipNext,     \* skipNext
  fetch,        \* {} or the one request switchMap is waiting for
  latest,       \* {} or the one template shareReplay holds
  blocks,       \* the table of templates
  jobs,         \* the table of jobs
  built,        \* latestJobTemplateId
  cache,        \* jobTemplateCache of each den, {} or one unexpired template
  phase,        \* of a connection: "new", "in" (subscribed) or "out"
  sends,        \* calls of sendNewMiningJob that wait (two of one connection
                \* for one template and at one stage add the same job: they
                \* are one element)
  waits,        \* connections whose checkDifficulty waits for a template
  told,         \* of a connection: {} or the last template it was notified of
  checks        \* bound

node   == <<tip, now>>
stream == <<seen, interval, lastInterval, skipNext, fetch, latest>>
tables == <<blocks, jobs, built, cache>>
miners == <<phase, sends, waits, told>>
vars   == <<node, stream, tables, miners, checks>>

Subscribed == {c \in Conns : phase[c] = "in"}

(* A wait is a subscription of its own, which outlives the connection.     *)
Listeners == Subscribed \cup waits

Cause     == {"block", "interval", "subscribe"}
Templates == [id : 1..MaxTemplates, height : 1..MaxTip, born : 0..MaxTime, clear : BOOLEAN]
JobsOf    == [conn : Conns, template : Templates, born : 0..MaxTime]
Sends     == [conn : DenConns, template : Templates, stage : {"template", "payouts"}]

AtMostOne(set) == \A x, y \in set : x = y

TypeOK ==
  /\ tip \in 1..MaxTip /\ now \in 0..MaxTime /\ checks \in 0..MaxChecks
  /\ seen \in 0..MaxTip
  /\ interval \in -1..MaxTime /\ lastInterval \in -2..MaxTime
  /\ skipNext \in BOOLEAN
  /\ fetch \in SUBSET [interval : -1..MaxTime, why : Cause] /\ AtMostOne(fetch)
  /\ latest \in SUBSET Templates /\ AtMostOne(latest)
  /\ blocks \in SUBSET Templates
  /\ jobs \in SUBSET JobsOf
  /\ built \in 0..MaxTemplates
  /\ cache \in [Dens -> SUBSET Templates]
  /\ phase \in [Conns -> {"new", "in", "out"}]
  /\ sends \in SUBSET Sends /\ waits \in SUBSET Conns
  /\ told \in [Conns -> SUBSET Templates]

(* What a process that has just started holds.                             *)
Fresh(s, i, l, k, f, t, b, j, n, c, w, p) ==
  /\ s = 0 /\ i = -1 /\ l = -2 /\ k = FALSE /\ f = {} /\ t = {}
  /\ b = {} /\ j = {} /\ n = 0 /\ c = [d \in Dens |-> {}] /\ w = {} /\ p = {}

Init ==
  /\ tip = 1 /\ now = 0 /\ checks = 0
  /\ Fresh(seen, interval, lastInterval, skipNext, fetch, latest,
           blocks, jobs, built, cache, sends, waits)
  /\ phase = [c \in Conns |-> "new"]
  /\ told = [c \in Conns |-> {}]
-----------------------------------------------------------------------------
(* The node and the interval.                                              *)

Mine ==
  /\ tip < MaxTip
  /\ tip' = tip + 1
  /\ UNCHANGED <<now, stream, tables, miners, checks>>

(* Mutant: the interval has no first value (startWith is missing).         *)
RequestLate(i, why, height, listeners) ==
  fetch' = IF height = 0 \/ listeners = {} \/ why = "subscribe"
           THEN {} ELSE {[interval |-> i, why |-> why]}

(* A new emission of combineLatest: switchMap drops the request it waits   *)
(* for.  Nothing is emitted before the first block, or to nobody.          *)
Request(i, why, height, listeners) ==
  fetch' = IF height = 0 \/ listeners = {} THEN {} ELSE {[interval |-> i, why |-> why]}

Emits == SlowNode \/ fetch = {}

(* pollMiningInfo; the answer may be a moment old.                         *)
Poll ==
  /\ Emits
  /\ seen' \in (seen + 1)..tip
  /\ Request(interval, "block", seen', Listeners)
  /\ UNCHANGED <<node, interval, lastInterval, skipNext, latest, tables, miners, checks>>

(* A period passes.  By then the den caches (4 s) have expired.            *)
Period ==
  /\ now < MaxTime
  /\ Emits
  /\ now' = now + 1
  /\ cache' = [d \in Dens |-> {}]
  /\ IF Listeners = {}
     THEN UNCHANGED <<interval, fetch>>
     ELSE /\ interval' = interval + 1
          /\ Request(interval + 1, "interval", seen, Listeners)
  /\ UNCHANGED <<tip, seen, lastInterval, skipNext, latest, blocks, jobs, built, miners, checks>>

ExpireCache(d) ==
  /\ cache[d] # {}
  /\ cache' = [cache EXCEPT ![d] = {}]
  /\ UNCHANGED <<node, stream, blocks, jobs, built, miners, checks>>
-----------------------------------------------------------------------------
(* sendNewMiningJob, up to its first wait.                                 *)

JobFor(c, t) == [conn |-> c, template |-> t, born |-> now]

(* Connections outside dens have their job at once.                        *)
JobsNow(conns, t)  == {JobFor(c, t) : c \in conns \ DenConns}

(* Those of a den wait: for the den's template, or for the payouts when    *)
(* the cache has one.                                                      *)
SendsNow(conns, t) ==
  {IF cache[DenOf[c]] = {}
   THEN [conn |-> c, template |-> t, stage |-> "template"]
   ELSE [conn |-> c, template |-> CHOOSE u \in cache[DenOf[c]] : TRUE, stage |-> "payouts"]
     : c \in conns \cap DenConns}

(* A job goes out as long as the socket is open.                           *)
Told(conns, t) ==
  [c \in Conns |-> IF c \in (conns \cap Subscribed) \ DenConns THEN {t} ELSE told[c]]

(* checkDifficulty sends its template with clearJobs set.                  *)
Cleared(t) == [t EXCEPT !.clear = TRUE]

(* A new template reaches the subscribers and then those who wait for it.  *)
JobsOut(t)  == JobsNow(Subscribed, t) \cup JobsNow(waits, Cleared(t))
SendsOut(t) == SendsNow(Subscribed, t) \cup SendsNow(waits, Cleared(t))
ToldOut(t)  == [c \in Conns |-> IF c \in waits THEN Told(waits, Cleared(t))[c]
                                               ELSE Told(Subscribed, t)[c]]
-----------------------------------------------------------------------------
(* The stream.                                                             *)

(* Mutant: the first template is numbered before the count is one.         *)
NumberFromZero(clear) == [id |-> built, height |-> tip, born |-> now, clear |-> clear]

NewTemplate(clear) == [id |-> built + 1, height |-> tip, born |-> now, clear |-> clear]

Young(set) == {x \in set : now - x.born <= Lifetime}

(* Mutant: the refresh after a new block is taken for another.             *)
IsNewBlockEagerly(f) == lastInterval = f.interval \/ skipNext

(* The map that tells a new block from a refresh.                          *)
IsNewBlock(f) == lastInterval = f.interval
IsSkipped(f)  == skipNext /\ ~IsNewBlock(f)

(* The template of a refresh right after a new block is dropped.           *)
AnswerSkipped ==
  /\ \E f \in fetch : IsSkipped(f)
  /\ skipNext' = FALSE
  /\ fetch' = {}
  /\ UNCHANGED <<node, seen, interval, lastInterval, latest, tables, miners, checks>>

(* Mutants: the tables are emptied after the template was added, or only   *)
(* the templates are dropped.                                              *)
KeepNothing(clear, t) ==
  /\ blocks' = IF clear THEN {} ELSE Young(blocks) \cup {t}
  /\ LET kept == IF clear THEN {} ELSE Young(jobs)
     IN  jobs' = kept \cup JobsOut(t)
KeepJobs(clear, t) ==
  /\ blocks' = IF clear THEN {t} ELSE Young(blocks) \cup {t}
  /\ jobs' = Young(jobs) \cup JobsOut(t)

(* The tap: a new block empties both tables, a refresh drops what is old.  *)
Keep(clear, t) ==
  /\ blocks' = IF clear THEN {t} ELSE Young(blocks) \cup {t}
  /\ LET kept == IF clear THEN {} ELSE Young(jobs)
     IN  jobs' = kept \cup JobsOut(t)

(* A wait ends with its template; with nobody else subscribed, shareReplay *)
(* keeps none.                                                             *)
Answer ==
  /\ built < MaxTemplates
  /\ \E f \in fetch :
       /\ ~IsSkipped(f)
       /\ skipNext' = IsNewBlock(f)
       /\ lastInterval' = f.interval
       /\ LET t == NewTemplate(IsNewBlock(f)) IN
            /\ Keep(t.clear, t)
            /\ latest' = IF Subscribed = {} THEN {} ELSE {t}
            /\ sends' = sends \cup SendsOut(t)
            /\ told' = ToldOut(t)
  /\ built' = built + 1
  /\ fetch' = {} /\ waits' = {}
  /\ UNCHANGED <<node, seen, interval, cache, phase, checks>>

(* getBlockTemplate throws: no subscriber has an error handler, so RxJS    *)
(* rethrows, the process exits and starts again with nobody connected.     *)
Restart ==
  /\ fetch # {}
  /\ Fresh(seen', interval', lastInterval', skipNext', fetch', latest',
           blocks', jobs', built', cache', sends', waits')
  /\ phase' = [c \in Conns |-> IF phase[c] = "in" THEN "out" ELSE phase[c]]
  /\ told' = [c \in Conns |-> {}]
  /\ UNCHANGED <<node, checks>>
-----------------------------------------------------------------------------
(* Connections.                                                            *)

(* initStratum subscribes.  The first subscriber starts the interval; the  *)
(* others are handed the template the stream replays.                      *)
Subscribe(c) ==
  /\ phase[c] = "new"
  /\ phase' = [phase EXCEPT ![c] = "in"]
  /\ IF Listeners = {}
     THEN /\ interval' = -1
          /\ Request(-1, "subscribe", seen, {c})
          /\ UNCHANGED <<jobs, sends, told>>
     ELSE /\ UNCHANGED <<interval, fetch>>
          /\ \/ /\ latest = {}
                /\ UNCHANGED <<jobs, sends, told>>
             \/ \E t \in latest :
                  /\ jobs' = jobs \cup JobsNow({c}, t)
                  /\ sends' = sends \cup SendsNow({c}, t)
                  /\ told' = [told EXCEPT ![c] = IF c \in DenConns THEN @ ELSE {t}]
  /\ UNCHANGED <<node, seen, lastInterval, skipNext, latest, waits, blocks, built, cache, checks>>

(* destroy unsubscribes; calls that wait go on.  When the last subscriber  *)
(* leaves, shareReplay drops its template and the source.                  *)
Gone(c) ==
  /\ phase' = [phase EXCEPT ![c] = "out"]
  /\ IF Subscribed = {c} /\ waits = {}
     THEN latest' = {} /\ fetch' = {}
     ELSE UNCHANGED <<latest, fetch>>
  /\ told' = [told EXCEPT ![c] = {}]

Unsubscribe(c) ==
  /\ phase[c] = "in"
  /\ Gone(c)
  /\ UNCHANGED <<node, seen, interval, lastInterval, skipNext, tables, sends, waits, checks>>

(* checkDifficulty sends the latest template again; while there is none,   *)
(* firstValueFrom waits for the next (StratumV1Client.ts:792).             *)
CheckDifficulty(c) ==
  /\ phase[c] = "in"
  /\ checks < MaxChecks
  /\ \/ /\ latest = {} /\ waits' = waits \cup {c}
        /\ UNCHANGED <<jobs, sends, told>>
     \/ \E t \in latest :
          /\ jobs' = jobs \cup JobsNow({c}, Cleared(t))
          /\ sends' = sends \cup SendsNow({c}, Cleared(t))
          /\ told' = Told({c}, Cleared(t))
          /\ UNCHANGED waits
  /\ checks' = checks + 1
  /\ UNCHANGED <<node, stream, blocks, built, cache, phase>>
-----------------------------------------------------------------------------
(* The rest of sendNewMiningJob, for a connection of a den.                *)

Proceed(s, t) ==
  sends' = (sends \ {s}) \cup {[s EXCEPT !.template = t, !.stage = "payouts"]}

(* getEffectiveJobTemplate: the den uses the platform's template, or the   *)
(* operator's node failed.                                                 *)
UsePlatform(s) ==
  /\ s.stage = "template"
  /\ Proceed(s, s.template)
  /\ UNCHANGED <<node, stream, tables, phase, waits, told, checks>>

(* The operator's node answered: its template is built and cached.         *)
UseOperator(s) ==
  /\ s.stage = "template"
  /\ DenOf[s.conn] \in OperatorDens
  /\ built < MaxTemplates
  /\ LET t == NewTemplate(s.template.clear) IN
       /\ blocks' = blocks \cup {t}
       /\ cache' = [cache EXCEPT ![DenOf[s.conn]] = {t}]
       /\ Proceed(s, t)
  /\ built' = built + 1
  /\ UNCHANGED <<node, stream, jobs, phase, waits, told, checks>>

(* The payouts are there: the job is added and, if the socket is still     *)
(* open, sent.                                                             *)
SendJob(s) ==
  /\ s.stage = "payouts"
  /\ jobs' = jobs \cup {JobFor(s.conn, s.template)}
  /\ told' = IF phase[s.conn] = "in" THEN [told EXCEPT ![s.conn] = {s.template}] ELSE told
  /\ sends' = sends \ {s}
  /\ UNCHANGED <<node, stream, blocks, built, cache, phase, waits, checks>>

(* The payouts cannot be computed: the connection is closed.               *)
NoPayouts(s) ==
  /\ s.stage = "payouts"
  /\ sends' = sends \ {s}
  /\ IF phase[s.conn] = "in"
     THEN Gone(s.conn)
     ELSE UNCHANGED <<phase, latest, fetch, told>>
  /\ UNCHANGED <<node, seen, interval, lastInterval, skipNext, waits, tables, checks>>

Send(s) == UsePlatform(s) \/ UseOperator(s) \/ SendJob(s) \/ NoPayouts(s)
-----------------------------------------------------------------------------
Next ==
  \/ Mine \/ Poll \/ Period
  \/ AnswerSkipped \/ Answer \/ Restart
  \/ \E d \in Dens : ExpireCache(d)
  \/ \E c \in Conns : Subscribe(c) \/ Unsubscribe(c) \/ CheckDifficulty(c)
  \/ \E s \in sends : Send(s)

Spec == Init /\ [][Next]_vars

(* The service is restarted after a crash, the interval fires, the node    *)
(* answers or throws, and the database answers or throws.                  *)
FairSpec ==
  /\ Spec
  /\ WF_vars(Poll) /\ WF_vars(Period)
  /\ WF_vars(AnswerSkipped \/ Answer \/ Restart)
  /\ \A c \in DenConns : WF_vars(\E s \in sends : s.conn = c /\ Send(s))
-----------------------------------------------------------------------------
(* Whoever is connected outside a den was sent a job for the newest        *)
(* template, and a share on that job finds both the job and the template.  *)
(* Watches the order of the tap (empty the tables, then add), the replay   *)
(* to late subscribers and the purge of old entries.                       *)
NewestWorkIsAccepted ==
  \A t \in latest, c \in Subscribed \ DenConns :
    /\ t \in blocks
    /\ \E u \in told[c] : u.id = t.id /\ \E j \in jobs : j.conn = c /\ j.template = u

(* A job of a connection outside a den never points to a template that was *)
(* removed, except when the template was removed for its age.              *)
JobOutlivesTemplateOnlyByAge ==
  \A j \in jobs : j.conn \notin DenConns =>
    \/ \E t \in blocks : t.id = j.template.id
    \/ now - j.template.born > Lifetime

(* The work of a miner who stays connected is taken away only because of a *)
(* new block or its age: the comparison of interval counts never takes a   *)
(* refresh, or a new first subscriber, for a new block at their expense.   *)
WorkIsTakenOnlyByBlock ==
  [][\A j \in jobs : j \notin jobs' /\ phase[j.conn] = "in" /\ phase'[j.conn] = "in" =>
       now - j.born > Lifetime \/ \E f \in fetch : f.why = "block"]_vars

(* Every job a miner may submit for has its template (the comment of       *)
(* buildJobTemplate: it is found at submit time "regardless of source").   *)
JobHasTemplate == \A j \in jobs : \E t \in blocks : t.id = j.template.id

(* Once a block was announced and its template was delivered, no job for   *)
(* the block before it is accepted any more.                               *)
OldWorkIsRemoved ==
  seen = tip /\ fetch = {} => \A j \in jobs, t \in latest : j.template.height >= t.height

(* A connected miner is sent work, with the next period at the latest: the *)
(* template a first subscriber asks for may be dropped as "the refresh     *)
(* after a new block", the one after it is not.  The premise leaves room   *)
(* for that period within the bound on time.                               *)
GetsWork ==
  \A c \in Conns :
    (phase[c] = "in" /\ now < MaxTime) ~> (told[c] # {} \/ phase[c] = "out")
=============================================================================
