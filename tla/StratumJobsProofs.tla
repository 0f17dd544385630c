------------------------- MODULE StratumJobsProofs -------------------------
(***************************************************************************)
(* What is proved of StratumJobs for every value of its constants.         *)
(***************************************************************************)
EXTENDS StratumJobs, TLAPS

(* Where the pieces of the stream may stand.                               *)
StreamInv ==
  /\ interval < now
  /\ \A f \in fetch : f.interval = interval
  /\ Subscribed = {} => latest = {}
  /\ Listeners = {} => fetch = {}
  /\ waits # {} => latest = {}
  /\ latest # {} =>
       /\ lastInterval <= interval
       /\ \A f \in fetch : f.why # "block" => lastInterval < f.interval

(* A connected miner only has work, or work on its way, after a template   *)
(* was delivered to the present set of subscribers.                        *)
WorkInv ==
  /\ \A j \in jobs : phase[j.conn] # "new" /\ (phase[j.conn] = "in" => latest # {})
  /\ \A s \in sends : phase[s.conn] # "new" /\ (phase[s.conn] = "in" => latest # {})
  /\ \A c \in waits : phase[c] # "new"

(* Jobs of connections outside dens.                                       *)
PlainInv ==
  /\ latest \subseteq blocks
  /\ \A j \in jobs : j.conn \notin DenConns =>
       \/ \E t \in blocks : t.id = j.template.id /\ t.born = j.template.born
       \/ now - j.template.born > Lifetime

(* The frames of the actions are written with these abbreviations.         *)
USE DEF node, stream, tables, miners

-----------------------------------------------------------------------------
(* Types                                                                   *)

(* What an emission asks for is a request, or nothing.                     *)
LEMMA RequestType ==
  ASSUME NEW i \in -1..MaxTime, NEW why \in Cause, NEW h, NEW l, Request(i, why, h, l)
  PROVE  /\ fetch' \in SUBSET [interval : -1..MaxTime, why : Cause]
         /\ AtMostOne(fetch')
<1> DEFINE one == [interval |-> i, why |-> why]
<1>1. one \in [interval : -1..MaxTime, why : Cause]
  OBVIOUS
<1>2. AtMostOne({one})
  BY DEF AtMostOne
<1>3. CASE fetch' = {}
  BY <1>3 DEF AtMostOne
<1>4. CASE fetch' = {one}
  <2> HIDE DEF one
  <2> QED BY <1>1, <1>2, <1>4
<1> QED BY <1>3, <1>4 DEF Request

(* Calls and jobs that start now are well typed.                           *)
LEMMA NowTypes ==
  ASSUME TypeOK, NEW t \in Templates, NEW conns \in SUBSET Conns
  PROVE  /\ JobsNow(conns, t) \subseteq JobsOf
         /\ SendsNow(conns, t) \subseteq Sends
         /\ Told(conns, t) \in [Conns -> SUBSET Templates]
<1>1. JobsNow(conns, t) \subseteq JobsOf
  BY DEF TypeOK, JobsNow, JobFor, JobsOf
<1>2. ASSUME NEW c \in conns \cap DenConns
      PROVE  (IF cache[DenOf[c]] = {}
              THEN [conn |-> c, template |-> t, stage |-> "template"]
              ELSE [conn |-> c, template |-> CHOOSE u \in cache[DenOf[c]] : TRUE,
                    stage |-> "payouts"]) \in Sends
  <2>1. cache[DenOf[c]] \in SUBSET Templates
    BY DensAssumption DEF TypeOK
  <2>2. cache[DenOf[c]] # {} => (CHOOSE u \in cache[DenOf[c]] : TRUE) \in Templates
    BY <2>1
  <2> QED BY <2>2 DEF Sends
<1>3. SendsNow(conns, t) \subseteq Sends
  BY <1>2 DEF SendsNow
<1>4. Told(conns, t) \in [Conns -> SUBSET Templates]
  BY DEF TypeOK, Told
<1> QED BY <1>1, <1>3, <1>4

(* And so are those of a template that goes out.                           *)
LEMMA OutTypes ==
  ASSUME TypeOK, NEW t \in Templates
  PROVE  /\ JobsOut(t) \subseteq JobsOf
         /\ SendsOut(t) \subseteq Sends
         /\ ToldOut(t) \in [Conns -> SUBSET Templates]
<1>1. Cleared(t) \in Templates
  BY DEF Cleared, Templates
<1>2. Subscribed \in SUBSET Conns /\ waits \in SUBSET Conns
  BY DEF Subscribed, TypeOK
<1>3. JobsOut(t) \subseteq JobsOf /\ SendsOut(t) \subseteq Sends
  BY <1>1, <1>2, NowTypes DEF JobsOut, SendsOut
<1>4. /\ Told(waits, Cleared(t)) \in [Conns -> SUBSET Templates]
      /\ Told(Subscribed, t) \in [Conns -> SUBSET Templates]
  BY <1>1, <1>2, NowTypes
<1>5. ToldOut(t) \in [Conns -> SUBSET Templates]
  BY <1>4 DEF ToldOut
<1> QED BY <1>3, <1>5

(* A template built now is well typed.                                     *)
LEMMA NewTemplateType ==
  ASSUME TypeOK, built < MaxTemplates, NEW b \in BOOLEAN
  PROVE  NewTemplate(b) \in Templates /\ built + 1 \in 0..MaxTemplates
  BY JobBoundsAssumption DEF TypeOK, NewTemplate, Templates

(* The stream's own positions.                                             *)
LEMMA StreamStep == TypeOK /\ StreamInv /\ [Next]_vars => StreamInv'
<1> SUFFICES ASSUME TypeOK, StreamInv, [Next]_vars PROVE StreamInv'
  OBVIOUS
<1> USE JobBoundsAssumption DEF TypeOK, StreamInv, Subscribed, Listeners
<1>1. CASE Mine
  BY <1>1 DEF Mine
<1>2. CASE Poll
  BY <1>2 DEF Poll, Request
<1>3. CASE Period
  BY <1>3 DEF Period, Request
<1>4. CASE AnswerSkipped
  BY <1>4 DEF AnswerSkipped
<1>5. CASE Answer
  BY <1>5 DEF Answer
<1>6. CASE Restart
  BY <1>6 DEF Restart, Fresh
<1>7. ASSUME NEW d \in Dens, ExpireCache(d) PROVE StreamInv'
  BY <1>7 DEF ExpireCache
<1>8. ASSUME NEW c \in Conns, Subscribe(c) PROVE StreamInv'
  BY <1>8 DEF Subscribe, Request
<1>9. ASSUME NEW c \in Conns, Unsubscribe(c) PROVE StreamInv'
  BY <1>9 DEF Unsubscribe, Gone
<1>10. ASSUME NEW c \in Conns, CheckDifficulty(c) PROVE StreamInv'
  BY <1>10 DEF CheckDifficulty
<1>11. ASSUME NEW s \in sends, Send(s) PROVE StreamInv'
  <2>1. CASE UsePlatform(s)
    BY <2>1 DEF UsePlatform
  <2>2. CASE UseOperator(s)
    BY <2>2 DEF UseOperator
  <2>3. CASE SendJob(s)
    BY <2>3 DEF SendJob
  <2>4. CASE NoPayouts(s)
    BY <2>4 DEF NoPayouts, Gone, Sends
  <2> QED BY <1>11, <2>1, <2>2, <2>3, <2>4 DEF Send
<1>12. CASE UNCHANGED vars
  BY <1>12 DEF vars
<1> QED
  BY <1>1, <1>2, <1>3, <1>4, <1>5, <1>6, <1>7, <1>8, <1>9, <1>10, <1>11, <1>12 DEF Next

(* A new process is well typed.                                            *)
LEMMA FreshTypes ==
  ASSUME NEW s, NEW i, NEW l, NEW k, NEW f, NEW t, NEW b, NEW j, NEW n, NEW c, NEW w, NEW p,
         Fresh(s, i, l, k, f, t, b, j, n, c, w, p)
  PROVE  /\ s \in 0..MaxTip /\ i \in -1..MaxTime /\ l \in -2..MaxTime /\ k \in BOOLEAN
         /\ f \in SUBSET [interval : -1..MaxTime, why : Cause] /\ AtMostOne(f)
         /\ t \in SUBSET Templates /\ AtMostOne(t)
         /\ b \in SUBSET Templates /\ j \in SUBSET JobsOf /\ n \in 0..MaxTemplates
         /\ c \in [Dens -> SUBSET Templates] /\ w \in SUBSET Sends
         /\ p \in SUBSET Conns
<1>1. AtMostOne(f) /\ AtMostOne(t)
  BY DEF AtMostOne, Fresh
<1>2. s \in 0..MaxTip /\ i \in -1..MaxTime /\ l \in -2..MaxTime /\ n \in 0..MaxTemplates
  BY JobBoundsAssumption DEF Fresh
<1>3. c \in [Dens -> SUBSET Templates]
  BY DEF Fresh
<1> QED BY <1>1, <1>2, <1>3 DEF Fresh

(* The initial state.                                                      *)
LEMMA InitTypes == Init => TypeOK /\ StreamInv /\ WorkInv /\ PlainInv
<1> SUFFICES ASSUME Init PROVE TypeOK /\ StreamInv /\ WorkInv /\ PlainInv
  OBVIOUS
<1>1. TypeOK
  BY FreshTypes, JobBoundsAssumption DEF Init, TypeOK
<1>2. StreamInv /\ WorkInv /\ PlainInv
  BY DEF Init, Fresh, StreamInv, WorkInv, PlainInv, Subscribed, Listeners
<1> QED BY <1>1, <1>2

(* The answers to a request preserve the types.                            *)
LEMMA AnswerTypes ==
  ASSUME TypeOK, Answer
  PROVE  TypeOK'
<1> PICK f \in fetch : /\ skipNext' = IsNewBlock(f)
                       /\ lastInterval' = f.interval
                       /\ LET t == NewTemplate(IsNewBlock(f)) IN
                            /\ Keep(t.clear, t)
                            /\ latest' = IF Subscribed = {} THEN {} ELSE {t}
                            /\ sends' = sends \cup SendsOut(t)
                            /\ told' = ToldOut(t)
  BY DEF Answer
<1> DEFINE t == NewTemplate(IsNewBlock(f))
<1>1. t \in Templates /\ built + 1 \in 0..MaxTemplates
  BY NewTemplateType DEF Answer, IsNewBlock
<1>2. /\ JobsOut(t) \subseteq JobsOf
      /\ SendsOut(t) \subseteq Sends
      /\ ToldOut(t) \in [Conns -> SUBSET Templates]
  BY <1>1, OutTypes
<1>3. Keep(t.clear, t) /\ latest' \subseteq {t} /\ told' = ToldOut(t)
      /\ sends' = sends \cup SendsOut(t)
  OBVIOUS
<1> HIDE DEF t
<1>4. blocks' \in SUBSET Templates /\ jobs' \in SUBSET JobsOf
  BY <1>1, <1>2, <1>3 DEF TypeOK, Keep, Young
<1>5. latest' \in SUBSET Templates /\ AtMostOne(latest')
  BY <1>1, <1>3 DEF AtMostOne
<1>6. f.interval \in -1..MaxTime
  BY DEF TypeOK
<1>7. fetch' = {} /\ AtMostOne(fetch')
  BY DEF AtMostOne, Answer
<1> QED
  BY <1>1, <1>2, <1>3, <1>4, <1>5, <1>6, <1>7, JobBoundsAssumption
  DEF Answer, TypeOK, IsNewBlock

(* Subscribing preserves the types.                                        *)
LEMMA SubscribeTypes ==
  ASSUME TypeOK, NEW c \in Conns, Subscribe(c)
  PROVE  TypeOK'
<1>1. CASE Listeners = {}
  <2>1. -1 \in -1..MaxTime /\ "subscribe" \in Cause
    BY JobBoundsAssumption DEF Cause
  <2>2. Request(-1, "subscribe", seen, {c})
    BY <1>1 DEF Subscribe
  <2>3. fetch' \in SUBSET [interval : -1..MaxTime, why : Cause] /\ AtMostOne(fetch')
    BY <2>1, <2>2, RequestType
  <2> QED BY <1>1, <2>1, <2>3 DEF Subscribe, TypeOK
<1>2. CASE Listeners # {}
  <2>1. CASE latest = {} /\ UNCHANGED <<jobs, sends, told>>
    BY <1>2, <2>1 DEF Subscribe, TypeOK
  <2>2. ASSUME NEW t \in latest, jobs' = jobs \cup JobsNow({c}, t),
               sends' = sends \cup SendsNow({c}, t),
               told' = [told EXCEPT ![c] = IF c \in DenConns THEN @ ELSE {t}]
        PROVE  TypeOK'
    <3>1. t \in Templates
      BY DEF TypeOK
    <3>2. /\ JobsNow({c}, t) \subseteq JobsOf
          /\ SendsNow({c}, t) \subseteq Sends
      BY <3>1, NowTypes
    <3>3. told' \in [Conns -> SUBSET Templates]
      BY <2>2, <3>1 DEF TypeOK
    <3> QED BY <1>2, <2>2, <3>2, <3>3 DEF Subscribe, TypeOK
  <2> QED BY <1>2, <2>1, <2>2 DEF Subscribe
<1> QED BY <1>1, <1>2

(* So does an adjustment of the difficulty.                                *)
LEMMA CheckTypes ==
  ASSUME TypeOK, NEW c \in Conns, CheckDifficulty(c)
  PROVE  TypeOK'
<1>1. UNCHANGED <<node, stream, blocks, built, cache, phase>> /\ checks' \in 0..MaxChecks
  BY JobBoundsAssumption DEF CheckDifficulty, TypeOK
<1>2. CASE waits' = waits \cup {c} /\ UNCHANGED <<jobs, sends, told>>
  BY <1>1, <1>2 DEF TypeOK
<1>3. ASSUME NEW t \in latest,
             jobs' = jobs \cup JobsNow({c}, Cleared(t)), sends' = sends \cup SendsNow({c}, Cleared(t)),
             told' = Told({c}, Cleared(t)), waits' = waits
      PROVE  TypeOK'
  <2>1. Cleared(t) \in Templates
    BY DEF Cleared, TypeOK, Templates
  <2>2. /\ JobsNow({c}, Cleared(t)) \subseteq JobsOf
        /\ SendsNow({c}, Cleared(t)) \subseteq Sends
        /\ Told({c}, Cleared(t)) \in [Conns -> SUBSET Templates]
    BY <2>1, NowTypes
  <2> QED BY <1>1, <1>3, <2>2 DEF TypeOK
<1> QED BY <1>2, <1>3 DEF CheckDifficulty

(* Leaving preserves the types of what it touches.                         *)
LEMMA GoneTypes ==
  ASSUME TypeOK, NEW c \in Conns, Gone(c)
  PROVE  /\ phase' \in [Conns -> {"new", "in", "out"}]
         /\ told' \in [Conns -> SUBSET Templates]
         /\ latest' \in SUBSET Templates /\ AtMostOne(latest')
         /\ fetch' \in SUBSET [interval : -1..MaxTime, why : Cause]
         /\ AtMostOne(fetch')
  BY DEF AtMostOne, TypeOK, Gone

(* A call of sendNewMiningJob that goes on preserves the types.            *)
LEMMA SendTypes ==
  ASSUME TypeOK, NEW s \in sends, Send(s)
  PROVE  TypeOK'
<1>1. s \in Sends /\ s.conn \in DenConns /\ s.conn \in Conns /\ s.template \in Templates
  BY DensAssumption DEF TypeOK, Sends
<1>2. ASSUME NEW t \in Templates, Proceed(s, t)
      PROVE  sends' \in SUBSET Sends
  <2>1. [s EXCEPT !.template = t, !.stage = "payouts"] \in Sends
    BY <1>1 DEF Sends
  <2> QED BY <1>2, <2>1 DEF TypeOK, Proceed
<1>3. CASE UsePlatform(s)
  BY <1>1, <1>2, <1>3 DEF UsePlatform, TypeOK
<1>4. CASE UseOperator(s)
  <2> DEFINE t == NewTemplate(s.template.clear)
  <2>1. s.template.clear \in BOOLEAN
    BY <1>1 DEF Templates
  <2>2. t \in Templates /\ built + 1 \in 0..MaxTemplates
    BY <1>4, <2>1, NewTemplateType DEF UseOperator
  <2>3. blocks' = blocks \cup {t} /\ cache' = [cache EXCEPT ![DenOf[s.conn]] = {t}]
        /\ Proceed(s, t)
    BY <1>4 DEF UseOperator
  <2> HIDE DEF t
  <2>4. sends' \in SUBSET Sends
    BY <1>2, <2>2, <2>3
  <2>5. cache' \in [Dens -> SUBSET Templates] /\ blocks' \in SUBSET Templates
    BY <2>2, <2>3 DEF TypeOK
  <2>6. UNCHANGED <<node, stream, jobs, phase, waits, told, checks>> /\ built' = built + 1
    BY <1>4 DEF UseOperator
  <2> QED BY <2>2, <2>4, <2>5, <2>6 DEF TypeOK
<1>5. CASE SendJob(s)
  BY <1>1, <1>5 DEF SendJob, TypeOK, JobFor, JobsOf
<1>6. CASE NoPayouts(s)
  <2>1. CASE phase[s.conn] = "in"
    BY <1>1, <1>6, <2>1, GoneTypes DEF NoPayouts, TypeOK
  <2>2. CASE phase[s.conn] # "in"
    BY <1>6, <2>2 DEF NoPayouts, TypeOK
  <2> QED BY <2>1, <2>2
<1> QED BY <1>3, <1>4, <1>5, <1>6 DEF Send

(* Every step preserves the types.                                         *)
LEMMA TypeStep == TypeOK /\ StreamInv /\ [Next]_vars => TypeOK'
<1> SUFFICES ASSUME TypeOK, StreamInv, [Next]_vars PROVE TypeOK'
  OBVIOUS
<1> USE JobBoundsAssumption
<1>1. CASE Mine
  BY <1>1 DEF Mine, TypeOK
<1>2. CASE Poll
  <2>1. seen' \in 0..MaxTip /\ interval \in -1..MaxTime /\ "block" \in Cause
        /\ Request(interval, "block", seen', Listeners)
    BY <1>2 DEF Poll, TypeOK, Cause
  <2>2. fetch' \in SUBSET [interval : -1..MaxTime, why : Cause] /\ AtMostOne(fetch')
    BY <2>1, RequestType
  <2> QED BY <1>2, <2>1, <2>2 DEF Poll, TypeOK
<1>3. CASE Period
  <2>1. now + 1 \in 0..MaxTime /\ interval + 1 \in -1..MaxTime /\ "interval" \in Cause
    BY <1>3 DEF Period, TypeOK, StreamInv, Cause
  <2>2. fetch' \in SUBSET [interval : -1..MaxTime, why : Cause] /\ AtMostOne(fetch')
        /\ interval' \in -1..MaxTime
    <3>1. CASE Listeners = {}
      BY <1>3, <3>1 DEF Period, TypeOK
    <3>2. CASE Listeners # {}
      <4>1. Request(interval + 1, "interval", seen, Listeners) /\ interval' = interval + 1
        BY <1>3, <3>2 DEF Period
      <4> QED BY <2>1, <4>1, RequestType
    <3> QED BY <3>1, <3>2
  <2> QED BY <1>3, <2>1, <2>2 DEF Period, TypeOK
<1>4. CASE AnswerSkipped
  BY <1>4 DEF AtMostOne, AnswerSkipped, TypeOK
<1>5. CASE Answer
  BY <1>5, AnswerTypes
<1>6. CASE Restart
  <2>1. Fresh(seen', interval', lastInterval', skipNext', fetch', latest',
              blocks', jobs', built', cache', sends', waits')
    BY <1>6 DEF Restart
  <2> QED BY <1>6, <2>1, FreshTypes DEF Restart, TypeOK
<1>7. ASSUME NEW d \in Dens, ExpireCache(d) PROVE TypeOK'
  BY <1>7 DEF ExpireCache, TypeOK
<1>8. ASSUME NEW c \in Conns, Subscribe(c) PROVE TypeOK'
  BY <1>8, SubscribeTypes
<1>9. ASSUME NEW c \in Conns, Unsubscribe(c) PROVE TypeOK'
  BY <1>9, GoneTypes DEF Unsubscribe, TypeOK
<1>10. ASSUME NEW c \in Conns, CheckDifficulty(c) PROVE TypeOK'
  BY <1>10, CheckTypes
<1>11. ASSUME NEW s \in sends, Send(s) PROVE TypeOK'
  BY <1>11, SendTypes
<1>12. CASE UNCHANGED vars
  BY <1>12 DEF vars, TypeOK
<1> QED
  BY <1>1, <1>2, <1>3, <1>4, <1>5, <1>6, <1>7, <1>8, <1>9, <1>10, <1>11, <1>12 DEF Next

-----------------------------------------------------------------------------
(* Who has work                                                            *)

(* Who a new job or call belongs to.                                       *)
LEMMA NowConns ==
  ASSUME NEW conns, NEW t
  PROVE  /\ \A j \in JobsNow(conns, t) : j.conn \in conns \ DenConns /\ j.template = t /\ j.born = now
         /\ \A s \in SendsNow(conns, t) : s.conn \in conns \cap DenConns
<1>1. \A j \in JobsNow(conns, t) : j.conn \in conns \ DenConns /\ j.template = t /\ j.born = now
  BY DEF JobsNow, JobFor
<1>2. ASSUME NEW s \in SendsNow(conns, t) PROVE s.conn \in conns \cap DenConns
  <2> PICK c \in conns \cap DenConns :
        s = IF cache[DenOf[c]] = {}
            THEN [conn |-> c, template |-> t, stage |-> "template"]
            ELSE [conn |-> c, template |-> CHOOSE u \in cache[DenOf[c]] : TRUE, stage |-> "payouts"]
    BY DEF SendsNow
  <2>1. s.conn = c
    OBVIOUS
  <2> QED BY <2>1
<1> QED BY <1>1, <1>2

(* A template goes out to those who listen.                                *)
LEMMA OutConns ==
  ASSUME NEW t \in Templates
  PROVE  /\ \A j \in JobsOut(t) :
              /\ j.conn \in Listeners \ DenConns
              /\ j.template.id = t.id /\ j.template.born = t.born
         /\ \A s \in SendsOut(t) : s.conn \in Listeners
<1>1. Cleared(t).id = t.id /\ Cleared(t).born = t.born
  BY DEF Cleared, Templates
<1>2. ASSUME NEW j \in JobsOut(t)
      PROVE  /\ j.conn \in Listeners \ DenConns
             /\ j.template = t \/ j.template = Cleared(t)
  BY NowConns DEF JobsOut, Listeners
<1>3. ASSUME NEW s \in SendsOut(t) PROVE s.conn \in Listeners
  BY NowConns DEF SendsOut, Listeners
<1> QED BY <1>1, <1>2, <1>3

(* A call that goes on stays with its connection.                          *)
LEMMA SendConns ==
  ASSUME TypeOK, NEW s \in sends, Send(s)
  PROVE  /\ \A x \in sends' : x \in sends \/ x.conn = s.conn
         /\ \A j \in jobs' : j \in jobs \/ (j.conn = s.conn /\ j.conn \in DenConns)
         /\ s.conn \in DenConns /\ s.conn \in Conns
<1>1. s \in Sends /\ s.conn \in DenConns /\ s.conn \in Conns
  BY DensAssumption DEF TypeOK, Sends
<1>2. ASSUME NEW t, Proceed(s, t)
      PROVE  \A x \in sends' : x \in sends \/ x.conn = s.conn
  <2>1. [s EXCEPT !.template = t, !.stage = "payouts"].conn = s.conn
    BY <1>1 DEF Sends
  <2> QED BY <1>2, <2>1 DEF Proceed
<1>3. \A x \in sends' : x \in sends \/ x.conn = s.conn
  <2>1. CASE UsePlatform(s)
    BY <1>2, <2>1 DEF UsePlatform
  <2>2. CASE UseOperator(s)
    BY <1>2, <2>2 DEF UseOperator
  <2>3. CASE SendJob(s) \/ NoPayouts(s)
    BY <2>3 DEF SendJob, NoPayouts
  <2> QED BY <2>1, <2>2, <2>3 DEF Send
<1>4. \A j \in jobs' : j \in jobs \/ j.conn = s.conn
  <2>1. CASE SendJob(s)
    BY <2>1 DEF SendJob, JobFor
  <2>2. CASE UNCHANGED jobs
    BY <2>2
  <2> QED BY <2>1, <2>2 DEF Send, UsePlatform, UseOperator, NoPayouts
<1> QED BY <1>1, <1>3, <1>4

(* Only the delivery to its subscribers gives a connection work.           *)
LEMMA WorkStep == TypeOK /\ WorkInv /\ [Next]_vars => WorkInv'
<1> SUFFICES ASSUME TypeOK, WorkInv, [Next]_vars PROVE WorkInv'
  OBVIOUS
<1> USE DEF WorkInv
<1>1. CASE Mine \/ Poll \/ Period \/ AnswerSkipped \/ UNCHANGED vars
  BY <1>1 DEF Mine, Poll, Period, AnswerSkipped, vars
<1>2. CASE Answer
  <2> PICK t \in Templates : /\ Keep(t.clear, t)
                             /\ latest' = IF Subscribed = {} THEN {} ELSE {t}
                             /\ sends' = sends \cup SendsOut(t)
    BY <1>2, NewTemplateType DEF Answer, IsNewBlock
  <2>1. \A j \in jobs' : j \in jobs \/ j.conn \in Listeners
    <3>1. \A j \in jobs' : j \in jobs \/ j \in JobsOut(t)
      BY DEF Keep, Young
    <3> QED BY <3>1, OutConns
  <2>2. \A s \in sends' : s \in sends \/ s.conn \in Listeners
    BY OutConns
  <2>3. \A c \in Listeners : c \in Conns /\ phase[c] # "new"
    BY DEF Listeners, Subscribed, TypeOK
  <2>4. phase' = phase /\ waits' = {}
    BY <1>2 DEF Answer
  <2>5. \A c \in Conns : phase[c] = "in" => latest' # {}
    BY DEF Subscribed
  <2>6. /\ \A j \in jobs : j.conn \in Conns
        /\ \A s \in sends : s.conn \in Conns
    BY DensAssumption DEF TypeOK, JobsOf, Sends
  <2>7. /\ \A j \in jobs' : j.conn \in Conns /\ phase[j.conn] # "new"
        /\ \A s \in sends' : s.conn \in Conns /\ phase[s.conn] # "new"
    BY <2>1, <2>2, <2>3, <2>6
  <2> QED BY <2>4, <2>5, <2>7
<1>3. CASE Restart
  BY <1>3 DEF Restart, Fresh
<1>4. ASSUME NEW d \in Dens, ExpireCache(d) PROVE WorkInv'
  BY <1>4 DEF ExpireCache
<1>5. ASSUME NEW c \in Conns, Subscribe(c) PROVE WorkInv'
  <2>1. /\ phase[c] = "new" /\ phase' = [phase EXCEPT ![c] = "in"]
        /\ latest' = latest /\ waits' = waits
    BY <1>5 DEF Subscribe
  <2>2. CASE UNCHANGED <<jobs, sends>>
    BY <2>1, <2>2, DensAssumption DEF TypeOK, JobsOf, Sends
  <2>3. ASSUME NEW t \in latest, jobs' = jobs \cup JobsNow({c}, t),
               sends' = sends \cup SendsNow({c}, t)
        PROVE  WorkInv'
    <3>1. \A j \in jobs' : j \in jobs \/ j.conn = c
      BY <2>3, NowConns
    <3>2. \A s \in sends' : s \in sends \/ s.conn = c
      BY <2>3, NowConns
    <3> QED BY <2>1, <2>3, <3>1, <3>2, DensAssumption DEF TypeOK, JobsOf, Sends
  <2> QED BY <1>5, <2>2, <2>3 DEF Subscribe
<1>6. ASSUME NEW c \in Conns, Gone(c), jobs' = jobs, sends' \subseteq sends, waits' = waits
      PROVE  WorkInv'
  <2>1. \A d \in Conns : d # c => phase'[d] = phase[d]
    BY <1>6 DEF Gone, TypeOK
  <2>2. phase'[c] = "out"
    BY <1>6 DEF Gone, TypeOK
  <2>3. ASSUME NEW d \in Conns, phase'[d] = "in", latest # {} PROVE latest' # {}
    <3>1. d # c /\ phase[d] = "in"
      BY <2>1, <2>2, <2>3
    <3> QED BY <1>6, <2>3, <3>1 DEF Gone, Subscribed
  <2> QED BY <1>6, <2>1, <2>2, <2>3, DensAssumption DEF TypeOK, JobsOf, Sends
<1>7. ASSUME NEW c \in Conns, Unsubscribe(c) PROVE WorkInv'
  BY <1>6, <1>7 DEF Unsubscribe
<1>8. ASSUME NEW c \in Conns, CheckDifficulty(c) PROVE WorkInv'
  <2>1. phase[c] = "in" /\ phase' = phase /\ latest' = latest /\ waits' \subseteq waits \cup {c}
    BY <1>8 DEF CheckDifficulty
  <2>2. CASE UNCHANGED <<jobs, sends>>
    BY <2>1, <2>2
  <2>3. ASSUME NEW u, jobs' = jobs \cup JobsNow({c}, u), sends' = sends \cup SendsNow({c}, u),
               latest # {}
        PROVE  WorkInv'
    BY <2>1, <2>3, NowConns
  <2> QED BY <1>8, <2>2, <2>3 DEF CheckDifficulty
<1>9. ASSUME NEW s \in sends, Send(s) PROVE WorkInv'
  <2>1. CASE NoPayouts(s) /\ phase[s.conn] = "in"
    BY <1>6, <1>9, <2>1, SendConns DEF NoPayouts
  <2>2. CASE UNCHANGED <<phase, latest, waits>>
    BY <1>9, <2>2, SendConns
  <2> QED
    BY <1>9, <2>1, <2>2 DEF Send, UsePlatform, UseOperator, SendJob, NoPayouts
<1> QED
  BY <1>1, <1>2, <1>3, <1>4, <1>5, <1>7, <1>8, <1>9 DEF Next

-----------------------------------------------------------------------------
(* Jobs of connections outside dens                                        *)

(* They keep their templates, by age or in the table.                      *)
LEMMA PlainStep == TypeOK /\ PlainInv /\ [Next]_vars => PlainInv'
<1> SUFFICES ASSUME TypeOK, PlainInv, [Next]_vars PROVE PlainInv'
  OBVIOUS
<1> USE DEF PlainInv
<1> USE JobBoundsAssumption
<1>1. CASE Mine \/ Poll \/ AnswerSkipped \/ UNCHANGED vars
  BY <1>1 DEF Mine, Poll, AnswerSkipped, vars
<1>2. CASE Period
  BY <1>2 DEF Period, TypeOK, JobsOf, Templates
<1>3. CASE Answer
  <2> PICK t \in Templates : Keep(t.clear, t) /\ latest' \subseteq {t}
    BY <1>3, NewTemplateType DEF Answer, IsNewBlock
  <2>1. now' = now
    BY <1>3 DEF Answer
  <2>2. t \in blocks'
    BY DEF Keep
  <2>3. ASSUME NEW j \in jobs', j.conn \notin DenConns
        PROVE  \/ \E b \in blocks' : b.id = j.template.id /\ b.born = j.template.born
               \/ now - j.template.born > Lifetime
    <3>1. CASE j \in JobsOut(t)
      BY <2>2, <3>1, OutConns
    <3>2. CASE j \in jobs /\ blocks' = Young(blocks) \cup {t}
      <4>1. CASE now - j.template.born > Lifetime
        BY <4>1
      <4>2. CASE ~(now - j.template.born > Lifetime)
        <5> PICK b \in blocks : b.id = j.template.id /\ b.born = j.template.born
          BY <2>3, <3>2, <4>2
        <5>1. b \in Young(blocks)
          BY <4>2 DEF Young, TypeOK, Templates
        <5> QED BY <3>2, <5>1
      <4> QED BY <4>1, <4>2
    <3> QED BY <3>1, <3>2 DEF Keep, Young
  <2> QED BY <2>1, <2>2, <2>3
<1>4. CASE Restart
  BY <1>4 DEF Restart, Fresh
<1>5. ASSUME NEW d \in Dens, ExpireCache(d) PROVE PlainInv'
  BY <1>5 DEF ExpireCache
<1>6. ASSUME NEW c \in Conns, Subscribe(c) PROVE PlainInv'
  <2>1. UNCHANGED <<now, latest, blocks>>
    BY <1>6 DEF Subscribe
  <2>2. CASE jobs' = jobs
    BY <2>1, <2>2
  <2>3. ASSUME NEW t \in latest, jobs' = jobs \cup JobsNow({c}, t) PROVE PlainInv'
    BY <2>1, <2>3, NowConns
  <2> QED BY <1>6, <2>2, <2>3 DEF Subscribe
<1>7. ASSUME NEW c \in Conns, Unsubscribe(c) PROVE PlainInv'
  BY <1>7 DEF Unsubscribe, Gone
<1>8. ASSUME NEW c \in Conns, CheckDifficulty(c) PROVE PlainInv'
  <2>1. UNCHANGED <<now, latest, blocks>>
    BY <1>8 DEF CheckDifficulty
  <2>2. CASE UNCHANGED jobs
    BY <2>1, <2>2
  <2>3. ASSUME NEW t \in latest, jobs' = jobs \cup JobsNow({c}, Cleared(t)) PROVE PlainInv'
    <3>1. Cleared(t).id = t.id /\ Cleared(t).born = t.born /\ t \in blocks
      BY DEF Cleared, TypeOK, Templates
    <3>2. ASSUME NEW j \in JobsNow({c}, Cleared(t))
          PROVE  \E b \in blocks : b.id = j.template.id /\ b.born = j.template.born
      <4>1. j.template = Cleared(t)
        BY NowConns
      <4> QED BY <3>1, <4>1
    <3> QED BY <2>1, <2>3, <3>2
  <2> QED BY <1>8, <2>2, <2>3 DEF CheckDifficulty
<1>9. ASSUME NEW s \in sends, Send(s) PROVE PlainInv'
  <2>1. blocks \subseteq blocks' /\ now' = now /\ latest' \subseteq latest
    BY <1>9 DEF Send, UsePlatform, UseOperator, SendJob, NoPayouts, Gone
  <2> QED BY <1>9, <2>1, SendConns
<1> QED
  BY <1>1, <1>2, <1>3, <1>4, <1>5, <1>6, <1>7, <1>8, <1>9 DEF Next

(* Whoever is outside a den has its job for the newest template.           *)
HasNewest(c, t) ==
  \E u \in told[c] : u.id = t.id /\ \E j \in jobs : j.conn = c /\ j.template = u

(* A job for t, made now and told, is such a job.                          *)
LEMMA ToldNow ==
  ASSUME TypeOK, NEW conns \in SUBSET Conns, NEW c \in conns \ DenConns, NEW t, NEW u,
         u.id = t.id, told'[c] = {u}, JobsNow(conns, u) \subseteq jobs'
  PROVE  HasNewest(c, t)'
<1>1. told'[c] = {u}
  OBVIOUS
<1>2. JobFor(c, u) \in jobs'
  BY DEF JobsNow
<1>3. JobFor(c, u).conn = c /\ JobFor(c, u).template = u
  BY DEF JobFor
<1> QED BY <1>1, <1>2, <1>3 DEF HasNewest

(* It stays so whatever happens next.                                      *)
LEMMA NewestStep ==
  ASSUME TypeOK, StreamInv, [Next]_vars,
         \A t \in latest, c \in Subscribed \ DenConns : HasNewest(c, t)
  PROVE  (\A t \in latest, c \in Subscribed \ DenConns : HasNewest(c, t))'
<1> DEFINE Inv == \A t \in latest, c \in Subscribed \ DenConns : HasNewest(c, t)
<1> SUFFICES ASSUME NEW t \in latest', NEW c \in Subscribed' \ DenConns PROVE HasNewest(c, t)'
  OBVIOUS
<1>a. c \in Conns /\ c \notin DenConns /\ phase'[c] = "in"
  BY DEF Subscribed
<1>1. ASSUME phase[c] = "in", t \in latest, told'[c] = told[c], jobs \subseteq jobs'
      PROVE  HasNewest(c, t)'
  BY <1>a, <1>1 DEF HasNewest, Subscribed
<1>2. CASE Mine \/ Poll \/ Period \/ AnswerSkipped \/ UNCHANGED vars
  BY <1>1, <1>2, <1>a DEF Mine, Poll, Period, AnswerSkipped, vars
<1>3. CASE Answer
  <2> PICK u \in Templates : Keep(u.clear, u) /\ latest' \subseteq {u} /\ told' = ToldOut(u)
    BY <1>3, NewTemplateType DEF Answer, IsNewBlock
  <2>1. JobsNow(Subscribed, u) \subseteq jobs' /\ JobsNow(waits, Cleared(u)) \subseteq jobs'
    BY DEF Keep, JobsOut
  <2>2. c \in Subscribed \ DenConns /\ Subscribed \in SUBSET Conns /\ waits \in SUBSET Conns /\ u = t
    BY <1>3, <1>a DEF Answer, Subscribed, TypeOK
  <2>3. Cleared(u).id = u.id
    BY DEF Cleared, Templates
  <2>4. CASE c \in waits
    <3>1. told'[c] = {Cleared(u)}
      BY <1>a, <2>2, <2>4 DEF ToldOut, Told
    <3> QED BY <2>1, <2>2, <2>3, <2>4, <3>1, ToldNow
  <2>5. CASE c \notin waits
    <3>1. told'[c] = {u}
      BY <1>a, <2>2, <2>5 DEF ToldOut, Told
    <3> QED BY <2>1, <2>2, <3>1, ToldNow
  <2> QED BY <2>4, <2>5
<1>4. CASE Restart
  BY <1>4, <1>a DEF Restart, TypeOK
<1>5. ASSUME NEW d \in Dens, ExpireCache(d) PROVE HasNewest(c, t)'
  BY <1>1, <1>5, <1>a DEF ExpireCache
<1>6. ASSUME NEW d \in Conns, Subscribe(d) PROVE HasNewest(c, t)'
  <2>1. t \in latest /\ Listeners # {} /\ phase' = [phase EXCEPT ![d] = "in"]
    BY <1>6 DEF Subscribe, StreamInv, Listeners
  <2>2. PICK u \in latest :
          /\ jobs' = jobs \cup JobsNow({d}, u)
          /\ told' = [told EXCEPT ![d] = IF d \in DenConns THEN told[d] ELSE {u}]
    BY <1>6, <2>1 DEF Subscribe
  <2>3. u = t
    BY <2>1, <2>2 DEF AtMostOne, TypeOK
  <2>4. CASE c = d
    <3>1. told'[c] = {u}
      BY <1>a, <2>2, <2>4 DEF TypeOK
    <3> QED BY <1>a, <2>2, <2>3, <2>4, <3>1, ToldNow
  <2>5. CASE c # d
    <3>1. phase[c] = "in" /\ told'[c] = told[c]
      BY <1>a, <2>1, <2>2, <2>5 DEF TypeOK
    <3> QED BY <1>1, <2>1, <2>2, <3>1
  <2> QED BY <2>4, <2>5
<1>7. ASSUME NEW d \in Conns, Gone(d), jobs' = jobs PROVE HasNewest(c, t)'
  <2>1. c # d /\ phase[c] = "in" /\ told'[c] = told[c] /\ t \in latest
    BY <1>7, <1>a DEF Gone, TypeOK
  <2> QED BY <1>1, <1>7, <2>1
<1>8. ASSUME NEW d \in Conns, Unsubscribe(d) PROVE HasNewest(c, t)'
  BY <1>7, <1>8 DEF Unsubscribe
<1>9. ASSUME NEW d \in Conns, CheckDifficulty(d) PROVE HasNewest(c, t)'
  <2>1. phase' = phase /\ latest' = latest /\ latest # {} /\ phase[d] = "in"
    BY <1>9 DEF CheckDifficulty
  <2> PICK v \in latest : /\ jobs' = jobs \cup JobsNow({d}, Cleared(v))
                          /\ told' = Told({d}, Cleared(v))
    BY <1>9, <2>1 DEF CheckDifficulty
  <2>2. Cleared(v).id = v.id /\ v = t
    BY <2>1 DEF Cleared, AtMostOne, TypeOK, Templates
  <2>3. CASE c = d
    <3>1. told'[c] = {Cleared(v)}
      BY <1>a, <2>1, <2>3 DEF Told, Subscribed
    <3> QED BY <1>a, <2>2, <2>3, <3>1, ToldNow
  <2>4. CASE c # d
    <3>1. told'[c] = told[c]
      BY <1>a, <2>4 DEF Told
    <3> QED BY <1>1, <1>a, <2>1, <2>2, <3>1
  <2> QED BY <2>3, <2>4
<1>10. ASSUME NEW s \in sends, Send(s) PROVE HasNewest(c, t)'
  <2>1. CASE NoPayouts(s) /\ phase[s.conn] = "in"
    BY <1>7, <1>10, <2>1, SendConns DEF NoPayouts
  <2>2. CASE UNCHANGED <<phase, latest>>
    <3>1. told'[c] = told[c] /\ jobs \subseteq jobs'
      BY <1>10, <1>a, <2>2, SendConns
      DEF Send, UsePlatform, UseOperator, SendJob, NoPayouts, TypeOK, Gone
    <3> QED BY <1>1, <1>a, <2>2, <3>1
  <2> QED
    BY <1>10, <2>1, <2>2 DEF Send, UsePlatform, UseOperator, SendJob, NoPayouts
<1> QED
  BY <1>2, <1>3, <1>4, <1>5, <1>6, <1>8, <1>9, <1>10 DEF Next

-----------------------------------------------------------------------------
(* The theorems                                                            *)

IInv ==
  /\ TypeOK /\ StreamInv /\ WorkInv /\ PlainInv
  /\ \A t \in latest, c \in Subscribed \ DenConns : HasNewest(c, t)

(* The invariant the theorems rest on: where the stream stands, who has    *)
(* work, and what the two tables hold.                                     *)
THEOREM JobsInvariant == Spec => []IInv
<1>1. Init => IInv
  <2>1. Init => \A t \in latest, c \in Subscribed \ DenConns : HasNewest(c, t)
    BY DEF Init, Fresh
  <2> QED BY <2>1, InitTypes DEF IInv
<1>2. IInv /\ [Next]_vars => IInv'
  BY StreamStep, TypeStep, WorkStep, PlainStep, NewestStep DEF IInv
<1> QED BY <1>1, <1>2, PTL DEF Spec

(* All variables always are what they are declared to be; in particular    *)
(* the interval's count never runs ahead of time.                          *)
THEOREM JobsTypeCorrect == Spec => []TypeOK
<1>1. IInv => TypeOK
  BY DEF IInv
<1> QED BY <1>1, JobsInvariant, PTL

(* A miner outside a den can always submit for the newest template: it was *)
(* sent the job, and the tables have the job and the template.             *)
THEOREM NewestWorkAlwaysAccepted == Spec => []NewestWorkIsAccepted
<1>1. IInv => NewestWorkIsAccepted
  BY DEF IInv, PlainInv, NewestWorkIsAccepted, HasNewest
<1> QED BY <1>1, JobsInvariant, PTL

(* Outside dens, a job without its template is one whose template is too   *)
(* old; no order of blocks, refreshes and subscriptions makes another.     *)
THEOREM JobsKeepTemplates == Spec => []JobOutlivesTemplateOnlyByAge
<1>1. IInv => JobOutlivesTemplateOnlyByAge
  BY DEF IInv, PlainInv, JobOutlivesTemplateOnlyByAge
<1> QED BY <1>1, JobsInvariant, PTL

(* The comparison of interval counts never mistakes something else for a   *)
(* new block while somebody has work to lose.                              *)
THEOREM WorkTakenOnlyByBlock == Spec => WorkIsTakenOnlyByBlock
<1> DEFINE Excused == \A j \in jobs :
              j \notin jobs' /\ phase[j.conn] = "in" /\ phase'[j.conn] = "in"
                => now - j.born > Lifetime \/ \E f \in fetch : f.why = "block"
<1>1. IInv /\ [Next]_vars => [Excused]_vars
  <2> SUFFICES ASSUME IInv, Next,
                      NEW j \in jobs, j \notin jobs', phase[j.conn] = "in", phase'[j.conn] = "in"
               PROVE  now - j.born > Lifetime \/ \E f \in fetch : f.why = "block"
    BY DEF vars
  <2>0. TypeOK /\ StreamInv /\ WorkInv
    BY DEF IInv
  <2>1. CASE Answer
    <3> PICK f \in fetch : LET t == NewTemplate(IsNewBlock(f)) IN Keep(t.clear, t)
      BY <2>1 DEF Answer
    <3>1. Keep(IsNewBlock(f), NewTemplate(IsNewBlock(f)))
      BY DEF NewTemplate
    <3>2. CASE IsNewBlock(f)
      <4>1. latest # {}
        BY <2>0 DEF WorkInv
      <4>2. lastInterval = f.interval /\ lastInterval \in Int /\ f.interval \in Int
        BY <2>0, <3>2 DEF IsNewBlock, TypeOK
      <4>3. f.why = "block"
        BY <2>0, <4>1, <4>2 DEF StreamInv
      <4> QED BY <4>3
    <3>3. CASE ~IsNewBlock(f)
      BY <2>0, <3>1, <3>3, JobBoundsAssumption DEF Keep, Young, TypeOK, JobsOf
    <3> QED BY <3>2, <3>3
  <2>2. CASE Restart
    <3>1. j.conn \in Conns
      BY <2>0 DEF TypeOK, JobsOf
    <3> QED BY <2>2, <3>1 DEF Restart
  <2>3. CASE jobs \subseteq jobs'
    BY <2>3
  <2> QED
    BY <2>1, <2>2, <2>3
    DEF Next, Mine, Poll, Period, AnswerSkipped, ExpireCache, Subscribe, Unsubscribe,
        CheckDifficulty, Send, UsePlatform, UseOperator, SendJob, NoPayouts
<1>2. Spec => [][Excused]_vars
  BY <1>1, JobsInvariant, PTL DEF Spec
<1> QED BY <1>2 DEF WorkIsTakenOnlyByBlock
=============================================================================
