---------------------- MODULE StratumConnectionProofs ----------------------
(* What the run connection_session checks of StratumConnection, proved for *)
(* any names, difficulties and intervals, and any bounds on messages,      *)
(* calls and jobs.                                                         *)
EXTENDS StratumConnection, TLAPS

Sending  == {"template", "payouts", "latest"}
Waits(S) == \E c \in calls : c.at \in S

(* initStratum begins once; one call at most carries its announcement.     *)
BegunOnce ==
  /\ initialized \in BOOLEAN /\ begun = IF initialized THEN 1 ELSE 0
  /\ \A c \in calls : c.at = "announce" => initialized /\ c = Call("announce", NoDen)

(* There is no work before the subscription to the stream.                 *)
NoWorkYet ==
  ~initialized \/ Waits({"announce"}) =>
    /\ jobs = {} /\ ~Waits(Sending)
    /\ ~listening /\ timer = -1

(* A job's number is never used again, and the submissions credited for    *)
(* jobs that are there are remembered.                                     *)
Remembered ==
  /\ built \in Nat
  /\ \A j \in jobs : j.id \in 1..built
  /\ \A a \in accepted :
       /\ a.job \in 1..built /\ a.times = 1
       /\ \A j \in jobs : j.id = a.job => [job |-> a.job, text |-> a.text] \in hashes

(* A connection that is gone begins nothing, and what it holds awaits the  *)
(* end of destroy.                                                         *)
HeldUntilReleased ==
  /\ session \in BOOLEAN /\ leaving \in BOOLEAN /\ listening \in BOOLEAN
  /\ initialized \/ agent # "none" => session
  /\ socket = "closed" => ~Waits(Writing) /\ (listening \/ timer # -1 => leaving)

IInv == BegunOnce /\ NoWorkYet /\ Remembered /\ HeldUntilReleased

USE DEF Call, Waits

LEMMA InitConnection == Init => IInv
<1> SUFFICES ASSUME Init PROVE IInv
  OBVIOUS
<1>1. BegunOnce /\ NoWorkYet
  BY DEF Init, BegunOnce, NoWorkYet, Sending
<1>2. Remembered
  BY DEF Init, Remembered
<1>3. HeldUntilReleased
  BY DEF Init, HeldUntilReleased, Writing
<1> QED BY <1>1, <1>2, <1>3 DEF IInv

(* A step that has no part in initialisation, work or credits.             *)
Aside ==
  /\ UNCHANGED <<initialized, begun, work, jobs, built, accepted>> /\ hashes \subseteq hashes'
  /\ session' \in BOOLEAN /\ (session => session') /\ (agent' # "none" => session')
  /\ leaving' \in BOOLEAN
  /\ \A c \in calls' \ calls : c.at # "announce" /\ (c.at \in Sending => Waits(Sending))
  /\ socket' = "closed" =>
       /\ socket = "closed" /\ (leaving => leaving')
       /\ \A c \in calls' \ calls : c.at \notin Writing

LEMMA AsideKeeps == ASSUME IInv, Aside PROVE IInv'
<1>1. BegunOnce' /\ NoWorkYet'
  BY DEF IInv, Aside, BegunOnce, NoWorkYet, work
<1>2. Remembered'
  BY DEF IInv, Aside, Remembered
<1>3. HeldUntilReleased'
  BY DEF IInv, Aside, HeldUntilReleased, BegunOnce, work
<1> QED BY <1>1, <1>2, <1>3 DEF IInv

(* A job is added, to the jobs that were there or to none.                 *)
LEMMA JobKeeps ==
  ASSUME Remembered, NEW den, built' = built + 1,
         \/ jobs' = jobs \cup {[id |-> built + 1, den |-> den]} /\ hashes' = hashes
         \/ jobs' = {[id |-> built + 1, den |-> den]},
         accepted' = accepted
  PROVE  Remembered'
<1>1. built' \in Nat /\ \A j \in jobs' : j.id \in 1..built'
  BY DEF Remembered
<1>2. ASSUME NEW a \in accepted
      PROVE  /\ a.job \in 1..built' /\ a.times = 1
             /\ \A j \in jobs' : j.id = a.job => [job |-> a.job, text |-> a.text] \in hashes'
  BY <1>2 DEF Remembered
<1> QED BY <1>1, <1>2 DEF Remembered

(* No job is added, and none that is there is forgotten.                   *)
LEMMA NoJobKeeps ==
  ASSUME Remembered, UNCHANGED <<built, accepted>>,
         jobs' = {} \/ (jobs' \subseteq jobs /\ hashes \subseteq hashes')
  PROVE  Remembered'
BY DEF Remembered

(* sendNewMiningJob, once there is work to be done.                        *)
LEMMA SendKeeps ==
  ASSUME IInv, NEW waiting \in SUBSET calls, StartSend(waiting), hashes' = hashes,
         initialized, ~Waits({"announce"}),
         UNCHANGED <<shake, work, accepted>>
  PROVE  IInv'
<1>1. Remembered'
  BY JobKeeps, NoJobKeeps DEF IInv, StartSend, AddJob, table
<1>2. BegunOnce' /\ NoWorkYet'
  BY DEF IInv, StartSend, BegunOnce, NoWorkYet, shake
<1>3. HeldUntilReleased'
  <2>1. \A c \in calls' : c \in calls \/ c.at \notin Writing
    BY DEF StartSend, Writing
  <2>2. leaving' \in BOOLEAN /\ (leaving => leaving') /\ (socket' = "closed" => socket = "closed")
    BY DEF IInv, StartSend, HeldUntilReleased, WriteRefused, Destroy, line
  <2> QED BY <2>1, <2>2 DEF IInv, HeldUntilReleased, shake, work
<1> QED BY <1>1, <1>2, <1>3 DEF IInv

(* Subscribing to the stream: from the end of a message that begins        *)
(* initialisation, or when its announcement was written.                   *)
LEMMA ListenKeeps ==
  ASSUME IInv, NEW waiting \in SUBSET calls, Listen(waiting), jobs = {},
         ~Waits(Sending), \A c \in waiting : c.at # "announce",
         socket # "closed", session, session' = session, agent' = agent,
         initialized', begun' = 1, UNCHANGED accepted
  PROVE  IInv'
<1>1. Remembered'
  BY JobKeeps, NoJobKeeps DEF IInv, Listen, StartSend, AddJob, table
<1>2. BegunOnce' /\ NoWorkYet'
  BY DEF IInv, Listen, StartSend, BegunOnce, NoWorkYet
<1>3. HeldUntilReleased'
  <2>1. leaving' \in BOOLEAN /\ socket' # "closed"
    BY DEF IInv, Listen, StartSend, HeldUntilReleased, WriteRefused, Destroy, line
  <2> QED BY <2>1 DEF IInv, HeldUntilReleased, Listen
<1> QED BY <1>1, <1>2, <1>3 DEF IInv

(* The end of a message, on a socket that is not closed.                   *)
LEMMA EndOfMessageKeeps ==
  ASSUME IInv, NEW waiting \in SUBSET calls, EndOfMessage(waiting), socket # "closed",
         UNCHANGED <<session, agent, accepted>>
  PROVE  IInv'
<1>1. CASE ~(agent # "none" /\ authorized /\ ~initialized)
  <2>1. Aside
    BY <1>1 DEF IInv, HeldUntilReleased, EndOfMessage, Aside, line, table
  <2> QED BY <2>1, AsideKeeps
<1>2. CASE agent # "none" /\ authorized /\ ~initialized
  <2>1. Initialize(waiting) /\ session
    BY <1>2 DEF EndOfMessage, IInv, HeldUntilReleased
  <2>2. /\ jobs = {} /\ ~Waits(Sending) /\ ~listening /\ timer = -1 /\ begun = 0
        /\ \A c \in calls : c.at # "announce"
    BY <1>2 DEF IInv, NoWorkYet, BegunOnce
  <2>3. initialized' /\ begun' = 1
    BY <2>1, <2>2 DEF Initialize, Flag
  <2>4. CASE suggested
    BY <2>1, <2>2, <2>3, <2>4, ListenKeeps DEF Initialize
  <2>5. CASE ~suggested
    <3>1. UNCHANGED <<listening, timer, jobs, built, hashes>>
      BY <2>1, <2>5 DEF Initialize, work, table
    <3>2. Remembered'
      BY <3>1, NoJobKeeps DEF IInv
    <3>3. \A c \in calls' : c \in calls \/ c = Call("announce", NoDen)
      BY <2>1, <2>5 DEF Initialize
    <3>4. BegunOnce' /\ NoWorkYet'
      BY <2>2, <2>3, <3>1, <3>3 DEF BegunOnce, NoWorkYet, Sending, Initialize, Flag, IInv
    <3>5. leaving' \in BOOLEAN /\ socket' # "closed"
      BY <2>1, <2>5 DEF IInv, HeldUntilReleased, Initialize, WriteRefused, Destroy, line
    <3>6. HeldUntilReleased'
      BY <2>1, <3>1, <3>5 DEF IInv, HeldUntilReleased
    <3> QED BY <3>2, <3>4, <3>6 DEF IInv
  <2> QED BY <2>4, <2>5
<1> QED BY <1>1, <1>2

(* A share of a job that is there and was not seen before.                 *)
LEMMA SubmitKeeps == ASSUME IInv, socket # "closed", Submit PROVE IInv'
<1>1. PICK id \in 1..built, text \in Texts :
        LET h == [job |-> id, text |-> text]
        IN  /\ hashes' = hashes \cup {h}
            /\ \/ /\ h \notin hashes /\ \E j \in jobs : j.id = id
                  /\ Accept(id, text)
                  /\ \E stage \in {"block", "stats"} : \E arg : calls' = calls \cup {Call(stage, arg)}
                  /\ UNCHANGED line
               \/ Refuse /\ UNCHANGED accepted
  BY DEF Submit
<1>2. UNCHANGED <<shake, work, jobs, built>> /\ leaving' \in BOOLEAN /\ socket' # "closed"
  BY <1>1 DEF Submit, Refuse, WriteRefused, Destroy, line, table, IInv, HeldUntilReleased
<1>3. \A c \in calls' : c \in calls \/ c.at \in {"block", "stats"}
  BY <1>1 DEF Refuse
<1>4. BegunOnce' /\ NoWorkYet'
  BY <1>2, <1>3 DEF IInv, BegunOnce, NoWorkYet, Sending, shake, work
<1>5. HeldUntilReleased'
  BY <1>2 DEF IInv, HeldUntilReleased, shake, work
<1>6. Remembered'
  <2>1. CASE accepted' = accepted
    BY <1>1, <1>2, <2>1, NoJobKeeps DEF IInv
  <2>2. CASE /\ [job |-> id, text |-> text] \notin hashes /\ \E j \in jobs : j.id = id
             /\ Accept(id, text)
    <3>1. ~\E a \in accepted : a.job = id /\ a.text = text
      BY <2>2 DEF IInv, Remembered
    <3>2. accepted' = accepted \cup {[job |-> id, text |-> text, times |-> 1]}
      BY <2>2, <3>1 DEF Accept
    <3> QED BY <1>1, <1>2, <3>2 DEF IInv, Remembered
  <2> QED BY <1>1, <2>1, <2>2
<1> QED BY <1>4, <1>5, <1>6 DEF IInv

LEMMA ReceiveKeeps == ASSUME IInv, Receive PROVE IInv'
<1>1. socket \in {"open", "ended"}
  BY DEF Receive
<1>2. CASE Subscribe
  <2>1. socket' # "closed" /\ leaving' \in BOOLEAN
    BY <1>1, <1>2 DEF Subscribe, Reply, line, IInv, HeldUntilReleased
  <2>2. \A x \in calls' \ calls : x.at = "check"
    BY <1>2 DEF Subscribe, Reply
  <2>3. Aside
    BY <1>2, <2>1, <2>2 DEF Subscribe, Aside, table, shares, Sending
  <2> QED BY <2>3, AsideKeeps
<1>3. CASE Configure
  BY <1>1, <1>3, AsideKeeps DEF Configure, Reply, WriteRefused, Destroy, Aside, IInv,
     HeldUntilReleased, line, shake, table, shares, Sending
<1>4. CASE OtherMethod
  BY <1>1, <1>4, EndOfMessageKeeps DEF OtherMethod
<1>5. CASE Nonsense
  BY <1>1, <1>5, AsideKeeps DEF Nonsense, EndSocket, Aside, IInv, HeldUntilReleased, shake, table, shares
<1>6. CASE Authorize
  BY <1>1, <1>6, AsideKeeps DEF Authorize, Aside, IInv, HeldUntilReleased, line, shake, table, shares, Sending
<1>7. CASE SuggestDifficulty
  BY <1>1, <1>7, AsideKeeps DEF SuggestDifficulty, WriteRefused, Destroy, Aside, IInv,
     HeldUntilReleased, line, table, shares, Sending
<1>8. CASE Submit
  BY <1>1, <1>8, SubmitKeeps
<1>9. CASE SubmitThrows
  BY <1>1, <1>9, AsideKeeps DEF SubmitThrows, EndSocket, Aside, IInv, HeldUntilReleased, shake, table
<1> QED BY <1>2, <1>3, <1>4, <1>5, <1>6, <1>7, <1>8, <1>9 DEF Receive

(* A call that goes on where it waited.                                    *)
LEMMA ContinueKeeps == ASSUME IInv, NEW c \in calls, Continue(c) PROVE IInv'
<1>1. leaving \in BOOLEAN /\ session \in BOOLEAN /\ (initialized \/ agent # "none" => session)
  BY DEF IInv, HeldUntilReleased
<1>2. c.at \in Writing => socket # "closed"
  BY DEF IInv, HeldUntilReleased
<1>3. CASE Replied(c) \/ SuggestionTaken(c)
  <2>1. EndOfMessage(calls \ {c}) /\ socket # "closed"
    BY <1>2, <1>3 DEF Replied, SuggestionTaken, Writing
  <2> QED BY <1>3, <2>1, EndOfMessageKeeps DEF Replied, SuggestionTaken
<1>4. CASE Routed(c)
  <2>1. leaving' \in BOOLEAN /\ (leaving => leaving') /\ (socket' = "closed" => socket = "closed")
    BY <1>1, <1>4 DEF Routed, WriteRefused, Destroy, line
  <2>2. \A x \in calls' \ calls : x.at = "check" /\ socket' # "closed"
    BY <1>4 DEF Routed, line
  <2>3. Aside
    BY <1>1, <1>4, <2>1, <2>2 DEF Routed, Aside, table, shares, Sending, Writing
  <2> QED BY <2>3, AsideKeeps
<1>5. CASE NotRouted(c)
  BY <1>1, <1>5, AsideKeeps DEF NotRouted, WriteRefused, Destroy, Aside, line, shake, table, shares
<1>6. CASE RouteThrows(c) \/ NoPayouts(c) \/ BlockThrows(c)
  BY <1>1, <1>6, AsideKeeps DEF RouteThrows, NoPayouts, BlockThrows, EndSocket, Aside, shake, table, shares
<1>7. CASE Announced(c)
  <2>1. c.at = "announce" /\ Listen(calls \ {c})
    BY <1>7 DEF Announced
  <2>2. socket # "closed"
    BY <1>2, <2>1 DEF Writing
  <2>3. jobs = {} /\ ~Waits(Sending) /\ initialized /\ begun = 1
    BY <2>1 DEF IInv, NoWorkYet, BegunOnce
  <2>4. \A x \in calls \ {c} : x.at # "announce"
    BY <2>1 DEF IInv, BegunOnce
  <2> QED BY <1>1, <1>7, <2>1, <2>2, <2>3, <2>4, ListenKeeps DEF Announced, shake
<1>8. CASE WriteFails(c)
  <2>1. leaving' \in BOOLEAN /\ socket' # "closed"
    BY <1>1, <1>2, <1>8 DEF WriteFails, Destroy
  <2> QED BY <1>1, <1>8, <2>1, AsideKeeps DEF WriteFails, Aside, shake, table, shares
<1>9. CASE TemplateKnown(c)
  BY <1>1, <1>9, AsideKeeps DEF TemplateKnown, Aside, line, shake, table, shares, Sending, Writing
<1>10. CASE PayoutsKnown(c)
  <2>1. Waits(Sending)
    BY <1>10 DEF PayoutsKnown, Sending
  <2>2. Remembered'
    BY <1>10, JobKeeps DEF IInv, PayoutsKnown, AddJob, shares
  <2>3. BegunOnce' /\ NoWorkYet'
    BY <1>10, <2>1 DEF IInv, PayoutsKnown, BegunOnce, NoWorkYet, shake, work
  <2>4. leaving' \in BOOLEAN /\ (leaving => leaving') /\ (socket' = "closed" => socket = "closed")
    BY <1>1, <1>10 DEF PayoutsKnown, WriteRefused, Destroy, line
  <2>5. HeldUntilReleased'
    BY <1>10, <2>4 DEF IInv, HeldUntilReleased, PayoutsKnown, shake, work
  <2> QED BY <2>2, <2>3, <2>5 DEF IInv
<1>11. CASE Resend(c)
  <2>1. initialized /\ ~Waits({"announce"})
    BY <1>11 DEF Resend, Sending, IInv, NoWorkYet
  <2> QED BY <1>11, <2>1, SendKeeps DEF Resend, shares
<1>12. CASE BlockHandled(c)
  BY <1>1, <1>12, AsideKeeps DEF BlockHandled, Aside, line, shake, table, shares, Sending, Writing
<1>13. CASE Credit(c)
  BY <1>1, <1>13, AsideKeeps DEF Credit, WriteRefused, Destroy, Aside, line, shake, table
<1> QED
  BY <1>3, <1>4, <1>5, <1>6, <1>7, <1>8, <1>9, <1>10, <1>11, <1>12, <1>13 DEF Continue

LEMMA TemplateKeeps == ASSUME IInv, Template PROVE IInv'
<1>1. listening /\ initialized /\ ~Waits({"announce"}) /\ leaving \in BOOLEAN
  BY DEF Template, IInv, NoWorkYet, HeldUntilReleased
<1>2. PICK clear \in BOOLEAN :
        /\ hashes' = IF clear THEN {} ELSE hashes
        /\ LET before == IF clear THEN {} ELSE jobs IN
           \/ /\ built' = built + 1 /\ jobs' = before \cup {[id |-> built + 1, den |-> NoDen]}
              /\ IF socket = "open" THEN UNCHANGED line ELSE WriteRefused
              /\ UNCHANGED calls
           \/ /\ jobs' = before /\ UNCHANGED <<built, line>>
              /\ calls' = calls \cup {Call("template", NoDen)}
  BY DEF Template, Forget
<1>3. Remembered'
  BY <1>2, JobKeeps, NoJobKeeps DEF Template, IInv
<1>4. BegunOnce' /\ NoWorkYet'
  BY <1>1, <1>2 DEF Template, IInv, BegunOnce, NoWorkYet, shake
<1>5. leaving' \in BOOLEAN /\ (leaving => leaving') /\ (socket' = "closed" => socket = "closed")
  BY <1>1, <1>2 DEF IInv, HeldUntilReleased, WriteRefused, Destroy, line
<1>6. HeldUntilReleased'
  BY <1>2, <1>5 DEF Template, IInv, HeldUntilReleased, shake, work, Writing
<1> QED BY <1>3, <1>4, <1>6 DEF IInv

LEMMA StepConnection == ASSUME IInv, [Next]_vars PROVE IInv'
<1>1. CASE Receive
  BY <1>1, ReceiveKeeps
<1>2. CASE Template
  BY <1>2, TemplateKeeps
<1>3. CASE Tick
  <2>1. (timer = -1) <=> (timer' = -1)
    BY <1>3 DEF Tick, IInv, HeldUntilReleased
  <2> QED BY <1>3, <2>1 DEF Tick, IInv, BegunOnce, NoWorkYet, Remembered, HeldUntilReleased,
                            line, shake, table, shares
<1>4. CASE CheckDifficulty
  <2>1. timer # -1 /\ timer' # -1
    BY <1>4, ConnectionAssumption DEF CheckDifficulty
  <2>2. \A c \in calls' : c \in calls \/ c = Call("latest", NoDen)
    BY <1>4 DEF CheckDifficulty
  <2> QED BY <1>4, <2>1, <2>2 DEF CheckDifficulty, IInv, BegunOnce, NoWorkYet, Remembered,
                                  HeldUntilReleased, line, shake, table, shares, Writing
<1>5. CASE Close
  <2>1. BegunOnce' /\ NoWorkYet' /\ Remembered'
    BY <1>5, NoJobKeeps DEF Close, IInv, BegunOnce, NoWorkYet, shake, work, table, shares
  <2>2. HeldUntilReleased'
    BY <1>5 DEF Close, Destroy, IInv, BegunOnce, NoWorkYet, HeldUntilReleased, shake, work, Writing
  <2> QED BY <2>1, <2>2 DEF IInv
<1>6. CASE Release
  BY <1>6 DEF Release, StopWork, IInv, BegunOnce, NoWorkYet, Remembered, HeldUntilReleased,
              shake, table, shares
<1>7. ASSUME NEW c \in calls, Continue(c) PROVE IInv'
  BY <1>7, ContinueKeeps
<1>8. CASE UNCHANGED vars
  BY <1>8 DEF vars, line, shake, work, table, shares, IInv, BegunOnce, NoWorkYet, Remembered,
              HeldUntilReleased
<1> QED BY <1>1, <1>2, <1>3, <1>4, <1>5, <1>6, <1>7, <1>8 DEF Next

(* What IInv says of initialisation, work and credits is inductive: every  *)
(* message, wait, template and end of the socket keeps it                  *)
(* (StratumV1Client.ts).                                                   *)
THEOREM ConnectionInvariant == Spec => []IInv
BY InitConnection, StepConnection, PTL DEF Spec

(* No message is credited twice, letter for letter (handleMiningSubmission,*)
(* miningSubmissionHashes), however messages, templates and waits          *)
(* interleave and whenever the set of submissions seen is emptied. The     *)
(* same nonce written otherwise is another message.                        *)
THEOREM NeverCreditedTwice == Spec => []CreditedOnce
<1>1. IInv => CreditedOnce
  BY DEF IInv, Remembered, CreditedOnce
<1> QED BY <1>1, ConnectionInvariant, PTL

(* initStratum runs once, and a connection that is gone keeps neither      *)
(* subscription nor interval (initStratum, destroy).                       *)
THEOREM BegunOnceAndReleased == Spec => []SubscribedOnceAndReleased
<1>1. IInv => SubscribedOnceAndReleased
  BY DEF IInv, BegunOnce, HeldUntilReleased, SubscribedOnceAndReleased
<1> QED BY <1>1, ConnectionInvariant, PTL
-----------------------------------------------------------------------------
(* Types.                                                                  *)

LEMMA InitTypes == Init => TypeOK
<1> SUFFICES ASSUME Init PROVE TypeOK
  OBVIOUS
<1>1. LineOK /\ CallsOK
  BY DEF Init, LineOK, CallsOK
<1>3. ShakeOK /\ WorkOK
  <2>1. context \in Dens /\ begun \in 0..2 /\ timer \in -1..CheckEvery
    BY ConnectionAssumption DEF Init, Dens
  <2> QED BY <2>1 DEF Init, ShakeOK, WorkOK
<1>2. VardiffOK /\ TableOK /\ SharesOK
  BY ConnectionAssumption DEF Init, VardiffOK, TableOK, SharesOK
<1> QED BY <1>1, <1>2, <1>3, ConnectionAssumption DEF Init, TypeOK

(* What a step may do to the socket.                                       *)
LEMMA LineKeeps ==
  ASSUME LineOK, session \in BOOLEAN,
         \/ UNCHANGED line
         \/ WriteRefused
         \/ EndSocket /\ UNCHANGED leaving
  PROVE  LineOK'
BY DEF LineOK, line, WriteRefused, EndSocket, Destroy

LEMMA DifficultyKeeps ==
  ASSUME VardiffOK, NEW d \in Levels, SetDifficulty(d), Lately(d), told' \in {told, d}
  PROVE  VardiffOK'
<1>1. live' \in Levels /\ since' \in -1..(Grace + 1) /\ told' \in Levels \cup {0}
  BY ConnectionAssumption DEF VardiffOK, SetDifficulty
<1>2. Listed \in SUBSET Regimes
  <2>1. since # -1 => Current \in Regimes
    BY ConnectionAssumption DEF VardiffOK, Current, Regimes
  <2> QED BY <2>1 DEF VardiffOK, Listed
<1>3. regimes' \in SUBSET Regimes
  BY <1>2 DEF SetDifficulty
<1>4. lately' \in [Levels -> 0..(Grace + 1)]
  BY ConnectionAssumption DEF VardiffOK, Lately
<1> QED BY <1>1, <1>3, <1>4 DEF VardiffOK

LEMMA AddedJobKeeps ==
  ASSUME TableOK, NEW den \in Dens, built < MaxJobs, built' = built + 1,
         NEW before \in SUBSET jobs, jobs' = before \cup {[id |-> built + 1, den |-> den]}
  PROVE  TableOK'
BY ConnectionAssumption DEF TableOK

LEMMA SendTypes ==
  ASSUME LineOK, session \in BOOLEAN, CallsOK, TableOK, NEW waiting \in SUBSET calls,
         StartSend(waiting)
  PROVE  LineOK' /\ CallsOK' /\ TableOK'
<1>1. LineOK'
  BY LineKeeps DEF StartSend
<1>2. CallsOK'
  BY DEF StartSend, CallsOK, Stages
<1>3. TableOK'
  <2>1. CASE context = NoDen
    BY <2>1, AddedJobKeeps DEF StartSend, AddJob, Dens
  <2>2. CASE context # NoDen
    BY <2>2 DEF StartSend, table, TableOK
  <2> QED BY <2>1, <2>2
<1> QED BY <1>1, <1>2, <1>3

LEMMA ListenTypes ==
  ASSUME LineOK, session \in BOOLEAN, CallsOK, TableOK, SharesOK, NEW waiting \in SUBSET calls,
         Listen(waiting), UNCHANGED <<accepted, recorded>>
  PROVE  LineOK' /\ CallsOK' /\ TableOK' /\ WorkOK' /\ SharesOK'
<1>1. WorkOK' /\ SharesOK'
  BY ConnectionAssumption DEF Listen, WorkOK, SharesOK
<1>2. CASE StartSend(waiting)
  BY <1>1, <1>2, SendTypes
<1>3. CASE calls' = waiting /\ UNCHANGED <<table, line>>
  BY <1>1, <1>3 DEF line, table, LineOK, CallsOK, TableOK
<1> QED BY <1>2, <1>3 DEF Listen

LEMMA EndOfMessageTypes ==
  ASSUME TypeOK, NEW waiting \in SUBSET calls, EndOfMessage(waiting),
         UNCHANGED <<session, agent, authorized, context, suggested, accepted, recorded, asked>>,
         used' \in BOOLEAN, received' \in 0..MaxMessages
  PROVE  TypeOK'
<1> USE DEF TypeOK
<1>1. CASE ~(agent # "none" /\ authorized /\ ~initialized)
  BY <1>1 DEF EndOfMessage, line, work, vardiff, table, LineOK, ShakeOK, WorkOK, VardiffOK, CallsOK,
     TableOK, SharesOK
<1>2. CASE agent # "none" /\ authorized /\ ~initialized
  <2> DEFINE d == IF agent = "cpuminer" THEN Cpuminer ELSE live
  <2>1. Initialize(waiting)
    BY <1>2 DEF EndOfMessage
  <2>2. ShakeOK'
    BY <2>1 DEF Initialize, Flag, ShakeOK
  <2>3. d \in Levels /\ told' \in {told, d}
    BY <2>1, ConnectionAssumption DEF Initialize, VardiffOK
  <2>4. VardiffOK'
    <3>1. CASE SetDifficulty(d) /\ Lately(d)
      BY <2>3, <3>1, DifficultyKeeps
    <3>2. CASE UNCHANGED <<live, since, regimes, lately>>
      BY <2>3, <3>2 DEF VardiffOK
    <3> QED BY <2>1, <3>1, <3>2 DEF Initialize
  <2>5. CASE suggested
    <3>1. Listen(waiting)
      BY <2>1, <2>5 DEF Initialize
    <3> QED BY <2>2, <2>4, <3>1, ListenTypes DEF ShakeOK
  <2>6. CASE ~suggested
    <3>1. UNCHANGED <<work, table, hashes>>
      BY <2>1, <2>6 DEF Initialize
    <3>2. WorkOK' /\ TableOK' /\ SharesOK'
      BY <3>1 DEF work, table, WorkOK, TableOK, SharesOK
    <3>3. UNCHANGED line \/ WriteRefused
      BY <2>1, <2>6 DEF Initialize
    <3>4. LineOK'
      BY <3>3, LineKeeps DEF ShakeOK
    <3>5. calls' \subseteq waiting \cup {Call("announce", NoDen)}
      BY <2>1, <2>6 DEF Initialize
    <3>6. CallsOK'
      BY <3>5 DEF CallsOK, Stages
    <3> QED BY <2>2, <2>4, <3>2, <3>4, <3>6
  <2> QED BY <2>5, <2>6
<1> QED BY <1>1, <1>2

LEMMA SubmitTypes == ASSUME TypeOK, Submit, received' \in 0..MaxMessages PROVE TypeOK'
<1> USE DEF TypeOK
<1>1. PICK id \in 1..built, text \in Texts :
        /\ hashes' = hashes \cup {[job |-> id, text |-> text]}
        /\ \/ /\ Accept(id, text)
              /\ \E stage \in {"block", "stats"} : \E arg : calls' = calls \cup {Call(stage, arg)}
              /\ UNCHANGED line
           \/ Refuse /\ UNCHANGED accepted
  BY DEF Submit
<1>2. id \in 1..MaxJobs
  BY ConnectionAssumption DEF TableOK
<1>3. accepted' \in SUBSET [job : 1..MaxJobs, text : Texts, times : {1, 2}]
  <2>1. CASE Accept(id, text)
    <3>1. PICK t \in {1, 2} : accepted' = accepted \cup {[job |-> id, text |-> text, times |-> t]}
      BY <2>1 DEF Accept
    <3> QED BY <1>2, <3>1 DEF SharesOK
  <2>2. CASE accepted' = accepted
    BY <2>2 DEF SharesOK
  <2> QED BY <1>1, <2>1, <2>2
<1>4. SharesOK'
  BY <1>1, <1>2, <1>3 DEF Submit, SharesOK
<1>5. LineOK'
  BY <1>1, LineKeeps DEF Refuse, ShakeOK
<1>6. CallsOK'
  BY <1>1 DEF CallsOK, Stages, Refuse
<1>7. ShakeOK' /\ WorkOK' /\ VardiffOK' /\ TableOK' /\ asked' \in SUBSET Dens
  BY DEF Submit, shake, work, vardiff, table, ShakeOK, WorkOK, VardiffOK, TableOK
<1> QED BY <1>4, <1>5, <1>6, <1>7

LEMMA ReceiveTypes == ASSUME TypeOK, Receive PROVE TypeOK'
<1> USE DEF TypeOK
<1>1. received' \in 0..MaxMessages
  BY ConnectionAssumption DEF Receive
<1>2. CASE Subscribe
  <2>1. LineOK'
    BY <1>2 DEF Subscribe, Reply, line, LineOK
  <2>4. CallsOK'
    BY <1>2 DEF Subscribe, Reply, CallsOK, Stages
  <2>2. ShakeOK'
    BY <1>2 DEF Subscribe, ShakeOK
  <2>3. WorkOK' /\ VardiffOK' /\ TableOK' /\ SharesOK' /\ asked' \in SUBSET Dens
    BY <1>2 DEF Subscribe, work, vardiff, table, shares, WorkOK, VardiffOK, TableOK, SharesOK
  <2> QED BY <1>1, <2>1, <2>2, <2>3, <2>4
<1>3. CASE Configure
  <2>1. LineOK'
    BY <1>3, LineKeeps DEF Configure, Reply, ShakeOK
  <2>2. CallsOK'
    BY <1>3 DEF Configure, Reply, CallsOK, Stages
  <2>3. ShakeOK' /\ WorkOK' /\ VardiffOK' /\ TableOK' /\ SharesOK' /\ asked' \in SUBSET Dens
    BY <1>3 DEF Configure, shake, work, vardiff, table, shares, ShakeOK, WorkOK, VardiffOK, TableOK, SharesOK
  <2> QED BY <1>1, <2>1, <2>2, <2>3
<1>4. CASE OtherMethod
  BY <1>1, <1>4, EndOfMessageTypes DEF OtherMethod, ShakeOK
<1>5. CASE Nonsense
  <2>1. LineOK'
    BY <1>5, LineKeeps DEF Nonsense, ShakeOK
  <2> QED BY <1>1, <1>5, <2>1 DEF Nonsense, shake, work, vardiff, table, shares, ShakeOK, WorkOK,
            VardiffOK, CallsOK, TableOK, SharesOK
<1>6. CASE Authorize
  <2>1. asked' \in SUBSET Dens
    BY <1>6 DEF Authorize, Dens
  <2>2. CallsOK'
    BY <1>6 DEF Authorize, CallsOK, Stages
  <2> QED BY <1>1, <1>6, <2>1, <2>2 DEF Authorize, line, shake, work, vardiff, table, shares, LineOK,
            ShakeOK, WorkOK, VardiffOK, TableOK, SharesOK
<1>7. CASE SuggestDifficulty
  <2>1. VardiffOK'
    BY <1>7, DifficultyKeeps DEF SuggestDifficulty
  <2>2. LineOK'
    BY <1>7, LineKeeps DEF SuggestDifficulty, ShakeOK
  <2>3. CallsOK'
    BY <1>7 DEF SuggestDifficulty, CallsOK, Stages
  <2> QED BY <1>1, <1>7, <2>1, <2>2, <2>3 DEF SuggestDifficulty, work, table, shares, ShakeOK, WorkOK,
            TableOK, SharesOK
<1>8. CASE Submit
  BY <1>1, <1>8, SubmitTypes
<1>9. CASE SubmitThrows
  <2>1. LineOK'
    BY <1>9, LineKeeps DEF SubmitThrows, ShakeOK
  <2>2. SharesOK'
    BY <1>9 DEF SubmitThrows, SharesOK, TableOK
  <2> QED BY <1>1, <1>9, <2>1, <2>2 DEF SubmitThrows, shake, work, vardiff, table, ShakeOK, WorkOK,
            VardiffOK, CallsOK, TableOK
<1> QED BY <1>2, <1>3, <1>4, <1>5, <1>6, <1>7, <1>8, <1>9 DEF Receive

LEMMA ContinueTypes == ASSUME TypeOK, NEW c \in calls, Continue(c) PROVE TypeOK'
<1> USE DEF TypeOK
<1>1. CASE Replied(c) \/ SuggestionTaken(c)
  BY <1>1, EndOfMessageTypes DEF Replied, SuggestionTaken, ShakeOK
<1>2. CASE Routed(c)
  <2>1. c.arg \in Names /\ c.arg.valid \in BOOLEAN
    BY <1>2, ConnectionAssumption DEF Routed, CallsOK
  <2>2. ShakeOK'
    BY <1>2, <2>1 DEF Routed, SetContext, ShakeOK, Dens
  <2>3. LineOK'
    BY <1>2, LineKeeps DEF Routed, ShakeOK
  <2>4. CallsOK'
    BY <1>2 DEF Routed, CallsOK, Stages
  <2> QED BY <1>2, <2>2, <2>3, <2>4 DEF Routed, work, vardiff, table, shares, WorkOK, VardiffOK,
            TableOK, SharesOK
<1>3. CASE NotRouted(c) \/ RouteThrows(c) \/ NoPayouts(c) \/ BlockThrows(c)
  <2>1. LineOK'
    BY <1>3, LineKeeps DEF NotRouted, RouteThrows, NoPayouts, BlockThrows, ShakeOK
  <2>2. calls' \subseteq calls /\ UNCHANGED <<shake, work, vardiff, received, table, shares, asked>>
    BY <1>3 DEF NotRouted, RouteThrows, NoPayouts, BlockThrows
  <2> QED BY <2>1, <2>2 DEF shake, work, vardiff, table, shares, ShakeOK, WorkOK, VardiffOK, CallsOK,
            TableOK, SharesOK
<1>4. CASE Announced(c)
  <2>1. LineOK' /\ CallsOK' /\ TableOK' /\ WorkOK' /\ SharesOK'
    BY <1>4, ListenTypes DEF Announced, ShakeOK
  <2> QED BY <1>4, <2>1 DEF Announced, shake, vardiff, ShakeOK, VardiffOK
<1>5. CASE WriteFails(c)
  <2>1. LineOK' /\ CallsOK'
    BY <1>5 DEF WriteFails, Destroy, LineOK, CallsOK, ShakeOK
  <2> QED BY <1>5, <2>1 DEF WriteFails, shake, work, vardiff, table, shares, ShakeOK, WorkOK, VardiffOK,
            TableOK, SharesOK
<1>6. CASE TemplateKnown(c) \/ BlockHandled(c)
  <2>1. CallsOK'
    BY <1>6 DEF TemplateKnown, BlockHandled, CallsOK, Stages, ShakeOK
  <2>2. UNCHANGED <<line, shake, work, vardiff, received, table, shares, asked>>
    BY <1>6 DEF TemplateKnown, BlockHandled
  <2> QED BY <2>1, <2>2 DEF line, shake, work, vardiff, table, shares, LineOK, ShakeOK, WorkOK,
            VardiffOK, TableOK, SharesOK
<1>7. CASE PayoutsKnown(c)
  <2>1. TableOK'
    BY <1>7, AddedJobKeeps DEF PayoutsKnown, AddJob, CallsOK
  <2>2. LineOK'
    BY <1>7, LineKeeps DEF PayoutsKnown, ShakeOK
  <2> QED BY <1>7, <2>1, <2>2 DEF PayoutsKnown, shake, work, vardiff, shares, ShakeOK, WorkOK, VardiffOK,
            CallsOK, SharesOK
<1>8. CASE Resend(c)
  <2>1. LineOK' /\ CallsOK' /\ TableOK'
    BY <1>8, SendTypes DEF Resend, ShakeOK
  <2> QED BY <1>8, <2>1 DEF Resend, shake, work, vardiff, shares, ShakeOK, WorkOK, VardiffOK, SharesOK
<1>9. CASE Credit(c)
  <2>1. LineOK'
    BY <1>9, LineKeeps DEF Credit, ShakeOK
  <2>2. SharesOK'
    BY <1>9 DEF Credit, SharesOK, ShakeOK
  <2> QED BY <1>9, <2>1, <2>2 DEF Credit, shake, work, vardiff, table, ShakeOK, WorkOK, VardiffOK,
            CallsOK, TableOK
<1> QED BY <1>1, <1>2, <1>3, <1>4, <1>5, <1>6, <1>7, <1>8, <1>9 DEF Continue

(* Ages grow up to one above the grace window.                             *)
LEMMA OlderIsAge == \A age \in 0..(Grace + 1) : Older(age) \in 0..(Grace + 1)
BY ConnectionAssumption DEF Older

LEMMA StepTypes == ASSUME TypeOK, [Next]_vars PROVE TypeOK'
<1> USE DEF TypeOK
<1>1. CASE Receive
  BY <1>1, ReceiveTypes
<1>2. CASE Template
  <2>1. UNCHANGED <<shake, work, vardiff, received, accepted, recorded, asked>> /\ hashes' \subseteq hashes
    BY <1>2 DEF Template, Forget
  <2>2. LineOK'
    BY <1>2, LineKeeps DEF Template, ShakeOK, line
  <2>3. CallsOK'
    BY <1>2 DEF Template, CallsOK, Stages
  <2>4. TableOK'
    <3>1. PICK before \in SUBSET jobs :
            \/ /\ built < MaxJobs /\ built' = built + 1
               /\ jobs' = before \cup {[id |-> built + 1, den |-> NoDen]}
            \/ jobs' = before /\ built' = built
      BY <1>2 DEF Template
    <3> QED BY <3>1, AddedJobKeeps DEF TableOK, Dens
  <2> QED BY <2>1, <2>2, <2>3, <2>4 DEF shake, work, vardiff, ShakeOK, WorkOK, VardiffOK, SharesOK
<1>3. CASE Tick
  <2>1. WorkOK'
    BY <1>3, ConnectionAssumption DEF Tick, WorkOK
  <2>2. VardiffOK'
    <3>1. regimes' \in SUBSET Regimes
      BY <1>3, OlderIsAge DEF Tick, VardiffOK, Regimes
    <3>2. since' \in -1..(Grace + 1) /\ lately' \in [Levels -> 0..(Grace + 1)]
      BY <1>3, OlderIsAge, ConnectionAssumption DEF Tick, VardiffOK
    <3> QED BY <1>3, <3>1, <3>2 DEF Tick, VardiffOK
  <2> QED BY <1>3, <2>1, <2>2 DEF Tick, line, shake, table, shares, LineOK, ShakeOK, CallsOK, TableOK, SharesOK
<1>4. CASE CheckDifficulty
  <2>1. WorkOK'
    BY <1>4, ConnectionAssumption DEF CheckDifficulty, WorkOK
  <2>2. VardiffOK'
    <3>1. CASE UNCHANGED <<vardiff, calls>>
      BY <3>1 DEF vardiff, VardiffOK
    <3>2. CASE \E d \in Levels \ {live} : SetDifficulty(d) /\ Lately(d) /\ Tell(d)
      BY <3>2, DifficultyKeeps DEF Tell
    <3> QED BY <1>4, <3>1, <3>2 DEF CheckDifficulty
  <2>3. CallsOK'
    BY <1>4 DEF CheckDifficulty, CallsOK, Stages
  <2> QED BY <1>4, <2>1, <2>2, <2>3 DEF CheckDifficulty, line, shake, table, shares, LineOK, ShakeOK,
            TableOK, SharesOK
<1>5. CASE Close \/ Release
  <2>1. LineOK' /\ calls' \subseteq calls
    BY <1>5 DEF Close, Release, Destroy, LineOK, ShakeOK
  <2>3. WorkOK'
    <3>1. CASE Close
      BY <3>1 DEF Close, work, WorkOK
    <3>2. CASE Release
      <4>1. listening' = FALSE /\ timer' = -1
        BY <3>2 DEF Release, StopWork
      <4>2. -1 \in -1..CheckEvery
        BY ConnectionAssumption
      <4> QED BY <4>1, <4>2 DEF WorkOK
    <3> QED BY <1>5, <3>1, <3>2
  <2>2. UNCHANGED <<shake, vardiff, received, table, shares, asked>>
    BY <1>5 DEF Close, Release
  <2> QED BY <2>1, <2>2, <2>3 DEF shake, vardiff, table, shares, ShakeOK, VardiffOK, CallsOK, TableOK, SharesOK
<1>6. ASSUME NEW c \in calls, Continue(c) PROVE TypeOK'
  BY <1>6, ContinueTypes
<1>7. CASE UNCHANGED vars
  BY <1>7 DEF vars, line, shake, work, vardiff, table, shares, LineOK, ShakeOK, WorkOK, VardiffOK,
     CallsOK, TableOK, SharesOK
<1> QED BY <1>1, <1>2, <1>3, <1>4, <1>5, <1>6, <1>7 DEF Next

(* Every message, wait, template and end of the socket keeps the types     *)
(* (StratumV1Client.ts).                                                   *)
THEOREM ConnectionTypeCorrect == Spec => []TypeOK
BY InitTypes, StepTypes, PTL DEF Spec

-----------------------------------------------------------------------------
(* Difficulty.                                                             *)

(* The miner was told the live difficulty, on an open socket: once         *)
(* initStratum ran, and before if the miner suggested one, which is then   *)
(* not told again.                                                         *)
ToldInv ==
  socket = "open" =>
    /\ initialized => told = live \/ (live = Cpuminer /\ suggested)
    /\ suggested /\ ~initialized => told = live

(* A socket is never opened again.                                         *)
LEMMA SocketNeverReopens == ASSUME TypeOK, [Next]_vars, socket' = "open" PROVE socket = "open"
<1>1. CASE Receive
  <2>1. OtherMethod => socket = "open"
    BY DEF OtherMethod, EndOfMessage, Initialize, Listen, StartSend, WriteRefused, line
  <2> QED BY <1>1, <2>1 DEF Receive, Subscribe, Configure, Nonsense, Authorize, SuggestDifficulty, Submit,
            SubmitThrows, Reply, Refuse, WriteRefused, EndSocket, line
<1>2. CASE Template \/ Tick \/ CheckDifficulty \/ Close \/ Release
  BY <1>2 DEF Template, Tick, CheckDifficulty, Close, Release, WriteRefused, line
<1>3. ASSUME NEW c \in calls, Continue(c) PROVE socket = "open"
  <2>1. CASE Replied(c) \/ SuggestionTaken(c)
    BY <2>1 DEF Replied, SuggestionTaken, EndOfMessage, Initialize, Listen, StartSend, WriteRefused, line
  <2>2. CASE Announced(c) \/ Resend(c)
    BY <2>2 DEF Announced, Resend, Listen, StartSend, WriteRefused, line
  <2> QED BY <1>3, <2>1, <2>2 DEF Continue, Routed, NotRouted, RouteThrows, WriteFails, TemplateKnown,
            PayoutsKnown, NoPayouts, BlockHandled, BlockThrows, Credit, WriteRefused, EndSocket, line
<1>4. CASE UNCHANGED vars
  BY <1>4 DEF vars, line
<1> QED BY <1>1, <1>2, <1>3, <1>4 DEF Next

(* A step that leaves the difficulty and what was told of it.              *)
LEMMA ToldAside ==
  ASSUME ToldInv, UNCHANGED <<live, told, suggested, initialized>>, socket' = "open" => socket = "open"
  PROVE  ToldInv'
BY DEF ToldInv

LEMMA EndOfMessageTells ==
  ASSUME ToldInv, NEW waiting, EndOfMessage(waiting), suggested' = suggested,
         socket' = "open" => socket = "open"
  PROVE  ToldInv'
<1>1. CASE ~(agent # "none" /\ authorized /\ ~initialized)
  BY <1>1, ToldAside DEF EndOfMessage, vardiff
<1>2. CASE agent # "none" /\ authorized /\ ~initialized
  <2>1. Initialize(waiting)
    BY <1>2 DEF EndOfMessage
  <2>2. live' = IF agent = "cpuminer" THEN Cpuminer ELSE live
    BY <2>1 DEF Initialize, SetDifficulty
  <2>3. suggested => told' = told
    BY <2>1 DEF Initialize
  <2>4. ~suggested /\ socket = "open" => told' = live'
    BY <2>1, <2>2 DEF Initialize
  <2> QED BY <1>2, <2>1, <2>2, <2>3, <2>4 DEF ToldInv, Initialize, Flag
<1> QED BY <1>1, <1>2

LEMMA StepTells == ASSUME TypeOK, ToldInv, [Next]_vars PROVE ToldInv'
<1>1. socket' = "open" => socket = "open"
  BY SocketNeverReopens
<1>2. CASE Receive
  <2>1. CASE SuggestDifficulty
    BY <2>1, <1>1 DEF SuggestDifficulty, SetDifficulty, ToldInv
  <2>2. CASE OtherMethod
    BY <2>2, <1>1, EndOfMessageTells DEF OtherMethod
  <2>3. CASE Subscribe \/ Configure \/ Nonsense \/ Authorize \/ Submit \/ SubmitThrows
    <3>1. UNCHANGED <<live, told, suggested, initialized>>
      BY <2>3 DEF Subscribe, Configure, Nonsense, Authorize, Submit, SubmitThrows, shake, vardiff
    <3> QED BY <1>1, <3>1, ToldAside
  <2> QED BY <1>2, <2>1, <2>2, <2>3 DEF Receive
<1>3. CASE CheckDifficulty
  BY <1>3 DEF CheckDifficulty, SetDifficulty, Tell, vardiff, line, shake, ToldInv
<1>4. CASE Template \/ Tick \/ Close \/ Release
  <2>1. UNCHANGED <<live, told, suggested, initialized>>
    BY <1>4 DEF Template, Tick, Close, Release, shake, vardiff
  <2> QED BY <1>1, <2>1, ToldAside
<1>5. ASSUME NEW c \in calls, Continue(c) PROVE ToldInv'
  <2>1. CASE Replied(c) \/ SuggestionTaken(c)
    BY <2>1, <1>1, EndOfMessageTells DEF Replied, SuggestionTaken
  <2>2. CASE ~(Replied(c) \/ SuggestionTaken(c))
    <3>1. UNCHANGED <<live, told, suggested, initialized>>
      BY <1>5, <2>2 DEF Continue, Routed, NotRouted, RouteThrows, Announced, WriteFails, TemplateKnown,
         PayoutsKnown, NoPayouts, Resend, BlockHandled, BlockThrows, Credit, shake, vardiff
    <3> QED BY <1>1, <3>1, ToldAside
  <2> QED BY <2>1, <2>2
<1>6. CASE UNCHANGED vars
  <2>1. UNCHANGED <<live, told, suggested, initialized>>
    BY <1>6 DEF vars, shake, vardiff
  <2> QED BY <1>1, <2>1, ToldAside
<1> QED BY <1>2, <1>3, <1>4, <1>5, <1>6 DEF Next

(* The miner of an open connection knows the difficulty its shares are     *)
(* held against, in whatever order it suggests one, subscribes and         *)
(* authorizes (initStratum, suggest_difficulty, checkDifficulty).          *)
THEOREM DifficultyAlwaysKnown == Spec => []DifficultyIsKnown
<1>1. Init => ToldInv
  BY DEF Init, ToldInv
<1>2. ToldInv => DifficultyIsKnown
  BY DEF ToldInv, DifficultyIsKnown
<1> QED BY <1>1, <1>2, StepTells, ConnectionTypeCorrect, PTL DEF Spec

-----------------------------------------------------------------------------
(* Dens.                                                                   *)

(* There are jobs and shares only after authorization, and the den of one  *)
(* that is authorized was asked for.                                       *)
AskedFirst ==
  /\ initialized => authorized
  /\ Waits({"block", "stats"}) \/ recorded # {} => initialized
  /\ authorized => asked # {}
  /\ context \in asked \cup {NoDen}
  /\ \A c \in calls : c.at = "route" => c.arg.den \in asked

(* A miner that asked for one den is in it by the time it has work, and    *)
(* what waits for payouts waits for that den's.                            *)
OneDen(d) ==
  /\ authorized => context = d
  /\ \A j \in jobs : j.den = d
  /\ \A c \in calls : c.at = "payouts" => c.arg = d
  /\ recorded \subseteq {d}

DenInv == AskedFirst /\ \A d \in Dens : asked = {d} => OneDen(d)

(* A step that neither authorizes nor works for a den.                     *)
LEMMA DenAside ==
  ASSUME DenInv, UNCHANGED <<initialized, authorized, context, asked, recorded>>, jobs' \subseteq jobs,
         \A c \in calls' \ calls : c.at \notin {"route", "payouts", "block", "stats"}
  PROVE  DenInv'
BY DEF DenInv, AskedFirst, OneDen

(* A step of a connection that has begun: the jobs and calls it adds are   *)
(* of the den the connection is in.                                        *)
LEMMA WorkKeepsDen ==
  ASSUME DenInv, authorized, initialized' \in {initialized, TRUE},
         UNCHANGED <<authorized, context, asked, recorded>>,
         \A j \in jobs' \ jobs : j.den = context,
         \A c \in calls' \ calls :
           /\ c.at # "route"
           /\ c.at = "payouts" => c.arg = context
           /\ c.at \in {"block", "stats"} => initialized
  PROVE  DenInv'
<1>1. AskedFirst'
  BY DEF DenInv, AskedFirst
<1>2. ASSUME NEW d \in Dens, asked' = {d} PROVE OneDen(d)'
  BY <1>2 DEF DenInv, OneDen
<1> QED BY <1>1, <1>2 DEF DenInv

LEMMA SendKeepsDen ==
  ASSUME DenInv, authorized, initialized' \in {initialized, TRUE}, NEW waiting \in SUBSET calls,
         StartSend(waiting), UNCHANGED <<authorized, context, asked, recorded>>
  PROVE  DenInv'
<1>1. \A j \in jobs' \ jobs : j.den = context
  BY DEF StartSend, AddJob, table
<1>2. \A c \in calls' \ calls : c.at = "template"
  BY DEF StartSend
<1> QED BY <1>1, <1>2, WorkKeepsDen

LEMMA ListenKeepsDen ==
  ASSUME DenInv, authorized, initialized' \in {initialized, TRUE}, NEW waiting \in SUBSET calls,
         Listen(waiting), UNCHANGED <<authorized, context, asked, recorded>>
  PROVE  DenInv'
<1>1. CASE StartSend(waiting)
  BY <1>1, SendKeepsDen
<1>2. CASE calls' = waiting /\ UNCHANGED <<table, line>>
  BY <1>2, WorkKeepsDen DEF table
<1> QED BY <1>1, <1>2 DEF Listen

LEMMA EndOfMessageKeepsDen ==
  ASSUME DenInv, NEW waiting \in SUBSET calls, EndOfMessage(waiting),
         UNCHANGED <<authorized, context, asked, recorded>>
  PROVE  DenInv'
<1>1. CASE ~(agent # "none" /\ authorized /\ ~initialized)
  BY <1>1, DenAside DEF EndOfMessage, table
<1>2. CASE agent # "none" /\ authorized /\ ~initialized
  <2>1. Initialize(waiting) /\ initialized' = TRUE
    BY <1>2 DEF EndOfMessage, Initialize, Flag
  <2>2. CASE suggested
    BY <1>2, <2>1, <2>2, ListenKeepsDen DEF Initialize
  <2>3. CASE ~suggested
    <3>1. jobs' = jobs /\ \A c \in calls' \ calls : c.at = "announce"
      BY <2>1, <2>3 DEF Initialize, table
    <3> QED BY <1>2, <2>1, <3>1, WorkKeepsDen
  <2> QED BY <2>2, <2>3
<1> QED BY <1>1, <1>2

LEMMA ContinueKeepsDen ==
  ASSUME TypeOK, IInv, DenInv, NEW c \in calls, Continue(c)
  PROVE  DenInv'
<1>1. c.at \in Sending \cup {"announce", "block", "stats"} => initialized /\ authorized
  BY DEF IInv, BegunOnce, NoWorkYet, DenInv, AskedFirst
<1>2. CASE Replied(c) \/ SuggestionTaken(c)
  BY <1>2, EndOfMessageKeepsDen DEF Replied, SuggestionTaken
<1>3. CASE Routed(c)
  <2>1. c.arg \in Names /\ c.arg.den \in asked /\ c.arg.valid \in BOOLEAN
    BY <1>3, ConnectionAssumption DEF Routed, TypeOK, CallsOK, DenInv, AskedFirst
  <2>2. context' \in {context, c.arg.den} /\ (c.arg.den # NoDen => context' = c.arg.den)
    BY <1>3 DEF Routed, SetContext
  <2>3. /\ \A x \in calls' \ calls : x.at = "check"
        /\ UNCHANGED <<initialized, asked, jobs, recorded>>
    BY <1>3 DEF Routed, table, shares
  <2>4. AskedFirst'
    <3>1. authorized => authorized'
      BY <1>3 DEF Routed
    <3>2. asked # {}
      BY <2>1
    <3> QED BY <2>1, <2>2, <2>3, <3>1, <3>2 DEF DenInv, AskedFirst
  <2>5. ASSUME NEW d \in Dens, asked' = {d} PROVE OneDen(d)'
    <3>1. OneDen(d) /\ c.arg.den = d
      BY <2>1, <2>3, <2>5 DEF DenInv
    <3>2. context \in {d, NoDen}
      BY <2>3, <2>5 DEF DenInv, AskedFirst
    <3> QED BY <2>2, <2>3, <3>1, <3>2 DEF OneDen
  <2> QED BY <2>4, <2>5 DEF DenInv
<1>4. CASE NotRouted(c) \/ RouteThrows(c) \/ NoPayouts(c) \/ BlockThrows(c) \/ WriteFails(c)
  BY <1>4, DenAside DEF NotRouted, RouteThrows, NoPayouts, BlockThrows, WriteFails, shake, table, shares
<1>5. CASE Announced(c)
  BY <1>1, <1>5, ListenKeepsDen DEF Announced, shake
<1>6. CASE TemplateKnown(c)
  BY <1>1, <1>6, WorkKeepsDen DEF TemplateKnown, shake, table, shares, Sending
<1>7. CASE PayoutsKnown(c)
  <2>1. initialized /\ authorized /\ UNCHANGED <<shake, recorded, asked>> /\ calls' \subseteq calls
    BY <1>1, <1>7 DEF PayoutsKnown, Sending, shares
  <2>2. AskedFirst'
    BY <2>1 DEF DenInv, AskedFirst, shake
  <2>3. ASSUME NEW d \in Dens, asked' = {d} PROVE OneDen(d)'
    <3>1. OneDen(d) /\ c.arg = d
      BY <1>7, <2>1, <2>3 DEF DenInv, OneDen, PayoutsKnown
    <3>2. \A j \in jobs' : j \in jobs \/ j.den = d
      BY <1>7, <3>1 DEF PayoutsKnown, AddJob
    <3> QED BY <2>1, <3>1, <3>2 DEF OneDen, shake
  <2> QED BY <2>2, <2>3 DEF DenInv
<1>8. CASE Resend(c)
  BY <1>1, <1>8, SendKeepsDen DEF Resend, shake, shares, Sending
<1>9. CASE BlockHandled(c)
  BY <1>1, <1>9, WorkKeepsDen DEF BlockHandled, shake, table, shares
<1>10. CASE Credit(c)
  <2>1. initialized /\ authorized /\ UNCHANGED <<shake, table, asked>> /\ calls' \subseteq calls
    BY <1>1, <1>10 DEF Credit
  <2>2. recorded' \subseteq recorded \cup {context}
    BY <1>10 DEF Credit
  <2>3. AskedFirst'
    BY <2>1, <2>2 DEF DenInv, AskedFirst, shake
  <2>4. ASSUME NEW d \in Dens, asked' = {d} PROVE OneDen(d)'
    BY <2>1, <2>2, <2>4 DEF DenInv, OneDen, shake, table
  <2> QED BY <2>3, <2>4 DEF DenInv
<1> QED BY <1>2, <1>3, <1>4, <1>5, <1>6, <1>7, <1>8, <1>9, <1>10 DEF Continue

LEMMA ReceiveKeepsDen == ASSUME IInv, DenInv, Receive PROVE DenInv'
<1>1. CASE OtherMethod
  BY <1>1, EndOfMessageKeepsDen DEF OtherMethod
<1>2. CASE Authorize
  <2>1. PICK name \in Names : asked' = asked \cup {name.den} /\ calls' = calls \cup {Call("route", name)}
    BY <1>2 DEF Authorize
  <2>2. UNCHANGED <<shake, table, shares>>
    BY <1>2 DEF Authorize
  <2>3. AskedFirst'
    BY <2>1, <2>2 DEF DenInv, AskedFirst, shake, shares
  <2>4. ASSUME NEW d \in Dens, asked' = {d} PROVE OneDen(d)'
    <3>1. CASE asked = {d}
      BY <2>1, <2>2, <3>1 DEF DenInv, OneDen, shake, table, shares
    <3>2. CASE asked = {}
      <4>1. ~authorized /\ ~initialized /\ recorded = {}
        BY <3>2 DEF DenInv, AskedFirst
      <4>2. jobs = {} /\ ~Waits(Sending)
        BY <4>1 DEF IInv, NoWorkYet
      <4> QED BY <2>1, <2>2, <4>1, <4>2 DEF OneDen, Sending, shake, table, shares
    <3> QED BY <2>1, <2>4, <3>1, <3>2
  <2> QED BY <2>3, <2>4 DEF DenInv
<1>3. CASE Submit
  <2>1. \A c \in calls' \ calls : c.at \in {"block", "stats"}
    BY <1>3 DEF Submit, Refuse
  <2> QED BY <1>3, <2>1, WorkKeepsDen DEF Submit, shake, table, DenInv, AskedFirst
<1>4. CASE Subscribe \/ Configure \/ Nonsense \/ SuggestDifficulty \/ SubmitThrows
  <2>1. \A c \in calls' \ calls : c.at \in {"check", "suggest"}
    BY <1>4 DEF Subscribe, Configure, Nonsense, SuggestDifficulty, SubmitThrows, Reply
  <2> QED BY <1>4, <2>1, DenAside DEF Subscribe, Configure, Nonsense, SuggestDifficulty, SubmitThrows,
            shake, table, shares
<1> QED BY <1>1, <1>2, <1>3, <1>4 DEF Receive

LEMMA StepKeepsDen == ASSUME TypeOK, IInv, DenInv, [Next]_vars PROVE DenInv'
<1>1. CASE Receive
  BY <1>1, ReceiveKeepsDen
<1>2. CASE Template
  <2>1. initialized /\ authorized
    BY <1>2 DEF Template, IInv, NoWorkYet, DenInv, AskedFirst
  <2>2. /\ \A j \in jobs' \ jobs : j.den = context
        /\ \A c \in calls' \ calls : c.at = "template"
    BY <1>2 DEF Template
  <2> QED BY <1>2, <2>1, <2>2, WorkKeepsDen DEF Template, shake
<1>3. CASE Tick \/ CheckDifficulty \/ Close \/ Release
  BY <1>3, DenAside DEF Tick, CheckDifficulty, Close, Release, shake, table, shares
<1>4. ASSUME NEW c \in calls, Continue(c) PROVE DenInv'
  BY <1>4, ContinueKeepsDen
<1>5. CASE UNCHANGED vars
  BY <1>5, DenAside DEF vars, shake, table, shares
<1> QED BY <1>1, <1>2, <1>3, <1>4, <1>5 DEF Next

(* A miner that asks for one den only works for it from the first job on,  *)
(* and its shares are recorded there, although the den is read again after *)
(* each wait (routeAddress in authorize, sendNewMiningJob, recordShare).   *)
THEOREM WorksForItsDenAlways == Spec => []WorksForItsDen
<1>1. Init => DenInv
  BY DEF Init, DenInv, AskedFirst, OneDen
<1>2. DenInv => WorksForItsDen
  BY DEF DenInv, OneDen, WorksForItsDen
<1> QED BY <1>1, <1>2, StepKeepsDen, ConnectionTypeCorrect, ConnectionInvariant, PTL DEF Spec

-----------------------------------------------------------------------------
(* Credit.                                                                 *)

(* Each target that is listed was live as lately as its age says, and      *)
(* the live one is listed once initStratum ran.                            *)
LatelyInv ==
  /\ since # -1 => lately[live] = 0
  /\ \A r \in regimes : lately[r.difficulty] <= r.age
  /\ initialized => since # -1

LEMMA SetKeepsLately ==
  ASSUME TypeOK, LatelyInv, NEW d \in Levels, SetDifficulty(d), Lately(d)
  PROVE  LatelyInv'
<1> USE DEF TypeOK, VardiffOK
<1>1. live' = d /\ since' = 0 /\ lately'[d] = 0
  BY DEF SetDifficulty, Lately
<1>2. ASSUME NEW r \in regimes' PROVE lately'[r.difficulty] <= r.age
  <2>1. r \in regimes \/ (since # -1 /\ r = Current)
    BY <1>2 DEF SetDifficulty, Listed
  <2>2. r.difficulty \in Levels /\ r.age \in 0..(Grace + 1)
    BY <2>1, ConnectionAssumption DEF Current, Regimes
  <2>3. lately[r.difficulty] <= r.age
    BY <2>1, <2>2, ConnectionAssumption DEF LatelyInv, Current
  <2>4. lately'[r.difficulty] \in {0, lately[r.difficulty]}
    BY <2>2 DEF Lately
  <2> QED BY <2>2, <2>3, <2>4, ConnectionAssumption
<1> QED BY <1>1, <1>2 DEF LatelyInv

LEMMA EndOfMessageKeepsLately ==
  ASSUME TypeOK, LatelyInv, NEW waiting, EndOfMessage(waiting)
  PROVE  LatelyInv'
<1>1. CASE ~(agent # "none" /\ authorized /\ ~initialized)
  BY <1>1 DEF EndOfMessage, vardiff, LatelyInv
<1>2. CASE agent # "none" /\ authorized /\ ~initialized
  <2> DEFINE d == IF agent = "cpuminer" THEN Cpuminer ELSE live
  <2>1. Initialize(waiting)
    BY <1>2 DEF EndOfMessage
  <2>2. d \in Levels
    BY ConnectionAssumption DEF TypeOK, VardiffOK
  <2>3. CASE SetDifficulty(d) /\ Lately(d)
    BY <2>2, <2>3, SetKeepsLately
  <2>4. CASE since # -1 /\ UNCHANGED <<live, since, regimes, lately>>
    BY <2>4 DEF LatelyInv
  <2> QED BY <2>1, <2>3, <2>4 DEF Initialize
<1> QED BY <1>1, <1>2

LEMMA TickKeepsLately == ASSUME TypeOK, LatelyInv, Tick PROVE LatelyInv'
<1> USE DEF TypeOK, VardiffOK
<1>1. since' # -1 => since # -1
  BY DEF Tick
<1>2. since' # -1 => lately'[live'] = 0
  BY <1>1 DEF Tick, vardiff
<1>3. ASSUME NEW q \in regimes' PROVE lately'[q.difficulty] <= q.age
  <2>1. PICK r \in regimes : q = [difficulty |-> r.difficulty, age |-> Older(r.age)]
    BY DEF Tick
  <2>2. r.difficulty \in Levels /\ r.age \in 0..(Grace + 1) /\ lately[r.difficulty] \in 0..(Grace + 1)
    BY DEF Regimes
  <2>3. lately[r.difficulty] <= r.age
    BY DEF LatelyInv
  <2>4. Older(lately[r.difficulty]) <= Older(r.age) /\ 0 <= Older(r.age)
    BY <2>2, <2>3, ConnectionAssumption DEF Older
  <2>5. lately'[r.difficulty] \in {0, Older(lately[r.difficulty])}
    BY <2>2 DEF Tick
  <2> QED BY <2>1, <2>4, <2>5
<1>4. initialized' => since' # -1
  <2>1. since # -1 => since' # -1
    BY ConnectionAssumption DEF Tick, Older
  <2> QED BY <2>1 DEF Tick, shake, LatelyInv
<1> QED BY <1>2, <1>3, <1>4 DEF LatelyInv

(* A step that leaves the difficulties and does not begin.                 *)
LEMMA LatelyAside ==
  ASSUME LatelyInv, UNCHANGED <<live, since, regimes, lately, initialized>>
  PROVE  LatelyInv'
BY DEF LatelyInv

LEMMA StepKeepsLately == ASSUME TypeOK, LatelyInv, [Next]_vars PROVE LatelyInv'
<1>1. CASE Receive
  <2>1. CASE SuggestDifficulty
    BY <2>1, SetKeepsLately DEF SuggestDifficulty
  <2>2. CASE OtherMethod
    BY <2>2, EndOfMessageKeepsLately DEF OtherMethod
  <2>3. CASE Subscribe \/ Configure \/ Nonsense \/ Authorize \/ Submit \/ SubmitThrows
    BY <2>3, LatelyAside DEF Subscribe, Configure, Nonsense, Authorize, Submit, SubmitThrows, shake, vardiff
  <2> QED BY <1>1, <2>1, <2>2, <2>3 DEF Receive
<1>2. CASE CheckDifficulty
  BY <1>2, SetKeepsLately, LatelyAside DEF CheckDifficulty, vardiff, shake
<1>3. CASE Tick
  BY <1>3, TickKeepsLately
<1>4. CASE Template \/ Close \/ Release
  BY <1>4, LatelyAside DEF Template, Close, Release, shake, vardiff
<1>5. ASSUME NEW c \in calls, Continue(c) PROVE LatelyInv'
  <2>1. CASE Replied(c) \/ SuggestionTaken(c)
    BY <2>1, EndOfMessageKeepsLately DEF Replied, SuggestionTaken
  <2>2. CASE ~(Replied(c) \/ SuggestionTaken(c))
    BY <1>5, <2>2, LatelyAside DEF Continue, Routed, NotRouted, RouteThrows, Announced, WriteFails,
       TemplateKnown, PayoutsKnown, NoPayouts, Resend, BlockHandled, BlockThrows, Credit, shake, vardiff
  <2> QED BY <2>1, <2>2
<1>6. CASE UNCHANGED vars
  BY <1>6, LatelyAside DEF vars, shake, vardiff
<1> QED BY <1>1, <1>2, <1>3, <1>4, <1>5, <1>6 DEF Next

LEMMA LatelyAlways == Spec => [](TypeOK /\ LatelyInv)
<1>1. Init => LatelyInv
  BY DEF Init, LatelyInv
<1> QED BY <1>1, StepKeepsLately, ConnectionTypeCorrect, PTL DEF Spec

(* Submissions are remembered by Submit and SubmitThrows only.             *)
LEMMA SeenBySubmit ==
  ASSUME [Next]_vars, NEW h \in hashes' \ hashes
  PROVE  Submit \/ SubmitThrows
<1>1. CASE Receive
  <2>1. OtherMethod => hashes' \subseteq hashes
    BY DEF OtherMethod, EndOfMessage, Initialize, Listen
  <2> QED BY <1>1, <2>1 DEF Receive, Subscribe, Configure, Nonsense, Authorize, SuggestDifficulty, shares
<1>2. CASE Template \/ Tick \/ CheckDifficulty \/ Close \/ Release
  BY <1>2 DEF Template, Forget, Tick, CheckDifficulty, Close, Release, shares
<1>3. ASSUME NEW c \in calls, Continue(c) PROVE FALSE
  <2>1. CASE Replied(c) \/ SuggestionTaken(c) \/ Announced(c)
    BY <2>1 DEF Replied, SuggestionTaken, Announced, EndOfMessage, Initialize, Listen
  <2> QED BY <1>3, <2>1 DEF Continue, Routed, NotRouted, RouteThrows, WriteFails, TemplateKnown,
            PayoutsKnown, NoPayouts, Resend, BlockHandled, BlockThrows, Credit, shares
<1>4. CASE UNCHANGED vars
  BY <1>4 DEF vars, shares
<1> QED BY <1>1, <1>2, <1>3, <1>4 DEF Next

(* A share is credited at a difficulty it proves and that was live a grace *)
(* window ago at the earliest (acceptableTarget), for any levels, window   *)
(* and changes of difficulty.                                              *)
THEOREM CreditIsAlwaysHonest == Spec => CreditIsHonest
<1> DEFINE Honest ==
      \A c \in calls' \ calls, h \in hashes' \ hashes :
        c.at \in {"block", "stats"} => c.arg <= Proof[Parsed[h.text]] /\ lately[c.arg] <= Grace
<1>1. ASSUME TypeOK, LatelyInv, [Next]_vars PROVE Honest
  <2> SUFFICES ASSUME NEW c \in calls' \ calls, NEW h \in hashes' \ hashes, c.at \in {"block", "stats"}
               PROVE  c.arg <= Proof[Parsed[h.text]] /\ lately[c.arg] <= Grace
    OBVIOUS
  <2>1. Submit
    BY <1>1, SeenBySubmit DEF SubmitThrows
  <2>2. PICK id \in 1..built, text \in Texts :
          /\ hashes' = hashes \cup {[job |-> id, text |-> text]}
          /\ \/ \E stage \in {"block", "stats"}, d \in Cleared(Proof[Parsed[text]]) :
                  calls' = calls \cup {Call(stage, d)}
             \/ calls' = calls
    BY <2>1 DEF Submit, Refuse
  <2>3. h.text = text /\ c.arg \in Cleared(Proof[Parsed[text]])
    BY <2>2
  <2>4. PICK r \in Listed : c.arg = r.difficulty /\ r.difficulty <= Proof[Parsed[text]] /\ Counts(r)
    BY <2>3 DEF Cleared
  <2>5. lately[c.arg] <= Grace
    <3>1. CASE since # -1 /\ r = Current
      BY <1>1, <2>4, <3>1, ConnectionAssumption DEF LatelyInv, Current
    <3>2. CASE r \in regimes /\ r.age <= Grace
      <4>1. r.difficulty \in Levels /\ r.age \in 0..(Grace + 1) /\ lately[r.difficulty] \in 0..(Grace + 1)
        BY <1>1, <3>2 DEF TypeOK, VardiffOK, Regimes
      <4> QED BY <1>1, <2>4, <3>2, <4>1, ConnectionAssumption DEF LatelyInv
    <3>3. since = -1 => r # Current
      BY <1>1, <2>4, ConnectionAssumption DEF TypeOK, VardiffOK, Listed, Current, Regimes
    <3> QED BY <2>4, <3>1, <3>2, <3>3 DEF Listed, Counts
  <2> QED BY <2>3, <2>4, <2>5
<1> QED BY <1>1, LatelyAlways, PTL DEF Spec, CreditIsHonest

(* A new submission for a job that is there, and that proves the live      *)
(* target, is credited, however long that target has been live             *)
(* (acceptableTarget: the live target is always considered active).        *)
THEOREM LiveTargetAlwaysCounts == Spec => LiveTargetCounts
<1> DEFINE LiveCounts ==
      \A h \in hashes' \ hashes :
        /\ \E j \in jobs : j.id = h.job
        /\ Proof[Parsed[h.text]] >= live
        /\ socket = "open" /\ socket' = "open"
        => \E a \in accepted' : a.job = h.job /\ a.text = h.text
<1>1. ASSUME TypeOK, LatelyInv, [Next]_vars PROVE LiveCounts
  <2> SUFFICES ASSUME NEW h \in hashes' \ hashes, \E j \in jobs : j.id = h.job, Proof[Parsed[h.text]] >= live,
                      socket = "open", socket' = "open"
               PROVE  \E a \in accepted' : a.job = h.job /\ a.text = h.text
    OBVIOUS
  <2>1. Submit
    BY <1>1, SeenBySubmit DEF SubmitThrows, EndSocket
  <2>2. since # -1
    BY <1>1, <2>1 DEF Submit, LatelyInv
  <2>3. PICK id \in 1..built, text \in Texts :
          /\ hashes' = hashes \cup {[job |-> id, text |-> text]}
          /\ [job |-> id, text |-> text] \notin hashes /\ Cleared(Proof[Parsed[text]]) # {}
               /\ (\E j \in jobs : j.id = id) => Accept(id, text)
    BY <2>1 DEF Submit
  <2>4. h = [job |-> id, text |-> text]
    BY <2>3
  <2>5. live \in Cleared(Proof[Parsed[text]])
    <3>1. Current \in Listed /\ Counts(Current) /\ Current.difficulty = live
      BY <2>2 DEF Listed, Counts, Current
    <3>2. live <= Proof[Parsed[text]]
      BY <1>1, <2>4, ConnectionAssumption DEF TypeOK, VardiffOK
    <3> QED BY <3>1, <3>2 DEF Cleared
  <2>6. Accept(id, text)
    BY <2>3, <2>4, <2>5
  <2>7. PICK times \in {1, 2} :
          accepted' = accepted \cup {[job |-> id, text |-> text, times |-> times]}
    BY <2>6 DEF Accept
  <2>8. [job |-> id, text |-> text, times |-> times] \in accepted'
    BY <2>7
  <2> QED BY <2>4, <2>8
<1> QED BY <1>1, LatelyAlways, PTL DEF Spec, LiveTargetCounts

=============================================================================
