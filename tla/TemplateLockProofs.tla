------------------------- MODULE TemplateLockProofs -------------------------
(* What the lock of TemplateLock guarantees, for any number of processes,  *)
(* blocks and crashes.                                                     *)
EXTENDS TemplateLock, TLAPS

(* Nobody is ahead of the chain, and the call a process listens to is for  *)
(* the height it knows.                                                    *)
HeightsAreKnown ==
  /\ \A p \in Procs : height[p] <= tip
  /\ \A c \in calls : c.height <= tip /\ (c.live => c.height = height[c.proc])

IInv == TypeOK /\ HeightsAreKnown /\ TemplatesAreCurrent

(* What TemplatesAreCurrent says of one call and of one row.               *)
CallOK(c) ==
  /\ c \in Calls /\ c.height <= tip
  /\ c.live => c.height = height[c.proc]
  /\ c.step = "save" => c.got >= c.height

RowOK(r, h) == r \in Rows /\ (r.data = Null \/ r.data >= h)

Rest ==
  /\ tip \in Heights /\ crashes \in 0..MaxCrashes
  /\ height \in [Procs -> 0..MaxTip] /\ \A p \in Procs : height[p] <= tip
  /\ has \in [Procs -> {"none", "current", "old"}] /\ \A p \in Procs : has[p] # "old"

Table ==
  /\ row \in [Heights -> SUBSET Rows]
  /\ \A h \in Heights : \A r \in row[h] : RowOK(r, h) /\ \A s \in row[h] : r = s

(* The invariant, call by call and row by row.                             *)
LEMMA ByParts == IInv <=> Rest /\ Table /\ \A c \in calls : CallOK(c)
<1>1. TypeOK => \A c \in calls : c \in Calls /\ c.proc \in Procs
  BY DEF TypeOK, Calls
<1>2. (\A c \in calls : CallOK(c)) => \A c \in calls : c \in Calls /\ c.proc \in Procs
  BY DEF CallOK, Calls
<1> QED
  BY <1>1, <1>2 DEF IInv, TypeOK, HeightsAreKnown, TemplatesAreCurrent, NoOlderTemplate, Left,
     Rest, Table, CallOK, RowOK

LEMMA PartsNext == IInv' <=> Rest' /\ Table' /\ \A c \in calls' : CallOK(c)'
<1>1. TypeOK' => \A c \in calls' : c \in Calls /\ c.proc \in Procs
  BY DEF TypeOK, Calls
<1>2. (\A c \in calls' : CallOK(c)') => \A c \in calls' : c \in Calls /\ c.proc \in Procs
  BY DEF CallOK, Calls
<1> QED
  BY <1>1, <1>2 DEF IInv, TypeOK, HeightsAreKnown, TemplatesAreCurrent, NoOlderTemplate, Left,
     Rest, Table, CallOK, RowOK

LEMMA InitLock == Init => IInv
BY LockAssumption DEF Init, IInv, TypeOK, HeightsAreKnown, TemplatesAreCurrent, NoOlderTemplate,
   Left, Heights, Rows, Calls, Null

(* A call that goes on with another step than saving.                      *)
LEMMA ToKeeps ==
  ASSUME NEW c \in calls, NEW s \in Steps \ {"save"}, calls' = To(c, s),
         \A d \in calls : CallOK(d), UNCHANGED <<tip, height>>
  PROVE  \A d \in calls' : CallOK(d)'
BY DEF To, CallOK, Calls, Steps

(* A new call, for the height its process knows from now on.               *)
LEMMA CallKeeps ==
  ASSUME NEW p \in Procs, NEW h \in Heights, Call(p, h), h <= tip, height'[p] = h,
         \A q \in Procs : q # p => height'[q] = height[q],
         \A d \in calls : CallOK(d), UNCHANGED tip
  PROVE  \A d \in calls' : CallOK(d)'
<1> SUFFICES ASSUME NEW d \in calls' PROVE CallOK(d)'
  OBVIOUS
<1>1. CASE d \in calls /\ d.proc # p
  BY <1>1 DEF CallOK, Calls
<1>2. CASE \E c \in Left(p) : d = [c EXCEPT !.live = FALSE]
  BY <1>2 DEF CallOK, Calls, Left
<1>3. CASE d = [proc |-> p, height |-> h, step |-> "get", got |-> Null, live |-> TRUE]
  BY <1>3, LockAssumption DEF CallOK, Calls, Steps, Null, Heights
<1> QED BY <1>1, <1>2, <1>3 DEF Call

(* What a call returns is no older than its height, so the process it is   *)
(* live for does not emit an old template.                                 *)
LEMMA ReturnKeeps ==
  ASSUME NEW c \in calls, NEW t \in 0..MaxTip, t >= c.height, Return(c, t), CallOK(c), Rest
  PROVE  /\ has' \in [Procs -> {"none", "current", "old"}]
         /\ \A p \in Procs : has'[p] # "old"
         /\ calls' \subseteq calls
BY DEF Return, CallOK, Calls, Heights, Rest

(* One row of the table is written.                                        *)
LEMMA WriteKeeps ==
  ASSUME Table, NEW h \in Heights, NEW S \in SUBSET Rows,
         \A r \in S : RowOK(r, h) /\ \A s \in S : r = s, Write(h, S)
  PROVE  Table'
<1>1. row' \in [Heights -> SUBSET Rows]
  BY DEF Write, Table
<1>2. \A g \in Heights : row'[g] = IF g = h THEN S ELSE row[g]
  BY DEF Write, Table
<1> QED BY <1>1, <1>2 DEF Table, RowOK

(* The steps of one call.                                                  *)
LEMMA ProceedKeeps ==
  ASSUME Rest, Table, \A d \in calls : CallOK(d), NEW c \in calls, Proceed(c)
  PROVE  Rest' /\ Table' /\ \A d \in calls' : CallOK(d)'
<1> c \in Calls /\ c.height \in Heights /\ c.proc \in Procs /\ c.got \in 0..MaxTip
  BY DEF CallOK, Calls
<1>1. CASE Get(c)
  <2>1. CASE ~Complete(c.height)
    BY <1>1, <2>1, ToKeeps DEF Get, Rest, Table, Steps
  <2>2. CASE Complete(c.height)
    <3>1. PICK r \in row[c.height] : /\ r.data # Null
                                     /\ IF r.by = c.proc THEN calls' = To(c, "load") /\ UNCHANGED has
                                        ELSE Return(c, r.data)
      BY <1>1, <2>2 DEF Get, getBlock
    <3>2. r.data \in 0..MaxTip /\ r.data >= c.height
      BY <3>1 DEF Table, RowOK, Rows
    <3>3. CASE r.by = c.proc
      BY <1>1, <3>1, <3>3, ToKeeps DEF Get, Rest, Table, Steps
    <3>4. CASE r.by # c.proc
      BY <1>1, <3>1, <3>2, <3>4, ReturnKeeps DEF Get, Rest, Table, CallOK
    <3> QED BY <3>3, <3>4
  <2> QED BY <2>1, <2>2
<1>2. CASE LockLookup(c)
  <2>1. CASE row[c.height] # {}
    <3> DEFINE S == {[by |-> c.proc, data |-> Null] : r \in row[c.height]}
    <3>1. S \in SUBSET Rows /\ \A r \in S : RowOK(r, c.height) /\ \A s \in S : r = s
      BY LockAssumption DEF RowOK, Rows, Null
    <3>2. Write(c.height, S)
      BY <1>2, <2>1 DEF LockLookup, TakeOver
    <3>3. Table'
      BY <3>1, <3>2, WriteKeeps
    <3> HIDE DEF S
    <3> QED BY <1>2, <2>1, <3>3, ToKeeps DEF LockLookup, TakeOver, Rest, Steps
  <2>2. CASE row[c.height] = {}
    BY <1>2, <2>2, ToKeeps DEF LockLookup, Rest, Table, Steps
  <2> QED BY <2>1, <2>2
<1>3. CASE LockInsert(c)
  <2> DEFINE S == {[by |-> c.proc, data |-> Null]}
  <2>1. CASE row[c.height] = {}
    <3>1. S \in SUBSET Rows /\ \A r \in S : RowOK(r, c.height) /\ \A s \in S : r = s
      BY LockAssumption DEF RowOK, Rows, Null
    <3>2. Write(c.height, S)
      BY <1>3, <2>1 DEF LockInsert
    <3>3. Table'
      BY <3>1, <3>2, WriteKeeps
    <3> HIDE DEF S
    <3> QED BY <1>3, <2>1, <3>3, ToKeeps DEF LockInsert, Rest, Steps
  <2>2. CASE row[c.height] # {}
    BY <1>3, <2>2, ToKeeps DEF LockInsert, Rest, Table, Steps
  <2> QED BY <2>1, <2>2
<1>4. CASE waitForBlock(c)
  BY <1>4, ToKeeps DEF waitForBlock, Rest, Table, Steps
<1>5. CASE Load(c)
  <2>1. ASSUME NEW d \in calls' PROVE CallOK(d)'
    <3>1. CASE d \in calls
      BY <1>5, <3>1 DEF Load, CallOK
    <3>2. CASE d = [c EXCEPT !.step = "save", !.got = tip]
      <4>1. tip \in 0..MaxTip /\ tip' = tip /\ height' = height
        BY <1>5, LockAssumption DEF Load, Rest, Heights
      <4>2. d \in Calls
        BY <3>2, <4>1 DEF Calls, Steps
      <4>3. d.height = c.height /\ d.live = c.live /\ d.proc = c.proc /\ d.got = tip
        BY <3>2 DEF Calls
      <4> QED BY <4>1, <4>2, <4>3 DEF CallOK
    <3> QED BY <1>5, <2>1, <3>1, <3>2 DEF Load
  <2> QED BY <1>5, <2>1 DEF Load, Rest, Table
<1>6. CASE Save(c)
  <2>1. c.got >= c.height
    BY <1>6 DEF Save, CallOK
  <2>2. Table'
    BY <1>6, <2>1 DEF Save, Write, Table, RowOK, Rows
  <2> QED BY <1>6, <2>1, <2>2, ReturnKeeps DEF Save, Rest, CallOK
<1> QED BY <1>1, <1>2, <1>3, <1>4, <1>5, <1>6 DEF Proceed

LEMMA StepLock == IInv /\ [Next]_vars => IInv'
<1> SUFFICES ASSUME Rest, Table, \A c \in calls : CallOK(c), [Next]_vars
             PROVE  Rest' /\ Table' /\ \A c \in calls' : CallOK(c)'
  BY ByParts, PartsNext
<1>1. CASE Mine
  BY <1>1, LockAssumption DEF Mine, Rest, Table, CallOK, Calls, Heights
<1>2. CASE deleteOldBlocks
  BY <1>2 DEF deleteOldBlocks, Rest, Table, CallOK
<1>3. ASSUME NEW p \in Procs, pollMiningInfo(p) PROVE Rest' /\ Table' /\ \A c \in calls' : CallOK(c)'
  <2>1. Rest' /\ Table'
    BY <1>3 DEF pollMiningInfo, Rest, Table, Heights
  <2>2. height'[p] = tip /\ \A q \in Procs : q # p => height'[q] = height[q]
    BY <1>3 DEF pollMiningInfo, Rest
  <2> QED BY <1>3, <2>1, <2>2, CallKeeps DEF pollMiningInfo, Rest, Heights
<1>4. ASSUME NEW p \in Procs, Refresh(p) PROVE Rest' /\ Table' /\ \A c \in calls' : CallOK(c)'
  <2>1. height[p] \in Heights /\ height[p] <= tip
    BY <1>4 DEF Refresh, Rest, Heights
  <2> QED BY <1>4, <2>1, CallKeeps DEF Refresh, Rest, Table
<1>5. ASSUME NEW p \in Procs, Crash(p) PROVE Rest' /\ Table' /\ \A c \in calls' : CallOK(c)'
  <2>1. Rest' /\ Table'
    BY <1>5, LockAssumption DEF Crash, Rest, Table, Heights
  <2>2. ASSUME NEW c \in calls' PROVE CallOK(c)'
    BY <1>5, <2>2 DEF Crash, CallOK, Left, Calls, Rest
  <2> QED BY <2>1, <2>2
<1>6. ASSUME NEW c \in calls, Proceed(c) PROVE Rest' /\ Table' /\ \A d \in calls' : CallOK(d)'
  BY <1>6, ProceedKeeps
<1>7. CASE UNCHANGED vars
  BY <1>7 DEF vars, Rest, Table, CallOK
<1> QED BY <1>1, <1>2, <1>3, <1>4, <1>5, <1>6, <1>7 DEF Next

(* The types, the heights and the templates together are inductive          *)
(* (bitcoin-rpc.service.ts): every step of every process keeps them.        *)
THEOREM LockInvariant == Spec => []IInv
BY InitLock, StepLock, PTL DEF Spec

(* The types hold for any number of processes, blocks and crashes; in      *)
(* particular a height never has two rows.                                 *)
THEOREM LockTypeCorrect == Spec => []TypeOK
<1>1. IInv => TypeOK
  BY DEF IInv
<1> QED BY <1>1, LockInvariant, PTL

(* No process stores or emits a template older than the height it is for,  *)
(* whoever fetched it and whoever dies (bitcoin-rpc.service.ts).           *)
THEOREM TemplatesStayCurrent == Spec => []TemplatesAreCurrent
<1>1. IInv => TemplatesAreCurrent
  BY DEF IInv
<1> QED BY <1>1, LockInvariant, PTL
=============================================================================
