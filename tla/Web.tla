-------------------------------- MODULE Web ---------------------------------
(***************************************************************************)
(* The den API and the web pages: DenRegistry has the steps of a handler,  *)
(* MemberPages and OperatorPages have those of the pages before the same   *)
(* rows, CoinbaseSplit has what the den's terms pay its members, Donations *)
(* has the support page.  They share no state (each module's comment says  *)
(* what it takes from the others), so a behaviour runs one of them, named  *)
(* by `part', and leaves the others as they start.                         *)
(***************************************************************************)
EXTENDS Integers, FiniteSets

CONSTANTS
  Parts,                              \* parts a behaviour may run
  Keys, Op,                           \* public keys; the operator's in MemberPages
  Miners, CreateEvents, JoinEvents,   \* DenRegistry
  Freshness, MaxNow, MaxRequests,
  MemberMoves,                        \* MemberPages
  Tabs, OpMoves,                      \* OperatorPages
  Members, Diffs, Terms, Reward,      \* CoinbaseSplit
  PlatformFee, Unit, WindowSize, MaxShares,
  Ids, Window, Quota,                 \* Donations
  MaxClock, MaxHits, MaxPolls

VARIABLES
  part,
  now, den, member, requests, routed, mined, newest,     \* DenRegistry
  hers, herRow, account, remembered, page, auth,         \* MemberPages
  cache, known, form, list, call, moves,
  his, hisRow, opAccount, opPage, phase, group, signer,  \* OperatorPages
  rpcTest, removal, save, opMoves,
  shares, terms, job, result,                            \* CoinbaseSplit
  clock, thanks, hits, granted, mode, stage, current,    \* Donations
  adrift, invoice, polls, receipts

apiVars    == <<now, den, member, requests, routed, mined, newest>>
memberVars == <<hers, herRow, account, remembered, page, auth, cache, known, form, list, call, moves>>
opVars     == <<his, hisRow, opAccount, opPage, phase, group, signer, rpcTest, removal, save, opMoves>>
splitVars  == <<shares, terms, job, result>>
giveVars   == <<clock, thanks, hits, granted, mode, stage, current, adrift, invoice, polls, receipts>>
vars       == <<part, apiVars, memberVars, opVars, splitVars, giveVars>>

Api == INSTANCE DenRegistry WITH Window <- Freshness

MemberPage == INSTANCE MemberPages WITH
  MaxMoves <- MemberMoves, den <- hers, member <- herRow

OperatorPage == INSTANCE OperatorPages WITH
  MaxMoves <- OpMoves, den <- his, member <- hisRow, account <- opAccount,
  page <- opPage, call <- save, moves <- opMoves

Split == INSTANCE CoinbaseSplit WITH den <- terms

Give == INSTANCE Donations WITH MaxNow <- MaxClock, now <- clock, phase <- stage

ASSUME ApiAssumption ==
  /\ Miners \subseteq Keys
  /\ CreateEvents \subseteq Api!Bodies(Keys, Api!Times) /\ JoinEvents \subseteq Api!Wanted
  /\ Freshness \in Nat /\ MaxNow \in Nat

ASSUME PagesAssumption == Op \in Keys /\ "none" \notin Keys

(* validateFees: fees are at most everything.                              *)
ASSUME SplitAssumption ==
  /\ Terms # {} /\ Terms \subseteq Split!TermsOf
  /\ Reward \in Nat \ {0} /\ Unit \in Nat \ {0} /\ PlatformFee \in 0..Unit
  /\ \A t \in Terms : t.fee + PlatformFee <= Unit
  /\ Diffs \subseteq Nat \ {0} /\ Members \subseteq Nat /\ IsFiniteSet(Members)
  /\ WindowSize \in Nat \ {0} /\ MaxShares \in Nat

ASSUME GiveAssumption ==
  Window \in Nat \ {0} /\ Quota \in Nat /\ MaxClock \in Nat /\ "none" \notin Ids

(* A part that does not run has one start.                                 *)
Init ==
  /\ part \in Parts
  /\ Api!Init /\ MemberPage!Init /\ OperatorPage!Init /\ Split!Init /\ Give!Init
  /\ part # "member" => account = Op /\ herRow = [k \in Keys |-> {}]
  /\ part # "operator" => opAccount = Op
  /\ part # "split" => terms = CHOOSE t \in Terms : TRUE
  /\ part # "give" => ~thanks /\ \A i \in Ids : invoice[i].route = "donate"

(* A step of one part changes nothing of the others.                       *)
ApiStep(A) ==
  part = "api" /\ A /\ UNCHANGED <<part, memberVars, opVars, splitVars, giveVars>>
MemberStep(A) ==
  part = "member" /\ A /\ UNCHANGED <<part, apiVars, opVars, splitVars, giveVars>>
OperatorStep(A) ==
  part = "operator" /\ A /\ UNCHANGED <<part, apiVars, memberVars, splitVars, giveVars>>
SplitStep(A) ==
  part = "split" /\ A /\ UNCHANGED <<part, apiVars, memberVars, opVars, giveVars>>
GiveStep(A) ==
  part = "give" /\ A /\ UNCHANGED <<part, apiVars, memberVars, opVars, splitVars>>

Next ==
  \/ ApiStep(Api!Next)
  \/ MemberStep(MemberPage!Next)
  \/ OperatorStep(OperatorPage!Next)
  \/ SplitStep(Split!Next)
  \/ GiveStep(Give!Next)

Spec == Init /\ [][Next]_vars
-----------------------------------------------------------------------------
(* The type invariants of the parts.                                       *)
TypeOK ==
  /\ Api!TypeOK /\ MemberPage!TypeOK /\ OperatorPage!TypeOK
  /\ Split!TypeOK /\ Give!TypeOK

(* A den stays its creator's, shares are its members', and a registration  *)
(* is rolled back by two windows at most (groups.controller.ts,            *)
(* members.controller.ts).                                                 *)
RowsStayTheirOwners == Api!RowsStayTheirOwners

(* A key is published only when its owner chose so, and whom the join page *)
(* takes for a member is one (join/page.tsx, DenMembershipStatus.tsx).     *)
MembershipIsRight == MemberPage!MembershipIsRight

(* A den with its own node keeps its URL and credential through every save *)
(* (groups.controller.ts:328-336, 456-471).                                *)
CredentialsAreKept == OperatorPage!CredentialsAreKept

(* The coinbase claims the whole reward, and each member's part of it is   *)
(* her weight's worth (pplns.ts, solo-showcase.ts).                        *)
SplitIsExact == Split!PaysTheReward /\ Split!PaysByWeight

(* The page thanks for the invoice it shows and for no other, or for none  *)
(* when it was opened with thanks=1, and the limiter lets through no more  *)
(* than its quota (SupportOptions.tsx, SupportForm.tsx, donate/route.ts).  *)
SupportIsSound == Give!SupportIsSound
=============================================================================
