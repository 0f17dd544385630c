-------------------------------- MODULE Pool --------------------------------
(***************************************************************************)
(* The parts around a connection and its jobs: client registry (extended:  *)
(* its properties are about this module's behaviours too), share book,     *)
(* template health, verifier proxy, and the clients a payout uses, of      *)
(* wallets and of relays.  They share no state (each module's comment says *)
(* what it takes from the others), so a behaviour runs one of them, named  *)
(* by `part', and leaves the others as they start.                         *)
(***************************************************************************)
EXTENDS ClientRegistry, Sequences, FiniteSets

CONSTANTS
  Parts,                                  \* parts a behaviour may run
  Proofs, MaxSlots, MaxShares, MaxCalls,  \* ShareBook; MaxCalls of both
  Dens, Ttl, Retry, Threshold,            \* TemplateHealth
  Miners, Configs, Lines, MaxLines,       \* VerifierProxy
  Calls,                                  \* WalletClient
  Relays                                  \* ZapPublisher

VARIABLES
  part,
  slot, mine, count, saved, stats, shareCalls,       \* ShareBook
  bookBest, address, handled, crowded, failed,
  conf, failures, sinceFailure, fallback, cache,     \* TemplateHealth
  templateCalls, streak, left, served,
  cfg, listening, conn, extranonce, sent, passed,    \* VerifierProxy
  walletKind, at, headers, promise, timer, died,     \* WalletClient
  wallet, events,
  zap, relay, accepted                               \* ZapPublisher

registryVars == vars
bookVars     == <<slot, mine, count, saved, stats, shareCalls, bookBest, address, handled,
                  crowded, failed>>
healthVars   == <<conf, failures, sinceFailure, fallback, cache, templateCalls, streak,
                  left, served>>
proxyVars    == <<cfg, listening, conn, extranonce, sent, passed>>
walletVars   == <<walletKind, at, headers, promise, timer, died, wallet, events>>
zapVars      == <<zap, relay, accepted>>

Book   == INSTANCE ShareBook WITH calls <- shareCalls, best <- bookBest, shares <- handled
Health == INSTANCE TemplateHealth WITH calls <- templateCalls
Proxy  == INSTANCE VerifierProxy
Wallet == INSTANCE WalletClient WITH kind <- walletKind
Zap    == INSTANCE ZapPublisher WITH result <- zap

ASSUME RegistryAssumption == Beat \in Nat /\ Dead \in Nat

ASSUME BookAssumption ==
  /\ Proofs \subseteq Nat \ {0}
  /\ MaxSlots \in Nat \ {0} /\ MaxShares \in Nat /\ MaxCalls \in Nat

ASSUME HealthAssumption ==
  Ttl \in Nat /\ Retry \in Nat /\ Threshold \in Nat

ASSUME ProxyAssumption ==
  Configs \subseteq Proxy!Config /\ Lines \subseteq Proxy!Line /\ MaxLines \in Nat

poolVars == <<part, registryVars, bookVars, healthVars, proxyVars, walletVars, zapVars>>

(* A part that does not run has one start.                                 *)
PoolInit ==
  /\ part \in Parts
  /\ Init /\ Book!Init /\ Health!Init /\ Proxy!Init
  /\ Wallet!Init /\ Zap!Init
  /\ part # "health" => \A d \in Dens : conf[d] = "platform"
  /\ part # "proxy" => cfg = CHOOSE c \in Configs : TRUE
  /\ part # "wallet" => walletKind = "nwc"

(* A step of one part changes nothing of the others.                       *)
RegistryStep(A) ==
  /\ part = "registry" /\ A
  /\ UNCHANGED <<part, bookVars, healthVars, proxyVars, walletVars, zapVars>>
BookStep(A) ==
  /\ part = "book" /\ A
  /\ UNCHANGED <<part, registryVars, healthVars, proxyVars, walletVars, zapVars>>
HealthStep(A) ==
  /\ part = "health" /\ A
  /\ UNCHANGED <<part, registryVars, bookVars, proxyVars, walletVars, zapVars>>
ProxyStep(A) ==
  /\ part = "proxy" /\ A
  /\ UNCHANGED <<part, registryVars, bookVars, healthVars, walletVars, zapVars>>
WalletStep(A) ==
  /\ part = "wallet" /\ A
  /\ UNCHANGED <<part, registryVars, bookVars, healthVars, proxyVars, zapVars>>
ZapStep(A) ==
  /\ part = "zap" /\ A
  /\ UNCHANGED <<part, registryVars, bookVars, healthVars, proxyVars, walletVars>>

PoolNext ==
  \/ RegistryStep(Next)
  \/ BookStep(Book!Next)
  \/ HealthStep(Health!Next)
  \/ ProxyStep(Proxy!Next)
  \/ WalletStep(Wallet!Next)
  \/ ZapStep(Zap!Next)

PoolSpec == PoolInit /\ [][PoolNext]_poolVars

(* The fairness of ClientRegistry, in its part.                            *)
PoolFairSpec ==
  /\ PoolSpec
  /\ WF_poolVars(RegistryStep(Tick))
  /\ WF_poolVars(RegistryStep(Flush))
  /\ WF_poolVars(RegistryStep(KillDeadClients))
  /\ WF_poolVars(RegistryStep(BatchEnds))
  /\ \A c \in Clients :
       /\ WF_poolVars(RegistryStep(Delete(c)))
       /\ WF_poolVars(RegistryStep(Handle(c)))
-----------------------------------------------------------------------------
(* The type invariants of the parts.                                       *)
PartsOK ==
  /\ TypeOK /\ Book!TypeOK /\ Health!TypeOK /\ Proxy!TypeOK
  /\ Wallet!TypeOK /\ Zap!TypeOK

(* ActiveIsListed and GoneIsForgotten are those of ClientRegistry.         *)

(* Rows of time slots count every share, one row for a slot unless two     *)
(* shares overlap, and the best difficulty is no worse than any share that *)
(* overlapped none (StratumV1ClientStatistics.ts,                          *)
(* StratumV1Client.ts:640-705).                                            *)
BookIsExact == Book!SlotsAreComplete /\ Book!OneRowPerSlot /\ Book!BestIsKept

(* A den that left its operator's node is given no template of it, soon    *)
(* after its last request of the time before has ended, and the breaker    *)
(* is open only after as many failures in a row as its threshold           *)
(* (hashden.service.ts:359-411, health.ts:50-78).                          *)
TemplateSourceIsTrue == Health!LeftMeansLeft /\ Health!OpenMeansFailing

(* The proxy forwards everything, or in strict mode everything up to the   *)
(* first job that fails (proxy.ts).                                        *)
PassesWhatItMay == Proxy!PassesWhatItMay

(* What is reported paid was paid, for this call and no other, and what is *)
(* reported published is at a relay (nwc-client.ts, lnbits-client.ts,      *)
(* zap-publisher.ts).                                                      *)
ReportsAreTrue == Wallet!PaidIsTrue /\ Zap!PublishedIsTrue
=============================================================================
