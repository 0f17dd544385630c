---------------------------- MODULE MemberPages ----------------------------
(***************************************************************************)
(* A member's browser: the signer (useNostrAuth.ts), what the pages        *)
(* believe she is in a den (DenMembershipStatus.tsx), the page that joins  *)
(* it or edits her addresses (join/page.tsx) and her account (me/page.tsx),*)
(* over the client of the API (api.ts) and the rows of the server, each of *)
(* whose requests is one step (DenRegistry has its steps).                 *)
(*                                                                         *)
(* useNostrAuth is a hook: every component that uses it has a state of its *)
(* own.  The join page has two, "page" and, through useDenRole, "role".    *)
(* One call that writes is on the way at a time (bound).                   *)
(***************************************************************************)
EXTENDS DenRows, FiniteSets

CONSTANTS
  Keys,     \* the accounts of the signer extension
  Op,       \* the operator's account
  MaxMoves  \* bound: pages visited, accounts switched, dens deleted

VARIABLES
  den, member, \* the server's rows
  account,     \* of the extension, or "none"
  remembered,  \* in localStorage
  page,        \* the page on the screen
  auth,        \* of a hook: the state of its signer
  cache,       \* of a key: the answer useDenRole keeps, for as long as the page load
  known,       \* the join page's den: "loading", "there", "gone"
  form,        \* the join page: submitState, prefillState
  list,        \* the account page: myGroups, and whether they are loaded
  call,        \* the call that writes: {} or a set of one
  moves

browser == <<remembered, page, auth, cache, known, form, list>>
vars    == <<den, member, account, browser, call, moves>>

Nobody  == "none"
States  == {"IDLE", "DISCONNECTED", "CONNECTING", "CONNECTED", "ERROR"}
Session == [kind : States, key : Keys \cup {Nobody}]
Mine    == [operator : BOOLEAN, shows : SUBSET BOOLEAN]
Answer  == [state : {"none", "loading", "loaded", "failed"}, dens : SUBSET Mine]
Calls   == [kind : {"join", "prefs"}, key : Keys, wish : Wishes, asked : Wishes,
            step : {"probe", "sign", "send"}, here : BOOLEAN]

TypeOK ==
  /\ den \subseteq DenRow(Keys) /\ member \in [Keys -> SUBSET MemberRow({0})]
  /\ {account, remembered} \subseteq Keys \cup {Nobody}
  /\ page \in {"other", "join", "me"}
  /\ auth \in [{"page", "role"} -> Session]
  /\ cache \in [Keys -> Answer] /\ list \in Answer
  /\ known \in {"loading", "there", "gone"}
  /\ form \in [submit : {"IDLE", "SUBMITTING", "JOINED", "ERROR"},
               prefill : {"IDLE", "LOADING", "LOADED", "ERROR"}]
  /\ call \subseteq Calls /\ AtMostOne(call)

Idle   == [kind |-> "IDLE", key |-> Nobody]
Out    == [kind |-> "DISCONNECTED", key |-> Nobody]
In(k)  == [kind |-> "CONNECTED", key |-> k]
Empty  == [state |-> "none", dens |-> {}]
Fresh  == [submit |-> "IDLE", prefill |-> "IDLE"]

Init ==
  /\ den = {[op |-> Op, vis |-> "PUBLIC", source |-> "platform", url |-> FALSE, rpc |-> FALSE]}
  /\ member \in [Keys -> {{}, {[at |-> 0, show |-> TRUE]}}]
  /\ account \in Keys /\ remembered = Nobody
  /\ page = "other" /\ auth = [h \in {"page", "role"} |-> Out]
  /\ cache = [k \in Keys |-> Empty] /\ known = "loading" /\ form = Fresh /\ list = Empty
  /\ call = {} /\ moves = 0

Move == moves < MaxMoves /\ moves' = moves + 1
-----------------------------------------------------------------------------
(* Mounting and leaving.  A reload forgets the cache, a link keeps it.     *)

(* The effect of useNostrAuth on mount: without a remembered key or an     *)
(* extension it is disconnected, else it asks for the extension's key.     *)
Mounted ==
  IF remembered = Nobody \/ account = Nobody THEN Out ELSE [Idle EXCEPT !.key = remembered]

Visit(p, reload) ==
  /\ Move
  /\ page' = p
  /\ auth' = [h \in {"page", "role"} |-> IF h = "page" \/ p = "join" THEN Mounted ELSE Out]
  /\ cache' = IF reload THEN [k \in Keys |-> Empty] ELSE cache
  /\ known' = "loading" /\ form' = Fresh /\ list' = Empty
  /\ call' = IF reload THEN {} ELSE {[c EXCEPT !.here = FALSE] : c \in call}
  /\ UNCHANGED <<den, member, account, remembered>>

(* The extension answers, with the account it is on by now, or throws.     *)
Reconnect(h) ==
  /\ auth[h].kind = "IDLE" /\ auth[h].key # Nobody
  /\ IF account = auth[h].key THEN auth' = [auth EXCEPT ![h] = In(account)] /\ UNCHANGED remembered
     ELSE auth' = [auth EXCEPT ![h] = Out]
          /\ remembered' = IF account = Nobody THEN remembered ELSE Nobody
  /\ UNCHANGED <<den, member, account, page, cache, known, form, list, call, moves>>

connect ==
  /\ page # "other" /\ auth["page"].kind \in {"DISCONNECTED", "ERROR"}
  /\ auth' = [auth EXCEPT !["page"] =
       [kind |-> IF account = Nobody THEN "ERROR" ELSE "CONNECTING", key |-> Nobody]]
  /\ UNCHANGED <<den, member, account, remembered, page, cache, known, form, list, call, moves>>

Connected ==
  /\ auth["page"].kind = "CONNECTING"
  /\ \/ /\ account # Nobody
        /\ remembered' = account /\ auth' = [auth EXCEPT !["page"] = In(account)]
     \/ /\ auth' = [auth EXCEPT !["page"] = [kind |-> "ERROR", key |-> Nobody]]
        /\ UNCHANGED remembered
  /\ UNCHANGED <<den, member, account, page, cache, known, form, list, call, moves>>

(* The account page only; its effect empties the list.                     *)
disconnect ==
  /\ page = "me" /\ auth["page"].kind = "CONNECTED"
  /\ remembered' = Nobody /\ auth' = [auth EXCEPT !["page"] = Out] /\ list' = Empty
  /\ UNCHANGED <<den, member, account, page, cache, known, form, call, moves>>

SwitchAccount(a) ==
  /\ Move /\ a # account
  /\ account' = a
  /\ UNCHANGED <<den, member, browser, call>>

DeleteDen ==
  /\ Move /\ Open(den)
  /\ den' = {[d EXCEPT !.vis = "DELETED"] : d \in den}
  /\ UNCHANGED <<member, account, browser, call>>
-----------------------------------------------------------------------------
(* useDenRole: asked once for a key, and a failure is kept like an answer. *)

AskRole ==
  /\ page = "join" /\ auth["role"].kind = "CONNECTED" /\ cache[auth["role"].key].state = "none"
  /\ cache' = [cache EXCEPT ![auth["role"].key].state = "loading"]
  /\ UNCHANGED <<den, member, account, remembered, page, auth, known, form, list, call, moves>>

(* listGroupsForPubkey, for useDenRole and the account page: it may throw. *)
Lookup(k) ==
  {[state |-> "failed", dens |-> {}], [state |-> "loaded", dens |-> MineOf(den, member, k)]}

RoleAnswer(k) ==
  /\ cache[k].state = "loading"
  /\ \E answer \in Lookup(k) : cache' = [cache EXCEPT ![k] = answer]
  /\ UNCHANGED <<den, member, account, remembered, page, auth, known, form, list, call, moves>>

(* Mutant: a den in the list is taken for one she is a member of.          *)
RoleListed(k, operator, answer) ==
  IF answer.dens = {} THEN IF operator THEN "OPERATOR_ONLY" ELSE "NOT_MEMBER"
  ELSE IF operator THEN "OPERATOR_AND_MEMBER" ELSE "MEMBER"

(* operator: as far as the page knows it.  A failed lookup shows no den.   *)
RoleOf(k, operator, answer) ==
  IF answer.dens = {} THEN IF operator THEN "OPERATOR_ONLY" ELSE "NOT_MEMBER"
  ELSE IF ~operator THEN "MEMBER"
  ELSE IF \E d \in answer.dens : d.shows # {} THEN "OPERATOR_AND_MEMBER" ELSE "OPERATOR_ONLY"

Role ==
  LET k == auth["role"].key IN
  IF auth["role"].kind \in {"IDLE", "CONNECTING"} THEN "LOADING"
  ELSE IF auth["role"].kind # "CONNECTED" THEN "SIGNED_OUT"
  ELSE IF cache[k].state \notin {"loaded", "failed"} THEN "LOADING"
  ELSE RoleOf(k, known = "there" /\ k = Op, cache[k])

isExistingMember == Role \in {"MEMBER", "OPERATOR_AND_MEMBER"}
-----------------------------------------------------------------------------
(* The join page.                                                          *)

LoadDen ==
  /\ page = "join" /\ known = "loading"
  /\ known' \in {IF Shown(den) # {} THEN "there" ELSE "gone", "gone"}
  /\ UNCHANGED <<den, member, account, remembered, page, auth, cache, form, list, call, moves>>

FormShown == page = "join" /\ known # "gone" /\ auth["page"].kind = "CONNECTED" /\ form.submit # "JOINED"

(* The answer is the record of whoever signed.                             *)
loadMyAddresses ==
  /\ FormShown /\ isExistingMember /\ form.prefill \in {"IDLE", "ERROR"}
  /\ form' = [form EXCEPT !.prefill = "LOADING"]
  /\ UNCHANGED <<den, member, account, remembered, page, auth, cache, known, list, call, moves>>

AddressesLoaded ==
  /\ page = "join" /\ form.prefill = "LOADING"
  /\ \/ /\ account # Nobody /\ Open(den) /\ member[account] # {}
        /\ form' = [form EXCEPT !.prefill = "LOADED"]
     \/ form' = [form EXCEPT !.prefill = "ERROR"]
  /\ UNCHANGED <<den, member, account, remembered, page, auth, cache, known, list, call, moves>>

(* Mutant: the default is to show her key.                                 *)
WishPublic(existing, asked) == IF existing THEN "unset" ELSE IF asked = "no" THEN "no" ELSE "yes"

(* What the form says of a member's visibility, whose choice is offered to *)
(* joiners only and is anonymous unless she chooses.                       *)
Wish(existing, asked) == IF existing THEN "unset" ELSE IF asked = "yes" THEN "yes" ELSE "no"

(* asked: what she chose herself, if anything.                             *)
onSubmit(asked) ==
  /\ FormShown /\ form.submit \in {"IDLE", "ERROR"} /\ call = {}
  /\ isExistingMember => asked = "unset"
  /\ form' = [form EXCEPT !.submit = "SUBMITTING"]
  /\ call' = {[kind |-> "join", key |-> auth["page"].key, wish |-> Wish(isExistingMember, asked),
               asked |-> asked, step |-> "probe", here |-> TRUE]}
  /\ UNCHANGED <<den, member, account, remembered, page, auth, cache, known, list, moves>>

(* The account page: the list, and a den's toggle.                         *)

LoadList ==
  /\ page = "me" /\ auth["page"].kind = "CONNECTED"
  /\ \/ list.state = "none" /\ list' = [list EXCEPT !.state = "loading"]
     \/ list.state = "loading" /\ list' \in Lookup(auth["page"].key)
  /\ UNCHANGED <<den, member, account, remembered, page, auth, cache, known, form, call, moves>>

flip ==
  /\ page = "me" /\ auth["page"].kind = "CONNECTED" /\ call = {}
  /\ \E d \in list.dens : \E shown \in d.shows :
       LET next == IF shown THEN "no" ELSE "yes" IN
       call' = {[kind |-> "prefs", key |-> auth["page"].key, wish |-> next, asked |-> next,
                 step |-> "sign", here |-> TRUE]}
  /\ UNCHANGED <<den, member, account, browser, moves>>
-----------------------------------------------------------------------------
(* The call: probeLnurl, the signature, the request.  It goes on when the  *)
(* page is left.                                                           *)

Probed(c) ==
  /\ c.step = "probe" /\ call' = {[c EXCEPT !.step = "sign"]}
  /\ UNCHANGED <<den, member, account, browser, moves>>

(* An extension signs for the account it is on by now.                     *)
Signed(c) ==
  /\ c.step = "sign" /\ account # Nobody
  /\ call' = {[c EXCEPT !.step = "send", !.key = account]}
  /\ UNCHANGED <<den, member, account, browser, moves>>

Submitted(c, outcome) ==
  form' = IF c.here /\ c.kind = "join" THEN [form EXCEPT !.submit = outcome] ELSE form

(* joinGroup and setMemberPreferences; the answer to them may be lost.     *)
Written(c) ==
  /\ Open(den) /\ c.kind = "prefs" => member[c.key] # {}
  /\ member' = [member EXCEPT ![c.key] = {JoinedRow(@, 0, c.wish)}]
  /\ \/ /\ Submitted(c, "JOINED")
        /\ list' = IF c.here /\ c.kind = "prefs"
                   THEN [list EXCEPT !.dens = {[d EXCEPT !.shows = {c.wish = "yes"}] : d \in @}]
                   ELSE list
     \/ Submitted(c, "ERROR") /\ UNCHANGED list

Failed(c) == Submitted(c, "ERROR") /\ UNCHANGED <<member, list>>

Sent(c) ==
  /\ \/ c.step = "send" /\ Written(c)
     \/ Failed(c)
  /\ call' = {}
  /\ UNCHANGED <<den, account, remembered, page, auth, cache, known, moves>>

Next ==
  \/ \E p \in {"other", "join", "me"}, reload \in BOOLEAN : Visit(p, reload)
  \/ \E a \in Keys \cup {Nobody} : SwitchAccount(a)
  \/ DeleteDen
  \/ \E h \in {"page", "role"} : Reconnect(h)
  \/ connect \/ Connected \/ disconnect
  \/ AskRole \/ \E k \in Keys : RoleAnswer(k)
  \/ LoadDen \/ loadMyAddresses \/ AddressesLoaded
  \/ \E asked \in Wishes : onSubmit(asked)
  \/ LoadList \/ flip
  \/ \E c \in call : Probed(c) \/ Signed(c) \/ Sent(c)

Spec == Init /\ [][Next]_vars
-----------------------------------------------------------------------------
Public(k) == \E m \in member[k] : m.show

(* Whom the loaded join page takes for a member is one, however old the    *)
(* answer it goes by.                                                      *)
RoleIsTrue ==
  page = "join" /\ known = "there" /\ isExistingMember => member[auth["role"].key] # {}

(* A key is published only in answer to its owner's own choice, whatever   *)
(* the pages took her for and whichever account signed ("Anonymous by      *)
(* default - joiners opt in to publishing their npub", join/page.tsx:37),  *)
(* and whom the join page takes for a member is one.                       *)
MembershipIsRight ==
  [][/\ \A k \in Keys : Public(k)' /\ ~Public(k) => \E c \in call : c.key = k /\ c.asked = "yes"
     /\ RoleIsTrue']_vars

(* "address-only edits by existing members leave their saved preference    *)
(* untouched" (join/page.tsx:38).                                          *)
EditKeepsPreference ==
  [][\A k \in Keys : Public(k) /\ ~Public(k)' => \E c \in call : c.key = k /\ c.asked = "no"]_vars
=============================================================================
