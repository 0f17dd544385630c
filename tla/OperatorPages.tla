--------------------------- MODULE OperatorPages ---------------------------
(***************************************************************************)
(* The pages on which an operator opens a den (new/page.tsx) and changes or*)
(* deletes it (settings/page.tsx), over the client of the API (api.ts) and *)
(* the den's row, which each request of a handler reads or writes in one   *)
(* step (DenRegistry has the steps).                                       *)
(*                                                                         *)
(* Of the credentials the node's are kept; the Lightning pair and the dust *)
(* threshold go the same way.  The slug is the same throughout.  A tab has *)
(* one call that saves and one that deletes.  A page is left by its own    *)
(* redirect only, and another is opened when its calls have ended (bound). *)
(***************************************************************************)
EXTENDS DenRows, FiniteSets

CONSTANTS
  Keys,     \* the accounts of the signer extension
  Tabs,     \* browser tabs with these pages
  MaxMoves  \* bound: pages opened, accounts switched

VARIABLES
  den,      \* the den's row
  member,   \* of a key: its member row
  account,  \* of the extension, or "none"
  page,     \* of a tab: "none", "new" or "settings"
  phase,    \* of a tab: the page's phase
  group,    \* of a tab: the row the settings page loaded
  signer,   \* of a tab: the key it connected as
  rpcTest,  \* of a tab: the test of a node
  removal,  \* of a tab: deletePhase
  call,     \* of a tab: the call that saves, {} or a set of one
  moves

tab  == <<page, phase, group, signer, rpcTest, removal, call>>
vars == <<den, member, account, tab, moves>>

Nobody == "none"
Phases == {"LOADING", "DISCONNECTED", "DETECTING", "CONNECTED", "FORBIDDEN", "SUBMITTING", "ERROR", "SAVED"}
Forms  == [vis : Visibilities, source : {"platform", "operator"}, url : BOOLEAN, auth : BOOLEAN, mine : BOOLEAN]
Calls  == [form : Forms, key : Keys \cup {Nobody}, step : {"sign", "send"}, page : {"new", "settings"}]

TypeOK ==
  /\ den \subseteq DenRow(Keys) /\ AtMostOne(den)
  /\ member \in [Keys -> SUBSET MemberRow({0})]
  /\ account \in Keys \cup {Nobody}
  /\ page \in [Tabs -> {"none", "new", "settings"}]
  /\ phase \in [Tabs -> Phases]
  /\ group \in [Tabs -> SUBSET DenRow(Keys)]
  /\ signer \in [Tabs -> Keys \cup {Nobody}]
  /\ rpcTest \in [Tabs -> {"none", "TESTING", "OK", "FAIL"}]
  /\ removal \in [Tabs -> {"idle", "confirming", "deleting", "error"}]
  /\ call \in [Tabs -> SUBSET Calls] /\ \A t \in Tabs : AtMostOne(call[t])

Init ==
  /\ den = {} /\ member = [k \in Keys |-> {}] /\ account \in Keys
  /\ page = [t \in Tabs |-> "none"] /\ phase = [t \in Tabs |-> "LOADING"]
  /\ group = [t \in Tabs |-> {}] /\ signer = [t \in Tabs |-> Nobody]
  /\ rpcTest = [t \in Tabs |-> "none"] /\ removal = [t \in Tabs |-> "idle"]
  /\ call = [t \in Tabs |-> {}] /\ moves = 0

rows == <<den, member>>
Move == moves < MaxMoves /\ moves' = moves + 1
Enter(t, p) == phase' = [phase EXCEPT ![t] = p]
-----------------------------------------------------------------------------
Mount(t, p) ==
  /\ Move /\ page[t] = "none" /\ call[t] = {} /\ removal[t] # "deleting"
  /\ page' = [page EXCEPT ![t] = p]
  /\ Enter(t, IF p = "new" THEN "DISCONNECTED" ELSE "LOADING")
  /\ group' = [group EXCEPT ![t] = {}] /\ signer' = [signer EXCEPT ![t] = Nobody]
  /\ rpcTest' = [rpcTest EXCEPT ![t] = "none"] /\ removal' = [removal EXCEPT ![t] = "idle"]
  /\ UNCHANGED <<rows, account, call>>

SwitchAccount(a) == Move /\ a # account /\ account' = a /\ UNCHANGED <<rows, tab>>

(* getGroup: a den that is deleted or missing is an error.                 *)
Load(t) ==
  /\ page[t] = "settings" /\ phase[t] = "LOADING"
  /\ \/ Shown(den) # {} /\ group' = [group EXCEPT ![t] = den] /\ Enter(t, "DISCONNECTED")
     \/ Enter(t, "ERROR") /\ UNCHANGED group
  /\ UNCHANGED <<rows, account, page, signer, rpcTest, removal, call, moves>>

connect(t) ==
  /\ page[t] # "none" /\ phase[t] = "DISCONNECTED"
  /\ Enter(t, IF account = Nobody THEN "ERROR" ELSE "DETECTING")
  /\ UNCHANGED <<rows, account, page, group, signer, rpcTest, removal, call, moves>>

(* getPublicKey answers; the settings page is its operator's only.         *)
Connected(t) ==
  /\ phase[t] = "DETECTING"
  /\ \/ /\ account # Nobody
        /\ signer' = [signer EXCEPT ![t] = account]
        /\ Enter(t, IF \E g \in group[t] : g.op # account THEN "FORBIDDEN" ELSE "CONNECTED")
     \/ Enter(t, "ERROR") /\ UNCHANGED signer
  /\ UNCHANGED <<rows, account, page, group, rpcTest, removal, call, moves>>

(* The button of the new page's error; settings has none.                  *)
TryAgain(t) ==
  /\ page[t] = "new" /\ phase[t] = "ERROR"
  /\ Enter(t, "DISCONNECTED")
  /\ UNCHANGED <<rows, account, page, group, signer, rpcTest, removal, call, moves>>

FormShown(t) == page[t] # "none" /\ phase[t] \in {"CONNECTED", "SUBMITTING"}

(* testOperatorRpc: a call that throws leaves the test as it is.           *)
testRpc(t) ==
  /\ FormShown(t) /\ rpcTest[t] # "TESTING"
  /\ \E verdict \in {"FAIL", "TESTING"} : rpcTest' = [rpcTest EXCEPT ![t] = verdict]
  /\ UNCHANGED <<rows, account, page, phase, group, signer, removal, call, moves>>

Tested(t) ==
  /\ page[t] # "none" /\ rpcTest[t] = "TESTING"
  /\ \E verdict \in {"OK", "FAIL"} : rpcTest' = [rpcTest EXCEPT ![t] = verdict]
  /\ UNCHANGED <<rows, account, page, phase, group, signer, removal, call, moves>>
-----------------------------------------------------------------------------
(* Saving.  url and auth go along only for a den with its own node.        *)

Filled(form) ==
  form.source = "platform" => ~form.url /\ ~form.auth

(* What is wrong with the form itself ends the page in an error.           *)
onSubmit(t) ==
  /\ FormShown(t) /\ phase[t] = "CONNECTED" /\ call[t] = {}
  /\ \/ \E form \in Forms :
          /\ Filled(form) /\ (page[t] = "settings" => ~form.mine)
          /\ call' = [call EXCEPT ![t] =
               {[form |-> form, key |-> signer[t], step |-> "sign", page |-> page[t]]}]
          /\ Enter(t, "SUBMITTING")
     \/ Enter(t, "ERROR") /\ UNCHANGED call
  /\ UNCHANGED <<rows, account, page, group, signer, rpcTest, removal, moves>>

(* The extension signs with its account of the moment.                     *)
Sign(t, c) ==
  /\ c.step = "sign" /\ account # Nobody
  /\ call' = [call EXCEPT ![t] = {[c EXCEPT !.step = "send", !.key = account]}]
  /\ UNCHANGED <<rows, account, page, phase, group, signer, rpcTest, removal, moves>>

BodyOf(c) ==
  [key |-> c.key, at |-> 0, vis |-> c.form.vis, source |-> c.form.source,
   url |-> c.form.url, auth |-> c.form.auth, mine |-> c.form.mine]

(* The create handler: a new row with the operator's own member row, whose *)
(* insertion may fail, or an update, which leaves the members alone.       *)
Saved(body) ==
  /\ Consistent(body)
  /\ \/ /\ den = {} /\ den' = {CreatedRow(body)}
        /\ member' = IF body.mine THEN [member EXCEPT ![body.key] = {[at |-> 0, show |-> FALSE]}] ELSE member
     \/ /\ \E d \in den : d.op = body.key /\ d.vis # "DELETED"
        /\ den' = {UpdatedRow(d, body) : d \in den} /\ UNCHANGED member

HalfSaved(body) == den = {} /\ Consistent(body) /\ body.mine /\ den' = {CreatedRow(body)} /\ UNCHANGED member

(* Both pages leave for the den's page when it was saved.                  *)
Send(t, c) ==
  /\ c.step = "send"
  /\ \/ /\ Saved(BodyOf(c)) /\ Enter(t, "SAVED")
        /\ page' = [page EXCEPT ![t] = "none"]
     \/ /\ Saved(BodyOf(c)) \/ HalfSaved(BodyOf(c)) \/ UNCHANGED rows
        /\ Enter(t, "ERROR") /\ UNCHANGED page
  /\ call' = [call EXCEPT ![t] = {}]
  /\ UNCHANGED <<account, group, signer, rpcTest, removal, moves>>

(* The signer refuses.                                                     *)
Refuse(t, c) ==
  /\ c.step = "sign" /\ Enter(t, "ERROR") /\ call' = [call EXCEPT ![t] = {}]
  /\ UNCHANGED <<rows, account, page, group, signer, rpcTest, removal, moves>>
-----------------------------------------------------------------------------
(* Deleting, on a path of its own beside the form.                         *)

Confirm(t, p) ==
  /\ page[t] = "settings" /\ FormShown(t)
  /\ <<removal[t], p>> \in {<<"idle", "confirming">>, <<"confirming", "idle">>, <<"error", "idle">>}
  /\ removal' = [removal EXCEPT ![t] = p]
  /\ UNCHANGED <<rows, account, page, phase, group, signer, rpcTest, call, moves>>

(* Nothing happens while the form is being saved.                          *)
onDelete(t) ==
  /\ page[t] = "settings" /\ phase[t] = "CONNECTED" /\ removal[t] = "confirming"
  /\ removal' = [removal EXCEPT ![t] = "deleting"]
  /\ UNCHANGED <<rows, account, page, phase, group, signer, rpcTest, call, moves>>

Delete(t) ==
  /\ removal[t] = "deleting"
  /\ \/ /\ \E d \in den : d.op = account /\ d.vis # "DELETED"
        /\ den' = {[d EXCEPT !.vis = "DELETED"] : d \in den}
        /\ \/ page' = [page EXCEPT ![t] = "none"] /\ removal' = [removal EXCEPT ![t] = "idle"]
           \/ removal' = [removal EXCEPT ![t] = "error"] /\ UNCHANGED page
     \/ removal' = [removal EXCEPT ![t] = "error"] /\ UNCHANGED <<den, page>>
  /\ UNCHANGED <<member, account, phase, group, signer, rpcTest, call, moves>>

Next ==
  \/ \E a \in Keys \cup {Nobody} : SwitchAccount(a)
  \/ \E t \in Tabs :
       \/ \E p \in {"new", "settings"} : Mount(t, p)
       \/ Load(t) \/ connect(t) \/ Connected(t) \/ TryAgain(t)
       \/ testRpc(t) \/ Tested(t) \/ onSubmit(t) \/ onDelete(t) \/ Delete(t)
       \/ \E c \in call[t] : Sign(t, c) \/ Send(t, c) \/ Refuse(t, c)
       \/ \E p \in {"idle", "confirming"} : Confirm(t, p)

Spec == Init /\ [][Next]_vars
-----------------------------------------------------------------------------
(* A den that takes its template from its operator's node has the node's   *)
(* URL and a credential, in whatever order dens are created and changed    *)
(* and with blank fields ("OPERATOR_RPC groups require operatorRpcUrl and  *)
(* operatorRpcAuth", groups.controller.ts:333), and a stored credential    *)
(* survives every save ("omitting it on update means 'keep the existing    *)
(* one'", groups.controller.ts:459).                                       *)
CredentialsAreKept ==
  [][\A d \in den' :
       /\ d.source = "operator" => d.url /\ d.rpc
       /\ \A e \in den : e.rpc => d.rpc]_vars
=============================================================================
