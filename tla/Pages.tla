------------------------------- MODULE Pages -------------------------------
(***************************************************************************)
(* A page of the web client at work: its table, its form, its buttons, and *)
(* the requests they send.                                                 *)
(*                                                                         *)
(* A handler sends a request and goes on when it is answered; the user     *)
(* does not wait.  The server serves requests in any order, and answers    *)
(* are handled in any order.  A request for which the user has no          *)
(* permission takes the user away from the page; one that is lost (a       *)
(* network error, a 401) leaves its handler waiting for ever               *)
(* (common/request.js).  A table that is asked to reload drops the answer  *)
(* it was waiting for, except on the page that keeps the rows itself.      *)
(*                                                                         *)
(* A row is a number and has a version; 0 is no row.  What a form holds is *)
(* told by where it comes from: the row of its id field, the rows of its   *)
(* other fields (a form merges what it is given into what it holds), and   *)
(* whether defaults were set over them.                                    *)
(***************************************************************************)
EXTENDS PageTable, FiniteSets, SequencesExt

CONSTANTS
  Shown,         \* the pages that are looked at
  Ticked,        \* user -> the menus that are ticked in the roles of the user
  SuperAdmin,    \* the user who has all menus and is asked for none
  Rows,          \* rows there can be
  StartRows,     \* rows there are
  MaxOps(_, _),  \* bound: buttons pressed and requests lost, on a page by a user
  MaxCalls,      \* bound: requests under way when another one is sent
  MaxLost        \* bound: requests lost

ASSUME PagesAssumption ==
  /\ Shown \subseteq PageNames
  /\ Rows \subseteq Nat \ {0} /\ IsFiniteSet(Rows) /\ StartRows \subseteq Rows
  /\ \A u \in DOMAIN Ticked : Ticked[u] \subseteq AllMenus
  /\ SuperAdmin \notin DOMAIN Ticked
  /\ \A name \in Shown, u \in DOMAIN Ticked \cup {SuperAdmin} : MaxOps(name, u) \in Nat
  /\ MaxCalls \in Nat /\ MaxLost \in Nat

VARIABLES
  page, user,        \* the page and its user
  rows,              \* the server's: row -> version
  table,             \* the shown rows
  selectedRowKey,    \* the row of the form
  selectedRowKeys,   \* the selected rows
  visible, copied,   \* the form: is it shown, and for a copy?
  form,              \* what it holds: [id, of, preset]
  confirmLoading,
  dialog,            \* the dialog before a batch: [state, batch, keys]
  calls,             \* requests under way, in the order they were sent
  left,              \* the request that was not permitted, if any
  ops, lost          \* what the bounds count

formVars == <<selectedRowKey, visible, copied, form, confirmLoading>>
vars == <<page, user, rows, table, selectedRowKeys, formVars, dialog, calls, left, ops, lost>>

-----------------------------------------------------------------------------
P == PageOf[page]

Users == DOMAIN Ticked \cup {SuperAdmin}

\* A role keeps what is ticked in its form and the way there; the menus of a user
\* are those of all roles of the user.
MenusOf ==
  [u \in Users |-> IF u = SuperAdmin THEN AllMenus ELSE UNION {findTreePath[m] : m \in Ticked[u]}]

menus == MenusOf[user]

Blank     == [id |-> 0, of |-> {}, preset |-> FALSE]
Preset(f) == [f EXCEPT !.preset = f.of # {}]

\* What f may hold when it is given row r: a field that the row comes without
\* keeps its value.
Merged(f, r) ==
  {[id |-> r, of |-> {r} \cup kept, preset |-> FALSE] :
     kept \in IF P.modal.partial THEN SUBSET f.of ELSE {{}}}

\* What hiding a form leaves in it.
Hidden(f) == CASE P.modal.hidden = "reset"    -> Blank
               [] P.modal.hidden = "defaults" -> Preset(f)
               [] OTHER                       -> f

NoBatch == Batch({}, <<>>, "none", "none", "nothing")
Closed  == [state |-> "closed", batch |-> NoBatch, keys |-> {}]

Call(op, paths) ==
  [op |-> op, paths |-> paths, row |-> 0, rows |-> {}, effect |-> "none", then |-> "nothing",
   body |-> Blank, state |-> "sent", ok |-> FALSE, seen |-> <<>>]

Fetch(paths) == IF paths = {} THEN <<>> ELSE <<Call("fetch", paths)>>
List         == Call("list", {P.list})
Get(r)       == [Call("get", {P.fetch}) EXCEPT !.row = r]

Rest(cs, i) == RemoveAt(cs, i)

\* actionRef.current.reload(), among the calls cs: a table waits for one list.
Reloaded(cs) ==
  LET lists == {i \in DOMAIN cs : cs[i].op = "list"}
  IN  Append(IF P.own \/ lists = {} THEN cs ELSE Rest(cs, CHOOSE i \in lists : TRUE), List)

-----------------------------------------------------------------------------
(* The user. *)

\* The users who can open the page.
UsersOf(name) == {u \in Users : Shows(MenusOf[u], PageOf[name].menu)}

Init ==
  /\ page \in Shown /\ user \in UsersOf(page)
  /\ rows = [r \in StartRows |-> 0] /\ table = <<>>
  /\ selectedRowKey = 0 /\ selectedRowKeys = {}
  /\ visible = FALSE /\ copied = FALSE /\ form = Blank /\ confirmLoading = FALSE
  /\ dialog = Closed
  /\ calls = Append(Fetch(P.opening), List)
  /\ left = {} /\ ops = 0 /\ lost = 0

Unmasked == left = {} /\ ~visible /\ dialog.state = "closed"

MoreOps == ops + lost < MaxOps(page, user)

Press(gate) == /\ Shows(menus, gate) /\ MoreOps
               /\ ops' = ops + 1
               /\ UNCHANGED <<page, user, rows, table, left, lost>>
Free == left = {} /\ Len(calls) < MaxCalls /\ UNCHANGED <<page, user, rows, table, left, ops, lost>>

\* The form is shown with a row or without.  A query that is already under way
\* for another row is not sent again.
ShowModal(key, copy) ==
  LET asks == key # 0 /\ P.fetch # <<>>
      known == P.modal.ask = "query" /\ \E i \in DOMAIN calls : calls[i].op = "get"
  IN
  /\ Unmasked
  /\ visible' = TRUE /\ selectedRowKey' = key /\ copied' = copy
  /\ form' = IF key = 0 /\ P.modal.presets THEN Preset(form) ELSE form
  /\ calls' = calls \o Fetch(P.modal.fields) \o (IF asks /\ ~known THEN <<Get(key)>> ELSE <<>>)
  /\ UNCHANGED <<selectedRowKeys, confirmLoading, dialog>>

\* The button for a new row leaves the key of the last one.
New     == Press(P.new) /\ ShowModal(selectedRowKey, copied)
Edit(r) == r \in DOMAIN table /\ Press(P.edit) /\ ShowModal(r, copied)
Copy(r) == r \in DOMAIN table /\ Press(P.copy) /\ ShowModal(r, TRUE)

\* A choice in the form may fetch what it offers next.
Choose(path) ==
  /\ Free
  /\ visible /\ path \in P.modal.choices
  /\ \A i \in DOMAIN calls : calls[i].paths # {path}
  /\ calls' = Append(calls, Call("fetch", {path}))
  /\ UNCHANGED <<selectedRowKeys, formVars, dialog>>

\* The window gets the focus: an enabled query is sent again.
Refocus ==
  /\ Press(Anyone) /\ left = {}
  /\ P.modal.ask = "query" /\ visible /\ selectedRowKey # 0
  /\ \A i \in DOMAIN calls : calls[i].op # "get"
  /\ calls' = Append(calls, Get(selectedRowKey))
  /\ UNCHANGED <<selectedRowKeys, formVars, dialog>>

\* OK sends an update when the values have an id, else it makes a row.
Ok ==
  LET body == [form EXCEPT !.id = IF copied THEN 0 ELSE @]
      save == [Call("save", {IF body.id # 0 THEN P.update ELSE P.create}) EXCEPT
                 !.body = body, !.row = body.id]
  IN
  /\ Free
  /\ visible /\ ~confirmLoading
  /\ \/ /\ P.awaited
        /\ confirmLoading' = TRUE
        /\ form' = IF P.modal.resetsFirst THEN Blank ELSE form
        /\ calls' = Append(calls, save)
        /\ UNCHANGED visible
     \/ /\ ~P.awaited
        /\ visible' = FALSE /\ form' = Hidden(form)
        /\ calls' = Reloaded(Append(calls, save))
        /\ UNCHANGED confirmLoading
  /\ UNCHANGED <<selectedRowKey, selectedRowKeys, copied, dialog>>

\* The button stays busy if it is.
Cancel ==
  /\ Free
  /\ visible
  /\ visible' = FALSE /\ form' = Hidden(Blank)
  /\ selectedRowKey' = 0 /\ copied' = FALSE
  /\ UNCHANGED <<selectedRowKeys, confirmLoading, dialog, calls>>

ActOn(act, r) ==
  /\ Unmasked /\ Press(act.gate)
  /\ r \in DOMAIN table
  /\ calls' = Append(calls, [Call("act", {act.path}) EXCEPT
                !.row = r, !.rows = {r}, !.effect = act.effect, !.then = act.then,
                !.seen = IF act.then = "rows" THEN table ELSE <<>>])
  /\ UNCHANGED <<selectedRowKeys, formVars, dialog>>

Select(keys) ==
  /\ Unmasked /\ Free /\ MoreOps
  /\ \E b \in P.batches : b.of = "selected"
  /\ keys \subseteq DOMAIN table /\ keys # selectedRowKeys
  /\ selectedRowKeys' = keys
  /\ UNCHANGED <<formVars, dialog, calls>>

Over(b) == CASE b.of = "selected"         -> selectedRowKeys
             [] b.of \in {"all", "shown"} -> Rows
             [] OTHER                     -> {}

CanBatch(b) == /\ b.of = "selected" => selectedRowKeys # {}
               /\ b.of = "shown" => DOMAIN table # {}

BatchCall(b, keys) ==
  [Call("batch", {b.path}) EXCEPT !.rows = keys, !.effect = b.effect, !.then = b.after]

\* The dialog keeps the selection it was opened for.
AskBatch(b) ==
  /\ Unmasked /\ Press(b.gate)
  /\ b.asks /\ CanBatch(b)
  /\ dialog' = [state |-> "open", batch |-> b, keys |-> Over(b)]
  /\ UNCHANGED <<selectedRowKeys, formVars, calls>>

CancelBatch ==
  /\ Free
  /\ dialog.state = "open" /\ dialog' = Closed
  /\ UNCHANGED <<selectedRowKeys, formVars, calls>>

\* The dialog stays until the answer.
ConfirmBatch ==
  /\ Free
  /\ dialog.state = "open" /\ dialog' = [dialog EXCEPT !.state = "running"]
  /\ calls' = Append(calls, BatchCall(dialog.batch, dialog.keys))
  /\ UNCHANGED <<selectedRowKeys, formVars>>

\* The buttons that ask nothing; a test goes to every selected row by itself.
\* The one that clears a log is busy until it is answered.
StartBatch(b) ==
  LET Test(r) == [Call("act", {b.path}) EXCEPT !.row = r, !.rows = {r}, !.then = "rows",
                                               !.seen = table]
  IN
  /\ Unmasked /\ Press(b.gate)
  /\ ~b.asks /\ CanBatch(b)
  /\ b.after = "reload" => \A i \in DOMAIN calls : calls[i].op # "batch"
  /\ IF b.after = "test"
     THEN /\ calls' = calls \o [i \in 1..Cardinality(Over(b)) |-> Test(SetToSeq(Over(b))[i])]
          /\ selectedRowKeys' = {}
     ELSE /\ calls' = Append(calls, BatchCall(b, Over(b)))
          /\ UNCHANGED selectedRowKeys
  /\ UNCHANGED <<formVars, dialog>>

Refresh ==
  /\ Unmasked /\ Press(Anyone)
  /\ calls' = Reloaded(calls)
  /\ UNCHANGED <<selectedRowKeys, formVars, dialog>>

-----------------------------------------------------------------------------
(* The server.  A request is served in one step, and may be refused for a   *)
(* reason of its own.                                                       *)

Client == <<page, user, table, selectedRowKeys, formVars, dialog, ops, lost>>

Refused(c)   == {path \in c.paths : user # SuperAdmin /\ ~Auth(menus, path)}
Permitted(c) == Refused(c) = {}

Answered(i, good, seen) ==
  calls' = [calls EXCEPT ![i] = [@ EXCEPT !.state = "done", !.ok = good, !.seen = seen]]

Serve(i) ==
  LET c == calls[i] IN
  /\ left = {} /\ c.state = "sent" /\ Permitted(c)
  /\ c.op \in {"list", "get"}
  /\ Answered(i, c.op = "get" => c.row \in DOMAIN rows, IF c.op = "list" THEN rows ELSE c.seen)
  /\ UNCHANGED <<rows, left, Client>>

\* What else a page or form fetches is not looked at: the choices it offers.
ServeFetch(i) ==
  /\ left = {} /\ calls[i].op = "fetch" /\ Permitted(calls[i])
  /\ calls' = Rest(calls, i)
  /\ UNCHANGED <<rows, left, Client>>

Changed(c) == [r \in DOMAIN rows |-> IF r \in c.rows THEN rows[r] + 1 ELSE rows[r]]

\* What a request makes of the rows, and what one that is refused may have made of
\* them: several rows are deleted one after the other.
Results(c) ==
  CASE c.op = "save" /\ c.row # 0    -> {[r \in DOMAIN rows |-> rows[r] + IF r = c.row THEN 1 ELSE 0]}
    [] (c.op = "save" /\ c.row = 0) \/ c.effect = "import"
                                     -> {[s \in DOMAIN rows \cup {r} |-> IF s = r THEN 0 ELSE rows[s]] :
                                           r \in Rows \ DOMAIN rows}
    [] c.effect = "delete"           -> {[r \in DOMAIN rows \ c.rows |-> rows[r]]}
    [] c.effect = "change"           -> {Changed(c)}
    [] OTHER                         -> {rows}

Remnants(c) ==
  IF c.op = "batch" /\ c.effect = "delete"
  THEN {[r \in DOMAIN rows \ gone |-> rows[r]] : gone \in SUBSET c.rows}
  ELSE {rows}

Execute(i) ==
  LET c == calls[i] IN
  /\ left = {} /\ c.state = "sent" /\ Permitted(c)
  /\ c.op \in {"save", "act", "batch"}
  /\ \/ rows' \in Results(c) /\ Answered(i, TRUE, c.seen)
     \/ rows' \in Remnants(c) /\ Answered(i, FALSE, c.seen)
  /\ UNCHANGED <<left, Client>>

\* The answer of the middleware leads to the page '#/permission-denied'.
Deny(i) ==
  /\ left = {} /\ calls[i].state = "sent" /\ ~Permitted(calls[i])
  /\ \E path \in Refused(calls[i]) : left' = {path}
  /\ calls' = <<>>
  /\ UNCHANGED <<rows, Client>>

-----------------------------------------------------------------------------
(* The handlers that go on with an answer. *)

Handle(i, op) == /\ left = {} /\ calls[i].op = op /\ calls[i].state = "done"
                 /\ UNCHANGED <<page, user, rows, left, ops, lost>>

ListAnswer(i) ==
  /\ Handle(i, "list")
  /\ table' = calls[i].seen
  /\ calls' = Rest(calls, i)
  /\ UNCHANGED <<selectedRowKeys, formVars, dialog>>

\* As if the values of the answer went under the id of the form.
GetAnswerUnderKey(i) ==
  /\ Handle(i, "get")
  /\ form' \in IF calls[i].ok
              THEN {[f EXCEPT !.id = selectedRowKey] : f \in Merged(form, calls[i].row)}
              ELSE {form}
  /\ calls' = Rest(calls, i)
  /\ UNCHANGED <<table, selectedRowKeys, selectedRowKey, visible, copied, confirmLoading, dialog>>

\* The values go into the form, whatever it is open for now.
GetAnswer(i) ==
  /\ Handle(i, "get")
  /\ form' \in IF calls[i].ok THEN Merged(form, calls[i].row) ELSE {form}
  /\ calls' = Rest(calls, i)
  /\ UNCHANGED <<table, selectedRowKeys, selectedRowKey, visible, copied, confirmLoading, dialog>>

\* As if the button were given back after a success only.
SaveAnswerOnSuccess(i) ==
  /\ Handle(i, "save") /\ P.awaited
  /\ IF calls[i].ok
     THEN visible' = FALSE /\ form' = (IF visible THEN Hidden(form) ELSE form)
     ELSE UNCHANGED <<visible, form>>
  /\ confirmLoading' = ~calls[i].ok
  /\ calls' = Reloaded(Rest(calls, i))
  /\ IF P.forgets THEN selectedRowKey' = 0 /\ copied' = FALSE ELSE UNCHANGED <<selectedRowKey, copied>>
  /\ UNCHANGED <<table, selectedRowKeys, dialog>>

\* A success hides the form that is open now; the table reloads in any case.
SaveAnswer(i) ==
  /\ Handle(i, "save") /\ P.awaited
  /\ IF calls[i].ok
     THEN visible' = FALSE /\ form' = (IF visible THEN Hidden(form) ELSE form)
     ELSE UNCHANGED <<visible, form>>
  /\ confirmLoading' = FALSE
  /\ calls' = Reloaded(Rest(calls, i))
  /\ IF P.forgets THEN selectedRowKey' = 0 /\ copied' = FALSE ELSE UNCHANGED <<selectedRowKey, copied>>
  /\ UNCHANGED <<table, selectedRowKeys, dialog>>

GrantAnswer(i) ==
  /\ Handle(i, "save") /\ ~P.awaited
  /\ calls' = Rest(calls, i)
  /\ UNCHANGED <<table, selectedRowKeys, formVars, dialog>>

\* As if the table were left as it is.
ActAnswerAlone(i) ==
  /\ Handle(i, "act")
  /\ calls' = Rest(calls, i)
  /\ UNCHANGED <<table, selectedRowKeys, formVars, dialog>>

\* The table reloads after a refusal too.  A connection test writes its result
\* into the rows it was started on, and shows them.
ActAnswer(i) ==
  LET c == calls[i] IN
  /\ Handle(i, "act")
  /\ calls' = IF c.then = "reload" \/ (c.then = "success" /\ c.ok)
              THEN Reloaded(Rest(calls, i)) ELSE Rest(calls, i)
  /\ table' = IF c.then = "rows" THEN c.seen ELSE table
  /\ UNCHANGED <<selectedRowKeys, formVars, dialog>>

BatchAnswer(i) ==
  LET c == calls[i] IN
  /\ Handle(i, "batch")
  /\ calls' = IF c.then \in {"clear", "reload"} \/ (c.then = "success" /\ c.ok)
              THEN Reloaded(Rest(calls, i)) ELSE Rest(calls, i)
  /\ selectedRowKeys' = IF c.then = "clear" THEN {} ELSE selectedRowKeys
  /\ dialog' = IF dialog.state = "running" THEN Closed ELSE dialog
  /\ UNCHANGED <<table, formVars>>

\* A network error, or a 401.
Lose(i) ==
  /\ left = {} /\ calls[i].op # "fetch" /\ lost < MaxLost /\ MoreOps
  /\ lost' = lost + 1
  /\ calls' = Rest(calls, i)
  /\ UNCHANGED <<page, user, rows, table, selectedRowKeys, formVars, dialog, left, ops>>

-----------------------------------------------------------------------------
Buttons ==
  \/ New \/ Refocus \/ Ok \/ Cancel \/ CancelBatch \/ ConfirmBatch \/ Refresh
  \/ \E r \in Rows : Edit(r) \/ Copy(r) \/ \E act \in P.acts : ActOn(act, r)
  \/ \E path \in P.modal.choices : Choose(path)
  \/ \E keys \in SUBSET Rows : Select(keys)
  \/ \E b \in P.batches : AskBatch(b) \/ StartBatch(b)

Server(i) == Serve(i) \/ ServeFetch(i) \/ Execute(i) \/ Deny(i)

Answer(i) ==
  ListAnswer(i) \/ GetAnswer(i) \/ SaveAnswer(i) \/ GrantAnswer(i) \/ ActAnswer(i)
    \/ BatchAnswer(i)

Next == Buttons \/ \E i \in DOMAIN calls : Server(i) \/ Answer(i) \/ Lose(i)

\* The server serves what it gets and the browser handles what is answered:
\* whatever overtakes it, the oldest request gets on.
Fairness == WF_vars(calls # <<>> /\ (Server(1) \/ Answer(1)))

Spec == Init /\ [][Next]_vars /\ Fairness

-----------------------------------------------------------------------------
(* Properties. *)

Forms == [id : Rows \cup {0}, of : SUBSET Rows, preset : BOOLEAN]

TypeOK ==
  /\ page \in Shown /\ user \in Users
  /\ DOMAIN rows \subseteq Rows /\ DOMAIN table \subseteq Rows
  /\ selectedRowKey \in Rows \cup {0} /\ selectedRowKeys \subseteq Rows
  /\ visible \in BOOLEAN /\ copied \in BOOLEAN /\ form \in Forms /\ confirmLoading \in BOOLEAN
  /\ dialog.state \in {"closed", "open", "running"} /\ dialog.keys \subseteq Rows
  /\ \A i \in DOMAIN calls : calls[i].body \in Forms
  /\ ops \in 0..MaxOps(page, user) /\ lost \in 0..MaxLost

\* However late the answers that fill a form are, and whatever it was opened
\* for, no row is saved with the values of another one alone, nor with any of
\* them but by the two forms whose rows come without some fields (an asset or a
\* job may be saved with what an earlier answer left in such a field); a row is
\* made of the values of another one only by copying, and defaults are set over
\* the values of a row only by the forms that set them.
RowsDoNotMix ==
  \A i \in DOMAIN calls : calls[i].op = "save" =>
    LET body == calls[i].body IN
    /\ body.id # 0 => body.id \in body.of /\ (P.modal.partial \/ body.of = {body.id})
    /\ body.id = 0 /\ body.of # {} => P.copy # {}
    /\ body.preset => P.modal.presets \/ P.modal.hidden = "defaults"

\* The form is busy, and the dialog stays, only while there is an answer to
\* come (or a request was lost).
BusyHasAReason ==
  lost = 0 /\ left = {} =>
    /\ confirmLoading <=> P.awaited /\ \E i \in DOMAIN calls : calls[i].op = "save"
    /\ dialog.state = "running" => \E i \in DOMAIN calls : calls[i].op = "batch"

PagesInv == TypeOK /\ RowsDoNotMix /\ BusyHasAReason

\* At rest the table shows the server's rows: every button that changes some
\* reloads after the answer, refused or not.  The page that keeps its rows
\* itself takes answers that were overtaken, and the pages of grants do not
\* wait for them.
QuietTableShowsRows ==
  calls = <<>> /\ left = {} /\ lost = 0 /\ P.awaited /\ ~P.own => table = rows

\* A form or a dialog that waits gets its answer, unless a request was lost.
WaitingEnds == (confirmLoading \/ dialog.state = "running")
                 ~> (lost > 0 \/ left # {} \/ ~(confirmLoading \/ dialog.state = "running"))

\* What the menus of the program leave out: requests of a page, of its form or
\* of its buttons that the permissions of their menus do not cover.
Gaps == {
  <<"Asset", <<"access-gateways">>>>,             \* the form, opened for a copy
  <<"Asset", <<"credentials">>>>,                 \* the same
  <<"Asset", <<"storages", "shares">>>>,          \* a drive is chosen in the form
  <<"Job", <<"assets">>>>,                        \* the page opens
  <<"JobLog", <<"jobs", Id, "logs">>>>,           \* the button is in no Show
  <<"LoginPolicyBind", <<"login-policies", Id, "bind">>>>,
  <<"LoginPolicyBind", <<"login-policies", Id, "users", "id">>>>,
  <<"LoginPolicyBind", <<"users", "paging">>>>,
  <<"LoginPolicyUser", <<"login-policies", Id, "unbind">>>>,
  <<"LoginPolicyUser", <<"login-policies", Id, "users", "paging">>>>,
  <<"OfflineSession", <<"users">>>>, <<"OfflineSession", <<"assets">>>>,
  <<"OnlineSession", <<"users">>>>, <<"OnlineSession", <<"assets">>>>,
  <<"Role", <<"menus">>>>,                        \* the form opens
  <<"User", <<"users", Id, "status">>>>,          \* the switch is in no Show
  <<"UserAsset", <<"authorised", "assets">>>>,    \* the form is saved
  <<"UserGroup", <<"user-groups", Id>>>>,         \* the path of user-group-del
  <<"UserGroup", <<"users">>>>,                   \* the form opens
  <<"UserGroupAsset", <<"authorised", "assets">>>>,  \* the same
  <<"UserGroupAsset", <<"authorised", "assets", "paging">>>>,
  <<"UserLoginPolicy", <<"login-policies", Id, "unbind">>>>}

\* OK before the row has arrived: the form has no id and makes a row, which the
\* user may have no permission to do.
EarlyOk(path) == path = P.create /\ ~Shows(menus, P.new)

\* A page and the buttons it shows ask for nothing the server refuses to the
\* user they are shown to, whatever is ticked, except for the gaps.
ShownIsPermitted == \A path \in left : <<page, path>> \in Gaps \/ EarlyOk(path)
=============================================================================
