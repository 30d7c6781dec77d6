----------------------------- MODULE PageTable -----------------------------
(***************************************************************************)
(* The pages of the web client, one record for each: the requests a page   *)
(* sends when it opens, its buttons, the menus they belong to, and what    *)
(* its form does when it opens, is saved and is hidden.  The behaviour all *)
(* pages have in common is in module Pages.                                *)
(*                                                                         *)
(* Columns, searching, sorting and the wording of messages are left out,   *)
(* and so are buttons that only open another page or window.  A page that  *)
(* shows one record is one whose table is that record.                     *)
(***************************************************************************)
EXTENDS Menus

Id     == "1"      \* the segment of a request that names a row
Anyone == {"*"}    \* the gate of a button that is not inside a Show

Shows(menus, gate) == gate = Anyone \/ hasMenu(menus, gate)

-----------------------------------------------------------------------------
(* The shapes. *)

\* A form: what it fetches when it opens (fields), what it may fetch while it is
\* filled in (choices), how it gets its row, whether the row may come without some
\* of the fields, what hiding it does to its values, whether it sets defaults when
\* it opens without a row, and whether OK empties it before it is saved.
Form(fields) ==
  [fields |-> fields, choices |-> {}, ask |-> "effect", partial |-> FALSE,
   hidden |-> "reset", presets |-> FALSE, resetsFirst |-> FALSE]

\* The forms that ask through a query, under a key that does not name the row,
\* and that are not told when they are hidden.
QueryForm(fields) == [Form(fields) EXCEPT !.ask = "query", !.hidden = "keep"]

NoForm == Form({})

\* A button of a row (after a confirmation, or at once), what it does to the row
\* and what follows the answer.
Act(gate, path, effect) == [gate |-> gate, path |-> path, effect |-> effect, then |-> "reload"]

\* A button over the selected rows, over all of them (at any time, or only while
\* some are shown) or over none, what follows its answer, and whether a dialog
\* asks first.
Batch(gate, path, effect, of, after) ==
  [gate |-> gate, path |-> path, effect |-> effect, of |-> of, after |-> after, asks |-> TRUE]

Unasked(batch) == [batch EXCEPT !.asks = FALSE]

\* A page with a table only.  "own" says that it keeps the rows itself.
Table(menu, list) ==
  [menu |-> menu, list |-> list, opening |-> {}, own |-> FALSE,
   new |-> {}, edit |-> {}, copy |-> {}, fetch |-> <<>>, create |-> <<>>, update |-> <<>>,
   modal |-> NoForm, awaited |-> TRUE, forgets |-> FALSE,
   acts |-> {}, batches |-> {}]

\* The page most pages are: a table of a group of records, a form to make or
\* change one, a button to remove one (api/api.js).
Crud(menu, group, new, edit, del, modal) ==
  [Table(menu, group \o <<"paging">>) EXCEPT
     !.new = new, !.edit = edit, !.modal = modal,
     !.fetch = group \o <<Id>>, !.create = group, !.update = group \o <<Id>>,
     !.acts = {Act(del, group \o <<Id>>, "delete")}]

-----------------------------------------------------------------------------
(* Resources. *)

\* Hidden, it sets its defaults over what it holds, which is why the page has
\* to reset it before it is saved.  An asset comes with the attributes it has.
AssetModal ==
  [Form({<<"tags">>, <<"access-gateways">>}) EXCEPT
     !.choices = {<<"credentials">>, <<"storages", "shares">>},
     !.partial = TRUE, !.hidden = "defaults", !.resetsFirst = TRUE]

AssetActs == {
  Act({"asset-del"}, <<"assets", Id>>, "delete"),
  [Act({"asset-conn-test"}, <<"assets", Id, "tcping">>, "none") EXCEPT !.then = "rows"]}

\* Import adds assets whatever the form; the test goes to each selected row.
AssetBatches == {
  Unasked(Batch({"asset-import"}, <<"assets", "import">>, "import", "none", "success")),
  Batch({"asset-del"}, <<"assets", Id>>, "delete", "selected", "clear"),
  Unasked(Batch({"asset-conn-test"}, <<"assets", Id, "tcping">>, "none", "selected", "test"))}

Asset ==
  [Crud({"asset"}, <<"assets">>, {"asset-add"}, {"asset-edit"}, {"asset-del"}, AssetModal) EXCEPT
     !.opening = {<<"tags">>}, !.own = TRUE, !.copy = {"asset-copy"}, !.forgets = TRUE,
     !.acts = AssetActs, !.batches = AssetBatches]

\* The dialog fetches the users; the page reloads after a success only.
ChangeOwner(gate, group) ==
  [Act(gate, <<group, Id, "change-owner">>, "change") EXCEPT !.then = "success"]

AssetWithOwner == [Asset EXCEPT !.acts = @ \cup {ChangeOwner({"asset-change-owner"}, "assets")}]

AssetDetail == [info |-> {"asset-detail"}, users |-> {"asset-authorised-user"},
                groups |-> {"asset-authorised-user-group"}]

AssetInfo == Table(AssetDetail.info, <<"assets", Id>>)

\* The forms that grant something: they ask what is granted already, and who and
\* what there is.
AssetUserBind      == Form({<<"authorised", "selected">>, <<"users">>, <<"strategies">>})
AssetUserGroupBind == Form({<<"authorised", "selected">>, <<"user-groups">>, <<"strategies">>})
UserAuthorised     == Form({<<"authorised", "selected">>, <<"assets">>, <<"strategies">>})

\* Their pages do not wait for the grant: they close the form and reload at once.
Grants(menu, kind, new, del, modal) ==
  [Table(menu, <<"authorised", kind, "paging">>) EXCEPT
     !.new = new, !.create = <<"authorised", kind>>, !.modal = modal, !.awaited = FALSE,
     !.acts = {Act(del, <<"authorised", Id>>, "delete")}]

AssetUser ==
  Grants(AssetDetail.users, "users", {"asset-authorised-user-add"}, {"asset-authorised-user-del"},
         AssetUserBind)

AssetUserGroup ==
  Grants(AssetDetail.groups, "user-groups", {"asset-authorised-user-group-add"},
         {"asset-authorised-user-group-del"}, AssetUserGroupBind)

CredentialModal == [Form({}) EXCEPT !.presets = TRUE]

Credential ==
  Crud({"credential"}, <<"credentials">>, {"credential-add"}, {"credential-edit"},
       {"credential-del"}, CredentialModal)

CommandModal == Form({})

Command ==
  LET page == Crud({"command"}, <<"commands">>, {"command-add"}, {"command-edit"}, {"command-del"},
                   CommandModal)
  IN [page EXCEPT !.acts = @ \cup {ChangeOwner({"command-change-owner"}, "commands")}]

\* The table a command is executed from.
SelectingAsset == [Table({"command-exec"}, <<"assets", "paging">>) EXCEPT !.opening = {<<"tags">>}]

AccessGatewayModal == [Form({}) EXCEPT !.presets = TRUE]

AccessGateway ==
  Crud({"access-gateway"}, <<"access-gateways">>, {"access-gateway-add"}, {"access-gateway-edit"},
       {"access-gateway-del"}, AccessGatewayModal)

-----------------------------------------------------------------------------
(* Sessions and logs. *)

SessionQueries == {<<"users">>, <<"assets">>}

OnlineSession ==
  [Table({"online-session"}, <<"sessions", "paging">>) EXCEPT
     !.opening = SessionQueries,
     !.acts = {Act({"online-session-disconnect"}, <<"sessions", Id, "disconnect">>, "delete")}]

OfflineBatches == {
  Batch({"offline-session-del"}, <<"sessions", Id>>, "delete", "selected", "clear"),
  Batch({"offline-session-clear"}, <<"sessions", "clear">>, "delete", "all", "clear")}

OfflineSession ==
  [Table({"offline-session"}, <<"sessions", "paging">>) EXCEPT
     !.opening = SessionQueries, !.batches = OfflineBatches,
     !.acts = {Act({"offline-session-del"}, <<"sessions", Id>>, "delete")}]

\* To clear the logs leaves the selection.
LogBatches == {
  Batch({"login-log-del"}, <<"login-logs", Id>>, "delete", "selected", "clear"),
  Batch({"login-log-clear"}, <<"login-logs", "clear">>, "delete", "shown", "reload")}

LoginLog ==
  [Table({"login-log"}, <<"login-logs", "paging">>) EXCEPT
     !.acts = {Act({"login-log-del"}, <<"login-logs", Id>>, "delete")},
     !.batches = LogBatches]

-----------------------------------------------------------------------------
(* Operation. *)

\* The form is part of the page from the start, and so is the query of its
\* assets.  Only a job of the shell comes with a script.
JobModal == [QueryForm({}) EXCEPT !.partial = TRUE, !.resetsFirst = TRUE]

JobActs == {
  Act({"job-change-status"}, <<"jobs", Id, "change-status">>, "change"),
  Act({"job-run"}, <<"jobs", Id, "exec">>, "change"),
  Act({"job-del"}, <<"jobs", Id>>, "delete")}

Job ==
  [Crud({"job"}, <<"jobs">>, {"job-add"}, {"job-edit"}, {"job-del"}, JobModal) EXCEPT
     !.opening = {<<"assets">>}, !.acts = JobActs]

JobLog ==
  [Table({"job-log"}, <<"jobs", Id, "logs", "paging">>) EXCEPT
     !.batches = {Unasked(Batch(Anyone, <<"jobs", Id, "logs">>, "delete", "all", "reload"))}]

StorageModal == QueryForm({})

Storage ==
  Crud({"storage"}, <<"storages">>, {"storage-add"}, {"storage-edit"}, {"storage-del"}, StorageModal)

-----------------------------------------------------------------------------
(* Security. *)

\* These three set defaults whenever they have no row to show, hidden included,
\* and do not reset.
SecurityModal    == [Form({}) EXCEPT !.hidden = "defaults", !.presets = TRUE]
LoginPolicyModal == [Form({}) EXCEPT !.hidden = "defaults", !.presets = TRUE]
StrategyModal    == [Form({}) EXCEPT !.hidden = "defaults", !.presets = TRUE]

Security ==
  Crud({"access-security"}, <<"securities">>, {"access-security-add"}, {"access-security-edit"},
       {"access-security-del"}, SecurityModal)

LoginPolicy ==
  Crud({"login-policy"}, <<"login-policies">>, {"login-policy-add"}, {"login-policy-edit"},
       {"login-policy-del"}, LoginPolicyModal)

\* The tabs of the page of a policy belong to no menu but the link to it.
LoginPolicyDetail == [info |-> {"login-policy-detail"}, users |-> {"login-policy-detail"}]

LoginPolicyInfo == Table(LoginPolicyDetail.info, <<"login-policies", Id>>)

LoginPolicyUser ==
  [Table(LoginPolicyDetail.users, <<"login-policies", Id, "users", "paging">>) EXCEPT
     !.acts = {Act({"login-policy-unbind-user"}, <<"login-policies", Id, "unbind">>, "delete")}]

\* The drawer a policy is bound from: all users, and those that are bound.
LoginPolicyBind ==
  [Table({"login-policy-bind-user"}, <<"users", "paging">>) EXCEPT
     !.opening = {<<"login-policies", Id, "users", "id">>},
     !.acts = {Act(Anyone, <<"login-policies", Id, "bind">>, "none")}]

Strategy ==
  Crud({"strategy"}, <<"strategies">>, {"strategy-add"}, {"strategy-edit"}, {"strategy-del"},
       StrategyModal)

StrategyInfo == Table({"strategy-detail"}, <<"strategies", Id>>)

-----------------------------------------------------------------------------
(* Identity. *)

UserModal == QueryForm({})

UserActs == {
  Act(Anyone, <<"users", Id, "status">>, "change"),
  Act({"user-del"}, <<"users", Id>>, "delete")}

\* Nothing follows a batch: the selection stays.
UserBatches == {
  Batch({"user-change-password"}, <<"users", Id, "change-password">>, "none", "selected", "nothing"),
  Batch({"user-reset-totp"}, <<"users", Id, "reset-totp">>, "none", "selected", "nothing")}

User ==
  [Crud({"user"}, <<"users">>, {"user-add"}, {"user-edit"}, {"user-del"}, UserModal) EXCEPT
     !.opening = {<<"roles">>}, !.acts = UserActs, !.batches = UserBatches]

UserDetailPage == [info |-> {"user-detail"}, assets |-> {"user-authorised-asset"},
                   policies |-> {"user-login-policy"}]

UserInfo == Table(UserDetailPage.info, <<"users", Id>>)

UserAsset(menu) ==
  Grants(menu, "assets", {"user-bind-asset", "user-group-bind-asset"},
         {"user-unbind-asset", "user-group-unbind-asset"}, UserAuthorised)

UserLoginPolicy ==
  [Table(UserDetailPage.policies, <<"login-policies", "paging">>) EXCEPT
     !.acts = {Act(Anyone, <<"login-policies", Id, "unbind">>, "delete")}]

RoleModal == QueryForm({<<"menus">>})

Role == Crud({"role"}, <<"roles">>, {"role-add"}, {"role-edit"}, {"role-del"}, RoleModal)

RoleInfo == [Table({"role-detail"}, <<"roles", Id>>) EXCEPT !.opening = {<<"menus">>}]

UserGroupModal == QueryForm({<<"users">>})

UserGroup ==
  Crud({"user-group"}, <<"user-groups">>, {"user-group-add"}, {"user-group-edit"},
       {"user-group-del"}, UserGroupModal)

\* Both tabs of the page of a group belong to the menu of its details.
UserGroupDetail == [info |-> {"user-group-detail"}, assets |-> {"user-group-detail"}]

UserGroupInfo == Table(UserGroupDetail.info, <<"user-groups", Id>>)

-----------------------------------------------------------------------------
(* The pages of a user. *)

MyAsset ==
  [Table(Anyone, <<"worker", "assets", "paging">>) EXCEPT
     !.opening = {<<"worker", "assets", "tags">>}]

MyCommand ==
  Crud(Anyone, <<"worker", "commands">>, Anyone, Anyone, Anyone, CommandModal)

-----------------------------------------------------------------------------
PageOf == [
  AccessGateway |-> AccessGateway, Asset |-> AssetWithOwner, AssetInfo |-> AssetInfo,
  AssetUser |-> AssetUser, AssetUserGroup |-> AssetUserGroup, Command |-> Command,
  Credential |-> Credential, Job |-> Job, JobLog |-> JobLog, LoginLog |-> LoginLog,
  LoginPolicy |-> LoginPolicy, LoginPolicyBind |-> LoginPolicyBind,
  LoginPolicyInfo |-> LoginPolicyInfo, LoginPolicyUser |-> LoginPolicyUser, MyAsset |-> MyAsset,
  MyCommand |-> MyCommand, OfflineSession |-> OfflineSession, OnlineSession |-> OnlineSession,
  Role |-> Role, RoleInfo |-> RoleInfo, Security |-> Security, SelectingAsset |-> SelectingAsset,
  Storage |-> Storage, Strategy |-> Strategy, StrategyInfo |-> StrategyInfo, User |-> User,
  UserAsset |-> UserAsset(UserDetailPage.assets), UserGroup |-> UserGroup,
  UserGroupAsset |-> UserAsset(UserGroupDetail.assets), UserGroupInfo |-> UserGroupInfo,
  UserInfo |-> UserInfo, UserLoginPolicy |-> UserLoginPolicy]

PageNames == DOMAIN PageOf
=============================================================================
