------------------------------- MODULE Menus -------------------------------
(***************************************************************************)
(* Roles, menus and permissions: what a role lets the web client show, and *)
(* what it lets the server answer.                                         *)
(*                                                                         *)
(* A role is a set of menus, the leaves that were ticked and all menus     *)
(* above them.  The client shows a button for a menu the user has          *)
(* (service/permission.js); the server passes a request when the path of   *)
(* one of the permissions of a menu the user has matches it                *)
(* (app/middleware/auth.go).  The method of a permission is not looked at. *)
(*                                                                         *)
(* A path is the sequence of its segments; "*" stands for a parameter and  *)
(* matches any one segment.                                                *)
(***************************************************************************)
EXTENDS Naturals, Sequences

Menu(menu, parent, paths) == [menu |-> menu, parent |-> parent, paths |-> paths]

(* The menus the program starts with (service/menu_default_data.go). *)

ResourceMenus == {
  Menu("resource", "root", {}),
  Menu("asset", "resource", {<<"assets", "paging">>, <<"tags">>}),
  Menu("asset-access", "asset", {<<"sessions">>, <<"sessions", "*", "tunnel">>,
          <<"sessions", "*", "ssh">>, <<"sessions", "*", "stats">>, <<"sessions", "*", "connect">>,
          <<"sessions", "*", "resize">>, <<"sessions", "*", "ls">>,
          <<"sessions", "*", "download">>, <<"sessions", "*", "upload">>,
          <<"sessions", "*", "edit">>, <<"sessions", "*", "mkdir">>, <<"sessions", "*", "rm">>,
          <<"sessions", "*", "rename">>}),
  Menu("asset-add", "asset", {<<"assets">>, <<"access-gateways">>, <<"credentials">>}),
  Menu("asset-edit", "asset", {<<"assets", "*">>, <<"access-gateways">>, <<"credentials">>}),
  Menu("asset-del", "asset", {<<"assets", "*">>}),
  Menu("asset-copy", "asset", {<<"assets", "*">>, <<"assets">>}),
  Menu("asset-conn-test", "asset", {<<"assets", "*", "tcping">>}),
  Menu("asset-import", "asset", {<<"assets", "import">>}),
  Menu("asset-change-owner", "asset", {<<"users">>, <<"assets", "*", "change-owner">>}),
  Menu("asset-detail", "asset", {<<"assets", "*">>}),
  Menu("asset-authorised-user", "asset-detail", {<<"authorised", "users", "paging">>,
          <<"authorised", "selected">>, <<"users">>, <<"strategies">>, <<"command-filters">>,
          <<"authorised", "users">>}),
  Menu("asset-authorised-user-add", "asset-authorised-user", {<<"authorised", "*", "users">>}),
  Menu("asset-authorised-user-del", "asset-authorised-user", {<<"authorised", "*">>}),
  Menu("asset-authorised-user-group", "asset-detail", {<<"authorised", "user-groups", "paging">>,
          <<"authorised", "selected">>, <<"user-groups">>, <<"strategies">>, <<"command-filters">>,
          <<"authorised", "user-groups">>}),
  Menu("asset-authorised-user-group-add", "asset-authorised-user-group", {
          <<"authorised", "*", "user-groups">>}),
  Menu("asset-authorised-user-group-del", "asset-authorised-user-group", {<<"authorised", "*">>}),
  Menu("credential", "resource", {<<"credentials", "paging">>}),
  Menu("credential-add", "credential", {<<"credentials">>}),
  Menu("credential-del", "credential", {<<"credentials", "*">>}),
  Menu("credential-edit", "credential", {<<"credentials", "*">>}),
  Menu("command", "resource", {<<"commands", "paging">>}),
  Menu("command-add", "command", {<<"commands">>}),
  Menu("command-edit", "command", {<<"commands", "*">>}),
  Menu("command-del", "command", {<<"commands", "*">>}),
  Menu("command-exec", "command", {<<"assets", "paging">>, <<"tags">>, <<"sessions">>, <<"term">>}),
  Menu("command-change-owner", "command", {<<"users">>, <<"commands", "*", "change-owner">>}),
  Menu("access-gateway", "resource", {<<"access-gateways", "paging">>}),
  Menu("access-gateway-add", "access-gateway", {<<"access-gateways">>}),
  Menu("access-gateway-del", "access-gateway", {<<"access-gateways", "*">>}),
  Menu("access-gateway-edit", "access-gateway", {<<"access-gateways", "*">>})}

AuditMenus == {
  Menu("session-audit", "root", {}),
  Menu("online-session", "session-audit", {<<"sessions", "paging">>}),
  Menu("online-session-disconnect", "online-session", {<<"sessions", "*", "disconnect">>}),
  Menu("online-session-monitor", "online-session", {<<"sessions", "*", "tunnel-monitor">>,
          <<"sessions", "*", "ssh-monitor">>}),
  Menu("offline-session", "session-audit", {<<"sessions", "paging">>}),
  Menu("offline-session-playback", "offline-session", {<<"sessions", "*", "recording">>}),
  Menu("offline-session-del", "offline-session", {<<"sessions", "*">>}),
  Menu("offline-session-clear", "offline-session", {<<"sessions", "clear">>}),
  Menu("offline-session-command", "offline-session", {<<"sessions", "*", "commands", "paging">>}),
  Menu("offline-session-reviewed", "offline-session", {}),
  Menu("offline-session-unreviewed", "offline-session", {}),
  Menu("offline-session-reviewed-all", "offline-session", {}),
  Menu("log-audit", "root", {}),
  Menu("login-log", "log-audit", {<<"login-logs", "paging">>}),
  Menu("login-log-del", "login-log", {<<"login-logs", "*">>}),
  Menu("login-log-clear", "login-log", {<<"login-logs", "clear">>}),
  Menu("storage-log", "log-audit", {<<"storage-logs", "paging">>}),
  Menu("storage-log-del", "storage-log", {<<"storage-logs", "*">>}),
  Menu("storage-log-clear", "storage-log", {<<"storage-logs", "clear">>}),
  Menu("session-command", "log-audit", {<<"session-commands", "paging">>})}

OpsMenus == {
  Menu("ops", "root", {}),
  Menu("job", "ops", {<<"jobs", "paging">>}),
  Menu("job-add", "job", {<<"jobs">>, <<"assets", "paging">>}),
  Menu("job-del", "job", {<<"jobs", "*">>}),
  Menu("job-edit", "job", {<<"jobs", "*">>, <<"assets", "paging">>}),
  Menu("job-run", "job", {<<"jobs", "*", "exec">>}),
  Menu("job-change-status", "job", {<<"jobs", "*", "change-status">>}),
  Menu("job-log", "job", {<<"jobs", "*", "logs", "paging">>}),
  Menu("job-log-clear", "job", {<<"jobs", "*", "logs">>}),
  Menu("storage", "ops", {<<"storages", "paging">>}),
  Menu("storage-add", "storage", {<<"storages">>}),
  Menu("storage-del", "storage", {<<"storages", "*">>}),
  Menu("storage-edit", "storage", {<<"storages", "*">>}),
  Menu("storage-browse", "storage", {<<"storages", "*", "ls">>}),
  Menu("storage-browse-download", "storage-browse", {<<"storages", "*", "download">>}),
  Menu("storage-browse-upload", "storage-browse", {<<"storages", "*", "upload">>}),
  Menu("storage-browse-mkdir", "storage-browse", {<<"storages", "*", "mkdir">>}),
  Menu("storage-browse-rm", "storage-browse", {<<"storages", "*", "rm">>}),
  Menu("storage-browse-rename", "storage-browse", {<<"storages", "*", "rename">>}),
  Menu("storage-browse-edit", "storage-browse", {<<"storages", "*", "edit">>}),
  Menu("monitoring", "ops", {<<"overview", "ps">>})}

SecurityMenus == {
  Menu("security", "root", {}),
  Menu("access-security", "security", {<<"securities", "paging">>}),
  Menu("access-security-add", "access-security", {<<"securities">>}),
  Menu("access-security-del", "access-security", {<<"securities", "*">>}),
  Menu("access-security-edit", "access-security", {<<"securities", "*">>}),
  Menu("login-policy", "security", {<<"login-policies", "paging">>}),
  Menu("login-policy-add", "login-policy", {<<"login-policies">>}),
  Menu("login-policy-del", "login-policy", {<<"login-policies", "*">>}),
  Menu("login-policy-edit", "login-policy", {<<"login-policies", "*">>}),
  Menu("login-policy-detail", "login-policy", {<<"login-policies", "*">>}),
  Menu("login-policy-bind-user", "login-policy-detail", {<<"login-policies", "*", "users", "paging">>}),
  Menu("login-policy-unbind-user", "user-login-policy", {<<"authorised", "*">>})}

IdentityMenus == {
  Menu("identity", "root", {}),
  Menu("user", "identity", {<<"users", "paging">>, <<"roles">>}),
  Menu("user-add", "user", {<<"users">>}),
  Menu("user-del", "user", {<<"users", "*">>}),
  Menu("user-edit", "user", {<<"users", "*">>}),
  Menu("user-change-password", "user", {<<"users", "*", "change-password">>}),
  Menu("user-enable-disable", "user", {<<"users", "*", "status">>}),
  Menu("user-reset-totp", "user", {<<"users", "*", "reset-totp">>}),
  Menu("user-detail", "user", {<<"users", "*">>, <<"authorised", "assets", "paging">>}),
  Menu("user-authorised-asset", "user-detail", {<<"authorised", "assets", "paging">>}),
  Menu("user-bind-asset", "user-authorised-asset", {<<"authorised", "selected">>, <<"assets">>,
          <<"strategies">>, <<"command-filters">>}),
  Menu("user-unbind-asset", "user-authorised-asset", {<<"authorised", "*">>}),
  Menu("user-login-policy", "user-detail", {<<"login-policies", "paging">>}),
  Menu("user-unbind-login-policy", "user-login-policy", {<<"authorised", "*">>}),
  Menu("role", "identity", {<<"roles", "paging">>}),
  Menu("role-add", "role", {<<"roles">>}),
  Menu("role-del", "role", {<<"roles", "*">>}),
  Menu("role-edit", "role", {<<"roles", "*">>}),
  Menu("role-detail", "role", {<<"roles", "*">>, <<"menus">>}),
  Menu("user-group", "identity", {<<"user-groups", "paging">>}),
  Menu("user-group-add", "user-group", {<<"user-groups">>}),
  Menu("user-group-del", "user-group", {<<"user-groups:", "id">>}),
  Menu("user-group-edit", "user-group", {<<"user-groups", "*">>}),
  Menu("user-group-detail", "user-group", {<<"user-groups", "*">>}),
  Menu("user-group-authorised-asset", "user-group", {<<"authorised", "assets", "paging">>}),
  Menu("user-group-bind-asset", "user-group-authorised-asset", {<<"authorised", "selected">>,
          <<"assets">>, <<"strategies">>, <<"command-filters">>}),
  Menu("user-group-unbind-asset", "user-group-authorised-asset", {<<"authorised", "*">>})}

AuthorisedMenus == {
  Menu("authorised", "root", {}),
  Menu("command-filter", "authorised", {<<"command-filters", "paging">>}),
  Menu("command-filter-add", "command-filter", {<<"command-filters">>}),
  Menu("command-filter-del", "command-filter", {<<"command-filters", "*">>}),
  Menu("command-filter-edit", "command-filter", {<<"command-filters", "*">>}),
  Menu("command-filter-detail", "command-filter", {<<"command-filters", "*">>}),
  Menu("command-filter-rule", "command-filter-detail", {<<"command-filter-rules", "*">>}),
  Menu("command-filter-rule-add", "command-filter-rule", {<<"command-filter-rules">>}),
  Menu("command-filter-rule-put", "command-filter-rule", {<<"command-filter-rules", "*">>}),
  Menu("command-filter-rule-del", "command-filter-rule", {<<"command-filter-rules", "*">>}),
  Menu("strategy", "authorised", {<<"strategies", "paging">>}),
  Menu("strategy-add", "strategy", {<<"strategies">>}),
  Menu("strategy-edit", "strategy", {<<"strategies", "*">>}),
  Menu("strategy-del", "strategy", {<<"strategies", "*">>}),
  Menu("strategy-detail", "strategy", {<<"strategies", "*">>})}

OtherMenus == {
  Menu("dashboard", "root", {<<"overview", "counter">>, <<"overview", "asset">>,
          <<"overview", "date-counter">>}),
  Menu("setting", "root", {<<"properties">>, <<"ldap-user-sync">>, <<"license">>,
          <<"license", "machine-id">>}),
  Menu("info", "root", {})}

DefaultMenu == ResourceMenus \cup AuditMenus \cup OpsMenus \cup SecurityMenus \cup IdentityMenus
                 \cup AuthorisedMenus \cup OtherMenus

AllMenus == {m.menu : m \in DefaultMenu}

-----------------------------------------------------------------------------
ParentOf(menu) == (CHOOSE m \in DefaultMenu : m.menu = menu).parent

\* What the form of a role stores for one ticked menu: it, and the path to it.
findTreePath[menu \in AllMenus \cup {"root"}] ==
  IF menu = "root" THEN {} ELSE {menu} \cup findTreePath[ParentOf(menu)]

\* As if the menus of the user were not looked at.
AnyMenu(menus, items) == items # {}

\* The client: a button belongs to a menu, or to several of which one suffices.
hasMenu(menus, items) == items \cap menus # {}

(* The server. *)

Match(pattern, path) ==
  /\ Len(pattern) = Len(path)
  /\ \A i \in 1..Len(path) : pattern[i] \in {"*", path[i]}

\* What every user may ask for.
Open(path) ==
  \/ path[1] \in {"account", "worker", "share-sessions"}
  \/ path = <<"sessions">>
  \/ /\ path[1] = "sessions" /\ Len(path) = 3
     /\ path[3] \in {"tunnel", "connect", "resize", "stats", "ls", "download", "upload", "edit",
                     "mkdir", "rm", "rename", "ssh"}

\* What else takes a permission of a menu.
Auth(menus, path) ==
  \/ Open(path)
  \/ \E m \in DefaultMenu : m.menu \in menus /\ \E p \in m.paths : Match(p, path)
=============================================================================
