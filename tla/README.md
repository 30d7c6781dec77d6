# A TLA+ model of next-terminal

next-terminal (1.3.9) is a bastion host. Users reach remote assets (SSH, Telnet, RDP, VNC, Kubernetes) through a
web terminal, a guacd display or a built-in SSH server; administrators grant the assets, watch, record and end the
sessions, and run jobs on the assets. The server is one Go process (`src/server`) over one SQL database; the pages
are a React program (`src/web`).

Most of what can go wrong is of one shape. The database is the truth that is shown, and beside nearly every table
the process keeps something in memory that must agree with it: the registered sessions, the SSH connections to
gateways, the entries of the scheduler, the tokens, the list of access rules. A request changes the one and then
the other, in several calls that nothing holds together, while other requests, goroutines and timers do the same;
and after a crash the memory is gone and the start has to make it again. Each module about the server takes one such
pair, has one action for each call, and asks what holds of the two.

The client has the same problem at the other end of the wire. A page keeps rows, a selection, a form and what is
busy; its handlers send a request and go on when the answer comes, while the user goes on at once and other answers
overtake it. Two modules take the pages, one the panel that shows files, one all pages with a table, and ask whether
what is on the screen, what is sent and what the server holds belong together.

- [Inventory](#inventory)
- [Plan](#plan)
- [Modules](#modules)
- [Runs and bounds](#runs-and-bounds)
- [Fairness](#fairness)
- [Proofs](#proofs)
- [What the models showed](#what-the-models-showed)
- [What is not modelled](#what-is-not-modelled)

To check: `tlc -config MCSession_admin.cfg MCSession` and likewise for the other configurations; `tlapm
SessionProofs.tla` and likewise for the other `*Proofs` modules. `PROJECT.json` maps each definition to its lines.

## Inventory

| Component | State | Operations | Talks to | What is hard |
|---|---|---|---|---|
| **Session lifecycle** (`service/session.go`, `global/session`, `api/term.go`, `api/guacamole.go`, `api/session.go`, `sshd/ui.go`, `task/ticker.go`) | rows of `sessions`; `GlobalSessionManager` and the observers of each session; one goroutine, one websocket and one SSH client or guacd tunnel per connection | create, attach, dial, register, report connected, close, force a disconnect, watch, sweep, delete, repair at start | gateways, terminal pump, roles (who may), browsers | three kinds of connection that register and store in different orders; a close is four steps under a mutex nothing else takes; browsers report late; crash |
| **Access gateways** (`service/gateway.go`, `global/gateway`, `api/access_gateway.go`) | row; manager; objects with one SSH connection and a map of tunnels, each a listener | look up or reload, open and close a tunnel, close all, create, update, delete | sessions, shell jobs, status checks | objects replaced while in use; a range over a map without its mutex; shared ids |
| **Jobs and their scheduling** (`service/job.go`, `api/job.go`, `global/cron`) | rows of `jobs` with the id of a cron entry; entries | create, start, stop, update, delete, restore, add all at start | runs of jobs, backup | ids die with the process and are given again; several calls per request |
| **Runs of jobs** (`job_exec_shell.go`, `job_check_asset_status.go`) | goroutine per asset, channel, `job_logs` | run, log | assets, credentials, gateways | the number of messages and of receives must agree; a run may overlap itself |
| **Logins, users and the token cache** (`api/account.go`, `service/user.go`, `app/middleware/auth.go`, `global/cache`, `repository/login_log.go`) | users, login logs, token cache | log in (page, second factor, SSH), call, log out, disable, delete, purge logs, expire, restore at start | access tokens, policies, roles | an eviction calls back into tables; Get and Set of one token; names that change |
| **Access rules** (`global/security`, `api/security.go`, `service/security.go`, `middleware/tcpwall.go`, `sshd.go`) | rows, map, sorted list | create, update, delete, import, reload, decide at two doors | backup | a list made from a map and assigned without a lock; two readers of one order |
| **Terminal pump and recordings** (`api/term_handler.go`, `common/term`) | rune channel, buffer, ticker, recording file | read, flush, record, copy to observers, ping, stop | sessions | who is left blocked on the channel; what the end of a session loses; two mutexes for one websocket |
| **SSH terminal interface** (`sshd/ui.go`, `sshd/writer.go`) | menus, TOTP tries, recording writer | choose, authenticate, record | sessions, logins | zmodem suppression, two goroutines |
| **Access tokens** (`service/access_token.go`) | rows, the token cache | generate, delete, reload | logins | cache changed inside a transaction |
| **Login policies** (`service/login_policy.go`) | policies, bindings, time periods | create, update, bind, decide | logins | order of matches, zero values |
| **Roles, menus and permissions** (`service/role.go`, `menu.go`, `menu_default_data.go`, `middleware/auth.go`, `permission.js`, `show.js`, `RoleModal.js`) | roles, references, menus in memory, cache of a user's roles; the menus the client was given | create, update, delete, tick menus, show a button, pass a request | every request | a menu lists the paths it permits, far from the pages that send them; memory changed before the commit; a cache of five minutes |
| **Authorisation, strategies** (`service/authorised.go`, `service/worker.go`) | rows | grant, revoke, check | sessions | revocation while a session runs |
| **Assets, credentials, commands, tenants** | rows, encrypted fields, status | create, update, delete, check status | everything | encryption on some paths and not on others |
| **User groups** | rows | create, update, delete | authorisation | - |
| **File panel and storages** (`FileSystem.js`, `service/storage.go`, `api/storage.go`) | rows of storages, directories; the panel: shown directory and rows, selection, one current file, modals, uploads under way | list, make, rename, edit, upload, download, delete, one or a batch | sessions | answers overtake each other and share one state; a quota checked before the write; an upload of several files of which some fail |
| **Files of a session** (`api/session.go`) | progress of uploads | the same over a drive or SFTP | sessions | input and output |
| **Backup** (`service/backup.go`) | - | export, import | all tables | ids renamed; effects on memory inside a transaction |
| **Properties, mail, migrations** | rows | read, write, migrate | everything | - |
| **Display protocol** (`common/guacamole`) | socket | read, write instructions | sessions | parsing |
| **Statistics, dashboards** | samples of the host | read | - | - |
| **Start-up, routing, CLI** (`app`, `env`, `config`, `service/cli.go`) | - | run the repairing passes in order, serve | all | order of passes |
| **Pages of the web client** (`components/*`, `api/*.js`, `common/request.js`) | rows, selection, form, busy buttons, dialogs | open, show and save a form, act on a row, on a batch, test connections, reload | server, roles | forms filled by answers that come late; a lost request never resolves; what a role is shown against what it may ask |
| **Other pages** (`ExecuteCommand`, `Setting`, `Monitoring`, `Playback`, `DragWeekTime`, ...) | - | - | all | - |

The properties that make each modelled component correct are in [Modules](#modules); those wanted of the others
are in the plan.

## Plan

What is done:

1. `Session`, `SessionRecord`: the core.
2. `Gateway`, `Jobs`, `JobRun`, `Login`, `AccessSecurity`: the other pairs of table and memory.
3. `Terminal`: reader, writer, ticker, recording, observers and the close, from where `Session` registers the
   terminal.
4. `Files`: the file panel of the client over a storage of the server. `Menus`, `PageTable`, `Pages`: the menus and
   permissions, and every page with a table that sends requests under them.
5. The theorems of [Proofs](#proofs).

What would come next:

6. `AccessToken` and `LoginPolicy`: a second kind of token over the cache of `Login`; the decision of policies
   against a reference definition (the smallest number that matches).
7. The cache of the roles of a user and the transaction of a change of role, beside `Menus`.
8. `Backup`: the renaming of ids against the references between the imported rows.
9. The recording writer of the SSH interface (`sshd/writer.go`) as a second pump beside `Terminal`.
10. Proofs: the sessions of the SSH interface (`Shells`) and two forced disconnects at a time, which need an invariant
    that says what a second close may forget.

## Modules

All modules are written to be checked and proved about: sets and records, no recursive operators, one action per
call, constants with named assumptions. A definition that a comment calls a mutant, or introduces
with "As if", is a plausible bug; it takes the place of the definition after it when the properties are tested for
whether they would notice.

### Session, SessionRecord

`Session` has one row per session (`row`, `dated` for `connected_time`, `secret` for the credentials), the entry of
`GlobalSessionManager`, and for each connection the place of its goroutine (`pc`), its backend, its peer and the
`POST /connect` its browser owes. The three kinds of connection differ where the code does:

| step | `SshEndpoint` (Terms) | `Guacamole` (Guacs) | `handleAccessAsset` (Shells) |
|---|---|---|---|
| `Dial` | SSH client | guacd tunnel | SSH client, starts the window goroutine |
| `Store` then `Register` | row connecting, message, `Add` | `Add`, row connecting | row connected, `Add` |
| ends by | `ReadFails`, `WriteFails` and reads on | `ReadFails` (closes its tunnel first), `WriteFails` | `WaitReturns`, `WinChCloses` |

`CloseSessionById` is `CloseTake` (mutex taken, registered session closed, observers kicked), `CloseForget`
(`Manager.Del`), `CloseRead` (`FindById`) and `CloseWrite` (`DisDBSess` and the unlock). It is called by the
connection itself, by its window goroutine, by an administrator (`AskDisconnect`) and by a monitor of a display.
Everything else interleaves between the four. `SweepUnused`, `SweepOffline` and `SweepDelete` are the cleaners,
`Crash` and `Boot` the end of the process and the repair of the table.

The close message of a terminal or display (`service/session.go:114`) and what its handler writes take different
mutexes or none, so the two may meet on one websocket. `CloseMessagePanics` is gorilla's panic in whoever closes,
`PongPanics` the one in an endpoint that answers a ping. Echo recovers both, the deferred unlock gives the mutex back,
and nothing else is undone: an endpoint that panicked (`pc` is `"panicked"`) leaves its entry, its backend and its row
as they were, for a forced disconnect, a monitor or the next start to end. A panic in a terminal's writer stops the
server; that is `Crash`.

`SessionRecord` is the abstract specification: a record is opened with credentials, established, ended without
them, dropped, and never goes back; a restart ends what was live. `AuditTrail` in `Session` says the rows
implement it.

Properties: `ServedIsRegistered` (who is served, or was until a panic, is who the manager knows),
`ConnectedIsServed` (a connected row has a goroutine to end it; or that goroutine panicked, and then a forced
disconnect still finds the connection), `EndedIsErased`, `ForcedDisconnectCloses` (safety); `DeletedIsFinal` (action);
`LeftSettles` (who was left by the browser ends all, or panics), `DisconnectReturns` (liveness); `AuditTrail`
(refinement); `BrowserInv` (the invariant of sessions that browsers attach to: `Managed` says what the manager holds for
a connection at each place, `RowFollows` what its row says, `Closing` and `Watched` where closes and monitors are, and
`DoneIsReleased` that a connection that is over has released its backend).

### Terminal

What a web terminal carries once `Session` has registered it. Runes are numbered as the asset prints them; `sent`,
`record` and `shown` are what reached the browser, the file and each observer.

| goroutine | steps |
|---|---|
| `readFormTunnel` (`reader`) | `Check` the context, `ReadRune` or `ReadFails`, `HandOver` on the unbuffered channel |
| `writeToWebsocket` (`writer`) | `HandOver`, `Tick`, `WriterStops` by the select; then `SendBegins`, `SendEnds`, `Record`, `Look`, `CopyTo`, `Reset` |
| `SshEndpoint` (`main`) | `Gone`, `Broken`, `Ping` and `Pong`, `Stop` with the deferred close of the websocket |
| `CloseSessionById` (`closer`, `step`) | `CloseBegins` by the endpoint or an administrator, `Told`, `CloseAsset`, `CloseFile`, `CloseSocket`, `Forget` |

The flush and the pong share the mutex of the handler, the close message has that of the session: a message that
begins while the other mutex's is being written may panic (gorilla's flag is not synchronized), which stops the server
in the writer and ends only the request in an endpoint. That a garbled frame is delivered is not modelled. `Join` has no
condition on the session, because a monitor may have found it long before.

Properties: `RecordingIsFaithful`, `WatchersSeeARun` (safety), `PrintedIsSent`, `WriterEnds` (liveness) and the
invariant `TerminalInv`.

### Gateway

One gateway: its row (`table`), the object the manager has (`managed`), the objects ever made (one per reload), each
with `connected`, `client` and its map of `tunnels`. A request looks the gateway up, may have to reload it
(`DelFind`, `DelClose`, `DelForget`, `AddNew`: `DisconnectById` and `Add` without a mutex), opens its tunnel on the
object it holds, works or hangs, and closes it. `Breaks` is a connection lost that no code notices. `Update` may be of a
gateway that is gone: it changes no row and reloads the gateway all the same.

Properties: `UnusedIsDisconnected`, `NoLeftovers`, `OthersKeepTheirs`, and the invariant `GatewayInv`.

### Jobs and JobRun

`Jobs` has rows with status, cron id and definition, the entries of the scheduler with the ids they were given in
this life of the process, and requests as sequences of calls. `Boot`, `BootJob`, `BootFails` and `BootDone` are
`InitJob`, which panics on an expression that does not parse. `Create` is from the form or from a backup, and a job that a
backup has stopped keeps the cron id it had where it was exported. Properties: `Scheduled` (a job that one request at a
time administers runs exactly as its row says), `RemovesOwn` (to stop a running job never takes another job's entry
away) and the invariant `JobsInv`.

`JobRun` is a run: goroutines per asset, an unbuffered channel, as many receives as assets. A run of a shell whose
metadata does not parse returns at once (`"unread"`) and logs nothing. `Proxied` are the assets behind a gateway or a
proxy, whose handshakes have no timeout. Properties: `CheckEnds` (a check of assets that are dialed directly ends) and
the invariant `RunInv`, which holds that the log of a run that read its metadata and ended tells of every asset
(`LogIsComplete`) and what was counted, sent and started at each place before. Its initial states, steps and type
invariant are named after the runs (`RunsInit`, `RunsNext`, `RunsTypeOK`), so that one module can prove about the jobs
and their runs.

### Login

Users, login logs and the token cache. `OnEvicted` is a callback of the cache, so whatever takes a token out goes on
to close its log, count the logins left and mark the user offline: `TakeOut`, `Close`, `Count`, `Offline`. A request
is a record of where it is, and the same calls are shared by logouts, disabling, deletion, the purge of logs, the
janitor and expiry. A user comes into being by `CreateUser`, or by `RestoreUser`, which writes the user as the backup
has it, online or not. `mixed`, `moved` and `restored` are history: the names about which requests have overlapped, the
names that were given up or taken, and the users a backup marked online. `OnlineHasLog` says nothing of the last.
Properties: `LiveLogHasToken`, `OnlineHasLog`, `LoggedInIsOnline`, `DisabledIsOffline`
and the invariant `LoginInv`.

### AccessSecurity

Rows, the map, the list, and requests whose calls are `SecurityRepository.*`, `Del` (`Drop`) or `Add` (`Store`), and
the two halves of `LoadData` (`Load`, `Assign`), since the list is assigned some time after the map was ranged over.
`HttpPasses` is `TcpWall` and `SshPasses` is `connCallback`. `settled`, `contested` and `orphans` are history: whether
the last request to assign ran alone, which ids two requests handled at a time, and which were put in force without a
row. A row has the addresses its field covers group by group, as the wall reads it (`ip`), and those it covers when it is
read as one (`whole`), as the SSH server does: a list with a `-` in it gives some range or other, which need have
little to do with the groups. Properties: `MapFollowsRows`, `InForce`, `DoorsDecide` (the SSH server lets a client in as
a row of the smallest number says, of those that cover it; the HTTP wall says nothing that no covering row says) and
the invariant `SecurityInv`. Among rows that disagree the wall lets the largest number decide, which the comments of
the code deny; the property does not make a promise of it.

### Files

The panel (`FileSystem.js`) as one component: `currentDirectory`, `files`, `selectedRowKeys`, `loading`, the modals and
the one `currentFileKey` that editing and renaming share. A request is a record in `calls` that the server serves
(`ServeLs`, `ServeDownload`, `Serve`; an upload in two steps, `CheckLimit` before `Serve`, as `StorageUpload` measures
the directory before it writes) and a handler goes on with (`LsAnswer`, `MkdirAnswer`, ...). Both take any order.
`Lose` is a network error or a 401, for which `request.js` never settles its promise. The storage is a tree from paths
to texts; `StorageMkDir`, `StorageRm`, `StorageRename`, `StorageEdit` and `StorageUpload` give what the operation makes
of it, nothing being a refusal. An upload that is refused is answered with HTTP 200, and `uploadFile` looks at nothing
else, so `UploadAnswer` counts it like any other. A download is of bytes: a file that is missing
gets a 404, for which the promise never settles, or a refusal in JSON, which the editor opens as if it were the text.
`openedFile`, `agreed`, `requested`, `unseen`, `lastLs` and `shownLs` are history.

Properties: `FilesInv` (the rows are of the shown directory, the editor saves to the file it read, what is asked for is
permitted, what is busy has an answer to come, every file lies in directories), `RemovesWhatWasAgreed`,
`QuietShowsTheTree` (safety), `WaitingEnds` (liveness).

### Menus, PageTable, Pages

`Menus` has the default menus with the paths each permits, the way from a ticked menu to the menus a role keeps
(`findTreePath`), the gate of the client (`hasMenu`) and the wall of the server (`Auth`). A path is the sequence of its
segments, of which `*` matches any.

`PageTable` has a record for each page: what it fetches when it opens, its form (what that fetches, how it gets its
row, what hiding it leaves in it, whether it sets defaults), its buttons and batches with the menus they belong to, the
requests they send and what follows their answers. These differences are where pages go wrong, and they are data.

`Pages` is the behaviour all have in common, on one page that one user looks at. A user has the menus of all roles of
the user together (`MenusOf`: `Ticked` says what is ticked in them); the super administrator has all menus, and the
server asks that one for none. The actions are `ShowModal`, `Ok`, `Cancel`, `ActOn`, the batch dialog, and for each
kind of request what the server makes of it and what the handler goes on with. What a form holds is told by where it
comes from: `id` is the row of its id field, `of` the rows of its other fields, `preset` says that defaults were set
over them. An answer is merged into what the form holds (`Merged`): a field the answer does not have keeps its value.
Rows come whole on most pages; an asset comes without the attributes that are unset, a job without metadata of another
kind (`partial`), so their forms may hold the fields of two. A batch that is refused may have deleted some of its rows
(`Remnants`). `Reloaded` says that a table that reloads drops the list it waits for; that is how pro-components 1.1.21
is taken to work, and the one thing assumed of it. `left` is the request that the server did not permit, if any: its
answer takes the user to another page.

Properties: `PagesInv` (`RowsDoNotMix`: no row is saved with the values of another one alone, and an asset or a job only
may be saved with some of them; `BusyHasAReason`),
`QuietTableShowsRows`, `ShownIsPermitted` (safety), `WaitingEnds` (liveness). `Gaps` lists what the default menus leave
out: requests of pages or buttons a user is shown and the permissions of the menus that show them do not cover. The
property says that there are no others, whatever else the user has or has not; the one exception is a row that OK makes
because the row to change has not come yet (`EarlyOk`), for users who may change rows and make none.

### How they meet

`Session` opens its connections through `Gateway`, which takes them as `Clients`; a shell job of `JobRun` is another
client and a status check is one of `Checks`. `Terminal` is what happens between `Register` and the close of a web
terminal of `Session`; the row and the mutex of the manager are `Session`'s, the socket and the file `Terminal`'s.
`Jobs` starts the runs of `JobRun`. `Login` decides who may make the requests the other modules begin at any time.
`Menus` decides for `Pages` on both sides of the wire; the requests of `Pages` and `Files` are those whose handlers
the other modules begin. The modules meet at these calls and share no variable; each allows its environment every
order of them, so what they show holds for any behaviour of the others.

## Runs and bounds

| Run | Instance | Shows |
|---|---|---|
| `MCSession_browser` | two sessions, a terminal, a display, one crash; any close and deletion | `BrowserInv`, `ServedIsRegistered`, `ConnectedIsServed`, `AuditTrail`, `LeftSettles` |
| `MCSession_admin` | one session, a terminal, a display, a shell, an administrator, a monitor, one sweep, one crash | `ForcedDisconnectCloses`, `EndedIsErased`, `DisconnectReturns`, `DeletedIsFinal` |
| `MCGateway_use` | two clients that share an id or not, a check, an administrator, two objects | `GatewayInv`, `UnusedIsDisconnected`, `NoLeftovers`, `OthersKeepTheirs` |
| `MCTerminal_pump` | a recorded terminal, two runes, one observer | `TerminalInv`, `RecordingIsFaithful`, `WatchersSeeARun`, `PrintedIsSent`, `WriterEnds` |
| `MCJobs_rows` | two jobs, one of them carefully administered, two requests, a bad definition, two ids, one crash | `JobsInv`, `Scheduled`, `RemovesOwn` |
| `MCJobRun_runs` | a check, a shell and a local run, two assets, one with a credential, the other behind a gateway | `RunInv`, `CheckEnds` |
| `MCJobRun_failure` | a shell, two assets | violates `FailureIsLogged` |
| `MCLogin_tokens` | one user, two tokens, two requests, restarts, a restored backup | `LoginInv`, `LiveLogHasToken`, `OnlineHasLog`, `LoggedInIsOnline`, `DisabledIsOffline` |
| `MCLogin_disable` | one user, two names, one token | violates `DisabledTakesOffline` |
| `MCAccessSecurity_rules` | two ids, two addresses, two requests; an address, a range and a field of two groups | `SecurityInv`, `MapFollowsRows`, `InForce`, `DoorsDecide` |
| `MCFiles_panel` | a directory with a file and a file beside it, two names, three operations, one lost request, room for three files, all permissions or only to edit | `FilesInv`, `RemovesWhatWasAgreed`, `QuietShowsTheTree`, `WaitingEnds` |
| `MCPages_all` | 32 pages; a user for each menu, one with all menus ticked, one with the menus of two pages, and the super administrator; two rows and room for a third, one or two buttons, one lost request | `PagesInv`, `QuietTableShowsRows`, `ShownIsPermitted`, `WaitingEnds` |

Why the bounds are enough. Every hazard of these components is a race of two parties over one item, with a third that
must not be disturbed: two connections and a session of each, or three kinds of connection on one session; two clients
and a check on one gateway, with an object replaced under them; two requests on one job beside another job; two
requests on one user with two logins. In the client the race is of one operation with the answer of an earlier one,
over a third that is shared: a second operation while the first is under way, and a form or a directory that a third is
about. Three operations make that possible in `Files`. In `Pages` a form that is shown, saved, hidden and shown again
counts as two (OK, Cancel and the choices in a form are not counted). The super administrator, who is refused nothing,
presses two, but one on a page whose form, buttons and batches another page has too; the user who may edit assets
presses two there, so that the answers for two assets meet in one form; the others press one at most, because what they
may ask does not depend on what they asked before. One crash suffices because a second finds nothing that the first has
not left: the memory is empty and the table repaired; `Login` and `AccessSecurity` have no bound on restarts at all.
`MaxSweeps`, `MaxCrashes`, `MaxEntries`, `MaxObjects`, `MaxRunes`, `MaxOps`, `MaxCalls`, `MaxLost` and `Depth` are the
only bounds in guards; they cap what the code does not cap, and the theorems hold for every value of them. Symmetry is
used where no liveness is checked and the permuted values are interchangeable (tabs of one session, requests, tokens,
ids of rules).

Deadlock is not checked where users may stop making requests and bounds run out, which is so in every module but
`AccessSecurity`, whose server can always restart.

Larger instances were run by hand without a violation: `Login` with two names and renames (6.9 million states) and
with two users (2.0 million); `Session` with one session, a monitor, two sweeps and a crash under all the properties
of `MCSession_browser`, and with two sessions and a sweep (291 thousand); the safety properties of `Terminal` with two
observers (705 thousand) and with four runes (997 thousand). Two runes make a gap and an exchange possible, and a flush
of one, of both, or of the second while the first is on its way.

## Fairness

`Session`, `Terminal`, `JobRun`, `Files` and `Pages` state liveness.

`Session`: weak fairness of the holder of the mutex or of some waiter (`CloseSession`) and of the read of each
connection. A free mutex is given to someone, what its holder does ends (a write to a websocket returns, the table
answers), and `ReadMessage` returns once its socket is closed. Fairness of `CloseSession` as a whole and not of each
caller is what a mutex justifies; callers ask once, so each of them is served in the end. Nothing is assumed of dials (an
SSH handshake has no deadline), of the steps that set a connection up, of browsers, users, administrators, monitors,
cleaners, crashes or restarts.

`Terminal`: weak fairness of each goroutine's own step and of the ticker; strong fairness of each case of the writer's
select, because Go chooses among the ready cases at random and one that is ready again and again is not passed over for
ever; strong fairness of the two steps that wait for a mutex others take again and again, which a Go mutex gives in its
starvation mode. A write to a websocket is assumed to return. The code sets no deadline, so a browser or an observer
that keeps its connection and never reads can hold the writer; for an observer that means that it can hold the terminal
it watches.

`Files`, `Pages`: weak fairness of the server and of the handlers together, in `Pages` of the oldest request: the server
serves what it gets and the browser hands on what is answered. Nothing is assumed of the user. A request that is lost
is excepted by the property, because nothing in the code gives it up.

`JobRun`: weak fairness of each run, and of the check of an asset that is dialed directly, which has a timeout. The
handshake with a gateway or a SOCKS5 proxy has none and is assumed to do nothing, and a shell command may take for ever,
so nothing is promised of checks of `Proxied` assets and of runs of shells.

## Proofs

| Theorem | Module | Argument |
|---|---|---|
| `TypeCorrect`, `ErasedAtEnd`, `NeverUndeleted` | `SessionProofs` | `TypeInv`: `TypeOK` and `Engaged` (who is under way names a session; the holder of the mutex is there). Only seven kinds of step touch a row (`RowSteps`) and each looks at it first; `DisDBSess` needs `target \in Sessions` |
| `BrowserCorrect`, `ServedRegistered`, `ConnectedServed` | `SessionProofs` | `BrowserInv` is inductive as it stands: for each connection the place of its goroutine says what is in the manager and in the row, and who is in a close says what is gone already; one whose endpoint panicked is registered or is being closed by another. The three statements are about sessions of browsers (`Browsers`) |
| `AuditTrailKept` | `SessionProofs` | From `BrowserInv`: each step that writes a row is one step of `SessionRecord` (opened, established, ended, dropped), every other one a stutter, and a restart ends what was live |
| `ForcedCloses` | `SessionProofs` | `ForcedInv`: the connection a request saw is still registered or has lost its backend (`Asked`), what a monitor holds and the manager knows was registered for its session (`Held`, `Known`), and whoever has the mutex, unless it is the request itself, has closed what was registered before it goes on to forget it (`Holder`). Under `OneForced`; shells, monitors, cleaners and crashes are in |
| `StreamIsWhole`, `RecordingMatches`, `WatchersMissNothing` | `TerminalProofs` | `TerminalInv`: `Base`, the number of runes before those in the buffer, ties printed, taken, buffered, sent, recorded and shown together (`Streams`, `Recorded`, `Watched`); `Late` says that nobody who watches after the observers are cleared has seen the flush under way. A step either carries no rune (`Quiet`, `Aside`) or has a lemma of its own; `Joined`, `OrderGoesOn` and `RunGoesOn` are the facts about sequences |
| `AlwaysCoherent`, `ReleasedWithLast` | `GatewayProofs` | `GatewayInv`: an object says it is connected iff it has a client, and then some request is between its open and its close on that very object; a map entry belongs to such a request; a listener with an id of its own is in the map. `CloseKeeps` says what one `CloseSshTunnel` leaves |
| `NothingLeft`, `TunnelsKept` | `GatewayProofs` | From `GatewayInv`: what a map holds under an id of its own was put there by the one request with that id, which is between its open and its close; so its own close removes it, and the close of another neither takes it nor finds the map empty |
| `RunningOwnsEntry`, `StopsOwnOnly` | `JobsProofs` | `JobsInv`: the cron id of a running row, of a row a request read as running and the id a request was given all name an entry of this life that is the job's or is gone. Ids only grow in one life, so an id that is gone is not given again |
| `CarefulScheduled` | `JobsProofs` | `SchedInv`: a careful job has one request at most, whose call says how far row and entry are apart (`Between`); without one it is in step, or waits for the start to give it its entry (`InStep`). A request that removes an entry removes one of this life (`OwnStop`). Under `InDate` |
| `RunsAreSound` | `JobsProofs` | `RunInv` of `JobRun` is inductive: the goroutines started are those of the assets listed so far, the receives are counted one by one, and a run logs when it has received as many results as it found assets; one that could not read its metadata has started none. |
| `RequestsAreSound`, `LiveLogsHaveTokens`, `OnlineUsersHaveLogs` | `LoginProofs` | `LoginInv`: what a request holds at each call (`RequestOK`), that a live log has its token in the cache or a request at work on it, and that a user online has a live log or a request about to count, or was written online by a restore |
| `NamesInOrder`, `LoggedInOnline`, `DisabledOffline` | `LoginProofs` | `AloneInv`: for a name about which no two requests ever overlapped and that nobody gave up or took (`Plain`), what is left between requests is in order, and the one request about it says at each call what it still has to do (`Holds`). A step either leaves all that is of a name alone (`Spares`) or is a call of the one request about it (`Own`) |
| `SecurityIsCoherent`, `MapHoldsTheRules`, `ListHoldsTheRules`, `DoorsAreDecided` | `AccessSecurityProofs` | `SecurityInv`: what each request has done to the rule it handles (`Progress`), that ids handled twice are `contested`, that a request that runs alone made its list of the whole map, and that the list agrees with the map outside the ids at work. The last follows from the list being sorted and complete: its first match has the smallest number, and whatever either door says is said by a rule in it, which is a row |
| `FilesAreSound`, `OnlyAgreedIsRemoved` | `FilesProofs` | `IInv`: rows lie in the directory that is shown (`Screen`), a request under way is permitted and answers with rows of the directory it asked for (`Requests`), a busy button waits for one request and a batch sends one at a time (`Waits`, `Single`), agreed is what was asked for and what the loop still holds (`Removes`), and the storage is a tree of directories (`Storage`). `FrontIs`, `PrefixIs` and the lemmas on `MovedTo` are the facts about paths; `RmTree`, `MadeTree`, `UploadTree` and `RenameTree` say that each operation makes a tree of a tree |
| `QuietScreenIsTrue` | `FilesProofs` | `SeenInv`: a granted change that no list has seen is followed by one, because its answer is still to be handled, its batch still runs or uploads of its batch are still to be answered (`Unloaded`); unless an upload was closed or lost; the answer of the last list, shown or on its way, is the directory unless something changed since (`Current`) |
| `PagesAreSound` | `PagesProofs` | `IInv`: a form that has an id holds values of that row, and of no other unless rows of the page come in part (`Marks`), every request that saves was made of such a form (`Sound`), what a request answers with are rows, and a form that waits has one request under way (`Waits`, `OneSave`). `JoinKeeps`, `RestKeeps` and `ReloadedKeeps` say what sending, taking and reloading leave of the sequence of requests; `Elsewhere` and `TakenKeeps` serve all steps that leave the form alone |
| `QuietTableIsTrue` | `PagesProofs` | `Tracked`: a table waits for one list (`OneList`), and it shows the rows, or a list that will bring them is under way, or a change has been granted whose answer will make the page reload (`Fresh`). `AllSettle` goes through `PageTable`: on each of these pages, a button that changes rows reloads after a success, and a batch, which may be refused half-way (`RemnantsFit`), in any case |
| `ShownPermitted` | `PagesProofs` | `AllProvide` goes through `PageTable` and the default menus: every path a page asks for is let by the menu of the page or by that of the button (`Lets`), or is one of the gaps; it says nothing of who the user is, so it holds whatever is ticked (`ShownMay`). `Asked` carries that through the steps: the user is one of those the page is shown to, every request under way is for such paths, and so is what the form and the dialog may still send, which were opened by a button that was shown. A row that is asked for may be saved (`CallMay`), so its answer may fill whatever form is open |

The assumptions are those named in the modules: kinds of connection are disjoint, bounds are natural numbers, `None`
is none of the values, the set of assets, of rule ids or of rows is finite, what is uploaded at a time is finite, and a
storage starts as a tree of directories. None restricts the sizes.

`TypeOK` alone is not inductive in any of these modules: a step writes at `row[target]`, `gw[u]` or `log[r.token]`,
and that these are in the domain depends on where the request is. That is what `Engaged`, `RequestOK` and `Shape` add.

Five theorems of `Session` and one of `Jobs` say of which instances they hold; of the others they are false:

- `Browsers` (all but `ForcedCloses`): no session of the SSH interface, no forced disconnect and no second attachment.
  A shell has its row connected before it registers, a forced disconnect before `Add` finds nothing, and a second tab
  replaces the first in the manager (see [below](#what-the-models-showed)). Any number of sessions, connections and
  monitors, the cleaners, crashes and restarts are in. It is what `MCSession_browser` checks.
- `OneForced` (`ForcedCloses`): at most one forced disconnect and no second attachment. A second one that looked before
  the connection registered forgets it without having closed it. `MCSession_admin` checks it with one.
- `InDate`: switches are clicked on pages that are in date, and no restored backup rolls back (`Stale` and
  `RestoreFails` are off). Either leaves an entry without a row. Any number of jobs and requests,
  crashes, restarts and bad definitions are in.

Every safety invariant and every action property that a run checks is stated by a theorem, and so is the refinement.
Only model-checked: liveness under fairness (`LeftSettles`, `DisconnectReturns`, `PrintedIsSent`, `WriterEnds`,
`CheckEnds`, `WaitingEnds`), which needs `ENABLED`.

## What the models showed

Violations that runs keep, each against words of the repository:

- `MCJobRun_failure`: a shell job that cannot look an asset up sends on a channel only itself reads: it stays there and
  logs nothing.
- `MCLogin_disable`: a user who was renamed and then disabled keeps the tokens of the logins made under the old name.

Behaviours the models reach that the properties except, most of which no text speaks of:

- The hourly cleaner deletes sessions that are being served: `connected_time` is zero until the browser posts
  `/connect`, so the age test always holds for a session still connecting.
- Of two rules that cover an address the HTTP wall follows the larger number and the SSH server the smaller, although
  comments (`security.go:41`, `model/access_security.go:8`) and the form (`SecurityModal.js:80`) promise the smaller.
  `DoorsDecide` holds the SSH server to it and the wall only to some covering row.
- A forced disconnect between the update of a terminal's row and `Add` finds nothing registered: the row says
  disconnected and the connection goes on. (`ServedIsRegistered` and `ConnectedIsServed` are checked without
  administrators.)
- A monitor that looked a session up and joins after its close watches a closed session and is not kicked.
- A shell whose window closes before its row is marked connected, and whose remote shell then returns an error, leaves
  a connected row until the next start.
- A terminal that fails after its SSH client was opened (`RequestPty`, `Shell`, the update or the first message) leaves
  the client open.
- A close message that meets another write to its websocket may panic, because the two take different mutexes. In the
  writer of a terminal that stops the server. In an endpoint or an administrator's request it ends the request, although
  a comment (`api/term.go:158`) says that the SSH session is closed once the websocket is: the session stays registered
  and connected with its backend open, and nobody will end it but a forced disconnect, the monitor of a display that
  leaves, or the next start.
- The reader of a terminal whose writer has ended stays blocked on the channel for ever. `Stop` and the close flush
  nothing, although the comment in `Stop` says that the last command is recorded; the last flush may be seen and not
  recorded, because the file is closed before the socket.
- A remote shell that exits closes nothing: the terminal stays open until the browser's next input or the end of the
  connection.
- With two tabs on one session (`Reattach`) the second replaces the first in the manager.
- A job whose metadata does not parse runs without leaving a log. A check of all assets waits for ever, and logs
  nothing, when one gateway or SOCKS5 proxy accepts a connection and then says nothing.
- A status check through a gateway finds any asset active, because the local listener accepts before the asset is
  dialed (`Check` of `Gateway`).
- Two requests that reload one gateway close each other's tunnels; a lookup that read the row before a deletion adds
  the deleted gateway again, and so does an update of it; a connection that broke is still marked connected.
- Two starts of one job from pages out of date (`Stale`) leave an entry without a row, so does a restored backup that
  rolls back (`RestoreFails`); a running row whose expression does not parse stops every start (`BootFails`).
- A restored backup writes users as they were when it was made, so whoever exported it is online in the new table,
  without a login, until the next start or logout.
- A logout between the middleware's Get and Set of a token is undone in the cache; a login that found its user enabled
  completes after the user was disabled.
- Two overlapping changes of access rules may leave one out of the list, or in it, until the next change; an update of a
  deleted rule and an import that rolls back put rules in force without rows. The SSH server does not split the IP
  field at commas, the HTTP wall does: a list of addresses matches nobody there, one with a range in it some other range.
- A form opened to change a row makes a new one when OK comes before the row has arrived, because it has no id yet; one
  opened to make a row changes another when the answer for that one arrives late (`EarlyOk`): the title of the form does
  not say what OK will do.
- Two assets edited one after the other, the first given up before its row came, meet in one form: the second is saved
  with the attributes of the first that it has not set itself (`AssetModal.js:102`). Jobs are alike.
- A batch that is refused half-way has deleted the rows before; the page reloads all the same.
- A success hides the form that is open now, not the one that was saved.
- Menus that do not permit what their buttons ask for are listed in `Gaps`: a role with the menu to bind users to a
  login policy, say, is sent to "permission denied" when it opens that page. No menu at all permits to bind users or to
  unbind them (`/login-policies/:id/bind` and `/unbind`): only the super administrator can, whatever is ticked. Some
  gaps appear only for who has menus of two pages, as the grant of an asset from the page of a user group.
- The page of assets keeps its rows itself and takes answers that were overtaken; a connection test writes its result
  into the rows it was started on. Pages of grants reload before their request is answered.
- The editor of the file panel opens when its file has arrived, over a form that renames if one is open, and the form
  then renames the editor's file. Where the file is missing it never opens and the panel stays busy, or it opens on the
  words `[object Object]`, which a save then writes. An edit reloads nothing. Uploads that are refused look like any
  other; one that is lost or closed keeps its batch from reloading. A request that is
  lost leaves its modal busy until the page is left.
- The quota of a storage is checked before an upload is written, so uploads together may exceed it, and an edit is not
  checked at all.

## What is not modelled

- Data: names, passwords, file contents, the formatting of messages and rows, parsing of addresses (a rule's address
  field is the groups of addresses it covers) and of cron expressions (a definition parses or does not).
- The counter of failed logins, second factors, policies and roles: in `Login` they only decide whether a login goes on.
  How a policy decides, access tokens and the cache of a user's roles are planned.
- Pages without a table and a form: running a command on many assets, settings, charts, playback, the grid of hours,
  the profile. What the fields of a form are, searching and sorting; the clipboard and the sizes of a display or a
  terminal. SFTP, links, and the progress of an upload.
- The menus and texts of the SSH interface, and its recording writer.
- The database is a store of rows that answers; that a transaction fails is modelled where the code goes on after it.
- gorm's `Updates` writes no zero values and reports no error when no row matches. `Session` and `AccessSecurity` model
  the second; forms of the modelled tables never send zero values for the fields that matter (a rule's number is 1 to
  100).
- Components without a behaviour of their own: statistics, the display protocol, utilities, images, mail, migrations.
