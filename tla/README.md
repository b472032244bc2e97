# IsleWarden in TLA+

IsleWarden lets a player into a game server only while a launcher on the
player's PC holds a *play lease*. This directory models the server's core, the
launcher and the admins' dashboard in TLA+, checks them with TLC on small instances
and proves the main invariants with TLAPS. Source paths below are relative to `src/server/islewarden_server/` unless
they start with `src/`.

## The system

| Part | State it keeps | Operations | Talks to |
|---|---|---|---|
| Play leases: `sessions.py` (`SessionManager`) | `sessions` table: id, player, state, last heartbeat, expiry, end code | `start_session`, `heartbeat`, `end_session`, `revoke`, `expire`, `_remove_whitelist_if_last` | store, gates, whitelist bridge |
| Sweeper: `sweeper.py` | none (its cutoff and list are local) | `sweep` every `max(5, heartbeat / 2)` seconds | sessions |
| Admin API: `app.py` | `bans`, `ac_bypass`, devices' status, action log | ban, unban, revoke session, approve / reject device, bypass, unlink, prune | sessions, whitelist, store |
| Whitelist bridge: `whitelist.py` | `whitelist` table; a file, or the game server's memory | `grant`, `revoke`, `kick` | store, RCON, file system |
| Login: `login/service.py`, `login/pending.py` | logins in progress (memory), `discord_links` table | `start`, `steam_callback`, `discord_callback`, `complete` | Steam, Discord, sessions |
| Devices: `sessions.py:86-120`, `284-328` | `devices`, `device_components` | `register_device`, review rules | store |
| Gates: `sessions.py:122-218`, `access.py`, `login/discord_gate.py` | `ac_bypass`, `bans`; the role state kept in `discord_links` | device → ban → Discord → consent → anti-cheat | store, Discord |
| Enforcer: `enforcer.py` | first seen / kicked (memory), failure counters | `poll`, `_kick` | store, RCON |
| Policy: `policy.py` | cached policy file | `get_policy` | file system |
| Risk and dashboard: `risk.py`, `dashboard.py` | `reports`, `findings`, `admin_actions` | queries, risk score, prune | store |
| Launcher: `src/launcher/IsleWarden.Agent` | `agent.json` (device key, saved lease) | login, play, resume, heartbeat loop, hand back | server over HTTP |
| Scanners: `src/launcher/IsleWarden.Core` | hash cache | scans, baseline, fingerprint | Windows |
| Dashboard: `src/dashboard` | the admin key in sessionStorage; in memory the key in use, the screen and what it has loaded | sign in and out, navigate, refresh, the admins' decisions | admin API over HTTP |

Handlers are synchronous FastAPI functions: each request runs in a thread of a
pool, the sweeper and the enforcer in threads of their own. They share SQLite
and nothing else (the pending logins and the file lock apart). **Every store
call opens its own connection in autocommit mode**, so a handler is a sequence
of atomic store calls, and whatever another thread does may fall between two of
them. That is where the hard behaviour of this system is: each handler reads
something (a ban, the other leases of a player, a link), and acts on it in a
later store call.

What makes each part correct:

* *Leases*: a lease id has one owner and one life; exactly one of the paths that
  may end it does, and only that one goes on to drop the whitelist; a ban cannot
  be outrun; a silent lease expires, one that is heard does not; the whitelist
  holds the players that have a lease.
* *Whitelist sync*: the game server's list follows the table; a half-written file
  is never visible; overlapping rewrites lose nothing.
* *Login*: one Steam ID per Discord account and the other way round, changed only
  by an admin; a login is redeemed once.
* *Enforcer*: who holds a lease is not kicked for having none, everybody else gets
  a whole grace period and no more, whatever fails in between.
* *Launcher*: a lease is kept through crashes and lost requests and forgotten only for a
  reason; who quits gives it back; who has lost it stops.
* *Dashboard*: a screen shows what it was asked for, never goes back to older data,
  and shows what its admin has just decided; the key in use is the key the settings
  were loaded with; whoever sees a process list is in the log.
* *Devices and gates*: nobody is let in, kept in, or approved without an admin against
  something that stood in the way all along, whichever store call read it when; an
  outage of Discord locks nobody out who has the role, and in the end nobody in who has
  lost it.

## Modules

### `Leases.tla`: leases, sweeper, bans, the desired whitelist

One action per store call, with the local code around it. `job[t]` is what
thread `t` is doing: the call, its next step (`pc`), the time the handler read
first (`at`), the lease and player in hand, and the leases it has yet to end.

| Code | Actions |
|---|---|
| `start_session` | `BeginStart` (reads `now`), `StartGates` (the ban gate), `RefuseStart` (any other gate), `InsertSession`, `Grant` (`whitelist.grant`, then the answer) |
| `heartbeat` | `BeginHeartbeat`, `HeartbeatGates`, `RefuseHeartbeat`, `Renew` (`try_renew_session`) or, when refused, the end path |
| `end_session`, `revoke`, `expire` | `BeginEnd` / `BeginRevoke` / `Reject` / `BeginSweep`, then `TryEnd` (`try_end_session`), `DropCheck` (`has_other_active_session`), `DropRemove` (`whitelist.revoke`) |
| `ban_steam_id`, `ban_player` with `drop_player` | `BeginBan` (`insert_ban`), `BanList`, `TryEnd` ... for each lease, `BanDrop` (the unconditional `whitelist.revoke`) |
| `create_ban`; `delete_ban`, `unban_player` | `BanRow`; `Unban` |
| an exception or a crash | `Abort` |
| time | `Tick` |

What is abstracted: tokens and their verification (`told` holds the leases whose
token a launcher knows), end codes and reasons, reports, notifications, the
kick that follows a removal (it changes no state of IsleWarden), bans of devices
and components (they refuse like the other gates). `expires_utc` is always
written together with `last_heartbeat_utc` and equals it plus the grace period,
so the row keeps one of them. A sweep in which nothing is stale changes nothing
and is left out, and so is a heartbeat for a lease that is not Active.

`banTime` and `heard` are history variables: no action's guard reads them.

`LeaseLifecycle.tla` is the abstract specification: what the `sessions` table
promises whoever calls it. `Leases` implements it with the identity mapping on
`clock` and `lease`.

### `WhitelistSync.tla`: from the table to the game server

`grant` and `revoke` change the table (`Change`) and then apply the change. In
rcon mode that is one command (`Send`); in file mode `Lock`, `Open`, `List`,
`Write`, `Replace` follow `_write_file` line by line. `RaiseRcon`, `RaiseFile`,
`Crash` and `GameRestart` are the failures; `_apply` swallows what is raised and
nothing is retried. The game server's memory is external. A command whose
connection failed is assumed not to be delivered later than the failure is seen.

### `GameWhitelist.tla`: leases up to the game server

`Leases` and `WhitelistSync` meet in the `whitelist` table: `Leases` has it as its
`whitelist` variable and `WhitelistSync` as its `table`, which any thread may change at
any time. `GameWhitelist` puts the two together, with one set of threads: the thread
that grants or ends a lease carries the change to the game server itself, inside
`whitelist.grant` or `revoke`, before it goes on.

| Code | Actions |
|---|---|
| a handler's own steps, while not inside the bridge | `Other` (those of `Leases` that leave the whitelist alone) |
| `grant`; `revoke`, up to the table | `GrantCall` (`Grant` of both), `RevokeCall` (`DropRemove` or `BanDrop`, and `Revoke`) |
| `_apply` with its `except` | `Apply` (`Step`, `RaiseRcon`, `RaiseFile`) |
| the process dies; the game server restarts | `CrashSync`, with `Abort` of each thread; `GameRestart` |

An answer to a launcher is sent when `_apply` returns; here its token counts as known as
soon as the table has the player, which only lets launchers call earlier. No run checks
this module: it has no state of its own beyond that of its two parts, which have theirs,
and what is said of both together is proved (`GameWhitelistProofs.tla`).

### `Login.tla`: logins and Discord links

`byId`, `byCode` and `fresh` are the tables of `PendingLogins`, each operation of
which runs under its lock and is one action. The `PendingLogin` objects (`login`)
are shared between threads *without* a lock, and so is the `discord_links` table
(`link`), one store call at a time.

| Code | Actions |
|---|---|
| `PendingLogins.start` with `_sweep` | `Start` |
| `steam_callback` | `BeginSteam` (the checks), `SteamConfirms` or `Refused` |
| `discord_callback` | `BeginDiscord`, `DiscordConfirms` or `Refused` |
| `_finish` | `Settle` (the failure is set or cleared), `Finish` (the code) |
| `complete` | `Redeem`, `ReadFailure`, `ReadSteam`, `ReadDiscord`: three reads of an object another callback may still be writing |
| `_link` | `ByDiscord`, `BySteam`, `Upsert` (with the UNIQUE constraint) |
| `unlink_discord`, the lifetime, a restart | `Unlink`, `Expire`, `Restart` |

Steam's and Discord's answers are any answer; the kind of a failure is
abstracted to there being one. A login without Discord ends where it would
register the device. `seen` is a history field: what `_link` read before it wrote.

### `Access.tla`: devices, the gates and the Discord role

`device`, `bans`, `exempt` and `link` are tables; `role` is Discord; `active` the devices
with an Active lease. `job[t]` is the call of thread `t`, what it has read so far and where
it goes on. The gates of a join and of a heartbeat are the same store calls, with
differences that the actions name: a join refuses a rejected or pending PC at once, a
heartbeat compares the status it read first after the ban list.

| Code | Actions |
|---|---|
| `register_device` | `BeginRegister`, `FindOwn` (`_find_own_device`), then `Rekey`, or `Review` (`_find_review_reason`) and `Insert` |
| `start_session`, `heartbeat` | `BeginStart`, `BeginHeartbeat`, `ReadDevice`, `FindBypass`, `ReadParts` and `FindBan` (`_find_ban`), `Report` (consent, findings), `Admit`, `Refuse` |
| `DiscordGate.check` | `ReadLink`, `Answered` and `Record`, or `Unavailable` |
| an exception | `Abort` |
| approve, reject; a row of a ban, placed or gone; bypasses; `unlink_discord` | `SetStatus`; `AddBan`, `DropBan`; `Bypass`; `Unlink` |
| `discord_callback`; `_link`; the end of a login | `Confirm`; `LinkAccount`; `Forget` |
| time; other ends of a lease | `Age`; `EndLease` |
| Discord | `RoleChange` |

What is abstracted: `_find_own_device` reads the parts of the player's own PCs in one
step; the fingerprint's id covers parts that identify nobody (the CPU), so that equal
parts may or may not be an equal fingerprint; a PC's number is its age; an outdated
consent is a refusal that may always come; `ban_player` and `unban_player` are
sequences of single rows, and a ban with an end is one that somebody may drop; several
leases of one PC are one. Reports, notifications, codes and wording are left out. A key
or token is verified before the first step: it never changes whose PC it is.

`stood` and `fair` are history: what has spoken against a call in every state since it
began (a rejection, a ban, a missing approval, link or role, blocking findings; for an
approval, no hardware to ban, or hardware of others), and who has had the role on the
linked account ever since it was linked. `Against` states this over the tables, not over
what the call has read.

`Access` meets `Leases` in `Admit`, `Refuse` and `EndLease`: what `Leases` has as
`RefuseStart` and `RefuseHeartbeat`, which any gate may cause, is decided here, and what
becomes of the lease store call by store call is decided there. It meets `Login` in
`Confirm` and `LinkAccount`: which account may replace which is `Login`'s.

### `Enforcer.tla`: who is kicked for having no lease

`poll` is the local state of `LeaseEnforcer.poll()`: the list read, the players yet
to visit, the leases read, the player in hand. Every RCON command and store call
is an action, and between any two of them players join and leave, leases start
and end, bans come and go (`World`) and time passes (`Tick`).

| Code | Actions |
|---|---|
| `player_list()` | `ReadFails` (with `Alert`), `Read`: `ReadList`, or `ReadPart` where `_drain_all` returns an empty or shorter list without an exception |
| `list_active_sessions()` and lines 88-91 | `ReadLeases` (`NoteEmpty`, `Forget`, `Recent`) |
| the loop | `VisitLeased`, `VisitBare`, `CheckBan`, `EndPoll` |
| `_note_lists_without_ids` | `NoteEmpty`, `Warns` |
| `_kick` | `Kick`, `KickFails` (also when only the answer is lost), `KickIgnored` (no answer counts as sent, `rcon.py:76`, and the player stays) |
| `_run`'s `except`; a restart of the server | `Abort`, `Restart` |

A stored time is kept as its age, counted up to `Long`, beyond which no comparison
of the code can tell two ages apart. That keeps the state space finite without a
horizon, so that `NobodyStaysBare` is a statement about runs for ever. The order in
which the players of a poll are visited is free. The wording of the list and of the
alerts is left out. `held`, `cleared`, `blind` and `logged` are history variables:
`blind` counts the polls in a row that did not do their work, whichever way each of them
went wrong, and `logged` is what the log has said since the first of them. The list a
poll gets may name others than the players followed (`ids`), and others may hold a lease
(`open`). `emptyReplies` is counted up to one more than it is compared with.

`Enforcer` meets `Leases` in the `sessions` table only: its `active` is the set of
players with an Active lease, which any call of `Leases` may change at any time.

### `Launcher.tla`: one PC, its launchers and `agent.json`

`job[p]` is what launcher process `p` is doing; `file` is `agent.json`; `lease`, `key`
and `issued` are what the server knows. A request is one record: `Send` puts it on
the way, `Serve` is the server handling it at once, `Lose` and `Reject` are what the
network makes of it. A request whose sender is gone may still arrive (`stray`).

| Code | Actions |
|---|---|
| `RunAsync` up to the lease (`PlayCommand.cs:23-104`) | `Play` (reads the file), `Policy`, `NoPolicy`, `Send`, `Granted`, `Refused`, `Fail`, `Cancel` |
| `TryResumeAsync` | `Send`, `Resumed`, `NotResumed`, `Fail` |
| `HeartbeatLoopAsync` | `WaitOver`, `Send`, `Renewed`, `Ended`, `Retry`, `GiveUp`, `FailStopping`, `HandBack`, `HandedBack`, with `Forget` for the `finally` block |
| `HeldLease` | the fields `since` and `held` (`Hold`, `Remaining`) |
| `AgentState.Save` | `SaveOpen`, `SaveWrite`: the file is empty in between |
| `LoginCommand` | `Login`, `Send`, `Registered`, `Refused`, `Fail`, `Cancel` |
| `ShutdownSignals`, Ctrl+C | `Quit` (sets `stop`) |
| the process dies | `Crash` |
| server | `BeatAnswer`, `StartAnswer`, `EndAnswer`, `LoginAnswer`, `Expire` (the sweeper), `Revoke` (an admin) |

What is abstracted: scans take time and nothing else; the disclosure and the browser
are waits of any length; the consent version, the baseline and the launch of the game
are left out; there is one server and its tokens can be decrypted, so a saved lease
that cannot be used at all (`PlayCommand.cs:144`) does not occur. Times are ages,
capped where the code can no longer tell them apart. `loaded`, `handled`, `heard` and
`losses` are history fields.

`Launcher` sees of the server what `LeaseLifecycle` allows of one lease: a lease is
granted once, renewed while Active, and ends once. How the server gets there store call
by store call is `Leases`, which in turn lets launchers call whenever they like.

### `Dashboard.tla`: one browser tab over the admin API

`stored` is sessionStorage, `app` the state of `App` (the key, the key `config` was
loaded with, the check in flight), `route` the hash, `screen` the mounted component
with the state of its `useLoad` and `run`, and `db` the server's tables as far as the
screens show them. A request has a number; the screen remembers the number of the
load that counts (`latest.current`) and of the decision in progress.

| Code | Actions |
|---|---|
| `Login.tsx` (`submit`), `App.tsx` (`onSignedIn`) | `Submit`, `KeyAccepted`, `KeyRefused` |
| `App.tsx`, the effect on the key | `SetKey`, `ConfigLoaded`, `ConfigRefused`, `ConfigOutdated` |
| sign out; a 401 | `Leaves`; `LoadDenied` |
| `hashchange`, `Screen` | `Navigate`, `Mount`, `Leave` |
| the timer and the button; windows and filters | `Refresh`; `Choose` |
| `useLoad` (`ui.tsx`) | `Load`, `LoadShown`, `LoadFailed`, `LoadOutdated` |
| `run` of every tab | `Run`, `DecisionDone`, `DecisionFailed`, `Unheard` |
| the buttons and forms | `Ban`, `Unban`, `Watch`, `Note`, `RevokeAll`, `Unlink`, `GrantBypass`, `RemoveBypass`, `ReviewOnProfile`, `ReviewOnDevices`, `AddBan`, `DeleteBan`, `Prune` |
| `ReportDetail.tsx` (`showProcesses`) | `ShowProcesses`, `ListShown` |
| reloading the page | `ReloadPage` |
| the server | `Serve` (`require_admin`, `Possible`, `Outcome`), `ChangeKey`, `Elsewhere` |
| the network | `Lose` |

What is abstracted: the wording of forms, toasts and tables; `Overview`'s three requests
are one; a server handler is one step here (its store calls are the steps of `Leases`);
of the loads a closed screen leaves behind only the last can still act, with a 401
(`orphan`). `version` and `acked` are history: how often the tables changed, and where
they stood when the last decision was acknowledged.

`LatestView.tla` is the abstract specification of `useLoad`: a view shows some state the
server was really in, of the subject it was last turned to, and never an older one than
it showed before. `Dashboard` implements it with `Seen` for what is shown.

`Dashboard` meets `Leases` in the admin API: its `ban` and `revoke` are the calls
`BeginBan` and `BeginRevoke` of `Leases`, of which `Serve` keeps the outcome.

### Properties

| Property | Says |
|---|---|
| `BanFreezesLease` | while a ban stands, no Active lease of the player carries a heartbeat time later than the ban |
| `OneDropper` | of all paths that end a lease one at most drops its whitelist entry, and only once the lease is over |
| `LeaseLifecycleHolds` | refinement: one grant, one owner, one end per lease; a lease expires only after more than the grace period since its last heartbeat |
| `WhitelistedHasLease` | who is whitelisted has a lease, or is being taken off |
| `LeaseIsWhitelisted` | who has a lease is whitelisted, or is being put on (refuted) |
| `ExpiresUnheard` | a lease expires only when the grace period, less the longest a request may take, has passed since the latest answered heartbeat, although a late heartbeat overwrites a newer one |
| `EveryLeaseEnds`, `WhitelistDrains` | a lease whose launcher is gone ends; with all launchers gone the whitelist empties for good |
| `NeverTorn`, `FileMatchesTable`, `FileGoesForward` | the file is never half-written, never goes back to an older table, and is the table when nothing is in progress and the last rewrite succeeded |
| `GameMatchesUndisturbed` | the game server agrees with the table for every player whose last call ran alone and was not lost |
| `CallsReturn` | no failure leaves the file lock behind |
| `LinksOneToOne` | a Discord account is linked to one Steam ID at most, however redemptions interleave |
| `RedeemedIsProven` | a code redeems with success only a login Steam, and where required Discord, confirmed, although callbacks of one login overwrite each other's failure |
| `RelinkOnlyByOverlap` | a link is replaced without an admin only by a login that looked before the present link was made |
| `NothingStandsAgainst` | no lease is granted or renewed, and no new PC approved by itself, by a call against which something has stood all the time since it began |
| `RoleHolderPasses` | who linked an account with the role, and has kept it ever since, is never refused for the role, unless the link was made in the middle of a check |
| `RoleLossEndsLease` | once a player is without role or link for good, and no login confirmed earlier is left, leases end for good, whatever outages and heartbeats come |
| `HolderStays` | who has held a lease ever since the poll's `now` is not kicked for having none |
| `GraceIsGiven` | nobody is kicked for having no lease who is staff, or who was neither kicked in the rejoin window nor seen without a lease for a whole grace period |
| `AdminsKnow` | after `AlertAfter` failed reads in a row the last admins heard on Discord is that nobody is kicked; after `EmptyAfter` polls in a row that failed, broke off or got no Steam ID while a lease is open, in any order, the log has said so since the first of them |
| `NewOnlyIfOver` | while the lease on disk is alive, no error makes the launcher ask for another one |
| `HeldIsSaved` | the lease being played on, and the rest of the launcher's state, is what is on disk |
| `OneLossIsSurvived` | one lost heartbeat never costs the lease, however the periods and waits add up |
| `GivesUpLate` | the launcher gives up for want of answers only a whole grace period after the server last renewed |
| `HolderLearns` | who plays on a lease that is over stops in the end |
| `QuitHandsBack` | when a launcher that was told to stop is gone, its lease is over (refuted) |
| `NobodyStaysBare` | nobody but staff stays online for ever without a lease |
| `ShownIsAsked` | a settled screen shows the player, report or filter it was turned to last |
| `ShowsOwnDecisions` | once a decision is acknowledged and the screen has settled, what it shows includes it, whichever older answers come late |
| `ConfigIsOfKey` | when no check is in flight, the settings shown were loaded with the key in use, however sign-ins overlap |
| `ListWasLogged` | a process list on the screen is in the admin log |
| `EveryViewIsLogged` | ... as a list of the report shown above it (refuted) |
| `ShowsLatest` | refinement: out-of-order answers never take a screen back |
| `ScreenSettles` | a screen does not load for ever, and its buttons do not stay disabled |

## Runs

| Run | Instance | Shows |
|---|---|---|
| `leases_safety` | 1 player, 2 lease ids, 2 workers and the sweeper, all calls, `Grace` 1, calls until time 1, delays unbounded; 1.9 M states | the safety of leases under every interleaving, failure and delay |
| `leases_launcher` | 2 players, 2 lease ids, 2 workers, no admin and no failure, delays up to the grace period; 0.4 M states | the whitelist follows the leases; a late heartbeat costs a lease no more than it was late; liveness |
| `leases_rejoin` | as above, 1 player | violation: a rejoin races the end of the old lease |
| `leases_revoke` | 1 player, start and revoke only | violation: a revoke between `insert_session` and `grant` |
| `sync` | 2 players, 2 threads, 4 changes, 2 mishaps, both modes | the file and the game server follow the table |
| `login` | 2 logins, 3 codes, 2 Steam IDs, 2 Discord accounts, 2 threads, with and without Discord; 121 k states | links and redemptions under every interleaving, expiry and restart |
| `access` | 2 players, 3 PCs, 2 parts, 2 Discord accounts, 2 threads, all gates on; five scenes; 82 k states | registration and gates under every interleaving with admins, Discord and time; liveness |
| `enforcer` | 1 player, staff or not, `Grace` 2, `Window` 2, `AlertAfter` 2, `EmptyAfter` 3 (as in the code), polls up to 1 unit long, 3 mishaps; 478 k states | the kicks, and what admins hear, under every change of the world in the middle of a poll and every kind of reply; liveness |
| `launcher` | 1 process, 1 lease, 1 key, units of 7.5 s: `Grace` 10, `Heartbeat` 4, `RetryDelay` 1, `Timeout` 2, answers and scans up to 1, 3 mishaps; 146 k states | the launcher's protocol over crashes and a bad network; liveness |
| `launcher_quit` | the same, no mishap | violation: quitting while `session/start` is being answered leaves the lease behind |
| `dashboard` | 2 requests at a time; five parts of the dashboard, each with its keys, hashes and changes; 321 k states | what the screens show, over late, lost and refused answers, sign-ins and changes of the key; liveness |
| `dashboard_views` | the reports, 2 requests | violation: the process list of one report stays under the next |

Bounds. Two lease ids are what a race between an old and a new lease of one
player needs, and two workers with the sweeper give every pair of paths that can
race for one lease plus a third. `LastCall` bounds when the environment may call
and `Horizon = LastCall + Grace + 1` is the first time at which everything left
is stale, so the clock always reaches the end of every lease. `MaxDelay` bounds
how long a thread may be held up; in `leases_safety` it is larger than the run.
Times are in units of the clock: with `Grace = 1` "now", "one grace period ago"
and "more than that" are all distinct. Symmetry is used only where no liveness
property is checked.

`MaxDelay <= Grace` is used where a property would otherwise say that a request
may take longer than the 75 s grace period: the launcher gives up after 15 s.

In `login`, two logins and two threads give every race of two callbacks of one
login, of two redemptions, and of one login's callback with the other's
redemption; three codes let one login be given two and the other one. In `enforcer`
the players do not influence each other but through a poll that breaks off
(`Abort` covers it) and its length, so one is enough; `Grace` 2 and `Window` 2
tell "not yet", "just" and "past" apart, and three mishaps are two failed reads,
which is an alert, and one more failure, or a failed kick between two restarts. Empty
replies need no mishap (the player may be offline while a lease is open), so any mixture
of three polls without effect occurs.

In `access`, `scene` chooses one of five parts of the system (`AllScenes`), with the calls
each thread may make, the parts that PCs have and what admins and Discord may do
meanwhile: two threads registering the PCs of two players with any of two parts
(`Registering`: a review needs a PC of somebody else, a registration next to it, and a
third PC for what comes after); one PC through both gates with bans on the player, the PC
and its part (`Gating`); a PC signed in from again with other parts during a heartbeat
(`Rekeying`); a player who links, loses and changes between two accounts (`Linking`); the
same with a join and a heartbeat at once (`Overlapping`: two checks of one player that
write in any order). A ban, a role or a status matters to one player's calls only, so a
second player is needed where hardware is shared and nowhere else; an age of 0, 1 and 2 is
younger than a join, than a heartbeat accepts, and older.

In `launcher` the periods keep the proportions of the defaults (30 s, 75 s, 5 s, 15 s,
3 s, rounded up), with no slack left: a whole `Heartbeat`, the slowest scan, a full
`Timeout`, the `RetryDelay` and the slowest answer, before and after, add up to `Grace`
exactly. Three mishaps are two lost heartbeats and a crash, or a crash before a resume
that fails. One lease id is enough for what the properties say of a lease; a second
grant for the same player is the subject of `Leases`. `MaxStray` 1: one wandering
request next to the one in progress.

In `dashboard`, `bound` chooses one of five parts (`PartByPart`): signing in with two keys
over two screens; the profiles of two players; the players' list with its filter and the
bans; the devices and maintenance; the reports. A screen never has more than its load and
one decision that count, and a third request would be one more of those that do not; two
at a time give every race of an answer with a newer request. One change of the tables
besides what a click sends is enough to tell an old answer from a new one. `RevokeAll`
sends its two requests at once, so that one can fail after the other succeeded.

Deadlock is checked in every run. `Quiet` is the stutter of a server with nothing
left to do: every thread idle, nothing stale, no call left.

Fairness (`leases_launcher`): a thread that has taken a call goes on (a pool
thread never waits for another), the sweeper wakes up every interval
(`sweeper.py:43`) for as long as the process lives, and time passes. No launcher
or admin is ever obliged to call. In `sync`, a thread whose step is possible takes
it; waiting for `_file_lock` is the only wait. In `enforcer` the thread goes on and
wakes every interval for as long as the process lives, and time passes; nobody is
obliged to leave, to take a lease or to lose one, and failures are finitely many
(`MaxMishaps`): failed reads, polls that break off, `playerlist` replies that are empty
or cut off, kicks that count as sent and are ignored, and restarts. `NobodyStaysBare`
holds only so: a game server that does not answer or does not obey for ever is never
cleared, which is what "fails open" says. In `launcher`
the process goes on, the server answers, and time passes; failures are finitely many,
crashes among them, and nobody has to play, quit or sign in. In `dashboard` a request is
answered or fails in the end. For a decision that is weak fairness; for a load it is
strong, because every refresh starts another one: the timer's 15 s are far longer than an
answer takes, and an admin does not for ever press the button before it is there. In
`access` a call that was taken goes on, and time passes. Discord does not fail, and a call
does not break off, for ever at the same point (strong fairness of `Answered` and
`Record`): with Discord unreachable for good the last result counts for good, which is what
the code promises. A lease is heard to the end of a heartbeat again or it expires, which
`Leases` shows (`EveryLeaseEnds`). Nobody has to join, link or unlink.
`login` claims no liveness: nobody has to finish a login.

## What disagrees with its documentation

Each is a run above with its trace, and a finding in `PROJECT.json`.

1. `sessions.py:279`: the check for another lease and the removal are two store
   calls; a lease taken between them ends up off the whitelist.
2. `sessions.py:184`: the grant follows the insert; a revoke between the two
   leaves a whitelisted player without a lease, until a later lease of theirs ends or they
   are banned.
3. `PlayCommand.cs:118`: a player who quits while a lease is being granted or resumed
   leaves it Active until the grace period is over; only the heartbeat loop hands back.
4. `ReportDetail.tsx:10`: the list of processes is the component's state and stays when
   the hash moves to another report, where it is shown as that report's; no view of that
   report is logged, and its own list can no longer be asked for.

Known limits, which the passing properties bound:

* `store.py:224` writes the time a heartbeat read first, so that a late one overwrites a
  newer one; the lease then expires early by at most what the request took
  (`ExpiresUnheard`).
* `rcon.py:85-100`: a `playerlist` that is not answered, or not to its end, is an empty or
  shorter list to `enforcer.py:81-86` and not a failure. The counter of failed reads starts
  again, and after an alert admins hear on Discord that reading works again while nobody is
  kicked. `enforcer.py:129-131` names the case; what it promises is a line in the log after
  three such replies, and only while a lease is open (`AdminsKnow`). `kick` counts as sent
  in the same way (`rcon.py:76`), and a restart after an alert never takes it back.
* RCON commands of overlapping calls may be sent in another order than the table was
  changed; the game server agrees with the table again after the player's next call that
  runs alone (`GameMatchesUndisturbed`).
* `login/service.py:152`: the look-up of a Steam ID's link and the write are two store
  calls. Of two logins of one Steam ID with two Discord accounts that overlap there, the
  second replaces the link of the first, although line 144 says "Changing either side is
  an admin decision"; without such an overlap no link changes (`RelinkOnlyByOverlap`).
* `sessions.py:105`: two first registrations of shared hardware that overlap do not see
  each other, and both PCs are approved by themselves; hardware that was there when the
  registration began is always seen (`NothingStandsAgainst`).
* `login/discord_gate.py:53` writes Discord's answer by Steam ID. If an admin unlinked and
  the player linked another account while Discord was asked, the answer about the old
  account lands on the new link, until it is old enough to be asked about again. Who does
  not link in the middle of a check is not touched by this (`RoleHolderPasses`), and an
  account that does not have the role is found out in the end (`RoleLossEndsLease`).
* `app.py:408`: lifting a player's ban lifts every ban on a part of the player's PCs, also
  one that was placed for another player with the same part.
* `ui.tsx:189`: a 401 on a load that was sent with an older key signs out whoever has
  signed in since (`LoadDenied`); the admin signs in again.
* Approving and rejecting a device, and adding and deleting a single ban, write no row of
  `admin_actions`, although `app.py:225` says that every action that changes state does.
  `Dashboard` has them as decisions; the log, process lists apart, is not modelled.

## Proofs

`LeasesProofs.tla` proves for every value of the constants, from
`ConstantsAssumption` alone:

* `TypeCorrect`: `Spec => []TypeOK`, with `Basic`, which adds that a working
  thread's fields fit its step (`JobOK`: a thread past the insert has a lease of
  the player in hand, and so on) and that no heartbeat time lies in the future.
* `BanFreezes`: `Spec => []BanFreezesLease`. The property is not inductive: a
  thread past its ban gate will write its own time later. `BanInv` adds that such
  a thread carries a time no later than the ban it did not see.
* `SingleDropper`: `Spec => []OneDropper`; it is inductive over `Basic`: a thread
  becomes the dropper of a lease only by the update that ended it.
* `LeasesImplementLifecycle`: `Spec => LeaseLifecycleHolds`, step by step: every
  action is a lifecycle step or leaves `clock` and `lease` alone.
* `WhitelistFollowsLeases`: `Spec => []WhitelistedHasLease` under `LaunchersOnly`
  (no admin call, no failure, `MaxDelay <= Grace`). The inductive invariant adds
  that a thread never outlives the grace period of the time it carries
  (`JobTimely`), so that the lease between insert and grant cannot have expired,
  and that such a lease is Active.
* `ExpiryWaits`: `Spec => ExpiresUnheard`. `LagInv` bounds how far the row may lag behind
  the latest answer: a thread between its first read of the clock and its write is
  younger than `MaxDelay`, so what it writes is no older than that.
* `BannedGoStale`: a ban that has stood for the grace period leaves its player no lease
  but one the next sweep takes; it follows from `BanFreezesLease`.
* `RowsAreFinal`: `Spec => RowIsFinal`, by way of the refinement: no step of the abstract
  life cycle writes a row that is over, or gives a lease to somebody else.
* `SweepsAreThorough`, assuming `MaxDelay <= Grace`: a sweep that runs to its end, and is
  not broken off by an exception, leaves no Active lease that was overdue at its cutoff.
  The list it works through was read at the cutoff, and joins and heartbeats go on writing
  rows meanwhile: `SweepInv` says that what is overdue at the cutoff is still on the list,
  because a call writes a time no older than `MaxDelay`. With slower calls it is false. It
  is the safety half of `EveryLeaseEnds`; that a sweep runs to its end is fairness.
* `NobodyIsForgotten`, under `LaunchersOnly`: with no thread at work and no lease open,
  nobody is on the whitelist: the safety half of `WhitelistDrains`.

`WhitelistSyncProofs.tla`, for any players, threads, changes and failures:

* `FileNeverTorn`, `FileFollowsTable`, `FileNeverGoesBack`. None is inductive. `FileInv`
  adds `Locked` (who is inside the rewrite holds the lock, so there is one), `InOrder`
  (what the thread inside has listed is no older than the file) and `Followed` (if the
  table is newer than the file, some thread is still to list it, or a rewrite failed).
* `GameFollowsTable`, from `GameInv`: a call that runs alone still has in hand what it
  did to the table.
* `NobodyIsStuck`: while a call is in progress some thread can go on. `LockInUse`: the
  file lock is free, or with the one thread that is inside the rewrite. The safety half
  of `CallsReturn`.

`GameWhitelistProofs.tla` puts the two together:

* `BothTogether`: `GameSpec` implements `Leases` and `WhitelistSync`, so that whatever is
  proved of either holds of both. It needs to know that whoever is taken off is a player
  (`OwnerInv`: the owner of every lease, and of every call about to drop one).
* `GameFollowsLeases`, under `LaunchersOnly`: whom the game server lets in has a lease or
  is being taken off, in file mode once no rewrite is in progress and unless the last one
  failed, in rcon mode for each player with no command on its way whose last one was
  neither lost nor overtaken. From `WhitelistedHasLease` on the one side and
  `FileMatchesTable` and `GameMatchesUndisturbed` on the other; `LaunchersOnly` leaves
  out admins and crashes, but not rewrites and commands that fail.
* `GameIsClosed`, under `LaunchersOnly`: with no lease open and every call over, the game
  server lets nobody in, but for a change that did not reach it.

`LoginProofs.tla`, for any logins, codes, accounts and threads:

* `LinksAreOneToOne`: from the UNIQUE constraint; inductive over the typing.
* `RedeemedHasProof`. `ProvenInv` adds what every thread in a callback knows: its login
  has a Steam ID, and an account unless the callback is failing or Discord is not
  required; these fields are written once set only with other accounts, never cleared.
* `RelinkNeedsOverlap`: `SeenOK`, what a thread past `BySteam` has read.
* `CodesWorkOnce`: an action property no run checks. A redemption uses up the code it
  starts with, no redemption starts without one or for an expired login, and no second
  callback, sweep or restart brings a used code back or gives it to another login.

`AccessProofs.tla`, for any players, PCs, parts, accounts, threads and settings:

* `TypeCorrect`, with `JobsOK`: a call at a gate has in hand a PC and its owner, and no
  step of anybody gives a PC another owner (`OwnersStay`).
* `NothingStands`. What has stood against a call from its beginning is not a fact about
  one state, and the call has read only part of the tables. `MayStand` says, for every
  step, which reasons may still have stood all along, given what was read so far: a
  rejection no longer once a status other than "rejected" was read, a ban on a part only
  if the part is among those read, and so on, until nothing is left at `Admit`. A reason
  that is in `stood` at a step also holds at that step (`WatchKeeps`), which contradicts
  what the step reads; what others do can only take reasons away (`OthersStood`).
* `RoleHoldersPass`, from `FairOK`: on record the player is linked with the role, and every
  check in progress has the linked account in hand, or already the answer that it has it.

`EnforcerProofs.tla`, for any players, periods, delays and failures:

* `HoldersStay`: the leases the poll acts on include those held since it began.
* `GraceAlwaysGiven`. `GraceInv` relates the ages: the poll is younger than the last one
  that cleared a player, a time first seen is no older than that, and kicks past the
  window are forgotten before anyone is visited; who was found offline or with a lease
  has no time first seen when the visit is over.
* `AdminsAreTold`. `LogInv`: as long as the log is silent, every poll in a row that had no
  effect got an empty reply, and `_empty_replies` has counted them all, because a failed
  read and an exception are logged when they come first; and a read that failed has been
  logged for as long as `_failures` is not 0.

`LauncherProofs.tla`, for any number of launchers, leases and keys, any periods and failures:

* `TypeCorrect`, with `SentBySender`: only what has been sent can wander.
* `GivesUpCorrect`: the launcher's `_sinceRenewal` never exceeds the age of the answer
  that renewed, and it is all that `GiveUp` compares.
* `OneLossCorrect`, assuming `Margins`: an answer comes within the timeout, a report is
  still fresh when it is sent again, and `Latency + Heartbeat + MaxScan + Timeout +
  RetryDelay + Latency <= Grace` (with the defaults, a scan and two answers may take 25 s
  together). Not inductive: `Timely` bounds the age of every step and of the report,
  `Kept` bounds the lease's silence by where in the period the launcher is (`Late`),
  and says that what the server has just confirmed was renewed when it said so.
* `NewOnlyIfOverCorrect`, from `KnowInv`: what each launcher knows of the leases it has
  seen (`Informed`). Every one of them was handed out; who is on the way to asking for
  another lease has found the one on disk over, or found none; an answer that says so was
  true when it was given and stays true, because leases only go forward (`Onward`). It
  holds for any number of launchers at once.
* `LoopHandsBackCorrect`: `LoopHandsBack`, the part of the refuted `QuitHandsBack` that
  holds. As long as nothing has failed (`Untroubled`), who leaves the heartbeat loop
  leaves a lease that is over; only quitting *before* the loop leaves one behind.
* `HeldIsSavedCorrect`: `Spec /\ []OneAtATime => []HeldIsSaved`. `Stored` says for each
  step of a launcher whether what it has in memory is on disk. The assumption is about
  the behaviour, not about a constant: launchers may start, quit and crash one after
  another, but two do not run at the same time. It is needed: nothing in the code keeps
  a player from starting a second launcher, each saves all it has in memory, and of two
  side by side the last to save wins, so that the property is false there.

`DashboardProofs.tla`, for any keys, players, reports and filters and any number of requests:

* `TypeCorrect`, `ShownIsWhatWasAsked`, `OwnDecisionsShown`, `ConfigBelongsToKey`,
  `ListsAreLogged`, from one inductive invariant. `Sound`: requests are well formed, no
  two loads have one number, and a list on its way was logged; `KeyPart`: the check that
  counts is of the key in use, and so is the configuration; `ScreenPart`: the load that
  counts is of the subject the screen was turned to last, nothing shown is newer than the
  tables, and it includes the last acknowledged decision. It rests on `Fresh` numbers: an outdated answer is never
  mistaken for the one awaited.
* `DashboardShowsLatest`: `Spec => ShowsLatest`, step by step.

Every safety and action property and both refinements that a passing run checks are
proved, from the named assumptions on the constants, none of which holds of the runs'
small instances only. Model-checked only is what needs fairness, which is out of TLAPS's reach here:
`EveryLeaseEnds`, `WhitelistDrains` and `CallsReturn` (their safety halves are
`SweepsAreThorough`, `NobodyIsForgotten` and `NobodyIsStuck`),
`RoleLossEndsLease`, `NobodyStaysBare`, `HolderLearns`, `ScreenSettles`; and that the four
refuted properties fail.

## Not modelled yet, and the plan

In this order:

1. Two launchers on one PC: `Launcher` allows them (and the proofs cover them), a run
   with a `play` and a `login` at once would show what becomes of the device key when
   the one saves over the other, and what of the comment at `PlayCommand.cs:112-113`.
2. Pure algorithms against reference definitions, several in one run: the risk
   score, baseline diff, hash cache, policy reload, lenient parsers.
3. The composition of `Launcher` with `GameWhitelist`, for the whitelist as a player sees
   it, and of `Access` with `Leases`, with several leases of one PC.
4. A proof that what `Enforcer` and `Launcher` let the server do is what `Leases` does.

Left out for good: RCON framing, Discord notifications, HTTP plumbing, settings
parsing, SQL of the dashboard queries, the wording and layout of the web dashboard, and
what the scanners read from Windows: I/O and presentation with no protocol of their own.
