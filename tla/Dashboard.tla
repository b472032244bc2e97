------------------------------ MODULE Dashboard ------------------------------
(***************************************************************************)
(* The admins' web dashboard (src/dashboard) in one browser tab, over the  *)
(* admin API (app.py): signing in with the admin key, the screen that the  *)
(* hash names, what the screen loads (useLoad) and the decisions taken on  *)
(* it.  Requests overlap, and answers come late, in any order or never.    *)
(*                                                                         *)
(* A request is sent, served by the server at one moment, and answered at  *)
(* a later one.  How the server's own handlers interleave is the subject   *)
(* of Leases; here a handler is one step.                                  *)
(***************************************************************************)
EXTENDS Naturals, FiniteSets

CONSTANTS
    Key,          \* admin keys
    Player, Report, Device, Session,
    Owner,        \* whose device or session it is
    OldReport,    \* reports older than the days "prune" is given
    Start,        \* what the tables may hold at first
    Filter,       \* windows and filters of the lists
    None,
    MaxRequests,  \* bound: requests in flight
    Bound         \* bounds: what one behaviour may use of all this

VARIABLES
    secret,  \* the server's AdminKey
    db,      \* the server's tables, as far as the screens show them
    stored,  \* the key in sessionStorage
    app,     \* App: its key, the key config was loaded with, the check in flight
    route,   \* the hash
    screen,  \* the mounted screen
    reqs,    \* requests in flight, and answers that have not arrived
    bound    \* keys, hashes, numbers of requests and of changes: chosen at first, then fixed

vars == <<secret, db, stored, app, route, screen, reqs, bound>>

Lists == {"overview", "players", "reports", "devices", "bans", "actions", "maint"}
Filtered == {"players", "reports"}

\* players/<id> and reports/<id> name a subject, every other hash a list.
Route ==
    [at : Lists, id : {None}] \cup [at : {"profile"}, id : Player]
        \cup [at : {"report"}, id : Report]

Subject == {None} \cup Player \cup Report \cup Filter

DeviceStatus == {"pending", "approved", "rejected"}

Tables ==
    [bans : [Player -> Nat],          \* rows that ban the Steam ID
     watched : SUBSET Player, linked : SUBSET Player, exempt : SUBSET Player,
     playing : SUBSET Session,        \* active sessions
     status : [Device -> DeviceStatus],
     kept : SUBSET Report,
     views : SUBSET Report,           \* view-processes rows of admin_actions
     version : Nat]                   \* history: how often anything above changed

Decision ==
    [op : {"ban", "unban", "watch", "unwatch", "note", "unlink", "bypass", "unbypass",
           "addban", "delban"}, on : Player]
        \cup [op : {"approve", "reject"}, on : Device]
        \cup [op : {"revoke"}, on : Session]
        \cup [op : {"prune"}, on : {None}]

Number == 1 .. MaxRequests

Bounds == [keys : SUBSET Key, routes : SUBSET Route, requests : Number, changes : Nat]

ASSUME ConstantsAssumption ==
    /\ MaxRequests \in Nat \ {0}
    /\ None \notin Key \cup Player \cup Report \cup Filter \cup Lists \cup {"profile", "report"}
    /\ None \notin [of : Subject, is : Tables]
    /\ Report \cap (Player \cup Filter) = {}
    /\ Owner \in [Device \cup Session -> Player]
    /\ Bound \subseteq Bounds
    /\ Start \subseteq Tables
    /\ \A d \in Start : d.version = 0

Answers == {"ok", "denied", "failed"}

\* by: which code sent it.  "orphan" is the last load of a screen that is gone.
Request ==
    [no : Number, by : {"login", "config", "load", "orphan", "list", "write"}, key : Key,
     about : Subject \cup Decision, st : {"sent"} \cup Answers, got : {None} \cup Tables]

Closed ==
    [at |-> None, on |-> None, data |-> None, error |-> FALSE, loading |-> FALSE,
     last |-> 0,      \* latest.current
     run |-> 0,       \* the run() in progress (busy), 0 for none
     list |-> None,   \* processes: whose list it is
     acked |-> 0]     \* history: version when the last decision was acknowledged

Screen ==
    [at : {None, "profile", "report"} \cup Lists, on : Subject,
     data : {None} \cup [of : Subject, is : Tables],
     error : BOOLEAN, loading : BOOLEAN, last : 0 .. MaxRequests, run : 0 .. MaxRequests,
     list : {None} \cup Report, acked : Nat]

SignedOut == [key |-> None, config |-> None, check |-> 0]

TypeOK ==
    /\ secret \in Key
    /\ db \in Tables
    /\ stored \in Key \cup {None}
    /\ app \in [key : Key \cup {None}, config : Key \cup {None}, check : 0 .. MaxRequests]
    /\ route \in Route
    /\ screen \in Screen
    /\ reqs \subseteq Request
    /\ bound \in Bounds
-----------------------------------------------------------------------------
(* Requests *)

Free(rs) == {n \in 1 .. bound.requests : \A r \in rs : r.no # n}

\* Nobody in flight is mistaken for the new request.
Fresh(rs) == CHOOSE n \in Free(rs) : TRUE

\* api(): the key is read from sessionStorage when the call is made.
Send(n, by, key, about) ==
    [no |-> n, by |-> by, key |-> key, about |-> about, st |-> "sent", got |-> None]

\* useLoad's effect: the load that counts from now on.
Load(s, n, on) == [s EXCEPT !.on = on, !.last = n, !.loading = TRUE]

\* A screen that goes leaves its requests behind; of its loads only the last could still act.
Leave(rs) ==
    {[r EXCEPT !.by = IF r.by = "load" THEN "orphan" ELSE r.by] :
        r \in {x \in rs : x.by = "load" => x.no = screen.last}}

\* A new component starts with useState's initial values and its first load.
Mount(rt, rs) ==
    LET n == Fresh(rs)
    IN  /\ Free(rs) # {}
        /\ screen' = Load([Closed EXCEPT !.at = rt.at], n, rt.id)
        /\ reqs' = rs \cup {Send(n, "load", stored, rt.id)}

Displayed == screen.at # None /\ screen.data # None /\ ~screen.error
-----------------------------------------------------------------------------
(* The admin key: Login.tsx, App.tsx *)

\* setKey: the effect on [key] checks a new key, and forgets the check of the old one.
SetKey(k, rs) ==
    IF k = app.key
    THEN /\ reqs' = rs
         /\ UNCHANGED app
    ELSE /\ Free(rs) # {}
         /\ reqs' = rs \cup {Send(Fresh(rs), "config", k, None)}
         /\ app' = [app EXCEPT !.key = k, !.check = Fresh(rs)]

\* signOut: also what a 401 on a load and a failed check of the key do.
SignOut(rs) ==
    /\ stored' = None
    /\ app' = SignedOut
    /\ screen' = Closed
    /\ reqs' = Leave(rs)
    /\ UNCHANGED <<bound, secret, db, route>>

\* Enter submits whatever is typed, also while an earlier submit is being answered.
Submit(k) ==
    /\ screen.at = None
    /\ Free(reqs) # {}
    /\ reqs' = reqs \cup {Send(Fresh(reqs), "login", k, None)}
    /\ UNCHANGED <<bound, secret, db, stored, app, route, screen>>

\* onSignedIn, even when Login is no longer on the page.
KeyAccepted(r) ==
    /\ r.by = "login" /\ r.st = "ok"
    /\ stored' = r.key
    /\ SetKey(r.key, reqs \ {r})
    /\ UNCHANGED <<bound, secret, db, route, screen>>

KeyRefused(r) ==
    /\ r.by = "login" /\ r.st \in Answers \ {"ok"}
    /\ reqs' = reqs \ {r}
    /\ UNCHANGED <<bound, secret, db, stored, app, route, screen>>

\* Mutant: without alive.
ConfigLoaded_Outdated(r) ==
    /\ r.by = "config" /\ r.st = "ok"
    /\ app' = [app EXCEPT !.config = r.key, !.check = 0]
    /\ IF screen.at = None
       THEN Mount(route, reqs \ {r})
       ELSE reqs' = reqs \ {r} /\ UNCHANGED screen
    /\ UNCHANGED <<bound, secret, db, stored, route>>

ConfigLoaded(r) ==
    /\ r.by = "config" /\ r.no = app.check /\ r.st = "ok"
    /\ app' = [app EXCEPT !.config = r.key, !.check = 0]
    /\ IF screen.at = None
       THEN Mount(route, reqs \ {r})
       ELSE reqs' = reqs \ {r} /\ UNCHANGED screen
    /\ UNCHANGED <<bound, secret, db, stored, route>>

ConfigRefused(r) ==
    /\ r.by = "config" /\ r.no = app.check /\ r.st \in Answers \ {"ok"}
    /\ SignOut(reqs \ {r})

\* alive is false: the key has changed since.
ConfigOutdated(r) ==
    /\ r.by = "config" /\ r.no # app.check /\ r.st \in Answers
    /\ reqs' = reqs \ {r}
    /\ UNCHANGED <<bound, secret, db, stored, app, route, screen>>

Leaves ==
    /\ screen.at # None
    /\ SignOut(reqs)

\* The tab is reloaded: only sessionStorage, the hash and what is on its way survive.
ReloadPage ==
    LET sent == {r \in reqs : r.by \in {"list", "write"}}
        n == Fresh(sent)
    IN  /\ stored # None => Free(sent) # {}
        /\ app' = [key |-> stored, config |-> None, check |-> IF stored = None THEN 0 ELSE n]
        /\ screen' = Closed
        /\ reqs' = IF stored = None THEN sent ELSE sent \cup {Send(n, "config", stored, None)}
        /\ UNCHANGED <<bound, secret, db, stored, route>>
-----------------------------------------------------------------------------
(* Routes and loads: App.tsx, ui.tsx *)

Reload(on, rs, s) ==
    /\ Free(rs) # {}
    /\ screen' = Load(s, Fresh(rs), on)
    /\ reqs' = rs \cup {Send(Fresh(rs), "load", stored, on)}

\* hashchange: the same component keeps its state and loads when its id changed;
\* another component starts anew.
Navigate(rt) ==
    /\ rt # route
    /\ route' = rt
    /\ \/ screen.at = None /\ UNCHANGED <<screen, reqs>>
       \/ screen.at = rt.at /\ Reload(rt.id, reqs, screen)
       \/ screen.at \notin {None, rt.at} /\ Mount(rt, Leave(reqs))
    /\ UNCHANGED <<bound, secret, db, stored, app>>

\* refreshToken: the button, and the timer every 15 s.
Refresh ==
    /\ screen.at # None
    /\ Reload(screen.on, reqs, screen)
    /\ UNCHANGED <<bound, secret, db, stored, app, route>>

\* Another window on Players, other filters applied on Reports.
Choose(f) ==
    /\ screen.at \in Filtered
    /\ f # screen.on
    /\ Reload(f, reqs, screen)
    /\ UNCHANGED <<bound, secret, db, stored, app, route>>

\* Mutant: answers of outdated calls count too.
Counts_AnyLoad(r) == r.by = "load"

Counts(r) == r.by = "load" /\ r.no = screen.last

\* Mutant: api() does not look at response.ok.
LoadShown_NotOk(r) ==
    /\ Counts(r) /\ r.st \in {"ok", "failed"}
    /\ screen' = [screen EXCEPT !.data = [of |-> r.about, is |-> r.got],
                                !.error = FALSE, !.loading = FALSE]
    /\ reqs' = reqs \ {r}
    /\ UNCHANGED <<bound, secret, db, stored, app, route>>

LoadShown(r) ==
    /\ Counts(r) /\ r.st = "ok"
    /\ screen' = [screen EXCEPT !.data = [of |-> r.about, is |-> r.got],
                                !.error = FALSE, !.loading = FALSE]
    /\ reqs' = reqs \ {r}
    /\ UNCHANGED <<bound, secret, db, stored, app, route>>

LoadFailed(r) ==
    /\ Counts(r) /\ r.st = "failed"
    /\ screen' = [screen EXCEPT !.error = TRUE, !.loading = FALSE]
    /\ reqs' = reqs \ {r}
    /\ UNCHANGED <<bound, secret, db, stored, app, route>>

\* onUnauthorized; nothing cancels it when the screen is gone.
LoadDenied(r) ==
    /\ Counts(r) \/ r.by = "orphan"
    /\ r.st = "denied"
    /\ SignOut(reqs \ {r})

LoadOutdated(r) ==
    /\ \/ r.by = "load" /\ r.no # screen.last /\ r.st \in Answers
       \/ r.by = "orphan" /\ r.st \in Answers \ {"denied"}
    /\ reqs' = reqs \ {r}
    /\ UNCHANGED <<bound, secret, db, stored, app, route, screen>>
-----------------------------------------------------------------------------
(* Decisions: the tabs *)

\* Bound: the tables change, or are about to, no more often than this and the parts of one click.
Budget ==
    db.version + Cardinality({r \in reqs : r.by = "write" /\ r.st = "sent"}) < bound.changes

\* run(): one decision at a time on a screen; the buttons are disabled meanwhile.
Run(by, what) ==
    LET n == Fresh(reqs)
    IN  /\ screen.run = 0
        /\ Free(reqs) # {}
        /\ by = "write" => Budget
        /\ screen' = [screen EXCEPT !.run = n]
        /\ reqs' = reqs \cup {Send(n, by, stored, x) : x \in what}
        /\ UNCHANGED <<bound, secret, db, stored, app, route>>

Decide(op, x) == Run("write", {[op |-> op, on |-> x]})

\* The profile's buttons show what was loaded last and act on the player the hash names.
Profile == screen.at = "profile" /\ Displayed
Shown == screen.data.is
ShownOf == screen.data.of

Ban == Profile /\ Decide("ban", screen.on)

Unban ==
    /\ Profile /\ Shown.bans[ShownOf] > 0
    /\ Decide("unban", screen.on)

Watch == Profile /\ Decide(IF ShownOf \in Shown.watched THEN "unwatch" ELSE "watch", screen.on)

Note == Profile /\ Decide("note", screen.on)

\* Promise.all over the sessions shown.
RevokeAll ==
    LET active == {s \in Shown.playing : Owner[s] = ShownOf}
    IN  /\ Profile /\ active # {}
        /\ Run("write", {[op |-> "revoke", on |-> s] : s \in active})

Unlink ==
    /\ Profile /\ ShownOf \in Shown.linked
    /\ Decide("unlink", screen.on)

GrantBypass == Profile /\ Decide("bypass", screen.on)

RemoveBypass ==
    /\ Profile /\ ShownOf \in Shown.exempt
    /\ Decide("unbypass", screen.on)

ReviewOnProfile(d, op) ==
    /\ Profile /\ Owner[d] = ShownOf /\ Shown.status[d] = "pending"
    /\ Decide(op, d)

ReviewOnDevices(d, op) ==
    /\ screen.at = "devices" /\ Displayed
    /\ Shown.status[d] # [approve |-> "approved", reject |-> "rejected"][op]
    /\ Decide(op, d)

\* The form is there even when the list is not.
AddBan(p) == screen.at = "bans" /\ Decide("addban", p)

DeleteBan(p) ==
    /\ screen.at = "bans" /\ Displayed /\ Shown.bans[p] > 0
    /\ Decide("delban", p)

Prune == screen.at = "maint" /\ Decide("prune", None)

\* showProcesses: asks for the report the hash names.
ShowProcesses ==
    /\ screen.at = "report" /\ Displayed /\ screen.list = None
    /\ Run("list", {screen.on})

Ours(r) == r.by \in {"write", "list"} /\ r.no = screen.run

\* Mutant: run() does not reload.
DecisionDone_NoReload(r) ==
    /\ Ours(r) /\ r.by = "write" /\ r.st = "ok"
    /\ reqs' = reqs \ {r}
    /\ screen' = [screen EXCEPT !.run = 0, !.acked = db.version]
    /\ UNCHANGED <<bound, secret, db, stored, app, route>>

DecisionDone(r) ==
    /\ Ours(r) /\ r.by = "write" /\ r.st = "ok"
    /\ LET rest == reqs \ {r}
       IN  IF \E x \in rest : Ours(x)
           THEN reqs' = rest /\ UNCHANGED screen
           ELSE Reload(screen.on, rest,
                       [screen EXCEPT !.run = 0, !.acked = db.version])
    /\ UNCHANGED <<bound, secret, db, stored, app, route>>

\* Mutant: setBusy(false) only after success.
DecisionFailed_StaysBusy(r) ==
    /\ Ours(r) /\ r.by = "write" /\ r.st \in Answers \ {"ok"}
    /\ reqs' = reqs \ {r}
    /\ UNCHANGED <<bound, secret, db, stored, app, route, screen>>

\* The first failure ends run() with a toast, a 401 like any other; nothing is loaded again.
DecisionFailed(r) ==
    /\ Ours(r) /\ r.by = "write" /\ r.st \in Answers \ {"ok"}
    /\ screen' = [screen EXCEPT !.run = 0]
    /\ reqs' = reqs \ {r}
    /\ UNCHANGED <<bound, secret, db, stored, app, route>>

\* Mutant: api() does not look at response.ok.
ListShown_NotOk(r) ==
    /\ Ours(r) /\ r.by = "list" /\ r.st \in Answers
    /\ screen' = [screen EXCEPT !.run = 0, !.list = r.about]
    /\ reqs' = reqs \ {r}
    /\ UNCHANGED <<bound, secret, db, stored, app, route>>

ListShown(r) ==
    /\ Ours(r) /\ r.by = "list" /\ r.st \in Answers
    /\ screen' = [screen EXCEPT !.run = 0, !.list = IF r.st = "ok" THEN r.about ELSE @]
    /\ reqs' = reqs \ {r}
    /\ UNCHANGED <<bound, secret, db, stored, app, route>>

\* The screen is gone, or Promise.all has failed already.
Unheard(r) ==
    /\ r.by \in {"write", "list"} /\ r.no # screen.run /\ r.st \in Answers
    /\ reqs' = reqs \ {r}
    /\ UNCHANGED <<bound, secret, db, stored, app, route, screen>>
-----------------------------------------------------------------------------
(* The server: app.py *)

\* 404 and 400 answers.
Possible(w, d) ==
    CASE w.op = "unlink" -> w.on \in d.linked
      [] w.op = "unbypass" -> w.on \in d.exempt
      [] w.op = "revoke" -> w.on \in d.playing
      [] w.op = "delban" -> d.bans[w.on] > 0
      [] OTHER -> TRUE

Outcome(w, d) ==
    CASE w.op = "ban" -> [d EXCEPT !.bans[w.on] = @ + 1,
                                   !.playing = {s \in @ : Owner[s] # w.on}]
      [] w.op = "addban" -> [d EXCEPT !.bans[w.on] = @ + 1]
      [] w.op = "unban" -> [d EXCEPT !.bans[w.on] = 0]
      [] w.op = "delban" -> [d EXCEPT !.bans[w.on] = @ - 1]
      [] w.op = "watch" -> [d EXCEPT !.watched = @ \cup {w.on}]
      [] w.op = "unwatch" -> [d EXCEPT !.watched = @ \ {w.on}]
      [] w.op = "note" -> d
      [] w.op = "unlink" -> [d EXCEPT !.linked = @ \ {w.on}]
      [] w.op = "bypass" -> [d EXCEPT !.exempt = @ \cup {w.on}]
      [] w.op = "unbypass" -> [d EXCEPT !.exempt = @ \ {w.on}]
      [] w.op = "approve" -> [d EXCEPT !.status[w.on] = "approved"]
      [] w.op = "reject" -> [d EXCEPT !.status[w.on] = "rejected"]
      [] w.op = "revoke" -> [d EXCEPT !.playing = @ \ {w.on}]
      [] w.op = "prune" -> [d EXCEPT !.kept = @ \ OldReport]

\* require_admin, then the handler; a key is compared with the one the server has now.
Serve(r) ==
    LET Answer(st, got) == reqs' = (reqs \ {r}) \cup {[r EXCEPT !.st = st, !.got = got]}
        right == r.key = secret
        there == r.about \in Report => r.about \in db.kept
    IN  /\ r.st = "sent"
        /\ \/ ~right /\ Answer("denied", None) /\ UNCHANGED db
           \/ /\ right /\ r.by \in {"login", "config"}
              /\ Answer("ok", None) /\ UNCHANGED db
           \/ /\ right /\ r.by \in {"load", "orphan"}
              /\ IF there THEN Answer("ok", db) ELSE Answer("failed", None)
              /\ UNCHANGED db
           \/ /\ right /\ r.by = "list"
              /\ IF there THEN Answer("ok", None) ELSE Answer("failed", None)
              /\ db' = IF there THEN [db EXCEPT !.views = @ \cup {r.about}] ELSE db
           \/ /\ right /\ r.by = "write"
              /\ IF Possible(r.about, db)
                 THEN /\ Answer("ok", None)
                      /\ db' = [Outcome(r.about, db) EXCEPT !.version = @ + 1]
                 ELSE Answer("failed", None) /\ UNCHANGED db
        /\ UNCHANGED <<bound, secret, stored, app, route, screen>>

\* The request or its answer is lost, or the server fails.
Lose(r) ==
    /\ r.st # "failed"
    /\ reqs' = (reqs \ {r}) \cup {[r EXCEPT !.st = "failed", !.got = None]}
    /\ UNCHANGED <<bound, secret, db, stored, app, route, screen>>

\* The server is started again with another AdminKey.
ChangeKey(k) ==
    /\ secret' = k
    /\ UNCHANGED <<bound, db, stored, app, route, screen, reqs>>

\* What other admins and the launchers change: leases come and go.
Elsewhere ==
    /\ Budget
    /\ \E s \in Session :
         db' = [db EXCEPT !.playing = IF s \in @ THEN @ \ {s} ELSE @ \cup {s},
                          !.version = @ + 1]
    /\ UNCHANGED <<bound, secret, stored, app, route, screen, reqs>>
-----------------------------------------------------------------------------
Init ==
    /\ bound \in Bound
    /\ secret \in bound.keys
    /\ db \in Start
    /\ stored \in bound.keys \cup {None}
    /\ route \in bound.routes
    /\ screen = Closed
    /\ app = [key |-> stored, config |-> None, check |-> IF stored = None THEN 0 ELSE Fresh({})]
    /\ reqs = IF stored = None THEN {} ELSE {Send(Fresh({}), "config", stored, None)}

Arrive(r) ==
    \/ KeyAccepted(r) \/ KeyRefused(r)
    \/ ConfigLoaded(r) \/ ConfigRefused(r) \/ ConfigOutdated(r)
    \/ LoadShown(r) \/ LoadFailed(r) \/ LoadDenied(r) \/ LoadOutdated(r)
    \/ DecisionDone(r) \/ DecisionFailed(r) \/ ListShown(r) \/ Unheard(r)

Admin ==
    \/ \E k \in bound.keys : Submit(k)
    \/ Leaves \/ ReloadPage \/ Refresh
    \/ \E rt \in bound.routes : Navigate(rt)
    \/ \E f \in Filter \cup {None} : Choose(f)
    \/ Ban \/ Unban \/ Watch \/ Note \/ RevokeAll \/ Unlink \/ GrantBypass \/ RemoveBypass
    \/ \E d \in Device, op \in {"approve", "reject"} :
          ReviewOnProfile(d, op) \/ ReviewOnDevices(d, op)
    \/ \E p \in Player : AddBan(p) \/ DeleteBan(p)
    \/ Prune \/ ShowProcesses

Next ==
    \/ Admin
    \/ \E r \in reqs : Serve(r) \/ Lose(r) \/ Arrive(r)
    \/ \E k \in bound.keys : ChangeKey(k)
    \/ Elsewhere

Settle(r) == Serve(r) \/ Arrive(r)

\* A decision is answered or fails in the end; so does the load that counts, and the admin, or
\* the 15 s timer, does not for ever ask again before its answer is there.
Fairness ==
    /\ WF_vars(\E r \in reqs : Ours(r) /\ Settle(r))
    /\ SF_vars(\E r \in reqs : Counts(r) /\ r.st = "sent" /\ Settle(r))
    /\ SF_vars(\E r \in reqs : Counts(r) /\ r.st # "sent" /\ Settle(r))

Spec == Init /\ [][Next]_vars /\ Fairness
-----------------------------------------------------------------------------
(* Properties *)

\* What a screen shows is of the player, report or filter it was turned to, unless an answer
\* is still awaited or the last one was an error (useLoad keeps the old data meanwhile).
ShownIsAsked ==
    screen.at # None /\ ~screen.loading /\ ~screen.error =>
        screen.data # None /\ screen.data.of = screen.on

\* After a decision was acknowledged and the screen has settled, what it shows includes the
\* decision (run() loads after the write, and answers to older loads are dropped).
ShowsOwnDecisions ==
    screen.at # None /\ ~screen.loading /\ ~screen.error =>
        screen.data.is.version >= screen.acked

\* The key every request carries is App's key, and once a check is over config was loaded
\* with that key, however sign-ins and checks overlap (App.tsx, alive).
ConfigIsOfKey ==
    /\ stored = app.key
    /\ app.check = 0 => app.config = app.key
    /\ screen.at # None <=> app.config # None

\* A process list is on the screen only after its viewing was written to the admin log.
ListWasLogged == screen.list # None => screen.list \in db.views

\* Every process list shown under a report was logged as a view of that report
\* (docs/REFERENCE.md:729-730; refuted: the list stays when the hash moves to another report).
EveryViewIsLogged ==
    screen.at = "report" /\ Displayed /\ screen.list # None => ShownOf \in db.views

Seen ==
    [of |-> IF screen.data = None THEN None ELSE ShownOf,
     at |-> IF screen.data = None THEN 0 ELSE Shown.version]

View == INSTANCE LatestView WITH
    Nothing <- None, version <- db.version, subject <- screen.on, shown <- Seen

\* useLoad implements LatestView: out-of-order answers never take a screen back.
ShowsLatest == View!Spec

\* Loading ends, and so does a decision: no screen spins or stays disabled for ever.
ScreenSettles ==
    /\ screen.loading ~> ~screen.loading
    /\ screen.run # 0 ~> screen.run = 0
=============================================================================
