-------------------------- MODULE DashboardProofs --------------------------
(***************************************************************************)
(* What holds of the dashboard for every number of keys, players, reports, *)
(* devices and requests: its types, the safety invariants of Dashboard,    *)
(* and that useLoad implements LatestView.                                 *)
(*                                                                         *)
(* The argument: a new request's number is nobody else's in flight, so     *)
(* what a number stands for (the load that counts, the check of the key)   *)
(* is one request, sent after everything the screen shows or has           *)
(* acknowledged, and served later still.                                   *)
(***************************************************************************)
EXTENDS Dashboard, TLAPS

Formed(r) ==
    /\ r \in Request
    /\ r.by = "write" => r.about \in Decision
    /\ r.by = "list" => r.about \in Report
    /\ r.by \in {"load", "orphan"} /\ r.st = "ok" => r.got \in Tables

OneLoad(rs) ==
    \A a, b \in rs : a.by = "load" /\ b.by = "load" /\ a.no = b.no => a = b

\* Requests in flight are well formed, and a list that is on its way was logged.
Sound(rs, views) ==
    /\ \A r \in rs : Formed(r)
    /\ OneLoad(rs)
    /\ \A r \in rs : r.by = "list" /\ r.st = "ok" => r.about \in views

ScreenOfRoute ==
    /\ screen.at = "profile" => screen.on \in Player
    /\ screen.at = "report" => screen.on \in Report
    /\ screen.at = None => screen.run = 0

CheckOfKey ==
    /\ \A r \in reqs : r.by = "config" /\ r.no = app.check => r.key = app.key
    /\ app.check # 0 => app.key # None

LoadOfScreen ==
    \A r \in reqs : Counts(r) =>
        /\ r.about = screen.on
        /\ r.st = "ok" =>
              /\ screen.acked <= r.got.version
              /\ screen.data # None => screen.data.is.version <= r.got.version
              /\ r.got.version <= db.version

NotAhead ==
    /\ screen.acked <= db.version
    /\ screen.data # None => screen.data.is.version <= db.version

KeyPart == CheckOfKey /\ ConfigIsOfKey

ScreenPart ==
    /\ ScreenOfRoute
    /\ LoadOfScreen
    /\ NotAhead
    /\ ShownIsAsked
    /\ ShowsOwnDecisions
    /\ ListWasLogged

Inv == TypeOK /\ Sound(reqs, db.views) /\ KeyPart /\ ScreenPart
-----------------------------------------------------------------------------
(* Requests *)

\* A number that is taken from the free ones is in range, and nobody else's.
LEMMA FreshIsFree ==
    ASSUME bound \in Bounds, NEW rs, Free(rs) # {}
    PROVE  /\ Fresh(rs) \in Number
           /\ Fresh(rs) # 0
           /\ \A r \in rs : r.no # Fresh(rs)
<1>1. Fresh(rs) \in Free(rs)
  BY Zenon DEF Fresh
<1>2. bound.requests \in 1 .. MaxRequests
  BY DEF Bounds, Number
<1> QED
  BY <1>1, <1>2, ConstantsAssumption DEF Free, Number

LEMMA SentIsFormed ==
    ASSUME NEW n \in Number, NEW by \in {"login", "config", "load", "list", "write"},
           NEW k \in Key, NEW x \in Subject \cup Decision,
           by = "write" => x \in Decision, by = "list" => x \in Report
    PROVE  /\ Formed(Send(n, by, k, x))
           /\ Send(n, by, k, x).st = "sent"
BY DEF Formed, Send, Request

\* Fewer requests, and more that is logged.
LEMMA SoundSubset ==
    ASSUME NEW rs, NEW ss, NEW v, NEW w, Sound(ss, v), rs \subseteq ss, v \subseteq w
    PROVE  Sound(rs, w)
BY DEF Sound, OneLoad

\* One more request, under a number of its own.
LEMMA SoundSend ==
    ASSUME NEW rs, NEW v, Sound(rs, v), NEW n \in Number, \A r \in rs : r.no # n,
           NEW by \in {"login", "config", "load"}, NEW k \in Key, NEW x \in Subject
    PROVE  Sound(rs \cup {Send(n, by, k, x)}, v)
<1> DEFINE q == Send(n, by, k, x)
<1>1. Formed(q) /\ q.st = "sent" /\ q.no = n
  BY SentIsFormed DEF Send
<1> HIDE DEF q
<1>2. \A r \in rs \cup {q} : Formed(r)
  BY <1>1 DEF Sound
<1>3. OneLoad(rs \cup {q})
  BY <1>1 DEF Sound, OneLoad
<1>4. \A r \in rs \cup {q} : r.by = "list" /\ r.st = "ok" => r.about \in v
  BY <1>1 DEF Sound
<1> QED
  BY <1>2, <1>3, <1>4 DEF Sound, q

\* The requests of one click, under one number.
LEMMA SoundRun ==
    ASSUME NEW rs, NEW v, Sound(rs, v), NEW n \in Number,
           NEW by \in {"list", "write"}, NEW k \in Key, NEW what,
           IF by = "write" THEN what \subseteq Decision ELSE what \subseteq Report
    PROVE  Sound(rs \cup {Send(n, by, k, x) : x \in what}, v)
<1>1. \A q \in {Send(n, by, k, x) : x \in what} :
         Formed(q) /\ q.st = "sent" /\ q.by = by
  BY SentIsFormed DEF Send, Subject
<1> QED
  BY <1>1 DEF Sound, OneLoad

\* What a screen leaves behind is sound and holds no load.
LEMMA SoundLeave ==
    ASSUME NEW rs, NEW v, Sound(rs, v)
    PROVE  /\ Sound(Leave(rs), v)
           /\ \A q \in Leave(rs) : q.by # "load"
           /\ \A q \in Leave(rs) : q.by \notin {"load", "orphan"} => q \in rs
<1>1. ASSUME NEW q \in Leave(rs)
      PROVE  /\ Formed(q) /\ q.by # "load"
             /\ q.by \notin {"load", "orphan"} => q \in rs
             /\ q.by = "list" /\ q.st = "ok" => q.about \in v
  <2>1. PICK r \in rs : q = [r EXCEPT !.by = IF r.by = "load" THEN "orphan" ELSE r.by]
    BY DEF Leave
  <2>2. Formed(r) /\ (r.by = "list" /\ r.st = "ok" => r.about \in v)
    BY DEF Sound
  <2>3. CASE r.by = "load"
    BY <2>1, <2>2, <2>3 DEF Formed, Request
  <2>4. CASE r.by # "load"
    <3>1. q = r
      BY <2>1, <2>2, <2>4 DEF Formed, Request
    <3> QED
      BY <3>1, <2>2, <2>4
  <2> QED
    BY <2>3, <2>4
<1> QED
  BY <1>1 DEF Sound, OneLoad

\* One request changes its state: it is served, answered or lost.
LEMMA SoundAnswer ==
    ASSUME NEW rs, NEW v, NEW w, Sound(rs, v), v \subseteq w, NEW r \in rs,
           NEW st \in {"ok", "denied", "failed"}, NEW got \in {None} \cup Tables,
           st = "ok" /\ r.by \in {"load", "orphan"} => got \in Tables,
           st = "ok" /\ r.by = "list" => r.about \in w
    PROVE  Sound((rs \ {r}) \cup {[r EXCEPT !.st = st, !.got = got]}, w)
<1> DEFINE q == [r EXCEPT !.st = st, !.got = got]
<1>1. Formed(r)
  BY DEF Sound
<1>2. /\ Formed(q) /\ q.no = r.no /\ q.by = r.by /\ q.about = r.about /\ q.st = st
  BY <1>1 DEF Formed, Request, Answers
<1> HIDE DEF q
<1>3. \A x \in (rs \ {r}) \cup {q} : Formed(x)
  BY <1>2 DEF Sound
<1>4. OneLoad((rs \ {r}) \cup {q})
  BY <1>2 DEF Sound, OneLoad
<1>5. \A x \in (rs \ {r}) \cup {q} : x.by = "list" /\ x.st = "ok" => x.about \in w
  BY <1>2 DEF Sound
<1> QED
  BY <1>3, <1>4, <1>5 DEF Sound, q
-----------------------------------------------------------------------------
(* The screen and the key *)

LEMMA SoundType ==
    ASSUME NEW rs, NEW v, Sound(rs, v)
    PROVE  rs \subseteq Request
BY DEF Sound, Formed

LEMMA ClosedType ==
    /\ Closed \in Screen
    /\ Closed.at = None /\ Closed.data = None /\ Closed.list = None
    /\ Closed.last = 0 /\ Closed.acked = 0 /\ Closed.run = 0
BY ConstantsAssumption DEF Closed, Screen, Subject

\* A load starts: what counts from now on is still to be served.
LEMMA LoadStarts ==
    ASSUME TypeOK, db' = db, stored \in Key,
           NEW rs, Sound(rs, db.views), Free(rs) # {},
           NEW on \in Subject, NEW s \in Screen,
           s.at # None,
           s.at = "profile" => on \in Player, s.at = "report" => on \in Report,
           s.acked <= db.version, s.data # None => s.data.is.version <= db.version,
           s.list # None => s.list \in db.views,
           screen' = Load(s, Fresh(rs), on),
           reqs' = rs \cup {Send(Fresh(rs), "load", stored, on)}
    PROVE  /\ Sound(reqs', db'.views)
           /\ screen' \in Screen
           /\ ScreenPart'
           /\ screen'.at = s.at
           /\ \A q \in reqs' : q.by # "load" => q \in rs
<1> DEFINE n == Fresh(rs)
           q == Send(n, "load", stored, on)
<1>1. n \in Number /\ n # 0 /\ \A r \in rs : r.no # n
  BY FreshIsFree DEF TypeOK
<1>2. q.by = "load" /\ q.no = n /\ q.about = on /\ q.st = "sent"
  BY DEF Send
<1>3. reqs' = rs \cup {q}
  OBVIOUS
<1>4. /\ screen'.at = s.at /\ screen'.on = on /\ screen'.data = s.data /\ screen'.error = s.error
      /\ screen'.loading = TRUE /\ screen'.last = n /\ screen'.run = s.run
      /\ screen'.list = s.list /\ screen'.acked = s.acked
      /\ screen' \in Screen
  <2> HIDE DEF n, q
  <2>1. n \in 0 .. MaxRequests
    BY <1>1, ConstantsAssumption DEF Number
  <2>2. screen' = [s EXCEPT !.on = on, !.last = n, !.loading = TRUE]
    BY DEF Load, n
  <2> QED
    BY <2>1, <2>2 DEF Screen
<1>5. Sound(reqs', db'.views)
  BY <1>1, SoundSend
<1> HIDE DEF n, q
<1>6. LoadOfScreen'
  <2>1. \A r \in reqs' : Counts(r)' => r = q
    BY <1>1, <1>3, <1>4 DEF Counts
  <2> QED
    BY <1>2, <1>4, <2>1 DEF LoadOfScreen
<1>7. ScreenOfRoute' /\ NotAhead' /\ ShownIsAsked' /\ ShowsOwnDecisions' /\ ListWasLogged'
  BY <1>4 DEF ScreenOfRoute, NotAhead, ShownIsAsked, ShowsOwnDecisions, ListWasLogged
<1> QED
  BY <1>2, <1>3, <1>4, <1>5, <1>6, <1>7 DEF ScreenPart

\* What a step that starts no load and shows nothing new leaves alone.
SameView ==
    /\ screen'.at = screen.at /\ screen'.on = screen.on /\ screen'.data = screen.data
    /\ screen'.error = screen.error /\ screen'.loading = screen.loading
    /\ screen'.last = screen.last /\ screen'.acked = screen.acked

\* The view stays as it is: its load may be served, answered elsewhere or lost meanwhile.
LEMMA ScreenKept ==
    ASSUME TypeOK, ScreenPart, SameView,
           screen'.list # None => screen'.list \in db'.views,
           screen'.at = None => screen'.run = 0,
           db' \in Tables, db.version <= db'.version,
           \A q \in reqs' : q.by = "load" =>
              /\ \E r \in reqs : r.by = "load" /\ r.no = q.no /\ r.about = q.about
              /\ q.st = "ok" => q.got \in Tables /\ (q \in reqs \/ q.got = db)
    PROVE  ScreenPart'
<1>1. /\ db.version \in Nat /\ db'.version \in Nat /\ screen.acked \in Nat
      /\ screen.data # None => screen.data.is.version \in Nat
  BY DEF TypeOK, Tables, Screen
<1>2. LoadOfScreen'
  <2> SUFFICES ASSUME NEW q \in reqs', Counts(q)'
               PROVE  /\ q.about = screen.on
                      /\ q.st = "ok" =>
                            /\ screen.acked <= q.got.version
                            /\ screen.data # None => screen.data.is.version <= q.got.version
                            /\ q.got.version <= db'.version
    BY DEF LoadOfScreen, SameView
  <2>1. q.by = "load" /\ q.no = screen.last
    BY DEF Counts, SameView
  <2>2. PICK r \in reqs : r.by = "load" /\ r.no = q.no /\ r.about = q.about
    BY <2>1
  <2>3. q.about = screen.on
    BY <2>1, <2>2 DEF ScreenPart, LoadOfScreen, Counts
  <2>4. ASSUME q.st = "ok"
        PROVE  /\ screen.acked <= q.got.version
               /\ screen.data # None => screen.data.is.version <= q.got.version
               /\ q.got.version <= db'.version
    <3>1. q.got.version \in Nat
      BY <2>1, <2>4 DEF Tables
    <3>2. CASE q \in reqs
      BY <1>1, <2>1, <2>4, <3>1, <3>2 DEF ScreenPart, LoadOfScreen, Counts
    <3>3. CASE q.got = db
      BY <1>1, <3>3 DEF ScreenPart, NotAhead
    <3> QED
      BY <2>1, <2>4, <3>2, <3>3
  <2> QED
    BY <2>3, <2>4
<1>3. NotAhead'
  BY <1>1 DEF ScreenPart, NotAhead, SameView
<1> QED
  BY <1>2, <1>3
  DEF ScreenPart, ScreenOfRoute, ShownIsAsked, ShowsOwnDecisions, ListWasLogged, SameView

LEMMA KeyKept ==
    ASSUME KeyPart, app' = app, stored' = stored, screen'.at = screen.at,
           \A q \in reqs' : q.by = "config" =>
              \E r \in reqs : r.by = "config" /\ r.no = q.no /\ r.key = q.key
    PROVE  KeyPart'
BY DEF KeyPart, CheckOfKey, ConfigIsOfKey

\* A screen is on the page only with a key that was accepted.
LEMMA OpenHasKey ==
    ASSUME TypeOK, KeyPart, screen.at # None
    PROVE  stored \in Key
BY DEF TypeOK, KeyPart, CheckOfKey, ConfigIsOfKey

LEMMA SignOutKeeps ==
    ASSUME Inv, NEW rs, rs \subseteq reqs, SignOut(rs)
    PROVE  Inv'
<1>1. Sound(rs, db.views)
  BY SoundSubset DEF Inv
<1>2. Sound(reqs', db'.views) /\ \A q \in reqs' : q.by # "load"
  BY <1>1, SoundLeave DEF SignOut
<1>3. TypeOK'
  BY <1>2, SoundType, ClosedType, ConstantsAssumption DEF Inv, TypeOK, SignOut, SignedOut
<1>4. KeyPart'
  <2>1. \A q \in reqs' : q.no # 0
    BY <1>3, ConstantsAssumption DEF TypeOK, Request, Number
  <2>2. app'.key = None /\ app'.config = None /\ app'.check = 0 /\ stored' = None /\ screen'.at = None
    BY ClosedType DEF SignOut, SignedOut
  <2> QED
    BY <2>1, <2>2 DEF KeyPart, CheckOfKey, ConfigIsOfKey
<1>5. ScreenPart'
  <2>1. /\ screen'.at = None /\ screen'.data = None /\ screen'.list = None /\ screen'.acked = 0
        /\ screen'.run = 0
    BY ClosedType DEF SignOut
  <2>2. db'.version \in Nat
    BY <1>3 DEF TypeOK, Tables
  <2>3. LoadOfScreen'
    BY <1>2 DEF LoadOfScreen, Counts
  <2> QED
    BY <2>1, <2>2, <2>3, ConstantsAssumption
    DEF ScreenPart, ScreenOfRoute, NotAhead, ShownIsAsked, ShowsOwnDecisions, ListWasLogged
<1> QED
  BY <1>2, <1>3, <1>4, <1>5 DEF Inv
-----------------------------------------------------------------------------
(* The steps *)

\* Requests are answered without effect.
LEMMA DropKeeps ==
    ASSUME Inv, reqs' \subseteq reqs,
           UNCHANGED <<bound, secret, db, stored, app, route, screen>>
    PROVE  Inv'
<1>1. Sound(reqs', db'.views)
  BY SoundSubset DEF Inv
<1>2. TypeOK'
  BY DEF Inv, TypeOK
<1>3. \A q \in reqs' : q.by = "load" /\ q.st = "ok" => q.got \in Tables
  BY <1>1 DEF Sound, Formed
<1>4. ScreenPart'
  <2>1. /\ screen'.list # None => screen'.list \in db'.views
        /\ screen'.at = None => screen'.run = 0
    BY DEF Inv, ScreenPart, ListWasLogged, ScreenOfRoute
  <2>2. db' \in Tables /\ db.version <= db'.version
    BY DEF Inv, TypeOK, Tables
  <2> QED
    BY <1>3, <2>1, <2>2, ScreenKept DEF Inv, SameView
<1>5. KeyPart'
  BY KeyKept DEF Inv
<1> QED
  BY <1>1, <1>2, <1>4, <1>5 DEF Inv

LEMMA ChangeKeyKeeps ==
    ASSUME Inv, NEW k \in bound.keys, ChangeKey(k)
    PROVE  Inv'
<1>1. TypeOK'
  BY DEF Inv, TypeOK, ChangeKey, Bounds
<1> QED
  BY <1>1 DEF Inv, ChangeKey, Sound, KeyPart, CheckOfKey, ConfigIsOfKey, ScreenPart, ScreenOfRoute,
       LoadOfScreen, Counts, NotAhead, ShownIsAsked, ShowsOwnDecisions, ListWasLogged

LEMMA SubmitKeeps ==
    ASSUME Inv, NEW k \in bound.keys, Submit(k)
    PROVE  Inv'
<1> DEFINE q == Send(Fresh(reqs), "login", k, None)
<1>1. k \in Key /\ None \in Subject
  BY DEF Inv, TypeOK, Bounds, Subject
<1>2. Fresh(reqs) \in Number /\ \A r \in reqs : r.no # Fresh(reqs)
  BY FreshIsFree DEF Inv, TypeOK, Submit
<1>3. reqs' = reqs \cup {q} /\ q.by = "login"
  BY DEF Submit, Send
<1>4. UNCHANGED <<bound, secret, db, stored, app, route, screen>>
  BY DEF Submit
<1>5. Sound(reqs', db'.views)
  BY <1>1, <1>2, <1>4, SoundSend DEF Inv, Submit
<1> HIDE DEF q
<1>6. TypeOK'
  BY <1>4, <1>5, SoundType DEF Inv, TypeOK
<1>7. ScreenPart'
  <2>1. /\ screen'.list # None => screen'.list \in db'.views
        /\ screen'.at = None => screen'.run = 0
    BY <1>4 DEF Inv, ScreenPart, ListWasLogged, ScreenOfRoute
  <2>2. db' \in Tables /\ db.version <= db'.version
    BY <1>4 DEF Inv, TypeOK, Tables
  <2>3. \A x \in reqs' : x.by = "load" => x \in reqs
    BY <1>3
  <2>4. \A x \in reqs' : x.by = "load" /\ x.st = "ok" => x.got \in Tables
    BY <1>5 DEF Sound, Formed
  <2> QED
    BY <1>4, <2>1, <2>2, <2>3, <2>4, ScreenKept DEF Inv, SameView
<1>8. KeyPart'
  BY <1>3, <1>4, KeyKept DEF Inv
<1> QED
  BY <1>5, <1>6, <1>7, <1>8 DEF Inv

LEMMA KeyAcceptedKeeps ==
    ASSUME Inv, NEW r \in reqs, KeyAccepted(r)
    PROVE  Inv'
<1> DEFINE rest == reqs \ {r}
           n == Fresh(rest)
<1>1. r.key \in Key
  BY DEF Inv, TypeOK, Request
<1>2. UNCHANGED <<bound, secret, db, route, screen>> /\ stored' = r.key
  BY DEF KeyAccepted
<1>3. CASE r.key = app.key
  <2>1. UNCHANGED <<stored, app>> /\ reqs' = rest
    BY <1>2, <1>3 DEF KeyAccepted, SetKey, Inv, KeyPart, ConfigIsOfKey
  <2> QED
    BY <1>2, <2>1, DropKeeps
<1>4. CASE r.key # app.key
  <2>1. /\ Free(rest) # {}
        /\ reqs' = rest \cup {Send(n, "config", r.key, None)}
        /\ app' = [app EXCEPT !.key = r.key, !.check = n]
    BY <1>4 DEF KeyAccepted, SetKey
  <2>2. n \in Number /\ n # 0 /\ \A x \in rest : x.no # n
    BY <2>1, FreshIsFree DEF Inv, TypeOK
  <2>3. Sound(reqs', db'.views)
    <3>1. Sound(rest, db.views)
      BY SoundSubset DEF Inv
    <3>2. None \in Subject
      BY DEF Subject
    <3> HIDE DEF rest, n
    <3> QED
      BY <1>1, <1>2, <2>1, <2>2, <3>1, <3>2, SoundSend
  <2> DEFINE q == Send(n, "config", r.key, None)
  <2>4. q.by = "config" /\ q.no = n /\ q.key = r.key /\ reqs' = rest \cup {q}
    BY <2>1 DEF Send
  <2>5. app'.key = r.key /\ app'.check = n /\ app'.config = app.config
    BY <2>1 DEF Inv, TypeOK
  <2>6. TypeOK'
    <3>1. n \in 0 .. MaxRequests
      BY <2>2, ConstantsAssumption DEF Number
    <3>2. reqs' \subseteq Request
      BY <2>3, SoundType
    <3> HIDE DEF n
    <3>3. app' \in [key : Key \cup {None}, config : Key \cup {None}, check : 0 .. MaxRequests]
      BY <1>1, <2>1, <3>1 DEF Inv, TypeOK
    <3> QED
      BY <1>1, <1>2, <3>2, <3>3 DEF Inv, TypeOK
  <2> HIDE DEF n, q
  <2>7. KeyPart'
    BY <1>1, <1>2, <2>2, <2>4, <2>5, ConstantsAssumption
    DEF Inv, KeyPart, CheckOfKey, ConfigIsOfKey
  <2>8. ScreenPart'
    <3>1. /\ screen'.list # None => screen'.list \in db'.views
          /\ screen'.at = None => screen'.run = 0
      BY <1>2 DEF Inv, ScreenPart, ListWasLogged, ScreenOfRoute
    <3>2. db' \in Tables /\ db.version <= db'.version
      BY <1>2 DEF Inv, TypeOK, Tables
    <3>3. \A x \in reqs' : x.by = "load" => x \in reqs
      BY <2>4
    <3>4. \A x \in reqs' : x.by = "load" /\ x.st = "ok" => x.got \in Tables
      BY <2>3 DEF Sound, Formed
    <3> QED
      BY <1>2, <3>1, <3>2, <3>3, <3>4, ScreenKept DEF Inv, SameView
  <2> QED
    BY <2>3, <2>6, <2>7, <2>8 DEF Inv
<1> QED
  BY <1>3, <1>4

LEMMA ReloadPageKeeps ==
    ASSUME Inv, ReloadPage
    PROVE  Inv'
<1> DEFINE sent == {r \in reqs : r.by \in {"list", "write"}}
           n == Fresh(sent)
           q == Send(n, "config", stored, None)
<1>1. /\ stored # None => Free(sent) # {}
      /\ app' = [key |-> stored, config |-> None, check |-> IF stored = None THEN 0 ELSE n]
      /\ screen' = Closed
      /\ reqs' = IF stored = None THEN sent ELSE sent \cup {q}
      /\ UNCHANGED <<bound, secret, db, stored, route>>
  BY DEF ReloadPage
<1>2. Sound(sent, db.views)
  BY SoundSubset DEF Inv
<1>3. stored # None => n \in Number /\ n # 0 /\ n \in 0 .. MaxRequests
  BY <1>1, FreshIsFree, ConstantsAssumption DEF Inv, TypeOK, Number
<1>4. Sound(reqs', db'.views)
  <2>1. CASE stored = None
    BY <1>1, <1>2, <2>1
  <2>2. CASE stored # None
    <3>1. \A r \in sent : r.no # n
      BY <1>1, <2>2, FreshIsFree DEF Inv, TypeOK
    <3>2. stored \in Key /\ None \in Subject /\ n \in Number
      BY <1>3, <2>2 DEF Inv, TypeOK, Subject
    <3> HIDE DEF sent, n
    <3> QED
      BY <1>1, <1>2, <2>2, <3>1, <3>2, SoundSend DEF q
  <2> QED
    BY <2>1, <2>2
<1>5. q.by = "config" /\ q.key = stored /\ q.no = n
  BY DEF Send
<1> HIDE DEF n, q
<1>6. TypeOK'
  <2>1. reqs' \subseteq Request
    BY <1>4, SoundType
  <2>2. app' \in [key : Key \cup {None}, config : Key \cup {None}, check : 0 .. MaxRequests]
    BY <1>1, <1>3, ConstantsAssumption DEF Inv, TypeOK
  <2> QED
    BY <1>1, <2>1, <2>2, ClosedType DEF Inv, TypeOK
<1>7. \A r \in reqs' : r.by # "load" /\ (r.by = "config" => r = q)
  BY <1>1, <1>5
<1>8. KeyPart'
  <2>1. /\ app'.key = stored /\ app'.config = None /\ stored' = stored
        /\ app'.check = IF stored = None THEN 0 ELSE n
        /\ screen'.at = None
    BY <1>1, ClosedType
  <2>2. \A r \in reqs' : r.by = "config" => stored # None /\ r.key = stored
    BY <1>1, <1>5, <1>7
  <2> QED
    BY <1>3, <2>1, <2>2 DEF KeyPart, CheckOfKey, ConfigIsOfKey
<1>9. ScreenPart'
  <2>1. /\ screen'.at = None /\ screen'.data = None /\ screen'.list = None /\ screen'.acked = 0
        /\ screen'.run = 0
    BY <1>1, ClosedType
  <2>2. db'.version \in Nat
    BY <1>6 DEF TypeOK, Tables
  <2>3. LoadOfScreen'
    BY <1>7 DEF LoadOfScreen, Counts
  <2> QED
    BY <2>1, <2>2, <2>3, ConstantsAssumption
    DEF ScreenPart, ScreenOfRoute, NotAhead, ShownIsAsked, ShowsOwnDecisions, ListWasLogged
<1> QED
  BY <1>4, <1>6, <1>8, <1>9 DEF Inv

LEMMA RouteType ==
    ASSUME NEW rt \in Route
    PROVE  /\ rt.id \in Subject
           /\ rt.at \in {"profile", "report"} \cup Lists /\ rt.at # None
           /\ rt.at = "profile" => rt.id \in Player
           /\ rt.at = "report" => rt.id \in Report
BY ConstantsAssumption DEF Route, Subject, Lists

LEMMA MountStarts ==
    ASSUME TypeOK, db' = db, stored \in Key, NEW rs, Sound(rs, db.views), NEW rt \in Route,
           Mount(rt, rs)
    PROVE  /\ Sound(reqs', db'.views)
           /\ screen' \in Screen
           /\ ScreenPart'
           /\ screen'.at = rt.at
           /\ \A q \in reqs' : q.by # "load" => q \in rs
<1> DEFINE s == [Closed EXCEPT !.at = rt.at]
<1>1. /\ Free(rs) # {}
      /\ screen' = Load(s, Fresh(rs), rt.id)
      /\ reqs' = rs \cup {Send(Fresh(rs), "load", stored, rt.id)}
  BY DEF Mount
<1>2. /\ s \in Screen /\ s.at = rt.at /\ s.data = None /\ s.list = None /\ s.acked = 0
  <2>1. rt.at \in {None, "profile", "report"} \cup Lists
    BY RouteType
  <2> QED
    BY <2>1, ClosedType DEF Screen
<1>3. 0 <= db.version
  BY DEF TypeOK, Tables
<1> HIDE DEF s
<1> QED
  BY <1>1, <1>2, <1>3, RouteType, LoadStarts

LEMMA ConfigLoadedKeeps ==
    ASSUME Inv, NEW r \in reqs, ConfigLoaded(r)
    PROVE  Inv'
<1>1. /\ r.by = "config" /\ r.no = app.check /\ r.key = app.key /\ r.key \in Key /\ r.no # 0
  BY ConstantsAssumption
  DEF ConfigLoaded, Inv, TypeOK, Request, Number, KeyPart, CheckOfKey
<1>2. /\ app' = [app EXCEPT !.config = r.key, !.check = 0]
      /\ UNCHANGED <<bound, secret, db, stored, route>>
  BY DEF ConfigLoaded
<1>3. stored = r.key
  BY <1>1 DEF Inv, KeyPart, ConfigIsOfKey
<1>4. app'.key = r.key /\ app'.config = r.key /\ app'.check = 0
  BY <1>1, <1>2 DEF Inv, TypeOK
<1>5. Sound(reqs \ {r}, db.views)
  BY SoundSubset DEF Inv
<1>6. ASSUME reqs' \subseteq Request, screen' \in Screen, screen'.at # None
      PROVE  TypeOK' /\ KeyPart'
  <2>1. TypeOK'
    <3>1. app' \in [key : Key \cup {None}, config : Key \cup {None}, check : 0 .. MaxRequests]
      <4>1. app \in [key : Key \cup {None}, config : Key \cup {None}, check : 0 .. MaxRequests]
        BY DEF Inv, TypeOK
      <4>2. 0 \in 0 .. MaxRequests
        BY ConstantsAssumption
      <4> QED
        BY <1>1, <1>2, <4>1, <4>2
    <3> QED
      BY <1>2, <1>6, <3>1 DEF Inv, TypeOK
  <2>2. \A q \in reqs' : q.no # 0
    BY <1>6, ConstantsAssumption DEF Request, Number
  <2>3. r.key # None
    BY <1>1, ConstantsAssumption
  <2> QED
    BY <1>2, <1>3, <1>4, <1>6, <2>1, <2>2, <2>3 DEF KeyPart, CheckOfKey, ConfigIsOfKey
<1>7. CASE screen.at = None
  <2>1. Mount(route, reqs \ {r})
    BY <1>7 DEF ConfigLoaded
  <2>2. TypeOK /\ route \in Route /\ route.at # None
    BY RouteType DEF Inv, TypeOK
  <2>3. Sound(reqs', db'.views) /\ screen' \in Screen /\ ScreenPart' /\ screen'.at = route.at
    BY <1>1, <1>2, <1>3, <1>5, <2>1, <2>2, MountStarts
  <2> QED
    BY <1>6, <2>2, <2>3, SoundType DEF Inv
<1>8. CASE screen.at # None
  <2>1. reqs' = reqs \ {r} /\ screen' = screen
    BY <1>8 DEF ConfigLoaded
  <2>2. Sound(reqs', db'.views) /\ reqs' \subseteq Request
    BY <1>2, <1>5, <2>1, SoundType
  <2>3. ScreenPart'
    <3>1. /\ screen'.list # None => screen'.list \in db'.views
          /\ screen'.at = None => screen'.run = 0
      BY <1>2, <2>1 DEF Inv, ScreenPart, ListWasLogged, ScreenOfRoute
    <3>2. db' \in Tables /\ db.version <= db'.version
      BY <1>2 DEF Inv, TypeOK, Tables
    <3>3. \A x \in reqs' : x.by = "load" /\ x.st = "ok" => x.got \in Tables
      BY <2>2 DEF Sound, Formed
    <3> QED
      BY <2>1, <3>1, <3>2, <3>3, ScreenKept DEF Inv, SameView
  <2> QED
    BY <1>6, <1>8, <2>1, <2>2, <2>3 DEF Inv, TypeOK
<1> QED
  BY <1>7, <1>8

\* The screen that is there loads again, maybe something else, maybe after a decision.
LEMMA ReloadKeeps ==
    ASSUME Inv, screen.at # None, NEW rs, Sound(rs, db.views),
           \A q \in rs : q.by = "config" => q \in reqs,
           NEW on \in Subject, NEW s \in Screen, Reload(on, rs, s),
           s.at # None, (s.at = None) = (screen.at = None),
           s.at = "profile" => on \in Player, s.at = "report" => on \in Report,
           s.acked <= db.version, s.data # None => s.data.is.version <= db.version,
           s.list # None => s.list \in db.views,
           UNCHANGED <<bound, secret, db, stored, app>>, route' \in Route
    PROVE  Inv'
<1>1. /\ Free(rs) # {}
      /\ screen' = Load(s, Fresh(rs), on)
      /\ reqs' = rs \cup {Send(Fresh(rs), "load", stored, on)}
  BY DEF Reload
<1>2. stored \in Key
  BY OpenHasKey DEF Inv
<1>3. /\ Sound(reqs', db'.views)
      /\ screen' \in Screen
      /\ ScreenPart'
      /\ screen'.at = s.at
      /\ \A q \in reqs' : q.by # "load" => q \in rs
  BY <1>1, <1>2, LoadStarts DEF Inv
<1>4. TypeOK'
  BY <1>3, SoundType DEF Inv, TypeOK
<1>5. KeyPart'
  <2>1. \A q \in reqs' : q.by = "config" => q \in reqs
    BY <1>3
  <2> QED
    BY <1>3, <2>1 DEF Inv, KeyPart, CheckOfKey, ConfigIsOfKey
<1> QED
  BY <1>3, <1>4, <1>5 DEF Inv

\* What the reload of the screen as it is needs to know of it.
LEMMA ScreenFacts ==
    ASSUME Inv
    PROVE  /\ screen \in Screen /\ screen.on \in Subject
           /\ screen.at = "profile" => screen.on \in Player
           /\ screen.at = "report" => screen.on \in Report
           /\ screen.acked <= db.version
           /\ screen.data # None => screen.data.is.version <= db.version
           /\ screen.list # None => screen.list \in db.views
BY DEF Inv, TypeOK, Screen, ScreenPart, ScreenOfRoute, NotAhead, ListWasLogged

LEMMA RefreshKeeps ==
    ASSUME Inv, Refresh
    PROVE  Inv'
<1>1. route' \in Route
  BY DEF Refresh, Inv, TypeOK
<1>2. Sound(reqs, db.views)
  BY DEF Inv
<1> QED
  BY <1>1, <1>2, ScreenFacts, ReloadKeeps DEF Refresh

LEMMA ChooseKeeps ==
    ASSUME Inv, NEW f \in Filter \cup {None}, Choose(f)
    PROVE  Inv'
<1>1. route' \in Route /\ f \in Subject
  BY DEF Choose, Inv, TypeOK, Subject
<1>2. Sound(reqs, db.views)
  BY DEF Inv
<1>3. screen.at \notin {"profile", "report", None}
  BY ConstantsAssumption DEF Choose, Filtered, Lists
<1>4. Reload(f, reqs, screen) /\ UNCHANGED <<bound, secret, db, stored, app>>
  BY DEF Choose
<1> QED
  BY <1>1, <1>2, <1>3, <1>4, ScreenFacts, ReloadKeeps

LEMMA NavigateKeeps ==
    ASSUME Inv, NEW rt \in bound.routes, Navigate(rt)
    PROVE  Inv'
<1>1. rt \in Route /\ route' = rt /\ UNCHANGED <<bound, secret, db, stored, app>>
  BY DEF Navigate, Inv, TypeOK, Bounds
<1>2. Sound(reqs, db.views)
  BY DEF Inv
<1>3. CASE screen.at = None /\ UNCHANGED <<screen, reqs>>
  <2>1. TypeOK'
    BY <1>1, <1>3 DEF Inv, TypeOK
  <2> QED
    BY <1>1, <1>3, <2>1 DEF Inv, Sound, KeyPart, CheckOfKey, ConfigIsOfKey, ScreenPart, ScreenOfRoute,
       LoadOfScreen, Counts, NotAhead, ShownIsAsked, ShowsOwnDecisions, ListWasLogged
<1>4. CASE screen.at = rt.at /\ Reload(rt.id, reqs, screen)
  BY <1>1, <1>2, <1>4, RouteType, ScreenFacts, ReloadKeeps
<1>5. CASE screen.at \notin {None, rt.at} /\ Mount(rt, Leave(reqs))
  <2>1. /\ Sound(Leave(reqs), db.views)
        /\ \A q \in Leave(reqs) : q.by \notin {"load", "orphan"} => q \in reqs
    BY <1>2, SoundLeave
  <2>2. stored \in Key
    BY <1>5, OpenHasKey DEF Inv
  <2>3. /\ Sound(reqs', db'.views) /\ screen' \in Screen /\ ScreenPart' /\ screen'.at = rt.at
        /\ \A q \in reqs' : q.by # "load" => q \in Leave(reqs)
    BY <1>1, <1>5, <2>1, <2>2, MountStarts DEF Inv
  <2>4. \A q \in reqs' : q.by = "config" => q \in reqs
    BY <2>1, <2>3
  <2>5. TypeOK'
    BY <1>1, <2>3, SoundType DEF Inv, TypeOK
  <2>6. KeyPart'
    BY <1>1, <1>5, <2>3, <2>4, RouteType DEF Inv, KeyPart, CheckOfKey, ConfigIsOfKey
  <2> QED
    BY <2>3, <2>5, <2>6 DEF Inv
<1> QED
  BY <1>3, <1>4, <1>5 DEF Navigate

LEMMA LoadShownKeeps ==
    ASSUME Inv, NEW r \in reqs, LoadShown(r)
    PROVE  /\ Inv'
           /\ r.got \in Tables /\ r.about = screen.on
           /\ r.got.version <= db.version
           /\ screen.data # None => screen.data.is.version <= r.got.version
<1>1. r.by = "load" /\ r.no = screen.last /\ r.st = "ok"
  BY DEF LoadShown, Counts
<1>2. /\ r.got \in Tables /\ r.about = screen.on
      /\ screen.acked <= r.got.version /\ r.got.version <= db.version
      /\ screen.data # None => screen.data.is.version <= r.got.version
  BY <1>1 DEF Inv, Sound, Formed, ScreenPart, LoadOfScreen, Counts
<1>3. /\ screen' = [screen EXCEPT !.data = [of |-> r.about, is |-> r.got],
                                  !.error = FALSE, !.loading = FALSE]
      /\ reqs' = reqs \ {r}
      /\ UNCHANGED <<bound, secret, db, stored, app, route>>
  BY DEF LoadShown
<1>4. screen \in Screen
  BY ScreenFacts
<1>5. /\ screen' \in Screen
      /\ screen'.at = screen.at /\ screen'.on = screen.on /\ screen'.list = screen.list
      /\ screen'.acked = screen.acked /\ screen'.last = screen.last
      /\ screen'.data = [of |-> screen.on, is |-> r.got]
  BY <1>2, <1>3, <1>4 DEF Screen
<1>6. Sound(reqs', db'.views)
  BY <1>3, SoundSubset DEF Inv
<1>7. TypeOK'
  BY <1>3, <1>5, <1>6, SoundType DEF Inv, TypeOK
<1>8. KeyPart'
  BY <1>3, <1>5, KeyKept DEF Inv
<1>9. ScreenPart'
  <2>1. \A q \in reqs' : ~Counts(q)'
    BY <1>1, <1>3, <1>5 DEF Inv, Sound, OneLoad, Counts
  <2>2. LoadOfScreen'
    BY <2>1 DEF LoadOfScreen
  <2>3. screen'.data # None /\ screen'.data.is = r.got /\ screen'.data.of = screen'.on
    <3>1. screen'.data \in [of : Subject, is : Tables]
      BY <1>2, <1>5, ScreenFacts
    <3> QED
      BY <1>5, <3>1, ConstantsAssumption
  <2>4. ScreenOfRoute' /\ ListWasLogged'
    BY <1>3, <1>5 DEF Inv, ScreenPart, ScreenOfRoute, ListWasLogged
  <2>5. NotAhead' /\ ShownIsAsked' /\ ShowsOwnDecisions'
    BY <1>2, <1>3, <1>5, <2>3 DEF Inv, ScreenPart, NotAhead, ShownIsAsked, ShowsOwnDecisions,
       TypeOK, Tables, Screen
  <2> QED
    BY <2>2, <2>4, <2>5 DEF ScreenPart
<1> QED
  BY <1>2, <1>6, <1>7, <1>8, <1>9 DEF Inv

LEMMA LoadFailedKeeps ==
    ASSUME Inv, NEW r \in reqs, LoadFailed(r)
    PROVE  Inv'
<1>1. /\ screen' = [screen EXCEPT !.error = TRUE, !.loading = FALSE]
      /\ reqs' = reqs \ {r}
      /\ UNCHANGED <<bound, secret, db, stored, app, route>>
  BY DEF LoadFailed
<1>2. screen \in Screen
  BY ScreenFacts
<1>3. /\ screen' \in Screen
      /\ screen'.at = screen.at /\ screen'.on = screen.on /\ screen'.list = screen.list
      /\ screen'.acked = screen.acked /\ screen'.last = screen.last
      /\ screen'.data = screen.data /\ screen'.error = TRUE
  BY <1>1, <1>2 DEF Screen
<1>4. Sound(reqs', db'.views)
  BY <1>1, SoundSubset DEF Inv
<1>5. TypeOK'
  BY <1>1, <1>3, <1>4, SoundType DEF Inv, TypeOK
<1>6. KeyPart'
  BY <1>1, <1>3, KeyKept DEF Inv
<1>7. ScreenPart'
  <2>1. LoadOfScreen'
    BY <1>1, <1>3 DEF Inv, ScreenPart, LoadOfScreen, Counts
  <2> QED
    BY <1>1, <1>3, <2>1 DEF Inv, ScreenPart, ScreenOfRoute, NotAhead, ShownIsAsked,
       ShowsOwnDecisions, ListWasLogged
<1> QED
  BY <1>4, <1>5, <1>6, <1>7 DEF Inv

\* A decision, or a list, is asked for: nothing that is shown changes.
LEMMA RunKeeps ==
    ASSUME Inv, screen.at # None, NEW by \in {"list", "write"}, NEW what, Run(by, what),
           IF by = "write" THEN what \subseteq Decision ELSE what \subseteq Report
    PROVE  Inv' /\ SameView /\ db' = db
<1> DEFINE n == Fresh(reqs)
<1>1. /\ Free(reqs) # {}
      /\ screen' = [screen EXCEPT !.run = n]
      /\ reqs' = reqs \cup {Send(n, by, stored, x) : x \in what}
      /\ UNCHANGED <<bound, secret, db, stored, app, route>>
  BY DEF Run
<1>2. n \in Number /\ n \in 0 .. MaxRequests
  BY <1>1, FreshIsFree, ConstantsAssumption DEF Inv, TypeOK, Number
<1>3. Sound(reqs', db'.views)
  <2>1. stored \in Key
    BY OpenHasKey DEF Inv
  <2> HIDE DEF n
  <2> QED
    BY <1>1, <1>2, <2>1, SoundRun DEF Inv
<1>4. \A q \in reqs' : q \in reqs \/ q.by = by
  BY <1>1 DEF Send
<1> HIDE DEF n
<1>5. screen' \in Screen /\ screen'.list = screen.list /\ SameView
  BY <1>1, <1>2, ScreenFacts DEF Screen, SameView
<1>6. TypeOK'
  BY <1>1, <1>3, <1>5, SoundType DEF Inv, TypeOK
<1>7. KeyPart'
  BY <1>1, <1>4, <1>5, KeyKept DEF Inv, SameView
<1>8. ScreenPart'
  <2>1. screen'.list # None => screen'.list \in db'.views
    BY <1>1, <1>5, ScreenFacts
  <2>2. db' \in Tables /\ db.version <= db'.version
    BY <1>1 DEF Inv, TypeOK, Tables
  <2>3. \A q \in reqs' : q.by = "load" => q \in reqs
    BY <1>4
  <2>4. \A q \in reqs' : q.by = "load" /\ q.st = "ok" => q.got \in Tables
    BY <1>3 DEF Sound, Formed
  <2> QED
    BY <1>5, <2>1, <2>2, <2>3, <2>4, ScreenKept DEF Inv, SameView
<1> QED
  BY <1>1, <1>3, <1>5, <1>6, <1>7, <1>8 DEF Inv

LEMMA DecideKeeps ==
    ASSUME Inv, screen.at # None, NEW op, NEW x, [op |-> op, on |-> x] \in Decision, Decide(op, x)
    PROVE  Inv' /\ SameView /\ db' = db
<1> DEFINE what == {[op |-> op, on |-> x]}
<1>1. Run("write", what)
  BY DEF Decide
<1>2. what \subseteq Decision
  OBVIOUS
<1> HIDE DEF what
<1> QED
  BY <1>1, <1>2, RunKeeps

\* Every button asks for a decision of its kind.
LEMMA ButtonsKeep ==
    ASSUME Inv,
           \/ Ban \/ Unban \/ Watch \/ Note \/ RevokeAll \/ Unlink \/ GrantBypass \/ RemoveBypass
           \/ \E d \in Device, op \in {"approve", "reject"} :
                 ReviewOnProfile(d, op) \/ ReviewOnDevices(d, op)
           \/ \E p \in Player : AddBan(p) \/ DeleteBan(p)
           \/ Prune \/ ShowProcesses
    PROVE  Inv' /\ SameView /\ db' = db
<1>1. Profile => screen.on \in Player /\ screen.at # None
  BY ScreenFacts, ConstantsAssumption DEF Profile
<1>2. \A p \in Player : \A op \in {"ban", "unban", "watch", "unwatch", "note", "unlink", "bypass",
                                   "unbypass", "addban", "delban"} :
         [op |-> op, on |-> p] \in Decision
  BY DEF Decision
<1>3. \A d \in Device : \A op \in {"approve", "reject"} : [op |-> op, on |-> d] \in Decision
  BY DEF Decision
<1>4. None \notin {"bans", "devices", "maint", "report"}
  BY ConstantsAssumption DEF Lists
<1>5. CASE Ban
  BY <1>1, <1>2, <1>5, DecideKeeps DEF Ban
<1>6. CASE Unban
  BY <1>1, <1>2, <1>6, DecideKeeps DEF Unban
<1>7. CASE Watch
  <2>1. PICK op \in {"watch", "unwatch"} : Decide(op, screen.on)
    BY <1>7 DEF Watch
  <2>2. [op |-> op, on |-> screen.on] \in Decision /\ screen.at # None
    BY <1>1, <1>2, <1>7 DEF Watch
  <2> QED
    BY <2>1, <2>2, DecideKeeps
<1>8. CASE Note
  BY <1>1, <1>2, <1>8, DecideKeeps DEF Note
<1>9. CASE RevokeAll
  <2> DEFINE what == {[op |-> "revoke", on |-> s] : s \in {x \in Shown.playing : Owner[x] = ShownOf}}
  <2>1. Profile /\ Run("write", what)
    BY <1>9 DEF RevokeAll
  <2>2. Shown.playing \subseteq Session
    BY <2>1, ScreenFacts DEF Profile, Displayed, Shown, Screen, Tables
  <2>3. what \subseteq Decision
    BY <2>2 DEF Decision
  <2> HIDE DEF what
  <2> QED
    BY <1>1, <2>1, <2>3, RunKeeps
<1>10. CASE Unlink
  BY <1>1, <1>2, <1>10, DecideKeeps DEF Unlink
<1>11. CASE GrantBypass
  BY <1>1, <1>2, <1>11, DecideKeeps DEF GrantBypass
<1>12. CASE RemoveBypass
  BY <1>1, <1>2, <1>12, DecideKeeps DEF RemoveBypass
<1>13. CASE \E d \in Device, op \in {"approve", "reject"} :
               ReviewOnProfile(d, op) \/ ReviewOnDevices(d, op)
  <2>1. PICK d \in Device, op \in {"approve", "reject"} :
               ReviewOnProfile(d, op) \/ ReviewOnDevices(d, op)
    BY <1>13
  <2>2. Decide(op, d) /\ screen.at # None
    BY <1>1, <1>4, <2>1 DEF ReviewOnProfile, ReviewOnDevices
  <2> QED
    BY <1>3, <2>2, DecideKeeps
<1>14. CASE \E p \in Player : AddBan(p) \/ DeleteBan(p)
  <2>1. PICK p \in Player : AddBan(p) \/ DeleteBan(p)
    BY <1>14
  <2>2. screen.at # None /\ (Decide("addban", p) \/ Decide("delban", p))
    BY <1>4, <2>1 DEF AddBan, DeleteBan
  <2> QED
    BY <1>2, <2>2, DecideKeeps
<1>15. CASE Prune
  <2>1. screen.at # None /\ Decide("prune", None)
    BY <1>4, <1>15 DEF Prune
  <2>2. [op |-> "prune", on |-> None] \in Decision
    BY DEF Decision
  <2> QED
    BY <2>1, <2>2, DecideKeeps
<1>16. CASE ShowProcesses
  <2>1. screen.at # None /\ Run("list", {screen.on}) /\ screen.on \in Report
    BY <1>4, <1>16, ScreenFacts DEF ShowProcesses
  <2> QED
    BY <2>1, RunKeeps
<1> QED
  BY <1>5, <1>6, <1>7, <1>8, <1>9, <1>10, <1>11, <1>12, <1>13, <1>14, <1>15, <1>16

\* run() ends, or a list comes up: no load starts and no view changes.
LEMMA RunEnds ==
    ASSUME Inv, NEW r \in reqs, reqs' = reqs \ {r}, screen' \in Screen, SameView,
           screen'.list # None => screen'.list \in db.views,
           screen'.at = None => screen'.run = 0,
           UNCHANGED <<bound, secret, db, stored, app, route>>
    PROVE  Inv'
<1>1. Sound(reqs', db'.views)
  BY SoundSubset DEF Inv
<1>2. TypeOK'
  BY <1>1, SoundType DEF Inv, TypeOK
<1>3. KeyPart'
  BY KeyKept DEF Inv, SameView
<1>4. ScreenPart'
  <2>1. db' \in Tables /\ db.version <= db'.version
    BY DEF Inv, TypeOK, Tables
  <2>2. \A q \in reqs' : q.by = "load" /\ q.st = "ok" => q.got \in Tables
    BY <1>1 DEF Sound, Formed
  <2> QED
    BY <2>1, <2>2, ScreenKept DEF Inv
<1> QED
  BY <1>1, <1>2, <1>3, <1>4 DEF Inv

LEMMA DecisionFailedKeeps ==
    ASSUME Inv, NEW r \in reqs, DecisionFailed(r)
    PROVE  Inv' /\ SameView
<1>1. screen' = [screen EXCEPT !.run = 0] /\ 0 \in 0 .. MaxRequests
  BY ConstantsAssumption DEF DecisionFailed
<1>2. screen' \in Screen /\ SameView /\ screen'.list = screen.list /\ screen'.run = 0
  BY <1>1, ScreenFacts DEF Screen, SameView
<1> QED
  BY <1>2, ScreenFacts, RunEnds DEF DecisionFailed

LEMMA ListShownKeeps ==
    ASSUME Inv, NEW r \in reqs, ListShown(r)
    PROVE  Inv' /\ SameView
<1>1. /\ screen' = [screen EXCEPT !.run = 0, !.list = IF r.st = "ok" THEN r.about ELSE @]
      /\ 0 \in 0 .. MaxRequests
  BY ConstantsAssumption DEF ListShown
<1>2. r.about \in Report /\ (r.st = "ok" => r.about \in db.views)
  BY DEF ListShown, Ours, Inv, Sound, Formed
<1>3. /\ screen' \in Screen /\ SameView
      /\ screen'.run = 0
      /\ screen'.list = IF r.st = "ok" THEN r.about ELSE screen.list
  BY <1>1, <1>2, ScreenFacts DEF Screen, SameView
<1>4. screen'.list # None => screen'.list \in db.views
  BY <1>2, <1>3, ScreenFacts
<1> QED
  BY <1>3, <1>4, RunEnds DEF ListShown

LEMMA DecisionDoneKeeps ==
    ASSUME Inv, NEW r \in reqs, DecisionDone(r)
    PROVE  Inv'
<1>1. UNCHANGED <<bound, secret, db, stored, app, route>>
  BY DEF DecisionDone
<1> DEFINE rest == reqs \ {r}
<1>2. CASE \E x \in rest : Ours(x)
  BY <1>1, <1>2, DropKeeps DEF DecisionDone
<1>3. CASE ~ \E x \in rest : Ours(x)
  <2> DEFINE s == [screen EXCEPT !.run = 0, !.acked = db.version]
  <2>1. Reload(screen.on, rest, s)
    BY <1>3 DEF DecisionDone
  <2>2. Sound(rest, db.views)
    BY SoundSubset DEF Inv
  <2>3. db.version \in Nat /\ 0 \in 0 .. MaxRequests
    BY ConstantsAssumption DEF Inv, TypeOK, Tables
  <2>4. /\ s \in Screen /\ s.at = screen.at /\ s.data = screen.data /\ s.list = screen.list
        /\ s.acked = db.version
    BY <2>3, ScreenFacts DEF Screen
  <2>5. screen.at # None
    BY ConstantsAssumption
    DEF DecisionDone, Ours, Inv, TypeOK, Request, Number, ScreenPart, ScreenOfRoute
  <2>6. route' \in Route
    BY <1>1 DEF Inv, TypeOK
  <2>7. db.version <= db.version
    BY <2>3
  <2> HIDE DEF s, rest
  <2> QED
    BY <1>1, <2>1, <2>2, <2>4, <2>5, <2>6, <2>7, ScreenFacts, ReloadKeeps DEF rest
<1> QED
  BY <1>2, <1>3
-----------------------------------------------------------------------------
(* The server *)

LEMMA OutcomeKeeps ==
    ASSUME NEW d \in Tables, NEW w \in Decision, Possible(w, d)
    PROVE  /\ [Outcome(w, d) EXCEPT !.version = @ + 1] \in Tables
           /\ [Outcome(w, d) EXCEPT !.version = @ + 1].version = d.version + 1
           /\ [Outcome(w, d) EXCEPT !.version = @ + 1].views = d.views
<1> SUFFICES Outcome(w, d) \in Tables /\ Outcome(w, d).version = d.version
                /\ Outcome(w, d).views = d.views
  BY DEF Tables
<1>0. d.bans \in [Player -> Nat] /\ d.status \in [Device -> DeviceStatus]
  BY DEF Tables
<1>1. CASE w.op \in {"ban", "unban", "addban", "delban"}
  <2>1. w.on \in Player
    BY <1>1 DEF Decision
  <2>2. w.op = "delban" => d.bans[w.on] - 1 \in Nat
    BY <1>0, <2>1 DEF Possible
  <2>3. PICK n \in Nat, s \in SUBSET Session :
           Outcome(w, d) = [d EXCEPT !.bans[w.on] = n, !.playing = s]
    <3>1. CASE w.op = "ban"
      <4>1. Outcome(w, d) = [d EXCEPT !.bans[w.on] = @ + 1,
                                      !.playing = {s \in @ : Owner[s] # w.on}]
        BY <3>1 DEF Outcome
      <4>2. /\ d.bans[w.on] + 1 \in Nat
            /\ {s \in d.playing : Owner[s] # w.on} \in SUBSET Session
        BY <1>0, <2>1 DEF Tables
      <4> QED
        BY <4>1, <4>2
    <3>2. CASE w.op # "ban"
      <4>1. d.playing \in SUBSET Session /\ d = [d EXCEPT !.playing = d.playing]
        BY DEF Tables
      <4>2. PICK n \in Nat : Outcome(w, d) = [d EXCEPT !.bans[w.on] = n]
        <5>1. CASE w.op = "addban"
          <6>1. Outcome(w, d) = [d EXCEPT !.bans[w.on] = d.bans[w.on] + 1]
            BY <5>1 DEF Outcome
          <6>2. d.bans[w.on] + 1 \in Nat
            BY <1>0, <2>1
          <6> QED
            BY <6>1, <6>2
        <5>2. CASE w.op = "unban"
          <6>1. Outcome(w, d) = [d EXCEPT !.bans[w.on] = 0]
            BY <5>2 DEF Outcome
          <6> QED
            BY <6>1
        <5>3. CASE w.op = "delban"
          <6>1. Outcome(w, d) = [d EXCEPT !.bans[w.on] = d.bans[w.on] - 1]
            BY <5>3 DEF Outcome
          <6> QED
            BY <2>2, <5>3, <6>1
        <5> QED
          BY <1>1, <3>2, <5>1, <5>2, <5>3
      <4>3. [d EXCEPT !.bans[w.on] = n] = [d EXCEPT !.bans[w.on] = n, !.playing = d.playing]
        BY DEF Tables
      <4> QED
        BY <4>1, <4>2, <4>3
    <3> QED
      BY <3>1, <3>2
  <2>4. [d.bans EXCEPT ![w.on] = n] \in [Player -> Nat]
    BY <1>0, <2>1
  <2>5. Outcome(w, d) = [d EXCEPT !.bans = [d.bans EXCEPT ![w.on] = n], !.playing = s]
    BY <2>3 DEF Tables
  <2> QED
    BY <2>4, <2>5 DEF Tables
<1>2. CASE w.op \in {"watch", "unwatch", "unlink", "bypass", "unbypass", "note"}
  <2>1. w.on \in Player
    BY <1>2 DEF Decision
  <2>2. /\ w.op = "watch" => Outcome(w, d) = [d EXCEPT !.watched = d.watched \cup {w.on}]
        /\ w.op = "unwatch" => Outcome(w, d) = [d EXCEPT !.watched = d.watched \ {w.on}]
        /\ w.op = "unlink" => Outcome(w, d) = [d EXCEPT !.linked = d.linked \ {w.on}]
        /\ w.op = "bypass" => Outcome(w, d) = [d EXCEPT !.exempt = d.exempt \cup {w.on}]
        /\ w.op = "unbypass" => Outcome(w, d) = [d EXCEPT !.exempt = d.exempt \ {w.on}]
        /\ w.op = "note" => Outcome(w, d) = d
    BY DEF Outcome
  <2> QED
    BY <1>2, <2>1, <2>2 DEF Tables
<1>3. CASE w.op \in {"approve", "reject"}
  <2>1. w.on \in Device
    BY <1>3 DEF Decision
  <2>2. /\ w.op = "approve" => Outcome(w, d) = [d EXCEPT !.status[w.on] = "approved"]
        /\ w.op = "reject" => Outcome(w, d) = [d EXCEPT !.status[w.on] = "rejected"]
    BY DEF Outcome
  <2> QED
    BY <1>0, <1>3, <2>1, <2>2 DEF Tables, DeviceStatus
<1>4. CASE w.op \in {"revoke", "prune"}
  <2>1. /\ w.op = "revoke" => Outcome(w, d) = [d EXCEPT !.playing = d.playing \ {w.on}]
        /\ w.op = "prune" => Outcome(w, d) = [d EXCEPT !.kept = d.kept \ OldReport]
    BY DEF Outcome
  <2> QED
    BY <1>4, <2>1 DEF Tables
<1> QED
  BY <1>1, <1>2, <1>3, <1>4 DEF Decision

\* The server's tables move on, and one request at most is answered.
LEMMA TablesKeep ==
    ASSUME Inv, db' \in Tables, db.version <= db'.version, db.views \subseteq db'.views,
           Sound(reqs', db'.views),
           \A q \in reqs' \ reqs : \E r \in reqs :
              /\ r.by = q.by /\ r.no = q.no /\ r.key = q.key /\ r.about = q.about
              /\ q.by = "load" /\ q.st = "ok" => q.got = db,
           UNCHANGED <<bound, secret, stored, app, route, screen>>
    PROVE  Inv'
<1>1. TypeOK'
  BY SoundType DEF Inv, TypeOK
<1>2. KeyPart'
  BY KeyKept DEF Inv
<1>3. ScreenPart'
  <2>1. /\ screen'.list # None => screen'.list \in db'.views
        /\ screen'.at = None => screen'.run = 0
    BY DEF Inv, ScreenPart, ListWasLogged, ScreenOfRoute
  <2>2. \A q \in reqs' : q.by = "load" /\ q.st = "ok" => q.got \in Tables
    BY DEF Sound, Formed
  <2>3. \A q \in reqs' : q.by = "load" =>
           /\ \E r \in reqs : r.by = "load" /\ r.no = q.no /\ r.about = q.about
           /\ q.st = "ok" => q.got \in Tables /\ (q \in reqs \/ q.got = db)
    BY <2>2
  <2> QED
    BY <2>1, <2>3, ScreenKept DEF Inv, SameView
<1> QED
  BY <1>1, <1>2, <1>3 DEF Inv

LEMMA AnswerKeeps ==
    ASSUME Inv, NEW r \in reqs, NEW st \in Answers, NEW got \in {None} \cup Tables,
           reqs' = (reqs \ {r}) \cup {[r EXCEPT !.st = st, !.got = got]},
           db' \in Tables, db.version <= db'.version, db.views \subseteq db'.views,
           st = "ok" /\ r.by \in {"load", "orphan"} => got = db,
           st = "ok" /\ r.by = "list" => r.about \in db'.views,
           UNCHANGED <<bound, secret, stored, app, route, screen>>
    PROVE  Inv'
<1>1. Sound(reqs', db'.views)
  BY SoundAnswer DEF Inv, TypeOK, Answers
<1>2. r \in Request
  BY DEF Inv, TypeOK
<1> DEFINE q == [r EXCEPT !.st = st, !.got = got]
<1>3. q.by = r.by /\ q.no = r.no /\ q.key = r.key /\ q.about = r.about /\ q.st = st /\ q.got = got
  BY <1>2 DEF Request
<1>4. reqs' \ reqs \subseteq {q}
  OBVIOUS
<1> HIDE DEF q
<1> QED
  BY <1>1, <1>3, <1>4, TablesKeep

LEMMA ServeKeeps ==
    ASSUME Inv, NEW r \in reqs, Serve(r)
    PROVE  Inv' /\ db'.version \in {db.version, db.version + 1}
<1> DEFINE Answer(st, got) == reqs' = (reqs \ {r}) \cup {[r EXCEPT !.st = st, !.got = got]}
<1>1. UNCHANGED <<bound, secret, stored, app, route, screen>>
  BY DEF Serve
<1>2. db \in Tables /\ db.version \in Nat /\ db.version <= db.version
  BY DEF Inv, TypeOK, Tables
<1>3. \/ Answer("denied", None) /\ db' = db
      \/ r.by \in {"login", "config"} /\ Answer("ok", None) /\ db' = db
      \/ r.by \in {"load", "orphan"} /\ Answer("ok", db) /\ db' = db
      \/ Answer("failed", None) /\ db' = db
      \/ /\ r.by = "list" /\ Answer("ok", None)
         /\ db' = [db EXCEPT !.views = @ \cup {r.about}]
      \/ /\ r.by = "write" /\ Possible(r.about, db) /\ Answer("ok", None)
         /\ db' = [Outcome(r.about, db) EXCEPT !.version = @ + 1]
  BY DEF Serve
<1>4. CASE Answer("denied", None) /\ db' = db
  BY <1>1, <1>2, <1>4, AnswerKeeps DEF Answers
<1>5. CASE r.by \in {"login", "config"} /\ Answer("ok", None) /\ db' = db
  BY <1>1, <1>2, <1>5, AnswerKeeps DEF Answers
<1>6. CASE r.by \in {"load", "orphan"} /\ Answer("ok", db) /\ db' = db
  BY <1>1, <1>2, <1>6, AnswerKeeps DEF Answers
<1>7. CASE Answer("failed", None) /\ db' = db
  BY <1>1, <1>2, <1>7, AnswerKeeps DEF Answers
<1>8. CASE r.by = "list" /\ Answer("ok", None) /\ db' = [db EXCEPT !.views = @ \cup {r.about}]
  <2>1. r.about \in Report
    BY <1>8 DEF Inv, Sound, Formed
  <2>2. /\ db' \in Tables /\ db'.version = db.version /\ db.views \subseteq db'.views
        /\ r.about \in db'.views
    BY <1>2, <1>8, <2>1 DEF Tables
  <2> QED
    BY <1>1, <1>2, <1>8, <2>2, AnswerKeeps DEF Answers
<1>9. CASE /\ r.by = "write" /\ Possible(r.about, db) /\ Answer("ok", None)
           /\ db' = [Outcome(r.about, db) EXCEPT !.version = @ + 1]
  <2>1. r.about \in Decision
    BY <1>9 DEF Inv, Sound, Formed
  <2>2. db' \in Tables /\ db'.version = db.version + 1 /\ db'.views = db.views
    BY <1>2, <1>9, <2>1, OutcomeKeeps
  <2>3. db.version <= db'.version
    BY <1>2, <2>2
  <2> QED
    BY <1>1, <1>2, <1>9, <2>2, <2>3, AnswerKeeps DEF Answers
<1> QED
  BY <1>3, <1>4, <1>5, <1>6, <1>7, <1>8, <1>9

LEMMA LoseKeeps ==
    ASSUME Inv, NEW r \in reqs, Lose(r)
    PROVE  Inv'
<1>1. db \in Tables /\ db.version <= db.version
  BY DEF Inv, TypeOK, Tables
<1> QED
  BY <1>1, AnswerKeeps DEF Lose, Answers

LEMMA ElsewhereKeeps ==
    ASSUME Inv, Elsewhere
    PROVE  Inv' /\ db'.version = db.version + 1
<1>1. db \in Tables /\ db.version \in Nat
  BY DEF Inv, TypeOK, Tables
<1>2. PICK s \in Session :
         db' = [db EXCEPT !.playing = IF s \in @ THEN @ \ {s} ELSE @ \cup {s},
                          !.version = @ + 1]
  BY DEF Elsewhere
<1>3. db' \in Tables /\ db'.version = db.version + 1 /\ db'.views = db.views
  <2> DEFINE now == IF s \in db.playing THEN db.playing \ {s} ELSE db.playing \cup {s}
  <2>1. now \in SUBSET Session
    BY <1>1 DEF Tables
  <2>2. db' = [db EXCEPT !.playing = now, !.version = db.version + 1]
    BY <1>2
  <2> HIDE DEF now
  <2>3. db.version + 1 \in Nat
    BY <1>1
  <2>4. \A n \in Nat : \A x \in SUBSET Session :
           LET e == [db EXCEPT !.playing = x, !.version = n]
           IN  e \in Tables /\ e.version = n /\ e.views = db.views
    BY <1>1 DEF Tables
  <2> QED
    BY <2>1, <2>2, <2>3, <2>4
<1>4. UNCHANGED <<bound, secret, stored, app, route, screen, reqs>>
  BY DEF Elsewhere
<1>5. Sound(reqs', db'.views)
  BY <1>3, <1>4 DEF Inv
<1>6. db.version <= db'.version
  BY <1>1, <1>3
<1> QED
  BY <1>3, <1>4, <1>5, <1>6, TablesKeep
-----------------------------------------------------------------------------
(* The theorems *)

LEMMA InitHolds == Init => Inv
<1> SUFFICES ASSUME Init PROVE Inv
  OBVIOUS
<1> DEFINE q == Send(Fresh({}), "config", stored, None)
<1>1. /\ bound \in Bounds /\ db \in Tables /\ db.version = 0
      /\ secret \in Key /\ stored \in Key \cup {None} /\ route \in Route
  BY ConstantsAssumption DEF Init, Bounds
<1>2. bound.requests \in Number
  BY <1>1 DEF Bounds
<1>3. Free({}) # {}
  BY <1>2, ConstantsAssumption DEF Free, Number
<1>4. Fresh({}) \in Number /\ Fresh({}) # 0
  BY <1>1, <1>3, FreshIsFree
<1>5. /\ app = [key |-> stored, config |-> None, check |-> IF stored = None THEN 0 ELSE Fresh({})]
      /\ reqs = IF stored = None THEN {} ELSE {q}
      /\ screen = Closed
  BY DEF Init
<1>6. stored # None => Formed(q) /\ q.st = "sent" /\ q.by = "config" /\ q.no = Fresh({}) /\ q.key = stored
  BY <1>1, <1>4, SentIsFormed DEF Send, Subject
<1> HIDE DEF q
<1>7. Sound(reqs, db.views) /\ reqs \subseteq Request
  BY <1>5, <1>6 DEF Sound, OneLoad, Formed
<1>8. TypeOK
  <2>1. (IF stored = None THEN 0 ELSE Fresh({})) \in 0 .. MaxRequests
    BY <1>4, ConstantsAssumption DEF Number
  <2> QED
    BY <1>1, <1>5, <1>7, <2>1, ClosedType DEF TypeOK
<1>9. KeyPart
  BY <1>4, <1>5, <1>6, ClosedType DEF KeyPart, CheckOfKey, ConfigIsOfKey
<1>10. ScreenPart
  <2>1. LoadOfScreen
    BY <1>5, <1>6 DEF LoadOfScreen, Counts
  <2> QED
    BY <1>1, <1>5, <2>1, ClosedType, ConstantsAssumption
    DEF ScreenPart, ScreenOfRoute, NotAhead, ShownIsAsked, ShowsOwnDecisions, ListWasLogged
<1> QED
  BY <1>7, <1>8, <1>9, <1>10 DEF Inv

\* What a step means for the screen: it shows what it showed, or nothing, or an answer that
\* counts, or the server's tables change.
Keeps == screen'.data = screen.data /\ db'.version = db.version
Clears == screen'.data = None /\ db'.version = db.version
Changes == screen' = screen /\ db'.version = db.version + 1

LEMMA ReloadShowsNothing ==
    ASSUME Inv, NEW on, NEW rs, NEW s, s.data = screen.data, s \in Screen, Reload(on, rs, s),
           db' = db
    PROVE  Keeps
BY DEF Reload, Load, Screen, Keeps

LEMMA MountClears ==
    ASSUME NEW rt, NEW rs, Mount(rt, rs), db' = db
    PROVE  Clears
BY DEF Mount, Load, Closed, Clears

LEMMA AnswersKeep ==
    ASSUME Inv, NEW r \in reqs, Arrive(r)
    PROVE  Inv' /\ (Keeps \/ Clears \/ LoadShown(r))
<1>1. CASE KeyAccepted(r)
  BY <1>1, KeyAcceptedKeeps DEF KeyAccepted, Keeps
<1>2. CASE KeyRefused(r) \/ ConfigOutdated(r) \/ LoadOutdated(r) \/ Unheard(r)
  <2>1. reqs' \subseteq reqs /\ UNCHANGED <<bound, secret, db, stored, app, route, screen>>
    BY <1>2 DEF KeyRefused, ConfigOutdated, LoadOutdated, Unheard
  <2> QED
    BY <2>1, DropKeeps DEF Keeps
<1>3. CASE ConfigLoaded(r)
  BY <1>3, ConfigLoadedKeeps, MountClears DEF ConfigLoaded, Keeps
<1>4. CASE ConfigRefused(r) \/ LoadDenied(r)
  <2>1. SignOut(reqs \ {r})
    BY <1>4 DEF ConfigRefused, LoadDenied
  <2> QED
    BY <2>1, SignOutKeeps, ClosedType DEF SignOut, Clears
<1>5. CASE LoadShown(r)
  BY <1>5, LoadShownKeeps
<1>6. CASE LoadFailed(r)
  BY <1>6, LoadFailedKeeps, ScreenFacts DEF LoadFailed, Screen, Keeps
<1>7. CASE DecisionDone(r)
  <2>1. Inv' /\ db' = db
    BY <1>7, DecisionDoneKeeps DEF DecisionDone
  <2>2. CASE screen' = screen
    BY <2>1, <2>2 DEF Keeps
  <2>3. CASE Reload(screen.on, reqs \ {r}, [screen EXCEPT !.run = 0, !.acked = db.version])
    <3> DEFINE s == [screen EXCEPT !.run = 0, !.acked = db.version]
    <3>1. db.version \in Nat /\ 0 \in 0 .. MaxRequests
      BY ConstantsAssumption DEF Inv, TypeOK, Tables
    <3>2. s.data = screen.data /\ s \in Screen
      BY <3>1, ScreenFacts DEF Screen
    <3> HIDE DEF s
    <3>3. Reload(screen.on, reqs \ {r}, s)
      BY <2>3 DEF s
    <3> QED
      BY <2>1, <3>2, <3>3, ReloadShowsNothing
  <2> QED
    BY <1>7, <2>2, <2>3 DEF DecisionDone
<1>8. CASE DecisionFailed(r)
  BY <1>8, DecisionFailedKeeps DEF DecisionFailed, SameView, Keeps
<1>9. CASE ListShown(r)
  BY <1>9, ListShownKeeps DEF ListShown, SameView, Keeps
<1> QED
  BY <1>1, <1>2, <1>3, <1>4, <1>5, <1>6, <1>7, <1>8, <1>9 DEF Arrive

LEMMA AdminKeeps ==
    ASSUME Inv, Admin
    PROVE  Inv' /\ (Keeps \/ Clears)
<1>1. CASE \E k \in bound.keys : Submit(k)
  BY <1>1, SubmitKeeps DEF Submit, Keeps
<1>2. CASE Leaves
  BY <1>2, SignOutKeeps, ClosedType DEF Leaves, SignOut, Clears
<1>3. CASE ReloadPage
  BY <1>3, ReloadPageKeeps, ClosedType DEF ReloadPage, Clears
<1>4. CASE Refresh
  BY <1>4, RefreshKeeps, ReloadShowsNothing, ScreenFacts DEF Refresh
<1>5. CASE \E rt \in bound.routes : Navigate(rt)
  <2>1. PICK rt \in bound.routes : Navigate(rt)
    BY <1>5
  <2>2. Inv' /\ db' = db
    BY <2>1, NavigateKeeps DEF Navigate
  <2>3. \/ screen' = screen
        \/ Reload(rt.id, reqs, screen)
        \/ Mount(rt, Leave(reqs))
    BY <2>1 DEF Navigate
  <2> QED
    BY <2>2, <2>3, ReloadShowsNothing, MountClears, ScreenFacts DEF Keeps
<1>6. CASE \E f \in Filter \cup {None} : Choose(f)
  BY <1>6, ChooseKeeps, ReloadShowsNothing, ScreenFacts DEF Choose
<1>7. ASSUME \/ Ban \/ Unban \/ Watch \/ Note \/ RevokeAll \/ Unlink \/ GrantBypass \/ RemoveBypass
             \/ \E d \in Device, op \in {"approve", "reject"} :
                   ReviewOnProfile(d, op) \/ ReviewOnDevices(d, op)
             \/ \E p \in Player : AddBan(p) \/ DeleteBan(p)
             \/ Prune \/ ShowProcesses
      PROVE  Inv' /\ (Keeps \/ Clears)
  BY <1>7, ButtonsKeep DEF SameView, Keeps
<1> QED
  BY <1>1, <1>2, <1>3, <1>4, <1>5, <1>6, <1>7 DEF Admin

LEMMA StepKeeps ==
    ASSUME Inv, [Next]_vars
    PROVE  Inv' /\ (Keeps \/ Clears \/ Changes \/ \E r \in reqs : LoadShown(r))
<1>1. CASE UNCHANGED vars
  <2>1. reqs' \subseteq reqs /\ UNCHANGED <<bound, secret, db, stored, app, route, screen>>
    BY <1>1 DEF vars
  <2> QED
    BY <2>1, DropKeeps DEF Keeps
<1>2. CASE Admin
  BY <1>2, AdminKeeps
<1>3. CASE \E r \in reqs : Serve(r)
  <2>1. PICK r \in reqs : Serve(r)
    BY <1>3
  <2>2. screen' = screen
    BY <2>1 DEF Serve
  <2> QED
    BY <2>1, <2>2, ServeKeeps DEF Keeps, Changes
<1>4. CASE \E r \in reqs : Lose(r)
  BY <1>4, LoseKeeps DEF Lose, Keeps
<1>5. CASE \E r \in reqs : Arrive(r)
  BY <1>5, AnswersKeep
<1>6. CASE \E k \in bound.keys : ChangeKey(k)
  BY <1>6, ChangeKeyKeeps DEF ChangeKey, Keeps
<1>7. CASE Elsewhere
  BY <1>7, ElsewhereKeeps DEF Elsewhere, Changes
<1> QED
  BY <1>1, <1>2, <1>3, <1>4, <1>5, <1>6, <1>7 DEF Next

LEMMA InvHolds == Spec => []Inv
<1>1. Inv /\ [Next]_vars => Inv'
  BY StepKeeps
<1> QED
  BY <1>1, InitHolds, PTL DEF Spec

\* The dashboard's variables keep their types: in particular a profile's buttons send decisions
\* about players, devices and sessions, and every request carries a key.
THEOREM TypeCorrect == Spec => []TypeOK
<1>1. Inv => TypeOK
  BY DEF Inv
<1> QED
  BY <1>1, InvHolds, PTL

\* What a settled screen shows is of the subject it was turned to (ui.tsx, the run counter).
THEOREM ShownIsWhatWasAsked == Spec => []ShownIsAsked
<1>1. Inv => ShownIsAsked
  BY DEF Inv, ScreenPart
<1> QED
  BY <1>1, InvHolds, PTL

\* A settled screen includes every decision acknowledged on it (run() in the tabs).
THEOREM OwnDecisionsShown == Spec => []ShowsOwnDecisions
<1>1. Inv => ShowsOwnDecisions
  BY DEF Inv, ScreenPart
<1> QED
  BY <1>1, InvHolds, PTL

\* sessionStorage, App's key and the loaded config never belong to different keys (App.tsx).
THEOREM ConfigBelongsToKey == Spec => []ConfigIsOfKey
<1>1. Inv => ConfigIsOfKey
  BY DEF Inv, KeyPart
<1> QED
  BY <1>1, InvHolds, PTL

\* No process list comes up that was not logged (app.py, get_report).
THEOREM ListsAreLogged == Spec => []ListWasLogged
<1>1. Inv => ListWasLogged
  BY DEF Inv, ScreenPart
<1> QED
  BY <1>1, InvHolds, PTL

\* useLoad implements LatestView: no screen goes back, or shows what was never true.
THEOREM DashboardShowsLatest == Spec => ShowsLatest
<1>1. Init => View!Init
  BY ConstantsAssumption, ClosedType DEF Init, View!Init, View!Blank, Seen
<1>2. Inv /\ [Next]_vars => [View!Next]_View!vars
  <2> SUFFICES ASSUME Inv, [Next]_vars PROVE [View!Next]_View!vars
    OBVIOUS
  <2>1. CASE Keeps
    <3>1. Seen' = Seen /\ db'.version = db.version
      BY <2>1 DEF Keeps, Seen, Shown, ShownOf
    <3> QED
      BY <3>1 DEF View!Next, View!Turn, View!vars
  <2>2. CASE Clears
    <3>1. Seen' = [of |-> None, at |-> 0] /\ db'.version = db.version
      BY <2>2 DEF Clears, Seen
    <3> QED
      BY <3>1 DEF View!Next, View!Clear, View!Blank
  <2>3. CASE Changes
    <3>1. Seen' = Seen /\ db'.version = db.version + 1 /\ screen'.on = screen.on
      BY <2>3 DEF Changes, Seen, Shown, ShownOf
    <3> QED
      BY <3>1 DEF View!Next, View!Change
  <2>4. CASE \E r \in reqs : LoadShown(r)
    <3>1. PICK r \in reqs : LoadShown(r)
      BY <2>4
    <3>2. /\ r.got \in Tables /\ r.about = screen.on /\ r.got.version <= db.version
          /\ screen.data # None => screen.data.is.version <= r.got.version
      BY <3>1, LoadShownKeeps
    <3>3. /\ screen'.on = screen.on /\ screen'.data = [of |-> screen.on, is |-> r.got]
          /\ db' = db
      BY <3>1, <3>2, ScreenFacts DEF LoadShown, Screen
    <3>4. [of |-> screen.on, is |-> r.got] # None
      BY <3>2, ScreenFacts, ConstantsAssumption
    <3>5. Seen' = [of |-> screen.on, at |-> r.got.version]
      BY <3>3, <3>4 DEF Seen, Shown, ShownOf
    <3>6. r.got.version \in Seen.at .. db.version
      BY <3>2, ScreenFacts DEF Seen, Shown, Screen, Tables, Inv, TypeOK
    <3> QED
      BY <3>3, <3>5, <3>6 DEF View!Next, View!Show
  <2> QED
    BY <2>1, <2>2, <2>3, <2>4, StepKeeps
<1> QED
  BY <1>1, <1>2, InvHolds, PTL DEF Spec, ShowsLatest, View!Spec
=============================================================================
