------------------------------- MODULE Access -------------------------------
(***************************************************************************)
(* Who may play: registering a PC with the review of its hardware          *)
(* (register_device), and the gates that session/start and every heartbeat *)
(* pass (device, ban, Discord role, anti-cheat), one step per store call   *)
(* or question to Discord, while admins, Discord and other players change  *)
(* what was read a moment ago.                                             *)
(*                                                                         *)
(* What happens to a lease once it is granted is the subject of Leases;    *)
(* who may link which Discord account that of Login.                       *)
(***************************************************************************)
EXTENDS Naturals, FiniteSets

CONSTANTS
    Player, Account,   \* Steam IDs and Discord accounts
    Part,              \* identifying hardware components
    MaxDevices,        \* bound: rows of devices
    Thread, None,
    AutoApprove, AllowBypass, DiscordRequired,  \* settings
    Scenes             \* bounds: where a behaviour starts, and what may happen in it

VARIABLES
    device,  \* the devices table with device_components
    bans,    \* the subjects of unexpired bans
    exempt,  \* Steam IDs with an unexpired bypass
    link,    \* discord_links by Steam ID
    role,    \* Discord: who is in the guild with a required role
    proven,  \* accounts that a login in progress has confirmed, with the role
    active,  \* devices with an Active lease
    job,     \* what each thread is doing
    stood,   \* history: what has spoken against each call ever since it began
    fair,    \* history: players whose linked account has had the role ever since it was linked
    scene    \* chosen at first, then fixed

tables == <<device, bans, exempt, link, role, proven, active, fair>>
vars == <<device, bans, exempt, link, role, proven, active, job, stood, fair, scene>>

Device == 1 .. MaxDevices  \* in the order of created_utc
Status == {"pending", "approved", "rejected"}
Subject == Player \cup Device \cup Part

Unused == [of |-> None, status |-> "pending", parts |-> {}]
Devices == [Device -> [of : Player \cup {None}, status : Status, parts : SUBSET Part]]

\* age 0: younger than JOIN_MAX_AGE; 1: younger than recheck_interval; 2: older.
Link == [account : Account, ok : BOOLEAN, age : 0 .. 2]
Links == [Player -> {None} \cup Link]

Calls == {"register", "start", "heartbeat"}

Idle ==
    [call |-> None, pc |-> "idle", player |-> None, dev |-> None,
     parts |-> {},          \* the fingerprint; the components read
     dirty |-> FALSE,       \* the report has blocking findings
     status |-> None, exempt |-> FALSE,
     account |-> None, ok |-> FALSE,  \* the link read, then Discord's answer
     why |-> None]

Job ==
    [call : Calls \cup {None},
     pc : {"idle", "own", "rekey", "review", "insert", "device", "bypass", "parts", "bans",
           "link", "ask", "record", "report", "admit", "refuse"},
     player : Player \cup {None}, dev : Device \cup {None}, parts : SUBSET Part,
     dirty : BOOLEAN, status : Status \cup {None}, exempt : BOOLEAN,
     account : Account \cup {None}, ok : BOOLEAN, why : {None, "role", "other"}]

Reason ==
    [why : {"rejected", "pending", "flagged", "unlinked", "bare"}, of : {None}]
        \cup [why : {"banned"}, of : Subject]
        \cup [why : {"roleless"}, of : Account]
        \cup [why : {"shared"}, of : Device]

Worlds == {"status", "bypass", "unlink", "time", "leases"}

SceneType ==
    [players : SUBSET Player, calls : [Thread -> SUBSET Calls], prints : SUBSET SUBSET Part,
     reports : SUBSET BOOLEAN, world : SUBSET Worlds, accounts : SUBSET Account,
     bans : SUBSET Subject, device : Devices, link : Links, role : SUBSET Account,
     active : SUBSET Device]

ASSUME ConstantsAssumption ==
    /\ MaxDevices \in Nat
    /\ None \notin Player \cup Account \cup Device \cup Link \cup Status \cup Calls \cup {"role"}
    /\ {AutoApprove, AllowBypass, DiscordRequired} \subseteq BOOLEAN
    /\ Scenes \subseteq SceneType
    /\ \A s \in Scenes : \A d \in s.active : s.device[d].of # None

TypeOK ==
    /\ device \in Devices
    /\ bans \subseteq Subject
    /\ exempt \subseteq Player
    /\ link \in Links
    /\ role \subseteq Account
    /\ proven \subseteq Account
    /\ active \subseteq {d \in Device : device[d].of # None}
    /\ job \in [Thread -> Job]
    /\ stood \in [Thread -> SUBSET Reason]
    /\ fair \subseteq Player
    /\ scene \in SceneType
-----------------------------------------------------------------------------
Begin(t, j) ==
    /\ job[t].pc = "idle"
    /\ j.call \in scene.calls[t]
    /\ job' = [job EXCEPT ![t] = j]

At(t, pc) == job[t].pc = pc

Goto(t, pc) == job' = [job EXCEPT ![t].pc = pc]

Refused(t, why) == job' = [job EXCEPT ![t].pc = "refuse", ![t].why = why]

Done(t) == job' = [job EXCEPT ![t] = Idle]
-----------------------------------------------------------------------------
(* register_device *)

Owned(p) == {d \in Device : device[d].of = p}

Free == {d \in Device : device[d].of = None}

\* Bound: there is a row left for every registration in progress.
Room == Cardinality({t \in Thread : job[t].call = "register"}) < Cardinality(Free)

BeginRegister(t, p, ps) ==
    /\ Room
    /\ Begin(t, [Idle EXCEPT !.call = "register", !.pc = "own", !.player = p, !.parts = ps])
    /\ UNCHANGED tables

\* The newest record with the same components ...
Same(p, ps) ==
    {d \in Owned(p) :
        device[d].parts = ps /\ \A e \in Owned(p) : device[e].parts = ps => e <= d}

\* ... and the one that shares the most of them, the newest of those.
Closest(p, ps) ==
    LET Shared(d) == Cardinality(device[d].parts \cap ps)
    IN  {d \in Owned(p) :
            /\ device[d].parts \cap ps # {}
            /\ \A e \in Owned(p) :
                  Shared(e) < Shared(d) \/ (Shared(e) = Shared(d) /\ e <= d)}

\* Mutant: a new record is written without the review.
FindOwn_NoReview(t) ==
    LET p == job[t].player
        ps == job[t].parts
    IN  /\ At(t, "own")
        /\ \/ \E d \in Same(p, ps) \cup Closest(p, ps) :
                 job' = [job EXCEPT ![t].pc = "rekey", ![t].dev = d]
           \/ Closest(p, ps) = {} /\ Goto(t, "insert")
        /\ UNCHANGED tables

\* _find_own_device.  The fingerprint's id covers the CPU too: equal identifying components
\* need not be an equal fingerprint.
FindOwn(t) ==
    LET p == job[t].player
        ps == job[t].parts
    IN  /\ At(t, "own")
        /\ \/ \E d \in Same(p, ps) \cup Closest(p, ps) :
                 job' = [job EXCEPT ![t].pc = "rekey", ![t].dev = d]
           \/ Closest(p, ps) = {} /\ Goto(t, "review")
        /\ UNCHANGED tables

\* rekey_device: the status stays.
Rekey(t) ==
    /\ At(t, "rekey")
    /\ device' = [device EXCEPT ![job[t].dev].parts = job[t].parts]
    /\ Done(t)
    /\ UNCHANGED <<bans, exempt, link, role, proven, active, fair>>

SharingOthers(p, ps) ==
    {d \in Device : device[d].of \notin {None, p} /\ device[d].parts \cap ps # {}}

\* _find_review_reason; whether the others are banned changes only its wording.
Review(t) ==
    LET flagged == \/ job[t].parts = {}
                   \/ SharingOthers(job[t].player, job[t].parts) # {}
    IN  /\ At(t, "review")
        /\ job' = [job EXCEPT ![t].pc = "insert",
                              ![t].status = IF AutoApprove /\ ~flagged
                                            THEN "approved" ELSE "pending"]
        /\ UNCHANGED tables

Insert(t) ==
    /\ At(t, "insert")
    /\ \E d \in Free :
          /\ \A e \in Free : d <= e
          /\ device' = [device EXCEPT ![d] = [of |-> job[t].player, status |-> job[t].status,
                                              parts |-> job[t].parts]]
    /\ Done(t)
    /\ UNCHANGED <<bans, exempt, link, role, proven, active, fair>>
-----------------------------------------------------------------------------
(* start_session and heartbeat *)

\* The key, or the lease's token, has been verified: it never changes whose device it is.
BeginStart(t, d, dirty) ==
    /\ device[d].of # None
    /\ Begin(t, [Idle EXCEPT !.call = "start", !.pc = "device", !.player = device[d].of,
                             !.dev = d, !.dirty = dirty])
    /\ UNCHANGED tables

\* get_session.
BeginHeartbeat(t, d, dirty) ==
    /\ d \in active
    /\ Begin(t, [Idle EXCEPT !.call = "heartbeat", !.pc = "device", !.player = device[d].of,
                             !.dev = d, !.dirty = dirty])
    /\ UNCHANGED tables

ReadDevice(t) ==
    LET status == device[job[t].dev].status
    IN  /\ At(t, "device")
        /\ \/ /\ job[t].call = "start" /\ status = "rejected"
              /\ Refused(t, "other")
           \/ /\ job[t].call = "heartbeat" \/ status # "rejected"
              /\ job' = [job EXCEPT ![t].pc = "bypass", ![t].status = status]
        /\ UNCHANGED tables

FindBypass(t) ==
    LET granted == AllowBypass /\ job[t].player \in exempt
        held == job[t].call = "start" /\ job[t].status = "pending" /\ ~granted
    IN  /\ At(t, "bypass")
        /\ \/ held /\ Refused(t, "other")
           \/ ~held /\ job' = [job EXCEPT ![t].pc = "parts", ![t].exempt = granted]
        /\ UNCHANGED tables

\* _find_ban: get_device_components, then find_active_ban.
ReadParts(t) ==
    /\ At(t, "parts")
    /\ job' = [job EXCEPT ![t].pc = "bans", ![t].parts = device[job[t].dev].parts]
    /\ UNCHANGED tables

\* Mutant: a heartbeat looks at the ban list only.
FindBan_NoStatus(t) ==
    LET banned == ({job[t].player, job[t].dev} \cup job[t].parts) \cap bans # {}
    IN  /\ At(t, "bans")
        /\ \/ banned /\ Refused(t, "other")
           \/ ~banned /\ job' = [job EXCEPT ![t].pc = IF DiscordRequired THEN "link" ELSE "report",
                                            ![t].parts = {}, ![t].status = None]
        /\ UNCHANGED tables

FindBan(t) ==
    LET banned == ({job[t].player, job[t].dev} \cup job[t].parts) \cap bans # {}
        refused == banned \/ job[t].status = "rejected"
    IN  /\ At(t, "bans")
        /\ \/ refused /\ Refused(t, "other")
           \/ ~refused /\ job' = [job EXCEPT ![t].pc = IF DiscordRequired THEN "link" ELSE "report",
                                             ![t].parts = {}, ![t].status = None]
        /\ UNCHANGED tables
-----------------------------------------------------------------------------
(* DiscordGate.check *)

Judged(t, ok) ==
    job' = [job EXCEPT ![t].pc = IF ok THEN "report" ELSE "refuse",
                       ![t].why = IF ok THEN None ELSE "role",
                       ![t].account = None, ![t].ok = FALSE]

Young(t) == link[job[t].player].age <= IF job[t].call = "start" THEN 0 ELSE 1

ReadLink(t) ==
    LET l == link[job[t].player]
    IN  /\ At(t, "link")
        /\ \/ l = None /\ Refused(t, "other")
           \/ l # None /\ Young(t) /\ Judged(t, l.ok)
           \/ /\ l # None /\ ~Young(t)
              /\ job' = [job EXCEPT ![t].pc = "ask", ![t].account = l.account, ![t].ok = l.ok]
        /\ UNCHANGED tables

\* check_member.
Answered(t) ==
    /\ At(t, "ask")
    /\ job' = [job EXCEPT ![t].pc = "record", ![t].ok = job[t].account \in role]
    /\ UNCHANGED tables

\* Mutant: who cannot be asked about is refused.
Unavailable_Blocks(t) ==
    /\ At(t, "ask")
    /\ Judged(t, FALSE)
    /\ UNCHANGED tables

\* DiscordUnavailable: the last known result counts.
Unavailable(t) ==
    /\ At(t, "ask")
    /\ Judged(t, job[t].ok)
    /\ UNCHANGED tables

\* Mutant: the answer is used but not kept.
Record_TimeOnly(t) ==
    LET p == job[t].player
    IN  /\ At(t, "record")
        /\ link' = IF link[p] = None THEN link ELSE [link EXCEPT ![p].age = 0]
        /\ Judged(t, job[t].ok)
        /\ UNCHANGED <<device, bans, exempt, role, proven, active, fair>>

\* update_discord_role_state, by Steam ID.
Record(t) ==
    LET p == job[t].player
    IN  /\ At(t, "record")
        /\ link' = IF link[p] = None THEN link
                   ELSE [link EXCEPT ![p].ok = job[t].ok, ![p].age = 0]
        /\ Judged(t, job[t].ok)
        /\ UNCHANGED <<device, bans, exempt, role, proven, active, fair>>
-----------------------------------------------------------------------------
\* The consent of a start may be outdated; findings block who has no bypass.
Report(t) ==
    LET blocked == job[t].dirty /\ ~job[t].exempt
    IN  /\ At(t, "report")
        /\ \/ /\ job[t].call = "start" \/ blocked
              /\ Refused(t, "other")
           \/ ~blocked /\ Goto(t, "admit")
        /\ UNCHANGED tables

\* insert_session; try_renew_session, which changes nothing when the lease has ended.
Admit(t) ==
    /\ At(t, "admit")
    /\ active' = IF job[t].call = "start" THEN active \cup {job[t].dev} ELSE active
    /\ Done(t)
    /\ UNCHANGED <<device, bans, exempt, link, role, proven, fair>>

\* A refused start changes nothing; a refused heartbeat revokes the lease.
Refuse(t) ==
    /\ At(t, "refuse")
    /\ active' = IF job[t].call = "heartbeat" THEN active \ {job[t].dev} ELSE active
    /\ Done(t)
    /\ UNCHANGED <<device, bans, exempt, link, role, proven, fair>>

\* An exception.
Abort(t) ==
    /\ job[t].pc # "idle"
    /\ Done(t)
    /\ UNCHANGED tables
-----------------------------------------------------------------------------
(* Admins, Discord, logins and time *)

May(what) == what \in scene.world

SetStatus(d, status) ==
    /\ May("status")
    /\ device[d].of # None
    /\ device' = [device EXCEPT ![d].status = status]
    /\ UNCHANGED <<bans, exempt, link, role, proven, active, job, fair>>

\* A row of ban_player or create_ban.
AddBan(s) ==
    /\ s \in Device => device[s].of # None
    /\ bans' = bans \cup {s}
    /\ UNCHANGED <<device, exempt, link, role, proven, active, job, fair>>

\* A row of unban_player, delete_ban, or the end of a ban that runs out.
DropBan(s) ==
    /\ bans' = bans \ {s}
    /\ UNCHANGED <<device, exempt, link, role, proven, active, job, fair>>

\* upsert_bypass; delete_bypass, or the end of one that runs out.
Bypass(p) ==
    /\ May("bypass")
    /\ exempt' = IF p \in exempt THEN exempt \ {p} ELSE exempt \cup {p}
    /\ UNCHANGED <<device, bans, link, role, proven, active, job, fair>>

HasRole(p) == link[p] # None /\ link[p].account \in role

RoleChange(a) ==
    /\ role' = IF a \in role THEN role \ {a} ELSE role \cup {a}
    /\ fair' = {p \in fair : link[p].account \in role'}
    /\ UNCHANGED <<device, bans, exempt, link, proven, active, job>>

\* discord_callback: only who has the role gets through.
Confirm(a) ==
    /\ a \in role
    /\ proven' = proven \cup {a}
    /\ UNCHANGED <<device, bans, exempt, link, role, active, job, fair>>

Checking(p) ==
    \E t \in Thread :
        /\ job[t].player = p
        /\ job[t].pc \in {"ask", "record"} \/ job[t].why = "role"

\* _link's upsert: the role counts as just seen, although the callback was earlier.  (Which
\* account may replace which is the subject of Login.)
LinkAccount(p, a) ==
    /\ \A q \in Player \ {p} : link[q] # None => link[q].account # a
    /\ link' = [link EXCEPT ![p] = [account |-> a, ok |-> TRUE, age |-> 0]]
    /\ fair' = IF a \in role /\ ~Checking(p) THEN fair \cup {p} ELSE fair \ {p}
    /\ UNCHANGED <<device, bans, exempt, role, proven, active, job>>

\* A login has no code left to redeem, expires, or is lost in a restart.
Forget(a) ==
    /\ proven' = proven \ {a}
    /\ UNCHANGED <<device, bans, exempt, link, role, active, job, fair>>

Unlink(p) ==
    /\ May("unlink")
    /\ link' = [link EXCEPT ![p] = None]
    /\ fair' = fair \ {p}
    /\ UNCHANGED <<device, bans, exempt, role, proven, active, job>>

\* checked_utc recedes.
Age(p) ==
    /\ May("time")
    /\ link[p] # None /\ link[p].age < 2
    /\ link' = [link EXCEPT ![p].age = @ + 1]
    /\ UNCHANGED <<device, bans, exempt, role, proven, active, job, fair>>

\* Any other end of a lease (Leases).
EndLease(d) ==
    /\ May("leases")
    /\ d \in active
    /\ active' = active \ {d}
    /\ UNCHANGED <<device, bans, exempt, link, role, proven, job, fair>>
-----------------------------------------------------------------------------
\* What speaks against the call of thread t now.
AgainstDevice(j) ==
    LET d == j.dev
    IN  {r \in Reason :
            \/ r.why = "rejected" /\ device[d].status = "rejected"
            \/ r.why = "pending" /\ j.call = "start" /\ device[d].status = "pending"
                                 /\ ~(AllowBypass /\ j.player \in exempt)
            \/ r.why = "banned" /\ r.of \in bans
                                /\ r.of \in {j.player, d} \cup device[d].parts
            \/ r.why = "flagged" /\ j.dirty /\ ~(AllowBypass /\ j.player \in exempt)}

AgainstLink(j) ==
    LET l == link[j.player]
    IN  {r \in Reason :
            /\ DiscordRequired
            /\ \/ r.why = "unlinked" /\ l = None
               \/ r.why = "roleless" /\ l # None /\ r.of = l.account
                                     /\ ~l.ok /\ l.account \notin role}

AgainstApproval(j) ==
    {r \in Reason :
        \/ r.why = "bare" /\ j.parts = {}
        \/ r.why = "shared" /\ r.of \in SharingOthers(j.player, j.parts)}

Against(j) ==
    CASE j.call = "register" -> AgainstApproval(j)
      [] j.call \in {"start", "heartbeat"} -> AgainstDevice(j) \cup AgainstLink(j)
      [] OTHER -> {}

Standing(t) == Against(job[t])

\* The history of a call: what has spoken against it in every state since it began.
Watch ==
    /\ stood' = [t \in Thread |->
                    IF job[t].pc = "idle" THEN Standing(t)' ELSE stood[t] \cap Standing(t)']
    /\ UNCHANGED scene
-----------------------------------------------------------------------------
Init ==
    /\ scene \in Scenes
    /\ device = scene.device
    /\ bans = {} /\ exempt = {} /\ proven = {} /\ fair = {}
    /\ link = scene.link
    /\ role = scene.role
    /\ active = scene.active
    /\ job = [t \in Thread |-> Idle]
    /\ stood = [t \in Thread |-> {}]

Step(t) ==
    \/ FindOwn(t) \/ Rekey(t) \/ Review(t) \/ Insert(t)
    \/ ReadDevice(t) \/ FindBypass(t) \/ ReadParts(t) \/ FindBan(t)
    \/ ReadLink(t) \/ Answered(t) \/ Unavailable(t) \/ Record(t)
    \/ Report(t) \/ Admit(t) \/ Refuse(t)

Call(t) ==
    \/ \E p \in scene.players, ps \in scene.prints : BeginRegister(t, p, ps)
    \/ \E d \in Device, dirty \in scene.reports :
          BeginStart(t, d, dirty) \/ BeginHeartbeat(t, d, dirty)

World ==
    \/ \E d \in Device : EndLease(d) \/ \E s \in Status \ {"pending"} : SetStatus(d, s)
    \/ \E s \in scene.bans : AddBan(s) \/ DropBan(s)
    \/ \E p \in scene.players :
          Bypass(p) \/ Unlink(p) \/ Age(p) \/ \E a \in proven : LinkAccount(p, a)
    \/ \E a \in scene.accounts : RoleChange(a) \/ Confirm(a)
    \/ \E a \in proven : Forget(a)

Next ==
    /\ (\E t \in Thread : Call(t) \/ Step(t) \/ Abort(t)) \/ World
    /\ Watch

\* A call that was taken goes on; time passes; Discord does not fail, nor a call break off, for
\* ever at the same point; a lease is heard to the end of a heartbeat again, or it expires.
Fairness ==
    /\ \A t \in Thread : WF_vars(Step(t) /\ Watch)
    /\ \A t \in Thread : SF_vars(Answered(t) /\ Watch) /\ SF_vars(Record(t) /\ Watch)
    /\ \A p \in Player : WF_vars(Age(p) /\ Watch)
    /\ \A d \in Device :
          WF_vars(/\ \/ EndLease(d)
                     \/ \E t \in Thread : job[t].dev = d /\ job[t].call = "heartbeat"
                                          /\ (Admit(t) \/ Refuse(t))
                  /\ Watch)

Spec == Init /\ [][Next]_vars /\ Fairness
-----------------------------------------------------------------------------
(* Properties *)

\* No lease is granted or renewed, and no new PC approved by itself, by a call against which
\* something has spoken all the time since it began: a ban, a rejection, an account that is not
\* linked or has lost its role, blocking findings, a missing approval; hardware of others, or
\* none (sessions.py reads each of them in a store call of its own).
NothingStandsAgainst ==
    \A t \in Thread :
        \/ job[t].pc = "admit"
        \/ job[t].pc = "insert" /\ job[t].status = "approved"
        => stood[t] = {}

\* Who linked an account with the role, and has kept it ever since, is never refused for the
\* role: not by an outage of Discord, not by an old answer, not by other players' checks,
\* unless the link was made in the middle of a check (discord_gate.py writes by Steam ID).
RoleHolderPasses ==
    \A t \in Thread : job[t].why = "role" => job[t].player \notin fair

\* A lost role, or a link that an admin took away, ends the lease and keeps the player out, once
\* no login confirmed earlier is left: what was learnt grows old and Discord is asked again.
RoleLossEndsLease ==
    \A p \in Player :
        DiscordRequired /\ <>[](~HasRole(p) /\ proven = {})
            => <>[](\A d \in active : device[d].of # p)
=============================================================================
