-------------------------------- MODULE Login --------------------------------
(***************************************************************************)
(* A player's login (login/service.py, login/pending.py) and the links     *)
(* between Steam IDs and Discord accounts that it makes.                   *)
(*                                                                         *)
(* A login passes through the browser (Steam's callback, then Discord's)   *)
(* and ends when the launcher redeems the one-time code the browser was    *)
(* given.  Each callback and each redemption runs in a thread of its own.  *)
(* They share the PendingLogin objects, whose fields are read and written  *)
(* without a lock, the tables of PendingLogins, which have one, and the    *)
(* discord_links table, one store call at a time.  Steam, Discord and the  *)
(* browser are external: a callback may come twice, and any answer may     *)
(* come back.                                                              *)
(***************************************************************************)
EXTENDS Naturals, FiniteSets

CONSTANTS
    Login,       \* login ids that crypto.new_id() can return
    Code,        \* one-time codes that crypto.new_secret() can return
    Steam,       \* Steam IDs
    Discord,     \* Discord accounts that hold a required role
    Worker,      \* threads of the request pool
    Required,    \* values of settings.discord.required to consider
    MaxPending   \* MAX_PENDING

ASSUME ConstantsAssumption ==
    /\ Required \subseteq BOOLEAN
    /\ MaxPending \in Nat
    /\ "none" \notin Steam \cup Discord
    /\ {"unissued", "gone"} \cap Login = {}

VARIABLES
    required,  \* DiscordGate.enabled, fixed at start
    fresh,     \* login ids not used yet
    byId,      \* PendingLogins._by_id: logins whose browser part goes on
    byCode,    \* PendingLogins._by_code: Code -> login, "unissued" or "gone"
    login,     \* the PendingLogin objects: steam_id, discord_id, failure
    expired,   \* logins older than LIFETIME
    link,      \* discord_links: Steam -> Discord or "none"
    job        \* what each thread is doing

vars == <<required, fresh, byId, byCode, login, expired, link, job>>
pending == <<fresh, byId, byCode, expired>>

Started == [steam |-> "none", discord |-> "none", failed |-> FALSE]

Idle == [pc |-> "idle", login |-> "none", failing |-> FALSE,
         steam |-> "none", discord |-> "none", seen |-> "none"]

Init ==
    /\ required \in Required
    /\ fresh = Login
    /\ byId = {}
    /\ byCode = [c \in Code |-> "unissued"]
    /\ login = [l \in Login |-> Started]
    /\ expired = {}
    /\ link = [s \in Steam |-> "none"]
    /\ job = [w \in Worker |-> Idle]

Goto(w, pc) == job' = [job EXCEPT ![w].pc = pc]
Return(w) == job' = [job EXCEPT ![w] = Idle]

-----------------------------------------------------------------------------
(* Starting a login: expired entries are swept first, under the same lock. *)

Sweep(table) == [c \in Code |-> IF table[c] \in expired THEN "gone" ELSE table[c]]

Entries(ids, table) == Cardinality(ids) + Cardinality({c \in Code : table[c] \in Login})

Start ==
    /\ byCode' = Sweep(byCode)
    /\ IF Entries(byId \ expired, Sweep(byCode)) >= MaxPending
       THEN byId' = byId \ expired /\ UNCHANGED fresh
       ELSE \E l \in fresh : byId' = (byId \ expired) \cup {l} /\ fresh' = fresh \ {l}
    /\ UNCHANGED <<required, login, expired, link, job>>

(* PendingLogins.get *)
Open(l) == l \in byId /\ l \notin expired

-----------------------------------------------------------------------------
(* The browser part. *)

BeginSteam(w, l) ==
    /\ job[w].pc = "idle"
    /\ Open(l)
    /\ login[l].steam = "none"
    /\ job' = [job EXCEPT ![w] = [Idle EXCEPT !.pc = "steam", !.login = l]]
    /\ UNCHANGED <<required, pending, login, link>>

(* Steam confirms an assertion: on to Discord if it is required.           *)
SteamConfirms(w, s) ==
    /\ job[w].pc = "steam"
    /\ login' = [login EXCEPT ![job[w].login].steam = s]
    /\ IF required THEN Return(w) ELSE Goto(w, "settle")
    /\ UNCHANGED <<required, pending, link>>

(* Mutant: without the test of login.steam_id. *)
BeginDiscord_NoSteam(w, l) ==
    /\ job[w].pc = "idle"
    /\ Open(l)
    /\ login[l].discord = "none"
    /\ job' = [job EXCEPT ![w] = [Idle EXCEPT !.pc = "discord", !.login = l]]
    /\ UNCHANGED <<required, pending, login, link>>

BeginDiscord(w, l) ==
    /\ job[w].pc = "idle"
    /\ Open(l)
    /\ login[l].steam # "none"
    /\ login[l].discord = "none"
    /\ job' = [job EXCEPT ![w] = [Idle EXCEPT !.pc = "discord", !.login = l]]
    /\ UNCHANGED <<required, pending, login, link>>

(* Discord names a member who holds a required role. *)
DiscordConfirms(w, d) ==
    /\ job[w].pc = "discord"
    /\ login' = [login EXCEPT ![job[w].login].discord = d]
    /\ Goto(w, "settle")
    /\ UNCHANGED <<required, pending, link>>

(* Cancelled, rejected, no role, not a member, unreachable. *)
Refused(w) ==
    /\ job[w].pc \in {"steam", "discord"}
    /\ job' = [job EXCEPT ![w].pc = "settle", ![w].failing = TRUE]
    /\ UNCHANGED <<required, pending, login, link>>

(* _finish sets the failure of the login, or clears it ... *)
Settle(w) ==
    /\ job[w].pc = "settle"
    /\ login' = [login EXCEPT ![job[w].login].failed = job[w].failing]
    /\ Goto(w, "finish")
    /\ UNCHANGED <<required, pending, link>>

(* ... and PendingLogins.finish issues a code under the lock.              *)
Finish(w, c) ==
    /\ job[w].pc = "finish"
    /\ byCode[c] = "unissued"
    /\ byId' = byId \ {job[w].login}
    /\ byCode' = [byCode EXCEPT ![c] = job[w].login]
    /\ Return(w)
    /\ UNCHANGED <<required, fresh, login, expired, link>>

-----------------------------------------------------------------------------
(* complete: the launcher redeems its code. *)

(* Mutant: a code that was used up is not refused. *)
Redeem_UsedCode(w, c) ==
    /\ job[w].pc = "idle"
    /\ byCode[c] \notin {"unissued"} \cup expired
    /\ byCode' = [byCode EXCEPT ![c] = "gone"]
    /\ job' = [job EXCEPT ![w] = [Idle EXCEPT !.pc = "redeemed", !.login = byCode[c]]]
    /\ UNCHANGED <<required, fresh, byId, login, expired, link>>

Redeem(w, c) ==
    /\ job[w].pc = "idle"
    /\ byCode[c] \in Login \ expired
    /\ byCode' = [byCode EXCEPT ![c] = "gone"]
    /\ job' = [job EXCEPT ![w] = [Idle EXCEPT !.pc = "redeemed", !.login = byCode[c]]]
    /\ UNCHANGED <<required, fresh, byId, login, expired, link>>

(* A callback of the same login that is still in progress may change it    *)
(* between any two of these reads.                                         *)
ReadFailure(w) ==
    /\ job[w].pc = "redeemed"
    /\ IF login[job[w].login].failed \/ ~required THEN Return(w) ELSE Goto(w, "readSteam")
    /\ UNCHANGED <<required, pending, login, link>>

ReadSteam(w) ==
    /\ job[w].pc = "readSteam"
    /\ job' = [job EXCEPT ![w].pc = "readDiscord", ![w].steam = login[job[w].login].steam]
    /\ UNCHANGED <<required, pending, login, link>>

ReadDiscord(w) ==
    /\ job[w].pc = "readDiscord"
    /\ job' = [job EXCEPT ![w].pc = "byDiscord", ![w].discord = login[job[w].login].discord]
    /\ UNCHANGED <<required, pending, login, link>>

(* _link looks the Discord account up, then the Steam ID, then writes.     *)
LinkedElsewhere(s, d) == \E other \in Steam \ {s} : link[other] = d

ByDiscord(w) ==
    /\ job[w].pc = "byDiscord"
    /\ IF LinkedElsewhere(job[w].steam, job[w].discord) THEN Return(w) ELSE Goto(w, "bySteam")
    /\ UNCHANGED <<required, pending, login, link>>

(* Mutant: the Steam ID's own link is read, but not compared. *)
BySteam_NoCompare(w) ==
    /\ job[w].pc = "bySteam"
    /\ job' = [job EXCEPT ![w].pc = "upsert", ![w].seen = link[job[w].steam]]
    /\ UNCHANGED <<required, pending, login, link>>

BySteam(w) ==
    /\ job[w].pc = "bySteam"
    /\ IF link[job[w].steam] \notin {"none", job[w].discord}
       THEN Return(w)
       ELSE job' = [job EXCEPT ![w].pc = "upsert", ![w].seen = link[job[w].steam]]
    /\ UNCHANGED <<required, pending, login, link>>

(* Mutant: discord_id is not UNIQUE. *)
Upsert_NotUnique(w) ==
    /\ job[w].pc = "upsert"
    /\ link' = [link EXCEPT ![job[w].steam] = job[w].discord]
    /\ Return(w)
    /\ UNCHANGED <<required, pending, login>>

(* INSERT ... ON CONFLICT(steam_id) DO UPDATE; discord_id is UNIQUE, so an *)
(* account that is linked elsewhere raises IntegrityError.                 *)
Upsert(w) ==
    /\ job[w].pc = "upsert"
    /\ link' = IF LinkedElsewhere(job[w].steam, job[w].discord)
               THEN link
               ELSE [link EXCEPT ![job[w].steam] = job[w].discord]
    /\ Return(w)
    /\ UNCHANGED <<required, pending, login>>

-----------------------------------------------------------------------------
(* unlink_discord, an admin's decision. *)
Unlink(s) ==
    /\ link[s] # "none"
    /\ link' = [link EXCEPT ![s] = "none"]
    /\ UNCHANGED <<required, pending, login, job>>

(* A login in progress passes its LIFETIME. *)
Expire(l) ==
    /\ l \notin fresh \cup expired
    /\ expired' = expired \cup {l}
    /\ UNCHANGED <<required, fresh, byId, byCode, login, link, job>>

(* The server restarts: the logins in memory are lost, the links are kept. *)
Restart ==
    /\ byId' = {}
    /\ byCode' = [c \in Code |-> IF byCode[c] \in Login THEN "gone" ELSE byCode[c]]
    /\ job' = [w \in Worker |-> Idle]
    /\ UNCHANGED <<required, fresh, login, expired, link>>

Handle(w) ==
    \/ \E l \in Login : BeginSteam(w, l) \/ BeginDiscord(w, l)
    \/ \E s \in Steam : SteamConfirms(w, s)
    \/ \E d \in Discord : DiscordConfirms(w, d)
    \/ Refused(w) \/ Settle(w)
    \/ \E c \in Code : Finish(w, c) \/ Redeem(w, c)
    \/ ReadFailure(w) \/ ReadSteam(w) \/ ReadDiscord(w)
    \/ ByDiscord(w) \/ BySteam(w) \/ Upsert(w)

Next ==
    \/ Start
    \/ \E w \in Worker : Handle(w)
    \/ \E s \in Steam : Unlink(s)
    \/ \E l \in Login : Expire(l)
    \/ Restart

Spec == Init /\ [][Next]_vars

-----------------------------------------------------------------------------
(* Properties *)

Job ==
    [pc : {"idle", "steam", "discord", "settle", "finish", "redeemed", "readSteam", "readDiscord",
           "byDiscord", "bySteam", "upsert"},
     login : Login \cup {"none"}, failing : BOOLEAN,
     steam : Steam \cup {"none"}, discord : Discord \cup {"none"}, seen : Discord \cup {"none"}]

(* Every variable has its type. *)
TypeOK ==
    /\ required \in Required
    /\ fresh \subseteq Login
    /\ byId \subseteq Login
    /\ byCode \in [Code -> Login \cup {"unissued", "gone"}]
    /\ login \in [Login -> [steam : Steam \cup {"none"}, discord : Discord \cup {"none"}, failed : BOOLEAN]]
    /\ expired \subseteq Login
    /\ link \in [Steam -> Discord \cup {"none"}]
    /\ job \in [Worker -> Job]

(* service.py:143: one Discord account per Steam ID and vice versa, however *)
(* the redemptions of two logins interleave.                               *)
LinksOneToOne ==
    \A s1, s2 \in Steam : link[s1] = link[s2] /\ link[s1] # "none" => s1 = s2

(* What login.failure is None promises about a login. *)
Proven(l) == login[l].steam # "none" /\ (required => login[l].discord # "none")

(* service.py:1: a login can be redeemed with success only if Steam named  *)
(* a Steam ID and, when Discord is required, Discord a role holder, and a  *)
(* redemption that links them has both in hand: a duplicated or a late     *)
(* callback does not complete what another refused.                        *)
RedeemedIsProven ==
    /\ \A c \in Code : byCode[c] \in Login => login[byCode[c]].failed \/ Proven(byCode[c])
    /\ \A w \in Worker :
         job[w].pc \in {"byDiscord", "bySteam", "upsert"} => "none" \notin {job[w].steam, job[w].discord}

(* service.py:153: a link changes to another Discord account only by a     *)
(* login that had looked before the present link was made; one that looks  *)
(* later is refused.                                                       *)
RelinkOnlyByOverlap ==
    [][\A s \in Steam :
         link[s] # "none" /\ link'[s] \notin {"none", link[s]} =>
             \E w \in Worker : job[w].steam = s /\ job[w].pc = "upsert" /\ job[w].seen # link[s]]_vars
=============================================================================
