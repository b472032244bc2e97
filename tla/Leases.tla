------------------------------- MODULE Leases -------------------------------
(***************************************************************************)
(* The play leases of the IsleWarden server: SessionManager (sessions.py), *)
(* the session sweeper (sweeper.py), the admin operations that end leases  *)
(* (app.py) and the desired whitelist they all maintain (the whitelist     *)
(* table; WhitelistSync.tla follows it on to the game server).             *)
(*                                                                         *)
(* Request handlers run in a thread pool and the sweeper in a thread of    *)
(* its own.  They share nothing but SQLite in autocommit mode: every store *)
(* call opens its own connection and commits by itself.  An action below   *)
(* is one such call with the local code around it; what another thread     *)
(* does between two calls of a handler is free.                            *)
(***************************************************************************)
EXTENDS Integers, FiniteSets

CONSTANTS
    Player,    \* Steam IDs
    Sid,       \* lease ids that crypto.new_id() can return
    Worker,    \* threads of the request pool
    Sweeper,   \* the sweeper thread
    Calls,     \* what the environment does: requests, admin calls, "abort"
    Grace,     \* settings.lease_grace, in units of the clock
    LastCall,  \* nobody calls the server after this time
    MaxDelay   \* a thread finishes its work within this time

CallNames ==
    {"start", "heartbeat", "end", "revoke", "ban", "banRow", "unban", "abort"}

ASSUME ConstantsAssumption ==
    /\ Calls \subseteq CallNames
    /\ Grace \in Nat
    /\ LastCall \in Nat
    /\ MaxDelay \in Nat
    /\ Sweeper \notin Worker

(* By this time every lease has been silent for longer than Grace. *)
Horizon == LastCall + Grace + 1

Thread == Worker \cup {Sweeper}

VARIABLES
    clock,      \* utc_now(): Nat
    lease,      \* sessions: Sid -> [state, player, beat]
    banned,     \* players with an active ban of their Steam ID
    banTime,    \* history: when the standing ban of a player was inserted
    whitelist,  \* the whitelist table
    told,       \* leases whose token reached a launcher
    heard,      \* history: the latest heartbeat time a launcher was answered
    job         \* what each thread is doing

vars == <<clock, lease, banned, banTime, whitelist, told, heard, job>>
tables == <<lease, banned, banTime, whitelist, told, heard>>

-----------------------------------------------------------------------------
(* Threads.  call: the operation; pc: its next step; at: the utc_now() it  *)
(* read first; sid, player: the lease and Steam ID in hand; todo: the      *)
(* leases it has yet to end.                                               *)

Idle == [call |-> "none", pc |-> "idle", at |-> 0,
         sid |-> "none", player |-> "none", todo |-> {}]

Working(call, pc, sid, player, todo) ==
    [call |-> call, pc |-> pc, at |-> clock,
     sid |-> sid, player |-> player, todo |-> todo]

(* expires_utc is always written together with last_heartbeat_utc and is   *)
(* last_heartbeat_utc + Grace, so the row keeps the heartbeat time alone.  *)
Unused == [state |-> "Unused", player |-> "none", beat |-> 0]

IsActive(s) == lease[s].state = "Active"

ActiveOf(p) == {s \in Sid : IsActive(s) /\ lease[s].player = p}

Goto(t, pc) == job' = [job EXCEPT ![t].pc = pc]
Return(t) == job' = [job EXCEPT ![t] = Idle]

Init ==
    /\ clock = 0
    /\ lease = [s \in Sid |-> Unused]
    /\ banned = {}
    /\ banTime = [p \in Player |-> 0]
    /\ whitelist = {}
    /\ told = {}
    /\ heard = [s \in Sid |-> 0]
    /\ job = [t \in Thread |-> Idle]

(* A free worker takes a call; the launchers and admins stop at LastCall.  *)
Accepts(w, call) ==
    /\ call \in Calls
    /\ clock <= LastCall
    /\ job[w].pc = "idle"

-----------------------------------------------------------------------------
(* start_session *)

BeginStart(w, p) ==
    /\ Accepts(w, "start")
    /\ job' = [job EXCEPT ![w] = Working("start", "gates", "none", p, {})]
    /\ UNCHANGED <<clock, tables>>

(* The ban gate, read once; the gates after it do not look at it again.    *)
StartGates(w) ==
    /\ job[w].call = "start"
    /\ job[w].pc = "gates"
    /\ IF job[w].player \in banned THEN Return(w) ELSE Goto(w, "insert")
    /\ UNCHANGED <<clock, tables>>

(* The device, Discord, consent and anti-cheat gates refuse the join.      *)
RefuseStart(w) ==
    /\ job[w].call = "start"
    /\ job[w].pc \in {"gates", "insert"}
    /\ Return(w)
    /\ UNCHANGED <<clock, tables>>

(* insert_session: the row carries the time the handler read at its start. *)
InsertSession(w, s) ==
    /\ job[w].call = "start"
    /\ job[w].pc = "insert"
    /\ lease[s].state = "Unused"
    /\ lease' = [lease EXCEPT ![s] =
                   [state |-> "Active", player |-> job[w].player, beat |-> job[w].at]]
    /\ job' = [job EXCEPT ![w].pc = "grant", ![w].sid = s]
    /\ UNCHANGED <<clock, banned, banTime, whitelist, told, heard>>

(* whitelist.grant, then the answer with the lease token.                  *)
Grant(w) ==
    /\ job[w].call = "start"
    /\ job[w].pc = "grant"
    /\ whitelist' = whitelist \cup {job[w].player}
    /\ told' = told \cup {job[w].sid}
    /\ heard' = [heard EXCEPT ![job[w].sid] = job[w].at]
    /\ Return(w)
    /\ UNCHANGED <<clock, lease, banned, banTime>>

-----------------------------------------------------------------------------
(* heartbeat.  A lease that is not Active is answered at once.             *)

BeginHeartbeat(w, s) ==
    /\ Accepts(w, "heartbeat")
    /\ s \in told
    /\ IsActive(s)
    /\ job' = [job EXCEPT ![w] = Working("heartbeat", "gates", s, lease[s].player, {})]
    /\ UNCHANGED <<clock, tables>>

(* A gate that no longer holds revokes the lease.                          *)
Reject(w) == job' = [job EXCEPT ![w].pc = "end", ![w].todo = {job[w].sid}]

HeartbeatGates(w) ==
    /\ job[w].call = "heartbeat"
    /\ job[w].pc = "gates"
    /\ IF job[w].player \in banned THEN Reject(w) ELSE Goto(w, "renew")
    /\ UNCHANGED <<clock, tables>>

(* Rejected device, lost Discord role, blocking finding.                   *)
RefuseHeartbeat(w) ==
    /\ job[w].call = "heartbeat"
    /\ job[w].pc = "renew"
    /\ Reject(w)
    /\ UNCHANGED <<clock, tables>>

(* Mutants of Renew: the row gets the cutoff instead of the heartbeat      *)
(* time; the row gets a second reading of the clock.                       *)
Renew_Cutoff(w) ==
    /\ job[w].pc = "renew"
    /\ IsActive(job[w].sid)
    /\ lease' = [lease EXCEPT ![job[w].sid].beat = job[w].at - Grace]
    /\ Return(w)
    /\ UNCHANGED <<clock, banned, banTime, whitelist, told, heard>>

Renew_SecondClock(w) ==
    /\ job[w].pc = "renew"
    /\ IsActive(job[w].sid)
    /\ lease' = [lease EXCEPT ![job[w].sid].beat = clock]
    /\ Return(w)
    /\ UNCHANGED <<clock, banned, banTime, whitelist, told, heard>>

(* try_renew_session: WHERE state = 'Active', with the handler's own time. *)
Renew(w) ==
    /\ job[w].call = "heartbeat"
    /\ job[w].pc = "renew"
    /\ IF IsActive(job[w].sid)
       THEN /\ lease' = [lease EXCEPT ![job[w].sid].beat = job[w].at]
            /\ heard' = [heard EXCEPT ![job[w].sid] = IF @ < job[w].at THEN job[w].at ELSE @]
       ELSE UNCHANGED <<lease, heard>>
    /\ Return(w)
    /\ UNCHANGED <<clock, banned, banTime, whitelist, told>>

-----------------------------------------------------------------------------
(* Ending leases: end_session, revoke, expire, drop_player.  Each has the  *)
(* leases to end in todo; drop_player and the sweeper have a list.         *)

EndState(call) ==
    CASE call = "end"   -> "Ended"
      [] call = "sweep" -> "Expired"
      [] OTHER          -> "Revoked"

(* The launcher hands its lease back (end_session checks only the token).  *)
BeginEnd(w, s) ==
    /\ Accepts(w, "end")
    /\ s \in told
    /\ job' = [job EXCEPT ![w] = Working("end", "end", s, lease[s].player, {s})]
    /\ UNCHANGED <<clock, tables>>

(* revoke_session: the admin picks a lease the dashboard shows as Active.  *)
BeginRevoke(w, s) ==
    /\ Accepts(w, "revoke")
    /\ IsActive(s)
    /\ job' = [job EXCEPT ![w] = Working("revoke", "end", s, lease[s].player, {s})]
    /\ UNCHANGED <<clock, tables>>

(* ban_steam_id, ban_player: insert_ban, then drop_player.                 *)
InsertBan(p) ==
    /\ banned' = banned \cup {p}
    /\ banTime' = IF p \in banned THEN banTime ELSE [banTime EXCEPT ![p] = clock]

BeginBan(w, p) ==
    /\ Accepts(w, "ban")
    /\ InsertBan(p)
    /\ job' = [job EXCEPT ![w] = Working("ban", "list", "none", p, {})]
    /\ UNCHANGED <<clock, lease, whitelist, told, heard>>

BanList(w) ==
    /\ job[w].call = "ban"
    /\ job[w].pc = "list"
    /\ job' = [job EXCEPT ![w].pc = "end", ![w].todo = ActiveOf(job[w].player)]
    /\ UNCHANGED <<clock, tables>>

(* The last line of drop_player takes the Steam ID off unconditionally.    *)
BanDrop(w) ==
    /\ job[w].call = "ban"
    /\ job[w].pc = "end"
    /\ job[w].todo = {}
    /\ whitelist' = whitelist \ {job[w].player}
    /\ Return(w)
    /\ UNCHANGED <<clock, lease, banned, banTime, told, heard>>

(* create_ban (no drop_player), delete_ban and unban_player: one step.     *)
BanRow(w, p) ==
    /\ Accepts(w, "banRow")
    /\ InsertBan(p)
    /\ UNCHANGED <<clock, lease, whitelist, told, heard, job>>

Unban(w, p) ==
    /\ Accepts(w, "unban")
    /\ banned' = banned \ {p}
    /\ UNCHANGED <<clock, lease, banTime, whitelist, told, heard, job>>

(* Mutant: the cutoff is taken when the sweeper starts, not at each sweep. *)
Stale_FirstCutoff(s, now) == IsActive(s) /\ lease[s].beat + Grace < 0

\* Mutant: last_heartbeat_utc <= cutoff.
Stale_AtCutoff(s, now) == IsActive(s) /\ lease[s].beat + Grace <= now

(* sweep: the cutoff is at - Grace; stale rows of the list are to expire.  *)
Stale(s, now) == IsActive(s) /\ lease[s].beat + Grace < now

BeginSweep ==
    /\ job[Sweeper].pc = "idle"
    /\ \E s \in Sid : Stale(s, clock)
    /\ job' = [job EXCEPT ![Sweeper] =
                 Working("sweep", "end", "none", "none", {s \in Sid : Stale(s, clock)})]
    /\ UNCHANGED <<clock, tables>>

(* What follows one lease of the list: the next one, drop_player's final   *)
(* step, or the end of the call.                                           *)
Proceed(t, todo) ==
    IF todo = {} /\ job[t].call # "ban"
    THEN Return(t)
    ELSE job' = [job EXCEPT ![t].pc = "end", ![t].todo = todo]

(* Mutants of CanEnd: WHERE without state = 'Active'; without the          *)
(* sweeper's last_heartbeat_utc condition.                                 *)
CanEnd_AnyState(t, s) == lease[s].state # "Unused"
CanEnd_NoCutoff(t, s) == IsActive(s)

(* try_end_session: only an Active row, and for the sweeper only one whose *)
(* heartbeat is still older than its cutoff.  Whoever ended it goes on to  *)
(* _remove_whitelist_if_last.                                              *)
CanEnd(t, s) == IF job[t].call = "sweep" THEN Stale(s, job[t].at) ELSE IsActive(s)

TryEnd(t, s) ==
    /\ job[t].pc = "end"
    /\ s \in job[t].todo
    /\ IF CanEnd(t, s)
       THEN /\ lease' = [lease EXCEPT ![s].state = EndState(job[t].call)]
            /\ job' = [job EXCEPT ![t].pc = "check", ![t].sid = s,
                               ![t].player = lease[s].player,
                               ![t].todo = @ \ {s}]
       ELSE /\ Proceed(t, job[t].todo \ {s})
            /\ UNCHANGED lease
    /\ UNCHANGED <<clock, banned, banTime, whitelist, told, heard>>

(* Mutant: without steam_id = ?.                                           *)
OtherActive_AnyPlayer(p, s) == {r \in Sid : IsActive(r)} \ {s}

(* has_other_active_session *)
OtherActive(p, s) == ActiveOf(p) \ {s}

(* _remove_whitelist_if_last reads first (has_other_active_session) ...    *)
DropCheck(t) ==
    /\ job[t].pc = "check"
    /\ IF OtherActive(job[t].player, job[t].sid) # {}
       THEN Proceed(t, job[t].todo)
       ELSE Goto(t, "drop")
    /\ UNCHANGED <<clock, tables>>

(* ... and acts on what it read in a later store call (whitelist.revoke).  *)
DropRemove(t) ==
    /\ job[t].pc = "drop"
    /\ whitelist' = whitelist \ {job[t].player}
    /\ Proceed(t, job[t].todo)
    /\ UNCHANGED <<clock, lease, banned, banTime, told, heard>>

-----------------------------------------------------------------------------
(* A store call raises, or the process dies: the rest of the call is lost. *)
(* A crash of the server is an Abort of every thread; the database stays,  *)
(* and nothing at startup repairs what a lost step would have written.     *)
Abort(t) ==
    /\ "abort" \in Calls
    /\ clock <= LastCall
    /\ job[t].pc # "idle"
    /\ Return(t)
    /\ UNCHANGED <<clock, tables>>

Tick ==
    /\ clock < Horizon
    /\ \A t \in Thread : job[t].pc # "idle" => clock - job[t].at < MaxDelay
    /\ clock' = clock + 1
    /\ UNCHANGED <<tables, job>>

(* After the last call, with every thread idle and no lease left to        *)
(* expire, the server waits for ever.                                      *)
Quiet ==
    /\ clock = Horizon
    /\ \A t \in Thread : job[t].pc = "idle"
    /\ \A s \in Sid : ~Stale(s, clock)
    /\ UNCHANGED vars

(* What a thread does once it has taken a call. *)
Continue(t) ==
    \/ StartGates(t)
    \/ RefuseStart(t)
    \/ \E s \in Sid : InsertSession(t, s)
    \/ Grant(t)
    \/ HeartbeatGates(t)
    \/ RefuseHeartbeat(t)
    \/ Renew(t)
    \/ BanList(t)
    \/ BanDrop(t)
    \/ \E s \in Sid : TryEnd(t, s)
    \/ DropCheck(t)
    \/ DropRemove(t)

(* A call the environment makes. *)
Call(w) ==
    \/ \E p \in Player : BeginStart(w, p) \/ BeginBan(w, p) \/ BanRow(w, p) \/ Unban(w, p)
    \/ \E s \in Sid : BeginHeartbeat(w, s) \/ BeginEnd(w, s) \/ BeginRevoke(w, s)

Next ==
    \/ \E w \in Worker : Call(w)
    \/ \E t \in Thread : Continue(t) \/ Abort(t)
    \/ BeginSweep
    \/ Tick
    \/ Quiet

Spec == Init /\ [][Next]_vars

(* Threads that have work do it, the sweeper wakes up every interval, and  *)
(* time passes.  Nothing obliges a launcher or an admin to call.           *)
Fairness ==
    /\ \A t \in Thread : WF_vars(Continue(t))
    /\ WF_vars(BeginSweep)
    /\ WF_vars(Tick)

FairSpec == Spec /\ Fairness

-----------------------------------------------------------------------------
(* Properties *)

LeaseRow ==
    [state : {"Unused", "Active", "Ended", "Revoked", "Expired"},
     player : Player \cup {"none"}, beat : Nat]

Job ==
    [call : {"none", "start", "heartbeat", "end", "revoke", "ban", "sweep"},
     pc : {"idle", "gates", "insert", "grant", "renew", "list", "end", "check", "drop"},
     at : Nat,
     sid : Sid \cup {"none"}, player : Player \cup {"none"}, todo : SUBSET Sid]

(* Every variable has its type. *)
TypeOK ==
    /\ clock \in Nat
    /\ lease \in [Sid -> LeaseRow]
    /\ banned \in SUBSET Player
    /\ banTime \in [Player -> Nat]
    /\ whitelist \in SUBSET Player
    /\ told \in SUBSET Sid
    /\ heard \in [Sid -> Nat]
    /\ job \in [Thread -> Job]

(* sessions.py:142, 205: while a ban stands, no lease of the player is     *)
(* granted or renewed from a time after the ban was inserted, however the  *)
(* ban races a join or a heartbeat: what slips past the ban gate carries   *)
(* a time read before the ban.  So a banned player's lease is over at the  *)
(* latest one grace period after the ban.                                  *)
BanFreezesLease ==
    \A s \in Sid :
        IsActive(s) /\ lease[s].player \in banned
            => lease[s].beat <= banTime[lease[s].player]

(* store.py:230: of all the paths that end a lease (launcher, heartbeat,   *)
(* admin, ban, sweeper), one at most goes on to drop its whitelist entry   *)
(* and kick, and it does so for a lease that is over.                      *)
Dropping(t, s) == job[t].pc \in {"check", "drop"} /\ job[t].sid = s

OneDropper ==
    \A s \in Sid, t1, t2 \in Thread :
        Dropping(t1, s) => /\ lease[s].state \in {"Ended", "Revoked", "Expired"}
                           /\ Dropping(t2, s) => t1 = t2

(* A thread that will take the player off the whitelist, or decide to.     *)
LeavingSoon(p) ==
    \E t \in Thread : /\ job[t].player = p
                      /\ \/ job[t].pc \in {"check", "drop"}
                         \/ job[t].call = "ban"

(* README.md:89: who is on the whitelist has a lease, or is being taken    *)
(* off it.                                                                 *)
WhitelistedHasLease ==
    \A p \in whitelist : ActiveOf(p) # {} \/ LeavingSoon(p)

(* sessions.py:277: who has an active lease is on the whitelist, or is     *)
(* being put on it.                                                        *)
LeaseIsWhitelisted ==
    \A s \in Sid :
        IsActive(s) => \/ lease[s].player \in whitelist
                       \/ \E w \in Worker : job[w].pc = "grant" /\ job[w].sid = s

(* Leases implements the life cycle of a lease.                            *)
Lifecycle == INSTANCE LeaseLifecycle
LeaseLifecycleHolds == Lifecycle!Spec

(* store.py:224: heartbeats that overlap may renew in the wrong order and  *)
(* move the row back.  How far is bounded: a lease expires at most         *)
(* MaxDelay short of a grace period after the latest heartbeat that a      *)
(* launcher was answered.                                                  *)
ExpiresUnheard ==
    [][\A s \in Sid :
         lease[s].state = "Active" /\ lease'[s].state = "Expired"
             => heard[s] + Grace < clock + MaxDelay]_vars

(* README.md:89: a lease whose launcher stops calling ends.                *)
EveryLeaseEnds == \A s \in Sid : IsActive(s) ~> ~IsActive(s)

(* README.md:90: once all launchers are gone, the whitelist empties.       *)
WhitelistDrains == <>[](whitelist = {})
=============================================================================
