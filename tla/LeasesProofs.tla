---------------------------- MODULE LeasesProofs ----------------------------
(***************************************************************************)
(* Theorems about Leases for every set of players, lease ids and threads   *)
(* and every grace period, checked by TLAPS.                               *)
(***************************************************************************)
EXTENDS Leases, TLAPS

-----------------------------------------------------------------------------
(* Part 1: types, and what the fields of a thread's job mean. *)

(* A start works for a Steam ID and, once inserted, for a lease; a         *)
(* heartbeat works for a lease that was granted to its player; no job      *)
(* carries a time that has not come yet.                                   *)
JobOK(t) ==
    /\ job[t].at <= clock
    /\ job[t].call = "start" => /\ job[t].player \in Player
                                /\ job[t].pc \in {"gates", "insert", "grant"}
    /\ job[t].call = "start" /\ job[t].pc = "grant" => job[t].sid \in Sid
    /\ job[t].call = "heartbeat" =>
          /\ job[t].sid \in Sid
          /\ lease[job[t].sid].state # "Unused"
          /\ lease[job[t].sid].player = job[t].player

(* The inductive invariant behind the type invariant. *)
Basic ==
    /\ TypeOK
    /\ \A t \in Thread : JobOK(t)
    /\ \A s \in Sid : lease[s].beat <= clock

LEMMA BasicInit == Init => Basic
  BY ConstantsAssumption DEF Init, Basic, TypeOK, JobOK, Idle, Unused, Job, LeaseRow, Thread

(* Going on with the rest of the list, or returning, keeps the jobs right. *)
LEMMA ProceedBasic ==
  ASSUME Basic, NEW t \in Thread, NEW todo \in SUBSET Sid, Proceed(t, todo),
         job[t].call # "start", UNCHANGED <<clock, lease>>
  PROVE  /\ job' \in [Thread -> Job]
         /\ \A u \in Thread : JobOK(u)'
<1> USE DEF Basic, TypeOK, JobOK, Job, LeaseRow
<1>1. CASE todo = {} /\ job[t].call # "ban"
  <2>1. job' = [job EXCEPT ![t] = Idle]
    BY <1>1 DEF Proceed, Return
  <2>2. QED
    BY <2>1 DEF Idle
<1>2. CASE ~(todo = {} /\ job[t].call # "ban")
  BY <1>2 DEF Proceed
<1>3. QED
  BY <1>1, <1>2

LEMMA BasicStep == Basic /\ [Next]_vars => Basic'
<1> SUFFICES ASSUME Basic, [Next]_vars PROVE Basic'
  OBVIOUS
<1> USE ConstantsAssumption DEF Basic, TypeOK, JobOK, Job, LeaseRow, Thread, tables
<1>1. ASSUME NEW w \in Worker, NEW p \in Player, BeginStart(w, p) PROVE Basic'
  BY <1>1 DEF BeginStart, Accepts, Working
<1>2. ASSUME NEW w \in Worker, NEW p \in Player, BeginBan(w, p) PROVE Basic'
  BY <1>2 DEF BeginBan, InsertBan, Accepts, Working
<1>3. ASSUME NEW w \in Worker, NEW p \in Player, BanRow(w, p) PROVE Basic'
  BY <1>3 DEF BanRow, InsertBan
<1>4. ASSUME NEW w \in Worker, NEW p \in Player, Unban(w, p) PROVE Basic'
  BY <1>4 DEF Unban
<1>5. ASSUME NEW w \in Worker, NEW s \in Sid, BeginHeartbeat(w, s) PROVE Basic'
  BY <1>5 DEF BeginHeartbeat, Accepts, Working, IsActive
<1>6. ASSUME NEW w \in Worker, NEW s \in Sid, BeginEnd(w, s) PROVE Basic'
  BY <1>6 DEF BeginEnd, Accepts, Working
<1>7. ASSUME NEW w \in Worker, NEW s \in Sid, BeginRevoke(w, s) PROVE Basic'
  BY <1>7 DEF BeginRevoke, Accepts, Working
<1>8. ASSUME NEW t \in Thread, StartGates(t) PROVE Basic'
  BY <1>8 DEF StartGates, Return, Goto, Idle
<1>9. ASSUME NEW t \in Thread, RefuseStart(t) PROVE Basic'
  BY <1>9 DEF RefuseStart, Return, Idle
<1>10. ASSUME NEW t \in Thread, NEW s \in Sid, InsertSession(t, s) PROVE Basic'
  BY <1>10 DEF InsertSession
<1>11. ASSUME NEW t \in Thread, Grant(t) PROVE Basic'
  BY <1>11 DEF Grant, Return, Idle
<1>12. ASSUME NEW t \in Thread, HeartbeatGates(t) PROVE Basic'
  <2>1. CASE job[t].player \in banned
    BY <1>12, <2>1 DEF HeartbeatGates, Reject
  <2>2. CASE job[t].player \notin banned
    BY <1>12, <2>2 DEF HeartbeatGates, Goto
  <2>3. QED
    BY <2>1, <2>2
<1>13. ASSUME NEW t \in Thread, RefuseHeartbeat(t) PROVE Basic'
  BY <1>13 DEF RefuseHeartbeat, Reject
<1>14. ASSUME NEW t \in Thread, Renew(t) PROVE Basic'
  <2>1. CASE IsActive(job[t].sid)
    <3>1. /\ job[t].sid \in Sid
          /\ job[t].at \in Nat
      BY <1>14 DEF Renew
    <3>2. lease' = [lease EXCEPT ![job[t].sid].beat = job[t].at]
      BY <1>14, <2>1 DEF Renew
    <3>3. heard' \in [Sid -> Nat]
      BY <1>14, <2>1, <3>1 DEF Renew
    <3>4. /\ lease' \in [Sid -> LeaseRow]
          /\ \A r \in Sid : /\ lease'[r].player = lease[r].player
                            /\ lease'[r].state = lease[r].state
                            /\ lease'[r].beat <= clock
      BY <3>1, <3>2
    <3>5. /\ job' \in [Thread -> Job]
          /\ \A u \in Thread \ {t} : job'[u] = job[u]
          /\ job'[t] = Idle
      BY <1>14 DEF Renew, Return, Idle
    <3>6. UNCHANGED <<clock, banned, banTime, whitelist, told>>
      BY <1>14 DEF Renew
    <3>7. QED
      BY <3>3, <3>4, <3>5, <3>6 DEF Idle
  <2>2. CASE ~IsActive(job[t].sid)
    BY <1>14, <2>2 DEF Renew, Return, Idle
  <2>3. QED
    BY <2>1, <2>2
<1>15. ASSUME NEW t \in Thread, BanList(t) PROVE Basic'
  BY <1>15 DEF BanList, ActiveOf
<1>16. ASSUME NEW t \in Thread, BanDrop(t) PROVE Basic'
  BY <1>16 DEF BanDrop, Return, Idle
<1>17. ASSUME NEW t \in Thread, NEW s \in Sid, TryEnd(t, s) PROVE Basic'
  <2>1. CASE CanEnd(t, s)
    <3>1. /\ lease' = [lease EXCEPT ![s].state = EndState(job[t].call)]
          /\ job' = [job EXCEPT ![t].pc = "check", ![t].sid = s,
                             ![t].player = lease[s].player,
                             ![t].todo = @ \ {s}]
      BY <1>17, <2>1 DEF TryEnd
    <3>2. EndState(job[t].call) \in {"Ended", "Revoked", "Expired"}
      BY DEF EndState
    <3>3. /\ lease' \in [Sid -> LeaseRow]
          /\ \A r \in Sid : /\ lease'[r].player = lease[r].player
                            /\ lease'[r].beat = lease[r].beat
                            /\ lease[r].state # "Unused" => lease'[r].state # "Unused"
      BY <3>1, <3>2
    <3>4. lease[s].state = "Active"
      BY <2>1 DEF CanEnd, Stale, IsActive
    <3>5. /\ job' \in [Thread -> Job]
          /\ \A u \in Thread \ {t} : job'[u] = job[u]
          /\ job'[t].at = job[t].at
          /\ job'[t].call = job[t].call
          /\ job'[t].pc = "check"
          /\ job'[t].sid = s
          /\ job'[t].player = lease[s].player
      <4>1. job[t].todo \ {s} \in SUBSET Sid
        OBVIOUS
      <4>2. lease[s].player \in Player \cup {"none"}
        OBVIOUS
      <4>3. QED
        BY <3>1, <4>1, <4>2
    <3>6. UNCHANGED <<clock, banned, banTime, whitelist, told, heard>>
      BY <1>17 DEF TryEnd
    <3>7. \A u \in Thread : JobOK(u)'
      <4>1. ASSUME NEW u \in Thread \ {t} PROVE JobOK(u)'
        BY <3>3, <3>5, <3>6
      <4>2. JobOK(t)'
        <5>1. job[t].call # "start"
          BY <1>17 DEF TryEnd
        <5>2. QED
          BY <3>3, <3>4, <3>5, <3>6, <5>1
      <4>3. QED
        BY <4>1, <4>2
    <3>8. QED
      BY <3>3, <3>5, <3>6, <3>7
  <2>2. CASE ~CanEnd(t, s)
    <3>1. Proceed(t, job[t].todo \ {s})
      BY <1>17, <2>2 DEF TryEnd
    <3>2. UNCHANGED <<clock, lease, banned, banTime, whitelist, told, heard>>
      BY <1>17, <2>2 DEF TryEnd
    <3>3. job[t].todo \ {s} \in SUBSET Sid
      OBVIOUS
    <3>4. /\ job' \in [Thread -> Job]
          /\ \A u \in Thread : JobOK(u)'
      BY <1>17, <3>1, <3>2, <3>3, ProceedBasic DEF TryEnd
    <3>5. QED
      BY <3>2, <3>4
  <2>3. QED
    BY <2>1, <2>2
<1>18. ASSUME NEW t \in Thread, DropCheck(t) PROVE Basic'
  <2>1. CASE OtherActive(job[t].player, job[t].sid) # {}
    <3>1. Proceed(t, job[t].todo)
      BY <1>18, <2>1 DEF DropCheck
    <3>2. QED
      BY <1>18, <3>1, ProceedBasic DEF DropCheck
  <2>2. CASE OtherActive(job[t].player, job[t].sid) = {}
    BY <1>18, <2>2 DEF DropCheck, Goto
  <2>3. QED
    BY <2>1, <2>2
<1>19. ASSUME NEW t \in Thread, DropRemove(t) PROVE Basic'
  BY <1>19, ProceedBasic DEF DropRemove
<1>20. ASSUME NEW t \in Thread, Abort(t) PROVE Basic'
  BY <1>20 DEF Abort, Return, Idle
<1>21. CASE BeginSweep
  BY <1>21 DEF BeginSweep, Working
<1>22. CASE Tick
  BY <1>22 DEF Tick
<1>23. CASE Quiet \/ UNCHANGED vars
  BY <1>23 DEF Quiet, vars
<1>24. QED
  BY <1>1, <1>2, <1>3, <1>4, <1>5, <1>6, <1>7, <1>8, <1>9, <1>10, <1>11, <1>12, <1>13,
     <1>14, <1>15, <1>16, <1>17, <1>18, <1>19, <1>20, <1>21, <1>22, <1>23
     DEF Next, Call, Continue

LEMMA BasicInvariant == Spec => []Basic
  BY BasicInit, BasicStep, PTL DEF Spec

(* Every variable keeps its type in every behaviour. *)
THEOREM TypeCorrect == Spec => []TypeOK
<1>1. Basic => TypeOK
  BY DEF Basic
<1>2. QED
  BY <1>1, BasicInvariant, PTL

-----------------------------------------------------------------------------
(* Part 2: a ban freezes the leases of its player. *)

(* The thread has passed the ban gate and is about to write what it read   *)
(* the clock for.                                                          *)
PastBanGate(t) ==
    \/ job[t].call = "start" /\ job[t].pc = "insert"
    \/ job[t].call = "heartbeat" /\ job[t].pc = "renew"

(* BanFreezesLease is not inductive alone: a ban inserted while a thread   *)
(* is past the gate must find that the thread carries an earlier time.     *)
BanInv ==
    /\ BanFreezesLease
    /\ \A t \in Thread :
          PastBanGate(t) /\ job[t].player \in banned
              => job[t].at <= banTime[job[t].player]

LEMMA BanInit == Init => BanInv
  BY DEF Init, BanInv, BanFreezesLease, PastBanGate, IsActive, Unused, Idle

(* Steps that write neither leases nor bans and leave the gates alone.     *)
LEMMA BanFrame ==
  ASSUME Basic, BanInv, NEW t \in Thread, UNCHANGED <<lease, banned, banTime>>,
         \A u \in Thread \ {t} : job'[u] = job[u], ~PastBanGate(t)'
  PROVE  BanInv'
  BY DEF BanInv, BanFreezesLease, PastBanGate, IsActive

(* A new ban: everything already granted, or past the gate, is older.      *)
LEMMA BanInsert ==
  ASSUME Basic, BanInv, NEW w \in Thread, NEW p \in Player, InsertBan(p),
         UNCHANGED lease, \A u \in Thread \ {w} : job'[u] = job[u],
         job'[w] = job[w] \/ ~PastBanGate(w)'
  PROVE  BanInv'
<1> USE DEF Basic, TypeOK, JobOK, Job, LeaseRow
<1>1. CASE p \in banned
  <2>1. UNCHANGED <<banned, banTime>>
    BY <1>1 DEF InsertBan
  <2>2. QED
    BY <2>1 DEF BanInv, BanFreezesLease, PastBanGate, IsActive
<1>2. CASE p \notin banned
  <2>1. /\ banned' = banned \cup {p}
        /\ banTime' = [banTime EXCEPT ![p] = clock]
    BY <1>2 DEF InsertBan
  <2>2. BanFreezesLease'
    BY <2>1 DEF BanInv, BanFreezesLease, IsActive
  <2>3. ASSUME NEW t \in Thread, PastBanGate(t)', job'[t].player \in banned'
        PROVE  job'[t].at <= banTime'[job'[t].player]
    <3>1. job'[t] = job[t] /\ PastBanGate(t)
      BY <2>3 DEF PastBanGate
    <3>2. CASE job[t].player = p
      BY <2>1, <3>1, <3>2
    <3>3. CASE job[t].player # p
      BY <2>1, <2>3, <3>1, <3>3 DEF BanInv
    <3>4. QED
      BY <3>2, <3>3
  <2>4. QED
    BY <2>2, <2>3 DEF BanInv
<1>3. QED
  BY <1>1, <1>2

LEMMA BanStep == Basic /\ BanInv /\ [Next]_vars => BanInv'
<1> SUFFICES ASSUME Basic, BanInv, [Next]_vars PROVE BanInv'
  OBVIOUS
<1> USE ConstantsAssumption DEF Thread, tables
<1> USE DEF Basic, TypeOK, Job
<1>1. ASSUME NEW w \in Worker, NEW p \in Player, BeginStart(w, p) PROVE BanInv'
  BY <1>1, BanFrame DEF BeginStart, Working, PastBanGate
<1>2. ASSUME NEW w \in Worker, NEW p \in Player, BeginBan(w, p) PROVE BanInv'
  BY <1>2, BanInsert DEF BeginBan, Working, PastBanGate
<1>3. ASSUME NEW w \in Worker, NEW p \in Player, BanRow(w, p) PROVE BanInv'
  BY <1>3, BanInsert DEF BanRow
<1>4. ASSUME NEW w \in Worker, NEW p \in Player, Unban(w, p) PROVE BanInv'
  BY <1>4 DEF Unban, BanInv, BanFreezesLease, PastBanGate, IsActive
<1>5. ASSUME NEW w \in Worker, NEW s \in Sid, BeginHeartbeat(w, s) PROVE BanInv'
  BY <1>5, BanFrame DEF BeginHeartbeat, Working, PastBanGate
<1>6. ASSUME NEW w \in Worker, NEW s \in Sid, BeginEnd(w, s) PROVE BanInv'
  BY <1>6, BanFrame DEF BeginEnd, Working, PastBanGate
<1>7. ASSUME NEW w \in Worker, NEW s \in Sid, BeginRevoke(w, s) PROVE BanInv'
  BY <1>7, BanFrame DEF BeginRevoke, Working, PastBanGate
<1>8. ASSUME NEW t \in Thread, StartGates(t) PROVE BanInv'
  <2>1. CASE job[t].player \in banned
    BY <1>8, <2>1, BanFrame DEF StartGates, Return, Idle, PastBanGate
  <2>2. CASE job[t].player \notin banned
    BY <1>8, <2>2 DEF StartGates, Goto, BanInv, BanFreezesLease, PastBanGate, IsActive
  <2>3. QED
    BY <2>1, <2>2
<1>9. ASSUME NEW t \in Thread, RefuseStart(t) PROVE BanInv'
  BY <1>9, BanFrame DEF RefuseStart, Return, Idle, PastBanGate
<1>10. ASSUME NEW t \in Thread, NEW s \in Sid, InsertSession(t, s) PROVE BanInv'
  BY <1>10 DEF InsertSession, BanInv, BanFreezesLease, PastBanGate, IsActive
<1>11. ASSUME NEW t \in Thread, Grant(t) PROVE BanInv'
  BY <1>11, BanFrame DEF Grant, Return, Idle, PastBanGate
<1>12. ASSUME NEW t \in Thread, HeartbeatGates(t) PROVE BanInv'
  <2>1. CASE job[t].player \in banned
    BY <1>12, <2>1, BanFrame DEF HeartbeatGates, Reject, PastBanGate
  <2>2. CASE job[t].player \notin banned
    BY <1>12, <2>2 DEF HeartbeatGates, Goto, BanInv, BanFreezesLease, PastBanGate, IsActive
  <2>3. QED
    BY <2>1, <2>2
<1>13. ASSUME NEW t \in Thread, RefuseHeartbeat(t) PROVE BanInv'
  BY <1>13, BanFrame DEF RefuseHeartbeat, Reject, PastBanGate
<1>14. ASSUME NEW t \in Thread, Renew(t) PROVE BanInv'
  <2>1. CASE IsActive(job[t].sid)
    <3>1. /\ job[t].sid \in Sid
          /\ lease[job[t].sid].player = job[t].player
          /\ PastBanGate(t)
      BY <1>14 DEF Renew, JobOK, PastBanGate
    <3>2. lease' = [lease EXCEPT ![job[t].sid].beat = job[t].at]
      BY <1>14, <2>1 DEF Renew
    <3>3. \A s \in Sid : /\ lease'[s].player = lease[s].player
                         /\ lease'[s].state = lease[s].state
                         /\ s # job[t].sid => lease'[s].beat = lease[s].beat
                         /\ s = job[t].sid => lease'[s].beat = job[t].at
      BY <3>1, <3>2 DEF LeaseRow
    <3>4. UNCHANGED <<banned, banTime>> /\ job' = [job EXCEPT ![t] = Idle]
      BY <1>14 DEF Renew, Return
    <3>5. BanFreezesLease'
      <4>1. ASSUME NEW s \in Sid, IsActive(s)', lease'[s].player \in banned'
            PROVE  lease'[s].beat <= banTime'[lease'[s].player]
        <5>1. /\ banned' = banned /\ banTime' = banTime
              /\ lease'[s].player = lease[s].player
              /\ lease[s].player \in banned
              /\ lease[s].state = "Active"
          BY <3>3, <3>4, <4>1 DEF IsActive
        <5>2. CASE s = job[t].sid
          BY <3>1, <3>3, <5>1, <5>2 DEF BanInv
        <5>3. CASE s # job[t].sid
          BY <3>3, <5>1, <5>3 DEF BanInv, BanFreezesLease, IsActive
        <5>4. QED
          BY <5>2, <5>3
      <4>2. QED
        BY <4>1 DEF BanFreezesLease
    <3>6. QED
      BY <3>4, <3>5 DEF BanInv, PastBanGate, Idle
  <2>2. CASE ~IsActive(job[t].sid)
    BY <1>14, <2>2, BanFrame DEF Renew, Return, Idle, PastBanGate
  <2>3. QED
    BY <2>1, <2>2
<1>15. ASSUME NEW t \in Thread, BanList(t) PROVE BanInv'
  BY <1>15, BanFrame DEF BanList, PastBanGate
<1>16. ASSUME NEW t \in Thread, BanDrop(t) PROVE BanInv'
  BY <1>16, BanFrame DEF BanDrop, Return, Idle, PastBanGate
<1>17. ASSUME NEW t \in Thread, NEW s \in Sid, TryEnd(t, s) PROVE BanInv'
  <2>1. CASE CanEnd(t, s)
    <3>1. /\ lease' = [lease EXCEPT ![s].state = EndState(job[t].call)]
          /\ EndState(job[t].call) # "Active"
      BY <1>17, <2>1 DEF TryEnd, EndState
    <3>2. \A r \in Sid : IsActive(r)' => lease'[r] = lease[r]
      BY <3>1 DEF IsActive, LeaseRow
    <3>3. /\ \A u \in Thread \ {t} : job'[u] = job[u]
          /\ ~PastBanGate(t)'
          /\ UNCHANGED <<banned, banTime>>
      BY <1>17, <2>1 DEF TryEnd, PastBanGate
    <3>4. QED
      BY <3>2, <3>3 DEF BanInv, BanFreezesLease, IsActive, PastBanGate
  <2>2. CASE ~CanEnd(t, s)
    BY <1>17, <2>2, BanFrame DEF TryEnd, Proceed, Return, Idle, PastBanGate
  <2>3. QED
    BY <2>1, <2>2
<1>18. ASSUME NEW t \in Thread, DropCheck(t) PROVE BanInv'
  BY <1>18, BanFrame DEF DropCheck, Proceed, Return, Goto, Idle, PastBanGate
<1>19. ASSUME NEW t \in Thread, DropRemove(t) PROVE BanInv'
  BY <1>19, BanFrame DEF DropRemove, Proceed, Return, Idle, PastBanGate
<1>20. ASSUME NEW t \in Thread, Abort(t) PROVE BanInv'
  BY <1>20, BanFrame DEF Abort, Return, Idle, PastBanGate
<1>21. CASE BeginSweep
  BY <1>21, BanFrame DEF BeginSweep, Working, PastBanGate
<1>22. CASE Tick
  BY <1>22 DEF Tick, BanInv, BanFreezesLease, PastBanGate, IsActive
<1>23. CASE Quiet \/ UNCHANGED vars
  BY <1>23 DEF Quiet, vars, BanInv, BanFreezesLease, PastBanGate, IsActive
<1>24. QED
  BY <1>1, <1>2, <1>3, <1>4, <1>5, <1>6, <1>7, <1>8, <1>9, <1>10, <1>11, <1>12, <1>13,
     <1>14, <1>15, <1>16, <1>17, <1>18, <1>19, <1>20, <1>21, <1>22, <1>23
     DEF Next, Call, Continue

(* sessions.py:142, 205: no interleaving of a ban with joins, heartbeats,  *)
(* other bans or failures grants or renews a lease of a banned player with *)
(* a time after the ban.                                                   *)
THEOREM BanFreezes == Spec => []BanFreezesLease
<1>1. BanInv => BanFreezesLease
  BY DEF BanInv
<1>2. Spec => []BanInv
  BY BasicInvariant, BanInit, BanStep, PTL DEF Spec
<1>3. QED
  BY <1>1, <1>2, PTL

-----------------------------------------------------------------------------
(* Part 3: the thread that ended a lease is the only one to drop it. *)

LEMMA DropperInit == Init => OneDropper
  BY DEF Init, OneDropper, Dropping, Idle

(* Steps that write no lease and start no drop. *)
LEMMA DropperFrame ==
  ASSUME OneDropper, UNCHANGED lease,
         \A t \in Thread, s \in Sid : Dropping(t, s)' => Dropping(t, s)
  PROVE  OneDropper'
  BY DEF OneDropper

LEMMA ProceedDrops ==
  ASSUME Basic, NEW t \in Thread, NEW todo \in SUBSET Sid, Proceed(t, todo)
  PROVE  \A u \in Thread, s \in Sid : Dropping(u, s)' => Dropping(u, s)
<1> USE DEF Basic, TypeOK, Job
<1>1. CASE todo = {} /\ job[t].call # "ban"
  BY <1>1 DEF Proceed, Return, Idle, Dropping
<1>2. CASE ~(todo = {} /\ job[t].call # "ban")
  BY <1>2 DEF Proceed, Dropping
<1>3. QED
  BY <1>1, <1>2

LEMMA DropperStep == Basic /\ OneDropper /\ [Next]_vars => OneDropper'
<1> SUFFICES ASSUME Basic, OneDropper, [Next]_vars PROVE OneDropper'
  OBVIOUS
<1> USE ConstantsAssumption DEF Thread, tables
<1> USE DEF Basic, TypeOK, Job
<1>1. ASSUME NEW w \in Worker, NEW p \in Player, BeginStart(w, p) PROVE OneDropper'
  BY <1>1, DropperFrame DEF BeginStart, Working, Dropping
<1>2. ASSUME NEW w \in Worker, NEW p \in Player, BeginBan(w, p) PROVE OneDropper'
  BY <1>2, DropperFrame DEF BeginBan, Working, Dropping
<1>3. ASSUME NEW w \in Worker, NEW p \in Player, BanRow(w, p) \/ Unban(w, p)
      PROVE  OneDropper'
  BY <1>3, DropperFrame DEF BanRow, Unban, Dropping
<1>4. ASSUME NEW w \in Worker, NEW s \in Sid, BeginHeartbeat(w, s) PROVE OneDropper'
  BY <1>4, DropperFrame DEF BeginHeartbeat, Working, Dropping
<1>5. ASSUME NEW w \in Worker, NEW s \in Sid, BeginEnd(w, s) PROVE OneDropper'
  BY <1>5, DropperFrame DEF BeginEnd, Working, Dropping
<1>6. ASSUME NEW w \in Worker, NEW s \in Sid, BeginRevoke(w, s) PROVE OneDropper'
  BY <1>6, DropperFrame DEF BeginRevoke, Working, Dropping
<1>7. ASSUME NEW t \in Thread, StartGates(t) \/ RefuseStart(t) PROVE OneDropper'
  BY <1>7, DropperFrame DEF StartGates, RefuseStart, Return, Goto, Idle, Dropping
<1>8. ASSUME NEW t \in Thread, NEW s \in Sid, InsertSession(t, s) PROVE OneDropper'
  <2>1. lease[s].state = "Unused" /\ \A r \in Sid \ {s} : lease'[r] = lease[r]
    BY <1>8 DEF InsertSession
  <2>2. \A u \in Thread, r \in Sid : Dropping(u, r)' => Dropping(u, r)
    BY <1>8 DEF InsertSession, Dropping
  <2>3. QED
    BY <2>1, <2>2 DEF OneDropper
<1>9. ASSUME NEW t \in Thread, Grant(t) PROVE OneDropper'
  BY <1>9, DropperFrame DEF Grant, Return, Idle, Dropping
<1>10. ASSUME NEW t \in Thread, HeartbeatGates(t) \/ RefuseHeartbeat(t) PROVE OneDropper'
  BY <1>10, DropperFrame DEF HeartbeatGates, RefuseHeartbeat, Reject, Goto, Dropping
<1>11. ASSUME NEW t \in Thread, Renew(t) PROVE OneDropper'
  <2>1. \A u \in Thread, r \in Sid : Dropping(u, r)' => Dropping(u, r)
    BY <1>11 DEF Renew, Return, Idle, Dropping
  <2>2. \A r \in Sid : lease'[r].state = lease[r].state
    <3>1. CASE IsActive(job[t].sid)
      BY <1>11, <3>1 DEF Renew, LeaseRow
    <3>2. CASE ~IsActive(job[t].sid)
      BY <1>11, <3>2 DEF Renew
    <3>3. QED
      BY <3>1, <3>2
  <2>3. QED
    BY <2>1, <2>2 DEF OneDropper
<1>12. ASSUME NEW t \in Thread, BanList(t) \/ BanDrop(t) PROVE OneDropper'
  BY <1>12, DropperFrame DEF BanList, BanDrop, Return, Idle, Dropping
<1>13. ASSUME NEW t \in Thread, NEW s \in Sid, TryEnd(t, s) PROVE OneDropper'
  <2>1. CASE CanEnd(t, s)
    <3>1. /\ lease' = [lease EXCEPT ![s].state = EndState(job[t].call)]
          /\ EndState(job[t].call) \in {"Ended", "Revoked", "Expired"}
      BY <1>13, <2>1 DEF TryEnd, EndState
    <3>2. /\ lease'[s].state \in {"Ended", "Revoked", "Expired"}
          /\ \A r \in Sid \ {s} : lease'[r] = lease[r]
      BY <3>1 DEF LeaseRow
    <3>3. \A u \in Thread : ~Dropping(u, s)
      BY <2>1 DEF CanEnd, Stale, IsActive, OneDropper
    <3>4. \A u \in Thread, r \in Sid :
             Dropping(u, r)' => Dropping(u, r) \/ (u = t /\ r = s)
      BY <1>13, <2>1 DEF TryEnd, Dropping
    <3>5. ~\E r \in Sid \ {s} : Dropping(t, r)'
      BY <1>13, <2>1 DEF TryEnd, Dropping
    <3>6. QED
      BY <3>2, <3>3, <3>4, <3>5 DEF OneDropper
  <2>2. CASE ~CanEnd(t, s)
    <3>1. Proceed(t, job[t].todo \ {s}) /\ UNCHANGED lease
      BY <1>13, <2>2 DEF TryEnd
    <3>2. QED
      BY <3>1, ProceedDrops, DropperFrame
  <2>3. QED
    BY <2>1, <2>2
<1>14. ASSUME NEW t \in Thread, DropCheck(t) PROVE OneDropper'
  <2>1. CASE OtherActive(job[t].player, job[t].sid) # {}
    BY <1>14, <2>1, ProceedDrops, DropperFrame DEF DropCheck
  <2>2. CASE OtherActive(job[t].player, job[t].sid) = {}
    BY <1>14, <2>2, DropperFrame DEF DropCheck, Goto, Dropping
  <2>3. QED
    BY <2>1, <2>2
<1>15. ASSUME NEW t \in Thread, DropRemove(t) PROVE OneDropper'
  BY <1>15, ProceedDrops, DropperFrame DEF DropRemove
<1>16. ASSUME NEW t \in Thread, Abort(t) PROVE OneDropper'
  BY <1>16, DropperFrame DEF Abort, Return, Idle, Dropping
<1>17. CASE BeginSweep
  BY <1>17, DropperFrame DEF BeginSweep, Working, Dropping
<1>18. CASE Tick \/ Quiet \/ UNCHANGED vars
  BY <1>18, DropperFrame DEF Tick, Quiet, vars, Dropping
<1>19. QED
  BY <1>1, <1>2, <1>3, <1>4, <1>5, <1>6, <1>7, <1>8, <1>9, <1>10, <1>11, <1>12, <1>13,
     <1>14, <1>15, <1>16, <1>17, <1>18
     DEF Next, Call, Continue

(* store.py:230: of the concurrent end paths of a lease one at most goes   *)
(* on to drop the whitelist entry, and only for a lease that is over.      *)
THEOREM SingleDropper == Spec => []OneDropper
  BY BasicInvariant, DropperInit, DropperStep, PTL DEF Spec

-----------------------------------------------------------------------------
(* Part 4: Leases implements LeaseLifecycle. *)

LEMMA LifecycleInit == Init => Lifecycle!Init
  BY DEF Init, Lifecycle!Init, Unused, Lifecycle!Unused

LEMMA LifecycleStep == Basic /\ [Next]_vars => [Lifecycle!Next]_(Lifecycle!vars)
<1> SUFFICES ASSUME Basic, [Next]_vars,
                    ~UNCHANGED <<clock, lease>>
             PROVE  Lifecycle!Next
  BY DEF Lifecycle!vars
<1> USE ConstantsAssumption DEF Thread, tables, Basic, TypeOK, Job, JobOK
<1>1. ASSUME NEW w \in Worker, Call(w) PROVE Lifecycle!Next
  BY <1>1 DEF Call, BeginStart, BeginBan, BanRow, Unban, BeginHeartbeat, BeginEnd, BeginRevoke
<1>2. ASSUME NEW t \in Thread, NEW s \in Sid, InsertSession(t, s) PROVE Lifecycle!Next
  <2>1. /\ lease[s].state = "Unused"
        /\ job[t].player \in Player
        /\ job[t].at \in 0 .. clock
        /\ lease' = [lease EXCEPT ![s] =
                       [state |-> "Active", player |-> job[t].player, beat |-> job[t].at]]
        /\ UNCHANGED clock
    BY <1>2 DEF InsertSession
  <2>2. Lifecycle!Open(s, job[t].player)
    BY <2>1 DEF Lifecycle!Open
  <2>3. QED
    BY <2>1, <2>2 DEF Lifecycle!Next
<1>3. ASSUME NEW t \in Thread, Renew(t) PROVE Lifecycle!Next
  <2>1. IsActive(job[t].sid)
    BY <1>3 DEF Renew
  <2>2. /\ job[t].sid \in Sid
        /\ job[t].at \in 0 .. clock
        /\ lease' = [lease EXCEPT ![job[t].sid].beat = job[t].at]
        /\ UNCHANGED clock
    BY <1>3, <2>1 DEF Renew
  <2>3. Lifecycle!Renew(job[t].sid)
    BY <2>1, <2>2 DEF Lifecycle!Renew, IsActive
  <2>4. QED
    BY <2>2, <2>3 DEF Lifecycle!Next
<1>4. ASSUME NEW t \in Thread, NEW s \in Sid, TryEnd(t, s) PROVE Lifecycle!Next
  <2>1. CanEnd(t, s)
    BY <1>4 DEF TryEnd
  <2>2. /\ lease' = [lease EXCEPT ![s].state = EndState(job[t].call)]
        /\ UNCHANGED clock
    BY <1>4, <2>1 DEF TryEnd
  <2>3. /\ EndState(job[t].call) \in {"Ended", "Revoked", "Expired"}
        /\ EndState(job[t].call) = "Expired" => job[t].call = "sweep"
    BY DEF EndState
  <2>4. /\ lease[s].state = "Active"
        /\ job[t].call = "sweep" => lease[s].beat + Grace < clock
    BY <2>1 DEF CanEnd, Stale, IsActive, LeaseRow
  <2>5. Lifecycle!Close(s, EndState(job[t].call))
    BY <2>2, <2>3, <2>4 DEF Lifecycle!Close
  <2>6. QED
    BY <2>3, <2>5 DEF Lifecycle!Next
<1>5. ASSUME NEW t \in Thread,
             StartGates(t) \/ RefuseStart(t) \/ Grant(t) \/ HeartbeatGates(t)
               \/ RefuseHeartbeat(t) \/ BanList(t) \/ BanDrop(t) \/ DropCheck(t)
               \/ DropRemove(t) \/ Abort(t)
      PROVE  Lifecycle!Next
  BY <1>5 DEF StartGates, RefuseStart, Grant, HeartbeatGates, RefuseHeartbeat, BanList,
              BanDrop, DropCheck, DropRemove, Abort
<1>6. CASE Tick
  BY <1>6 DEF Tick, Lifecycle!TimePasses, Lifecycle!Next
<1>7. CASE BeginSweep \/ Quiet \/ UNCHANGED vars
  BY <1>7 DEF BeginSweep, Quiet, vars
<1>8. QED
  BY <1>1, <1>2, <1>3, <1>4, <1>5, <1>6, <1>7 DEF Next, Continue

(* Whatever calls interleave or abort, every lease follows the life cycle: *)
(* granted once, ended once, expired only after more than Grace of silence *)
(* as the table has it.                                                    *)
THEOREM LeasesImplementLifecycle == Spec => LeaseLifecycleHolds
  BY LifecycleInit, LifecycleStep, BasicInvariant, PTL
     DEF Spec, LeaseLifecycleHolds, Lifecycle!Spec

-----------------------------------------------------------------------------
(* Part 5: with launchers alone calling, no failure, and no thread held up *)
(* for longer than the grace period, the whitelist follows the leases.     *)

LaunchersOnly ==
    /\ Calls \subseteq {"start", "heartbeat", "end"}
    /\ MaxDelay <= Grace

Granting(t) == job[t].call = "start" /\ job[t].pc = "grant"

Leaving(t, p) == job[t].pc \in {"check", "drop"} /\ job[t].player = p

(* What the threads rely on.  A lease being granted is Active, fresh and   *)
(* unknown to its launcher, so nothing can end it before the grant is      *)
(* done: heartbeats and ends need its token, and the sweeper silence.      *)
JobTimely(t) ==
    /\ job[t].call \in {"none", "start", "heartbeat", "end", "sweep"}
    /\ job[t].call = "none" => job[t].pc = "idle"
    /\ job[t].pc # "idle" => clock <= job[t].at + MaxDelay
    /\ job[t].call \in {"heartbeat", "end"} => /\ job[t].sid \in told
                                               /\ job[t].todo \subseteq told
    /\ Granting(t) => /\ job[t].sid \in Sid \ told
                      /\ IsActive(job[t].sid)
                      /\ lease[job[t].sid].player = job[t].player
                      /\ lease[job[t].sid].beat = job[t].at

FollowInv ==
    /\ WhitelistedHasLease
    /\ \A t \in Thread : JobTimely(t)
    /\ \A t, u \in Thread :
          Granting(t) /\ Granting(u) /\ job[t].sid = job[u].sid => t = u
    /\ \A s \in told : lease[s].state # "Unused"

LEMMA FollowInit == Init => FollowInv
  BY DEF Init, FollowInv, WhitelistedHasLease, JobTimely, Granting, Idle

(* Steps of a thread that grant nothing and give up a drop only when it is *)
(* done or another lease of the player is active.                          *)
LEMMA FollowFrame ==
  ASSUME Basic, FollowInv, NEW t \in Thread,
         UNCHANGED <<clock, lease, told>>, whitelist' \subseteq whitelist,
         \A u \in Thread \ {t} : job'[u] = job[u],
         JobTimely(t)', ~Granting(t)',
         \A p \in Player : Leaving(t, p) =>
            Leaving(t, p)' \/ ActiveOf(p) # {} \/ p \notin whitelist'
  PROVE  FollowInv'
<1>1. \A u \in Thread : JobTimely(u)'
  BY DEF FollowInv, JobTimely, Granting, IsActive
<1>2. WhitelistedHasLease'
  <2>1. ASSUME NEW p \in whitelist' PROVE ActiveOf(p)' # {} \/ LeavingSoon(p)'
    <3>1. p \in Player /\ p \in whitelist
      BY DEF Basic, TypeOK
    <3>2. CASE ActiveOf(p) # {}
      BY <3>2 DEF ActiveOf, IsActive
    <3>3. CASE ActiveOf(p) = {} /\ LeavingSoon(p)
      <4>1. PICK u \in Thread : Leaving(u, p)
        BY <3>3 DEF LeavingSoon, Leaving, FollowInv, JobTimely
      <4>2. Leaving(u, p)'
        BY <3>1, <3>3, <4>1 DEF Leaving
      <4>3. QED
        BY <4>2 DEF Leaving, LeavingSoon
    <3>4. QED
      BY <3>1, <3>2, <3>3 DEF FollowInv, WhitelistedHasLease
  <2>2. QED
    BY <2>1 DEF WhitelistedHasLease
<1>3. QED
  BY <1>1, <1>2 DEF FollowInv, Granting

LEMMA ProceedTimely ==
  ASSUME Basic, FollowInv, NEW t \in Thread, NEW todo \in SUBSET job[t].todo,
         Proceed(t, todo), job[t].pc # "idle", job[t].call # "start",
         UNCHANGED <<clock, lease, told>>
  PROVE  /\ JobTimely(t)'
         /\ ~Granting(t)'
         /\ \A u \in Thread \ {t} : job'[u] = job[u]
<1> USE DEF Basic, TypeOK, Job
<1>1. CASE todo = {} /\ job[t].call # "ban"
  <2>1. job' = [job EXCEPT ![t] = Idle]
    BY <1>1 DEF Proceed, Return
  <2>2. QED
    BY <2>1 DEF Idle, JobTimely, Granting
<1>2. CASE ~(todo = {} /\ job[t].call # "ban")
  <2>1. job' = [job EXCEPT ![t].pc = "end", ![t].todo = todo]
    BY <1>2 DEF Proceed
  <2>2. QED
    BY <2>1 DEF FollowInv, JobTimely, Granting
<1>3. QED
  BY <1>1, <1>2

LEMMA FollowStep ==
  ASSUME LaunchersOnly PROVE Basic /\ FollowInv /\ [Next]_vars => FollowInv'
<1> SUFFICES ASSUME Basic, FollowInv, [Next]_vars PROVE FollowInv'
  OBVIOUS
<1> USE ConstantsAssumption DEF Thread, tables
<1> USE DEF Basic, TypeOK, Job
<1>1. ASSUME NEW w \in Worker, NEW p \in Player, BeginStart(w, p) PROVE FollowInv'
  BY <1>1, FollowFrame DEF BeginStart, Accepts, Working, JobTimely, Granting, Leaving
<1>2. ASSUME NEW w \in Worker, NEW p \in Player, BeginBan(w, p) \/ BanRow(w, p) \/ Unban(w, p)
      PROVE  FollowInv'
  BY <1>2 DEF BeginBan, BanRow, Unban, Accepts, LaunchersOnly
<1>3. ASSUME NEW w \in Worker, NEW s \in Sid, BeginHeartbeat(w, s) PROVE FollowInv'
  BY <1>3, FollowFrame DEF BeginHeartbeat, Accepts, Working, JobTimely, Granting, Leaving
<1>4. ASSUME NEW w \in Worker, NEW s \in Sid, BeginEnd(w, s) PROVE FollowInv'
  BY <1>4, FollowFrame DEF BeginEnd, Accepts, Working, JobTimely, Granting, Leaving
<1>5. ASSUME NEW w \in Worker, NEW s \in Sid, BeginRevoke(w, s) PROVE FollowInv'
  BY <1>5 DEF BeginRevoke, Accepts, LaunchersOnly
<1>6. ASSUME NEW t \in Thread, StartGates(t) PROVE FollowInv'
  BY <1>6, FollowFrame
     DEF StartGates, Return, Goto, Idle, FollowInv, JobTimely, Granting, Leaving
<1>7. ASSUME NEW t \in Thread, RefuseStart(t) PROVE FollowInv'
  BY <1>7, FollowFrame DEF RefuseStart, Return, Idle, JobTimely, Granting, Leaving
<1>8. ASSUME NEW t \in Thread, NEW s \in Sid, InsertSession(t, s) PROVE FollowInv'
  <2>1. /\ lease[s].state = "Unused"
        /\ lease'[s] = [state |-> "Active", player |-> job[t].player, beat |-> job[t].at]
        /\ \A r \in Sid \ {s} : lease'[r] = lease[r]
        /\ UNCHANGED <<clock, whitelist, told>>
    BY <1>8 DEF InsertSession
  <2>2. /\ job[t].call = "start" /\ job[t].pc = "insert"
        /\ \A u \in Thread \ {t} : job'[u] = job[u]
        /\ job'[t].call = "start" /\ job'[t].pc = "grant" /\ job'[t].sid = s
        /\ job'[t].at = job[t].at /\ job'[t].player = job[t].player
    BY <1>8 DEF InsertSession
  <2>3. \A u \in Thread : Granting(u) => job[u].sid # s
    BY <2>1 DEF FollowInv, JobTimely, IsActive
  <2>4. s \notin told
    BY <2>1 DEF FollowInv
  <2>5. JobTimely(t)'
    BY <2>1, <2>2, <2>4 DEF FollowInv, JobTimely, Granting, IsActive
  <2>6. \A u \in Thread \ {t} : JobTimely(u)'
    BY <2>1, <2>2, <2>3 DEF FollowInv, JobTimely, Granting, IsActive
  <2>7. \A p \in Player : ActiveOf(p) \subseteq ActiveOf(p)'
    BY <2>1 DEF ActiveOf, IsActive
  <2>8. \A p \in Player : LeavingSoon(p) => LeavingSoon(p)'
    BY <2>2 DEF LeavingSoon
  <2>9. WhitelistedHasLease'
    BY <2>1, <2>7, <2>8 DEF FollowInv, WhitelistedHasLease
  <2>10. QED
    BY <2>1, <2>2, <2>3, <2>4, <2>5, <2>6, <2>9 DEF FollowInv, Granting
<1>9. ASSUME NEW t \in Thread, Grant(t) PROVE FollowInv'
  <2>1. /\ whitelist' = whitelist \cup {job[t].player}
        /\ told' = told \cup {job[t].sid}
        /\ job' = [job EXCEPT ![t] = Idle]
        /\ UNCHANGED <<clock, lease>>
    BY <1>9 DEF Grant, Return
  <2>2. /\ Granting(t)
        /\ job[t].sid \in ActiveOf(job[t].player)
        /\ lease[job[t].sid].state # "Unused"
    BY <1>9 DEF Grant, FollowInv, JobTimely, Granting, ActiveOf, IsActive
  <2>3. \A u \in Thread : JobTimely(u)'
    BY <2>1, <2>2 DEF FollowInv, JobTimely, Granting, IsActive, Idle
  <2>4. \A p \in Player : /\ ActiveOf(p)' = ActiveOf(p)
                          /\ LeavingSoon(p) => LeavingSoon(p)'
    BY <2>1, <2>2 DEF ActiveOf, IsActive, LeavingSoon, Granting
  <2>5. WhitelistedHasLease'
    BY <2>1, <2>2, <2>4 DEF FollowInv, WhitelistedHasLease, JobOK, Granting
  <2>6. QED
    BY <2>1, <2>2, <2>3, <2>5 DEF FollowInv, Granting, Idle
<1>10. ASSUME NEW t \in Thread, HeartbeatGates(t) PROVE FollowInv'
  BY <1>10, FollowFrame
     DEF HeartbeatGates, Reject, Goto, FollowInv, JobTimely, Granting, Leaving
<1>11. ASSUME NEW t \in Thread, RefuseHeartbeat(t) PROVE FollowInv'
  BY <1>11, FollowFrame
     DEF RefuseHeartbeat, Reject, FollowInv, JobTimely, Granting, Leaving
<1>12. ASSUME NEW t \in Thread, Renew(t) PROVE FollowInv'
  <2>1. CASE IsActive(job[t].sid)
    <3>1. /\ job[t].sid \in told
          /\ lease' = [lease EXCEPT ![job[t].sid].beat = job[t].at]
          /\ job' = [job EXCEPT ![t] = Idle]
          /\ job[t].pc = "renew"
          /\ UNCHANGED <<clock, whitelist, told>>
      BY <1>12, <2>1 DEF Renew, Return, FollowInv, JobTimely
    <3>2. \A r \in Sid : /\ lease'[r].state = lease[r].state
                         /\ lease'[r].player = lease[r].player
                         /\ r \notin told => lease'[r] = lease[r]
      BY <3>1 DEF LeaseRow
    <3>3. \A u \in Thread : JobTimely(u)'
      BY <3>1, <3>2 DEF FollowInv, JobTimely, Granting, IsActive, Idle
    <3>4. \A p \in Player : /\ ActiveOf(p)' = ActiveOf(p)
                            /\ LeavingSoon(p) => LeavingSoon(p)'
      BY <3>1, <3>2 DEF ActiveOf, IsActive, LeavingSoon, FollowInv, JobTimely
    <3>5. QED
      BY <3>1, <3>2, <3>3, <3>4 DEF FollowInv, WhitelistedHasLease, Granting, Idle
  <2>2. CASE ~IsActive(job[t].sid)
    BY <1>12, <2>2, FollowFrame DEF Renew, Return, Idle, JobTimely, Granting, Leaving
  <2>3. QED
    BY <2>1, <2>2
<1>13. ASSUME NEW t \in Thread, BanList(t) \/ BanDrop(t) PROVE FollowInv'
  BY <1>13 DEF BanList, BanDrop, FollowInv, JobTimely
<1>14. ASSUME NEW t \in Thread, NEW s \in Sid, TryEnd(t, s) PROVE FollowInv'
  <2>0. job[t].call # "start" /\ job[t].pc = "end" /\ s \in job[t].todo
    BY <1>14 DEF TryEnd, JobOK
  <2>1. CASE CanEnd(t, s)
    <3>1. /\ lease' = [lease EXCEPT ![s].state = EndState(job[t].call)]
          /\ job' = [job EXCEPT ![t].pc = "check", ![t].sid = s,
                                ![t].player = lease[s].player,
                                ![t].todo = @ \ {s}]
          /\ UNCHANGED <<clock, whitelist, told>>
      BY <1>14, <2>1 DEF TryEnd
    <3>2. EndState(job[t].call) \in {"Ended", "Revoked", "Expired"}
      BY DEF EndState
    <3>3. /\ \A r \in Sid \ {s} : lease'[r] = lease[r]
          /\ \A r \in Sid : lease[r].state # "Unused" => lease'[r].state # "Unused"
          /\ \A r \in Sid : lease'[r].player = lease[r].player
      BY <3>1, <3>2 DEF LeaseRow
    <3>4. /\ \A u \in Thread \ {t} : job'[u] = job[u]
          /\ job'[t].pc = "check" /\ job'[t].sid = s
          /\ job'[t].player = lease[s].player
          /\ job'[t].call = job[t].call /\ job'[t].at = job[t].at
          /\ job'[t].todo \subseteq job[t].todo
      BY <3>1
    <3>5. ASSUME NEW u \in Thread, Granting(u) PROVE job[u].sid # s
      <4>1. CASE job[t].call = "sweep"
        <5>1. lease[s].beat + Grace < job[t].at
          BY <2>1, <4>1 DEF CanEnd, Stale
        <5>2. job[t].at <= clock /\ clock <= job[u].at + MaxDelay
          BY <3>5 DEF JobOK, FollowInv, JobTimely, Granting
        <5>3. job[u].sid = s => lease[s].beat = job[u].at
          BY <3>5 DEF FollowInv, JobTimely
        <5>4. job[u].at \in Nat /\ job[t].at \in Nat /\ lease[s].beat \in Nat
          BY DEF LeaseRow
        <5>5. QED
          BY <5>1, <5>2, <5>3, <5>4 DEF LaunchersOnly
      <4>2. CASE job[t].call \in {"heartbeat", "end"}
        BY <2>0, <3>5, <4>2 DEF FollowInv, JobTimely
      <4>3. CASE job[t].call = "none"
        BY <2>0, <4>3 DEF FollowInv, JobTimely
      <4>4. QED
        BY <2>0, <4>1, <4>2, <4>3 DEF FollowInv, JobTimely
    <3>6. \A u \in Thread : JobTimely(u)'
      <4>1. \A u \in Thread \ {t} : JobTimely(u)'
        BY <3>1, <3>3, <3>4, <3>5 DEF FollowInv, JobTimely, Granting, IsActive
      <4>2. JobTimely(t)'
        BY <2>0, <3>1, <3>4 DEF FollowInv, JobTimely, Granting
      <4>3. QED
        BY <4>1, <4>2
    <3>7. WhitelistedHasLease'
      <4>1. ASSUME NEW p \in whitelist PROVE ActiveOf(p)' # {} \/ LeavingSoon(p)'
        <5>1. CASE lease[s].player = p
          BY <3>4, <5>1 DEF LeavingSoon
        <5>2. CASE lease[s].player # p
          <6>1. ActiveOf(p)' = ActiveOf(p)
            BY <3>3, <5>2 DEF ActiveOf, IsActive
          <6>2. LeavingSoon(p) => LeavingSoon(p)'
            BY <2>0, <3>4 DEF LeavingSoon, FollowInv, JobTimely
          <6>3. QED
            BY <6>1, <6>2 DEF FollowInv, WhitelistedHasLease
        <5>3. QED
          BY <5>1, <5>2
      <4>2. QED
        BY <3>1, <4>1 DEF WhitelistedHasLease
    <3>8. \A u \in Thread : Granting(u)' => Granting(u) /\ job'[u].sid = job[u].sid
      BY <2>0, <3>4 DEF Granting
    <3>9. QED
      BY <3>1, <3>3, <3>6, <3>7, <3>8 DEF FollowInv
  <2>2. CASE ~CanEnd(t, s)
    <3>1. /\ Proceed(t, job[t].todo \ {s})
          /\ UNCHANGED <<clock, lease, whitelist, told>>
      BY <1>14, <2>2 DEF TryEnd
    <3>2. QED
      BY <2>0, <3>1, ProceedTimely, FollowFrame DEF Leaving
  <2>3. QED
    BY <2>1, <2>2
<1>15. ASSUME NEW t \in Thread, DropCheck(t) PROVE FollowInv'
  <2>0. job[t].call # "start" /\ job[t].pc = "check"
    BY <1>15 DEF DropCheck, JobOK
  <2>1. CASE OtherActive(job[t].player, job[t].sid) # {}
    <3>1. /\ Proceed(t, job[t].todo)
          /\ UNCHANGED <<clock, lease, whitelist, told>>
      BY <1>15, <2>1 DEF DropCheck
    <3>2. \A p \in Player : Leaving(t, p) => ActiveOf(p) # {}
      BY <2>1 DEF OtherActive, Leaving
    <3>3. QED
      BY <2>0, <3>1, <3>2, ProceedTimely, FollowFrame
  <2>2. CASE OtherActive(job[t].player, job[t].sid) = {}
    BY <1>15, <2>0, <2>2, FollowFrame
       DEF DropCheck, Goto, FollowInv, JobTimely, Granting, Leaving
  <2>3. QED
    BY <2>1, <2>2
<1>16. ASSUME NEW t \in Thread, DropRemove(t) PROVE FollowInv'
  <2>1. /\ job[t].call # "start" /\ job[t].pc = "drop"
        /\ Proceed(t, job[t].todo)
        /\ whitelist' = whitelist \ {job[t].player}
        /\ UNCHANGED <<clock, lease, told>>
    BY <1>16 DEF DropRemove, JobOK
  <2>2. \A p \in Player : Leaving(t, p) => p \notin whitelist'
    BY <2>1 DEF Leaving
  <2>3. QED
    BY <2>1, <2>2, ProceedTimely, FollowFrame
<1>17. ASSUME NEW t \in Thread, Abort(t) PROVE FollowInv'
  BY <1>17 DEF Abort, LaunchersOnly
<1>18. CASE BeginSweep
  BY <1>18, FollowFrame DEF BeginSweep, Working, JobTimely, Granting, Leaving
<1>19. CASE Tick
  <2>1. /\ \A t \in Thread : job[t].pc # "idle" => clock - job[t].at < MaxDelay
        /\ clock' = clock + 1
        /\ UNCHANGED <<lease, whitelist, told, job>>
    BY <1>19 DEF Tick
  <2>2. \A t \in Thread : JobTimely(t)'
    BY <2>1 DEF FollowInv, JobTimely, Granting, IsActive
  <2>3. WhitelistedHasLease'
    BY <2>1 DEF FollowInv, WhitelistedHasLease, ActiveOf, IsActive, LeavingSoon
  <2>4. QED
    BY <2>1, <2>2, <2>3 DEF FollowInv, Granting
<1>20. CASE Quiet \/ UNCHANGED vars
  <2>1. UNCHANGED vars
    BY <1>20 DEF Quiet
  <2>2. QED
    BY <2>1 DEF vars, FollowInv, WhitelistedHasLease, ActiveOf, IsActive, LeavingSoon,
                JobTimely, Granting
<1>21. QED
  BY <1>1, <1>2, <1>3, <1>4, <1>5, <1>6, <1>7, <1>8, <1>9, <1>10, <1>11, <1>12, <1>13,
     <1>14, <1>15, <1>16, <1>17, <1>18, <1>19, <1>20
     DEF Next, Call, Continue

(* README.md:89: without admins, failures and threads slower than the      *)
(* grace period, whoever is on the whitelist has a lease or is being taken *)
(* off it, whatever the launchers, handlers and the sweeper interleave.    *)
THEOREM WhitelistFollowsLeases ==
  ASSUME LaunchersOnly PROVE Spec => []WhitelistedHasLease
<1>1. FollowInv => WhitelistedHasLease
  BY DEF FollowInv
<1>2. Spec => []FollowInv
  BY BasicInvariant, FollowInit, FollowStep, PTL DEF Spec
<1>3. QED
  BY <1>1, <1>2, PTL
-----------------------------------------------------------------------------
(* Part 6: how far overlapping heartbeats can move a row back. *)

\* A thread that could still grant a lease which a heartbeat may have renewed already.
LateGrant(t) == Granting(t) /\ IsActive(job[t].sid)

(* Nobody has been answered a time to come, and the row of an active lease *)
(* lags behind what its launcher was answered, or is about to be, by no    *)
(* more than a call takes.                                                 *)
LagInv ==
    /\ \A t \in Thread : job[t].pc # "idle" => clock <= job[t].at + MaxDelay
    /\ \A t \in Thread : LateGrant(t) => job[t].at <= lease[job[t].sid].beat + MaxDelay
    /\ \A s \in Sid : heard[s] <= clock
    /\ \A s \in Sid : IsActive(s) => heard[s] <= lease[s].beat + MaxDelay

LEMMA LagInit == Init => LagInv
  BY ConstantsAssumption DEF Init, LagInv, LateGrant, Granting, IsActive, Idle, Unused

\* Steps that write no row: a job goes on, begins now or is over, and none comes to a grant.
LEMMA LagFrame ==
  ASSUME Basic, LagInv, UNCHANGED <<clock, lease, heard>>,
         \A t \in Thread : job'[t].pc # "idle" =>
             \/ job[t].pc # "idle" /\ job'[t].at = job[t].at
             \/ job'[t].at = clock,
         \A t \in Thread : Granting(t)' => job'[t] = job[t]
  PROVE  LagInv'
<1>1. \A t \in Thread : job'[t].pc # "idle" => clock' <= job'[t].at + MaxDelay
  BY ConstantsAssumption DEF LagInv, Basic, TypeOK
<1>2. QED
  BY <1>1 DEF LagInv, LateGrant, Granting, IsActive

LEMMA ProceedLags ==
  ASSUME Basic, LagInv, NEW t \in Thread, NEW todo, Proceed(t, todo), job[t].pc # "idle",
         UNCHANGED <<clock, lease, heard>>
  PROVE  LagInv'
<1> USE DEF Basic, TypeOK, Job
<1>1. \A u \in Thread \ {t} : job'[u] = job[u]
  BY DEF Proceed, Return
<1>2. job'[t].pc # "idle" => job'[t].at = job[t].at /\ job'[t].pc = "end"
  BY DEF Proceed, Return, Idle
<1>3. ~Granting(t)'
  BY DEF Proceed, Return, Idle, Granting
<1>4. QED
  BY <1>1, <1>2, <1>3, LagFrame

LEMMA LagStep == Basic /\ LagInv /\ [Next]_vars => LagInv'
<1> SUFFICES ASSUME Basic, LagInv, [Next]_vars PROVE LagInv'
  OBVIOUS
<1> USE ConstantsAssumption DEF Thread, tables
<1> USE DEF Basic, TypeOK, Job
<1>1. ASSUME NEW w \in Worker, NEW p \in Player, BeginStart(w, p) PROVE LagInv'
  BY <1>1, LagFrame DEF BeginStart, Working, Granting
<1>2. ASSUME NEW w \in Worker, NEW p \in Player, BeginBan(w, p) PROVE LagInv'
  BY <1>2, LagFrame DEF BeginBan, Working, Granting
<1>3. ASSUME NEW w \in Worker, NEW p \in Player, BanRow(w, p) \/ Unban(w, p) PROVE LagInv'
  BY <1>3, LagFrame DEF BanRow, Unban, Granting
<1>4. ASSUME NEW w \in Worker, NEW s \in Sid,
             BeginHeartbeat(w, s) \/ BeginEnd(w, s) \/ BeginRevoke(w, s)
      PROVE  LagInv'
  BY <1>4, LagFrame DEF BeginHeartbeat, BeginEnd, BeginRevoke, Working, Granting
<1>5. ASSUME NEW t \in Thread, StartGates(t) \/ RefuseStart(t) PROVE LagInv'
  BY <1>5, LagFrame DEF StartGates, RefuseStart, Return, Goto, Idle, Granting
<1>6. ASSUME NEW t \in Thread, NEW s \in Sid, InsertSession(t, s) PROVE LagInv'
  <2>1. /\ job[t].pc # "idle" /\ job'[t].at = job[t].at /\ job'[t].sid = s
        /\ \A u \in Thread \ {t} : job'[u] = job[u]
        /\ clock' = clock /\ heard' = heard
    BY <1>6 DEF InsertSession
  <2>2. /\ lease'[s].beat = job[t].at /\ lease[s].state = "Unused"
        /\ \A r \in Sid \ {s} : lease'[r] = lease[r]
    BY <1>6 DEF InsertSession
  <2>3. clock <= job[t].at + MaxDelay /\ heard[s] <= clock
    BY <2>1 DEF LagInv
  <2>4. \A r \in Sid : IsActive(r)' => heard'[r] <= lease'[r].beat + MaxDelay
    <3>1. heard'[s] <= lease'[s].beat + MaxDelay
      BY <2>1, <2>2, <2>3
    <3>2. QED
      BY <3>1, <2>1, <2>2 DEF LagInv, IsActive
  <2>5. ASSUME NEW u \in Thread, LateGrant(u)' PROVE job'[u].at <= lease'[job'[u].sid].beat + MaxDelay
    <3>1. job'[u].sid \in Sid /\ job'[u].at <= clock
      <4>1. CASE u = t
        BY <2>1, <4>1 DEF JobOK
      <4>2. CASE u # t
        BY <2>1, <4>2, <2>5 DEF JobOK, LateGrant, Granting
      <4>3. QED
        BY <4>1, <4>2
    <3>2. CASE job'[u].sid = s
      BY <2>2, <2>3, <3>1, <3>2, <2>1
    <3>3. CASE job'[u].sid # s
      <4>1. u # t /\ LateGrant(u)
        BY <2>1, <2>2, <3>1, <3>3, <2>5 DEF LateGrant, Granting, IsActive
      <4>2. QED
        BY <4>1, <2>1, <2>2, <3>1, <3>3 DEF LagInv
    <3>4. QED
      BY <3>2, <3>3
  <2>6. \A u \in Thread : job'[u].pc # "idle" => clock' <= job'[u].at + MaxDelay
    BY <2>1 DEF LagInv
  <2>7. QED
    BY <2>1, <2>4, <2>5, <2>6 DEF LagInv
<1>7. ASSUME NEW t \in Thread, Grant(t) PROVE LagInv'
  <2>1. /\ Granting(t) /\ job[t].sid \in Sid /\ job[t].at <= clock
        /\ job' = [job EXCEPT ![t] = Idle]
        /\ heard' = [heard EXCEPT ![job[t].sid] = job[t].at]
        /\ UNCHANGED <<clock, lease>>
    BY <1>7 DEF Grant, Return, Granting, JobOK
  <2>2. \A s \in Sid : heard'[s] <= clock'
    BY <2>1 DEF LagInv
  <2>3. \A s \in Sid : IsActive(s)' => heard'[s] <= lease'[s].beat + MaxDelay
    BY <2>1 DEF LagInv, LateGrant, IsActive
  <2>4. \A u \in Thread : job'[u].pc # "idle" => u # t /\ job'[u] = job[u]
    BY <2>1 DEF Idle
  <2>5. \A u \in Thread : LateGrant(u)' => u # t /\ LateGrant(u) /\ job'[u] = job[u]
    BY <2>1 DEF Idle, LateGrant, Granting, IsActive
  <2>6. QED
    BY <2>1, <2>2, <2>3, <2>4, <2>5 DEF LagInv
<1>8. ASSUME NEW t \in Thread, HeartbeatGates(t) \/ RefuseHeartbeat(t) PROVE LagInv'
  BY <1>8, LagFrame DEF HeartbeatGates, RefuseHeartbeat, Reject, Goto, Granting
<1>9. ASSUME NEW t \in Thread, Renew(t) PROVE LagInv'
  <2>1. /\ job[t].pc # "idle" /\ job[t].call = "heartbeat" /\ job[t].sid \in Sid
        /\ job[t].at <= clock /\ clock <= job[t].at + MaxDelay
        /\ job' = [job EXCEPT ![t] = Idle] /\ clock' = clock
    BY <1>9 DEF Renew, Return, JobOK, LagInv
  <2>2. \A u \in Thread : job'[u].pc # "idle" => u # t /\ job'[u] = job[u]
    BY <2>1 DEF Idle
  <2>3. \A u \in Thread : Granting(u)' => u # t /\ Granting(u) /\ job'[u] = job[u]
    BY <2>1 DEF Idle, Granting
  <2>4. CASE IsActive(job[t].sid)
    <3>1. /\ lease' = [lease EXCEPT ![job[t].sid].beat = job[t].at]
          /\ heard' = [heard EXCEPT ![job[t].sid] = IF @ < job[t].at THEN job[t].at ELSE @]
      BY <1>9, <2>4 DEF Renew
    <3>2. /\ lease'[job[t].sid].beat = job[t].at
          /\ \A s \in Sid : lease'[s].state = lease[s].state
          /\ \A s \in Sid \ {job[t].sid} : lease'[s] = lease[s] /\ heard'[s] = heard[s]
          /\ heard'[job[t].sid] \in {heard[job[t].sid], job[t].at}
      BY <2>1, <3>1 DEF LeaseRow
    <3>3. heard'[job[t].sid] <= clock
      BY <2>1, <3>2 DEF LagInv
    <3>4. \A s \in Sid : heard'[s] <= clock'
      BY <2>1, <3>2, <3>3 DEF LagInv
    <3>5. heard'[job[t].sid] <= lease'[job[t].sid].beat + MaxDelay
      <4>1. heard'[job[t].sid] \in Nat
        BY <2>1, <3>2
      <4>2. QED
        BY <4>1, <2>1, <3>2, <3>3
    <3>6. \A s \in Sid : IsActive(s)' => heard'[s] <= lease'[s].beat + MaxDelay
      BY <3>2, <3>5 DEF LagInv, IsActive
    <3>7. ASSUME NEW u \in Thread, LateGrant(u)'
          PROVE  job'[u].at <= lease'[job'[u].sid].beat + MaxDelay
      <4>1. /\ Granting(u) /\ job'[u] = job[u] /\ job[u].sid \in Sid /\ job[u].at <= clock
            /\ LateGrant(u)
        BY <2>3, <3>2, <3>7 DEF LateGrant, Granting, JobOK, IsActive
      <4>2. CASE job[u].sid = job[t].sid
        BY <2>1, <3>2, <4>1, <4>2
      <4>3. CASE job[u].sid # job[t].sid
        BY <3>2, <4>1, <4>3 DEF LagInv
      <4>4. QED
        BY <4>2, <4>3
    <3>8. QED
      BY <2>1, <2>2, <3>4, <3>6, <3>7 DEF LagInv
  <2>5. CASE ~IsActive(job[t].sid)
    BY <1>9, <2>2, <2>3, <2>5, LagFrame DEF Renew
  <2>6. QED
    BY <2>4, <2>5
<1>10. ASSUME NEW t \in Thread, BanList(t) \/ BanDrop(t) PROVE LagInv'
  BY <1>10, LagFrame DEF BanList, BanDrop, Return, Idle, Granting
<1>11. ASSUME NEW t \in Thread, NEW s \in Sid, TryEnd(t, s) PROVE LagInv'
  <2>1. CASE CanEnd(t, s)
    <3>1. /\ lease' = [lease EXCEPT ![s].state = EndState(job[t].call)]
          /\ EndState(job[t].call) # "Active"
          /\ UNCHANGED <<clock, heard>>
      BY <1>11, <2>1 DEF TryEnd, EndState
    <3>2. \A r \in Sid : IsActive(r)' => lease'[r] = lease[r]
      BY <3>1 DEF IsActive, LeaseRow
    <3>3. /\ \A u \in Thread \ {t} : job'[u] = job[u]
          /\ job'[t].at = job[t].at /\ job'[t].pc = "check" /\ job[t].pc # "idle"
      BY <1>11, <2>1 DEF TryEnd
    <3>4. \A u \in Thread : LateGrant(u)' =>
             job'[u] = job[u] /\ LateGrant(u) /\ lease'[job[u].sid] = lease[job[u].sid]
      BY <3>2, <3>3 DEF LateGrant, Granting, IsActive, JobOK
    <3>5. \A r \in Sid : IsActive(r)' => heard'[r] <= lease'[r].beat + MaxDelay
      BY <3>1, <3>2 DEF LagInv, IsActive
    <3>6. QED
      BY <3>1, <3>3, <3>4, <3>5 DEF LagInv
  <2>2. CASE ~CanEnd(t, s)
    BY <1>11, <2>2, ProceedLags DEF TryEnd
  <2>3. QED
    BY <2>1, <2>2
<1>12. ASSUME NEW t \in Thread, DropCheck(t) PROVE LagInv'
  <2>1. CASE OtherActive(job[t].player, job[t].sid) # {}
    BY <1>12, <2>1, ProceedLags DEF DropCheck
  <2>2. CASE OtherActive(job[t].player, job[t].sid) = {}
    BY <1>12, <2>2, LagFrame DEF DropCheck, Goto, Granting
  <2>3. QED
    BY <2>1, <2>2
<1>13. ASSUME NEW t \in Thread, DropRemove(t) PROVE LagInv'
  BY <1>13, ProceedLags DEF DropRemove
<1>14. ASSUME NEW t \in Thread, Abort(t) PROVE LagInv'
  BY <1>14, LagFrame DEF Abort, Return, Idle, Granting
<1>15. CASE BeginSweep
  BY <1>15, LagFrame DEF BeginSweep, Working, Granting
<1>16. CASE Tick
  BY <1>16 DEF Tick, LagInv, LateGrant, Granting, IsActive
<1>17. CASE Quiet \/ UNCHANGED vars
  BY <1>17, LagFrame DEF Quiet, vars, Granting
<1>18. QED
  BY <1>1, <1>2, <1>3, <1>4, <1>5, <1>6, <1>7, <1>8, <1>9, <1>10, <1>11, <1>12, <1>13,
     <1>14, <1>15, <1>16, <1>17
     DEF Next, Call, Continue

LEMMA LagExpires ==
  ASSUME Basic, LagInv, [Next]_vars, NEW s \in Sid,
         lease[s].state = "Active", lease'[s].state = "Expired"
  PROVE  heard[s] + Grace < clock + MaxDelay
<1> USE ConstantsAssumption DEF Thread, tables, Basic, TypeOK
<1>1. \E t \in Thread, r \in Sid : TryEnd(t, r) /\ job[t].call = "sweep" /\ CanEnd(t, r) /\ r = s
  <2>1. \A t \in Thread, r \in Sid : InsertSession(t, r) => lease'[s].state # "Expired"
    BY DEF InsertSession
  <2>2. \A t \in Thread : Renew(t) => lease'[s].state # "Expired"
    BY DEF Renew, LeaseRow
  <2>3. ASSUME NEW t \in Thread, NEW r \in Sid, TryEnd(t, r)
        PROVE  job[t].call = "sweep" /\ CanEnd(t, r) /\ r = s
    BY <2>3 DEF TryEnd, EndState, LeaseRow
  <2>4. \E t \in Thread, r \in Sid : TryEnd(t, r)
    BY <2>1, <2>2 DEF Next, Call, Continue, vars, BeginStart, BeginBan, BanRow, Unban,
       BeginHeartbeat, BeginEnd, BeginRevoke, StartGates, RefuseStart, Grant, HeartbeatGates,
       RefuseHeartbeat, BanList, BanDrop, DropCheck, DropRemove, Abort, BeginSweep, Tick, Quiet
  <2>5. QED
    BY <2>3, <2>4
<1>2. PICK t \in Thread : lease[s].beat + Grace < job[t].at
  BY <1>1 DEF CanEnd, Stale
<1>3. job[t].at \in Nat /\ job[t].at <= clock /\ lease[s].beat \in Nat
  BY DEF JobOK, Job, LeaseRow
<1>4. heard[s] <= lease[s].beat + MaxDelay
  BY DEF LagInv, IsActive
<1>5. QED
  BY <1>2, <1>3, <1>4

(* store.py:224: however heartbeats overlap, a lease expires at most       *)
(* MaxDelay short of a grace period after the latest heartbeat that a      *)
(* launcher was answered.                                                  *)
THEOREM ExpiryWaits == Spec => ExpiresUnheard
<1>1. Basic /\ LagInv /\ [Next]_vars =>
        [\A s \in Sid :
           lease[s].state = "Active" /\ lease'[s].state = "Expired"
               => heard[s] + Grace < clock + MaxDelay]_vars
  BY LagExpires
<1>2. Spec => []LagInv
  BY BasicInvariant, LagInit, LagStep, PTL DEF Spec
<1>3. QED
  BY <1>1, <1>2, BasicInvariant, PTL DEF Spec, ExpiresUnheard

-----------------------------------------------------------------------------
(* Part 7: what a ban and the end of a lease leave.                        *)

(* sessions.py:142, 205: a ban that has stood for the grace period leaves  *)
(* its player no lease but one that the next sweep takes: no heartbeat     *)
(* that raced the ban has kept it fresh.                                   *)
BannedIsStale ==
    \A s \in Sid :
        IsActive(s) /\ lease[s].player \in banned /\ banTime[lease[s].player] + Grace < clock => Stale(s, clock)

(* BanFreezes bounds the heartbeat time of the row by the time of the ban. *)
THEOREM BannedGoStale == Spec => []BannedIsStale
<1>1. Basic /\ BanFreezesLease => BannedIsStale
  <2> SUFFICES ASSUME Basic, BanFreezesLease, NEW s \in Sid,
                      IsActive(s), lease[s].player \in banned, banTime[lease[s].player] + Grace < clock
               PROVE  lease[s].beat + Grace < clock
    BY DEF BannedIsStale, Stale
  <2>1. lease[s].beat <= banTime[lease[s].player]
    BY DEF BanFreezesLease
  <2>2. lease[s].beat \in Nat /\ banTime[lease[s].player] \in Nat /\ clock \in Nat
    BY DEF Basic, TypeOK, LeaseRow
  <2> QED BY <2>1, <2>2, ConstantsAssumption
<1> QED BY <1>1, BasicInvariant, BanFreezes, PTL

(* store.py:224, 230: a row that is over is not written again, whichever  *)
(* heartbeats, ends, bans and sweeps still have the lease in hand, and a   *)
(* lease never changes hands.                                              *)
RowIsFinal ==
    [][\A s \in Sid : /\ lease[s].state \in {"Ended", "Revoked", "Expired"} => lease'[s] = lease[s]
                      /\ lease[s].state # "Unused" => lease'[s].player = lease[s].player
                      /\ lease'[s].state = "Unused" => lease[s].state = "Unused"]_vars

(* It is a property of every LeaseLifecycle, which Leases implements.      *)
THEOREM RowsAreFinal == Spec => RowIsFinal
<1> DEFINE Final(s) == /\ lease[s].state \in {"Ended", "Revoked", "Expired"} => lease'[s] = lease[s]
                       /\ lease[s].state # "Unused" => lease'[s].player = lease[s].player
                       /\ lease'[s].state = "Unused" => lease[s].state = "Unused"
<1>1. ASSUME Basic, [Next]_vars, NEW s \in Sid PROVE Final(s)
  <2>1. lease[s] \in LeaseRow /\ lease \in [Sid -> LeaseRow]
    BY <1>1 DEF Basic, TypeOK
  <2>2. CASE UNCHANGED lease
    BY <2>2
  <2>3. ASSUME NEW r \in Sid, NEW p \in Player, Lifecycle!Open(r, p) PROVE Final(s)
    BY <2>1, <2>3 DEF Lifecycle!Open, LeaseRow
  <2>4. ASSUME NEW r \in Sid, Lifecycle!Renew(r) PROVE Final(s)
    BY <2>1, <2>4 DEF Lifecycle!Renew, LeaseRow
  <2>5. ASSUME NEW r \in Sid, NEW how \in {"Ended", "Revoked", "Expired"}, Lifecycle!Close(r, how) PROVE Final(s)
    BY <2>1, <2>5 DEF Lifecycle!Close, LeaseRow
  <2> QED BY <1>1, <2>2, <2>3, <2>4, <2>5, LifecycleStep DEF Lifecycle!Next, Lifecycle!vars, Lifecycle!TimePasses
<1>2. Basic /\ [Next]_vars => [\A s \in Sid : Final(s)]_vars
  BY <1>1
<1> QED BY <1>2, BasicInvariant, PTL DEF Spec, RowIsFinal

-----------------------------------------------------------------------------
(* Part 8: the sweeper's list stays complete while it works through it,    *)
(* though heartbeats and joins that began before go on writing rows.       *)

(* Everything that is overdue at the cutoff of the sweep is yet to end.    *)
SweepInv ==
    \/ job[Sweeper].call = "none" /\ job[Sweeper].pc = "idle"
    \/ /\ job[Sweeper].call = "sweep" /\ job[Sweeper].pc \in {"end", "check", "drop"}
       /\ \A s \in Sid : Stale(s, job[Sweeper].at) => s \in job[Sweeper].todo

LEMMA SweepInit == Init => SweepInv
BY DEF Init, SweepInv, Idle, Thread

(* What other threads write is younger than the cutoff.                    *)
LEMMA SweepFrame ==
    ASSUME Basic, SweepInv, job'[Sweeper] = job[Sweeper],
           \A s \in Sid : \/ lease'[s].state # "Active"
                          \/ lease'[s] = lease[s]
                          \/ lease'[s].beat \in Nat /\ clock <= lease'[s].beat + Grace
    PROVE  SweepInv'
<1>1. job[Sweeper].at \in Nat /\ job[Sweeper].at <= clock /\ clock \in Nat
  BY DEF Basic, TypeOK, JobOK, Job, Thread
<1>2. \A s \in Sid : Stale(s, job[Sweeper].at)' => Stale(s, job[Sweeper].at)
  BY <1>1, ConstantsAssumption DEF Stale, IsActive
<1> QED BY <1>2 DEF SweepInv

LEMMA SweepProceeds ==
    ASSUME SweepInv, job \in [Thread -> Job], NEW todo, Proceed(Sweeper, todo), job[Sweeper].call = "sweep",
           \A s \in Sid : lease'[s].state = "Active" /\ lease'[s].beat + Grace < job[Sweeper].at => s \in todo
    PROVE  SweepInv'
<1> USE DEF Thread
<1>1. CASE todo = {}
  BY <1>1 DEF Proceed, Return, Idle, SweepInv
<1>2. CASE todo # {}
  <2>1. /\ job'[Sweeper].call = "sweep" /\ job'[Sweeper].pc = "end" /\ job'[Sweeper].todo = todo
        /\ job'[Sweeper].at = job[Sweeper].at
    BY <1>2 DEF Proceed, Job
  <2> QED BY <2>1 DEF SweepInv, Stale, IsActive
<1> QED BY <1>1, <1>2

LEMMA SweepStep == ASSUME MaxDelay <= Grace PROVE Basic /\ LagInv /\ SweepInv /\ [Next]_vars => SweepInv'
<1> SUFFICES ASSUME Basic, LagInv, SweepInv, [Next]_vars PROVE SweepInv'
  OBVIOUS
<1> USE ConstantsAssumption DEF Thread, tables
<1>0. /\ job \in [Thread -> Job] /\ lease \in [Sid -> LeaseRow] /\ clock \in Nat
      /\ \A t \in Thread : job[t].at \in Nat /\ (job[t].pc # "idle" => clock <= job[t].at + MaxDelay)
  BY DEF Basic, TypeOK, LagInv, Job
<1>1. ASSUME NEW w \in Worker, Call(w) PROVE SweepInv'
  <2>1. UNCHANGED lease /\ job'[Sweeper] = job[Sweeper]
    BY <1>0, <1>1 DEF Call, BeginStart, BeginHeartbeat, BeginBan, BanRow, Unban, BeginEnd, BeginRevoke
  <2> QED BY <2>1, SweepFrame
<1>2. ASSUME NEW t \in Thread, NEW s \in Sid, InsertSession(t, s) PROVE SweepInv'
  <2>1. t # Sweeper /\ job'[Sweeper] = job[Sweeper]
    BY <1>0, <1>2 DEF InsertSession, SweepInv
  <2>2. lease'[s].beat = job[t].at /\ clock <= job[t].at + Grace /\ \A r \in Sid \ {s} : lease'[r] = lease[r]
    BY <1>0, <1>2 DEF InsertSession
  <2> QED BY <1>0, <2>1, <2>2, SweepFrame
<1>3. ASSUME NEW t \in Thread, Renew(t) PROVE SweepInv'
  <2>1. t # Sweeper /\ job'[Sweeper] = job[Sweeper] /\ clock <= job[t].at + Grace
    BY <1>0, <1>3 DEF Renew, Return, SweepInv
  <2>2. \A r \in Sid : lease'[r] = lease[r] \/ lease'[r].beat = job[t].at
    BY <1>0, <1>3 DEF Renew, LeaseRow
  <2> QED BY <1>0, <2>1, <2>2, SweepFrame
<1>4. ASSUME NEW t \in Thread, NEW s \in Sid, TryEnd(t, s) PROVE SweepInv'
  <2>1. \A r \in Sid : \/ lease'[r] = lease[r]
                       \/ r = s /\ lease'[r].state # "Active"
    BY <1>0, <1>4 DEF TryEnd, EndState, LeaseRow
  <2>2. CASE t # Sweeper
    <3>1. job'[Sweeper] = job[Sweeper]
      BY <1>0, <1>4, <2>2 DEF TryEnd, Proceed, Return
    <3> QED BY <2>1, <3>1, SweepFrame
  <2>3. CASE t = Sweeper /\ CanEnd(t, s)
    <3>1. /\ job'[Sweeper].call = "sweep" /\ job'[Sweeper].pc = "check" /\ job'[Sweeper].at = job[Sweeper].at
          /\ job'[Sweeper].todo = job[Sweeper].todo \ {s}
      BY <1>0, <1>4, <2>3 DEF TryEnd, SweepInv, Job
    <3>2. lease'[s].state # "Active"
      BY <1>0, <1>4, <2>3 DEF TryEnd, EndState, LeaseRow
    <3>3. \A r \in Sid : Stale(r, job[Sweeper].at)' => Stale(r, job[Sweeper].at) /\ r # s
      BY <2>1, <3>1, <3>2 DEF Stale, IsActive
    <3> QED BY <1>4, <2>3, <3>1, <3>3 DEF SweepInv, TryEnd
  <2>4. CASE t = Sweeper /\ ~CanEnd(t, s)
    <3>1. /\ job[Sweeper].call = "sweep" /\ ~Stale(s, job[Sweeper].at) /\ lease' = lease
          /\ Proceed(Sweeper, job[Sweeper].todo \ {s})
      BY <1>4, <2>4 DEF TryEnd, SweepInv, CanEnd
    <3>2. \A r \in Sid : lease'[r].state = "Active" /\ lease'[r].beat + Grace < job[Sweeper].at
                         => r \in job[Sweeper].todo \ {s}
      BY <3>1 DEF SweepInv, Stale, IsActive
    <3> QED BY <1>0, <3>1, <3>2, SweepProceeds
  <2> QED BY <2>2, <2>3, <2>4
<1>5. ASSUME NEW t \in Thread, DropCheck(t) \/ DropRemove(t) PROVE SweepInv'
  <2>1. UNCHANGED lease
    BY <1>5 DEF DropCheck, DropRemove
  <2>2. CASE t # Sweeper
    <3>1. job'[Sweeper] = job[Sweeper]
      BY <1>0, <1>5, <2>2 DEF DropCheck, DropRemove, Goto, Proceed, Return
    <3> QED BY <2>1, <3>1, SweepFrame
  <2>3. CASE t = Sweeper
    <3>1. job[Sweeper].call = "sweep" /\ \A r \in Sid : Stale(r, job[Sweeper].at) => r \in job[Sweeper].todo
      BY <1>5, <2>3 DEF DropCheck, DropRemove, SweepInv
    <3>2. \A r \in Sid : lease'[r].state = "Active" /\ lease'[r].beat + Grace < job[Sweeper].at
                         => r \in job[Sweeper].todo
      BY <2>1, <3>1 DEF Stale, IsActive
    <3>3. CASE Goto(Sweeper, "drop")
      <4>1. /\ job'[Sweeper].call = "sweep" /\ job'[Sweeper].pc = "drop" /\ job'[Sweeper].at = job[Sweeper].at
            /\ job'[Sweeper].todo = job[Sweeper].todo
        BY <1>0, <3>1, <3>3 DEF Goto, Job
      <4> QED BY <3>2, <4>1 DEF SweepInv, Stale, IsActive
    <3>4. CASE Proceed(Sweeper, job[Sweeper].todo)
      BY <1>0, <3>1, <3>2, <3>4, SweepProceeds
    <3> QED BY <1>5, <2>3, <3>3, <3>4 DEF DropCheck, DropRemove
  <2> QED BY <2>2, <2>3
<1>6. ASSUME NEW t \in Thread,
             StartGates(t) \/ RefuseStart(t) \/ Grant(t) \/ HeartbeatGates(t) \/ RefuseHeartbeat(t) \/ BanList(t) \/ BanDrop(t)
      PROVE  SweepInv'
  <2>1. UNCHANGED lease /\ t # Sweeper
    BY <1>6 DEF SweepInv, StartGates, RefuseStart, Grant, HeartbeatGates, RefuseHeartbeat, BanList, BanDrop
  <2>2. job'[Sweeper] = job[Sweeper]
    BY <1>0, <1>6, <2>1 DEF StartGates, RefuseStart, Grant, HeartbeatGates, RefuseHeartbeat, BanList, BanDrop,
                            Goto, Return, Reject
  <2> QED BY <2>1, <2>2, SweepFrame
<1>7. ASSUME NEW t \in Thread, Abort(t) PROVE SweepInv'
  <2>1. CASE t = Sweeper
    BY <1>0, <1>7, <2>1 DEF Abort, Return, Idle, SweepInv
  <2>2. CASE t # Sweeper
    <3>1. UNCHANGED lease /\ job'[Sweeper] = job[Sweeper]
      BY <1>0, <1>7, <2>2 DEF Abort, Return
    <3> QED BY <3>1, SweepFrame
  <2> QED BY <2>1, <2>2
<1>8. CASE BeginSweep
  <2>1. /\ job'[Sweeper] = Working("sweep", "end", "none", "none", {s \in Sid : Stale(s, clock)})
        /\ lease' = lease
    BY <1>0, <1>8 DEF BeginSweep
  <2> QED BY <2>1 DEF SweepInv, Working, Stale, IsActive
<1>9. CASE Tick \/ Quiet \/ UNCHANGED vars
  BY <1>9, SweepFrame DEF Tick, Quiet, vars
<1> QED BY <1>1, <1>2, <1>3, <1>4, <1>5, <1>6, <1>7, <1>8, <1>9 DEF Next, Continue

(* sweeper.py:33-40, README.md:89: a sweep that runs to its end, and is not *)
(* broken off by an exception, leaves no Active lease that was overdue at  *)
(* its cutoff, whichever calls write rows and end leases meanwhile.        *)
SweepIsThorough ==
    [][job[Sweeper].pc # "idle" /\ job'[Sweeper].pc = "idle" =>
         \/ Abort(Sweeper)
         \/ \A s \in Sid : lease'[s].state = "Active" => job[Sweeper].at <= lease'[s].beat + Grace]_vars

(* For calls that take no longer than the grace period: one that is slower *)
(* may write a row that is overdue already.                                *)
THEOREM SweepsAreThorough == ASSUME MaxDelay <= Grace PROVE Spec => SweepIsThorough
<1> DEFINE Ends == job[Sweeper].pc # "idle" /\ job'[Sweeper].pc = "idle"
           Thorough == \A s \in Sid : lease'[s].state = "Active" => job[Sweeper].at <= lease'[s].beat + Grace
<1> USE DEF Thread
<1>1. ASSUME Basic, SweepInv, [Next]_vars, Ends PROVE Abort(Sweeper) \/ Thorough
  <2>0. /\ job \in [Thread -> Job] /\ lease \in [Sid -> LeaseRow] /\ job[Sweeper].call = "sweep"
        /\ \A s \in Sid : Stale(s, job[Sweeper].at) => s \in job[Sweeper].todo
    BY <1>1 DEF Basic, TypeOK, SweepInv
  <2>a. ASSUME NEW todo, Proceed(Sweeper, todo) PROVE todo = {}
    BY <1>1, <2>0, <2>a DEF Proceed, Job
  <2>1. ASSUME UNCHANGED lease, NEW done \in SUBSET Sid, job[Sweeper].todo \ done = {},
               \A s \in done : ~Stale(s, job[Sweeper].at)
        PROVE  Thorough
    BY <2>0, <2>1, ConstantsAssumption DEF Stale, IsActive, LeaseRow, Job
  <2>2. ASSUME NEW s \in Sid, TryEnd(Sweeper, s) PROVE Thorough
    <3>1. ~CanEnd(Sweeper, s)
      BY <1>1, <2>0, <2>2 DEF TryEnd, Job
    <3>2. UNCHANGED lease /\ Proceed(Sweeper, job[Sweeper].todo \ {s}) /\ ~Stale(s, job[Sweeper].at)
      BY <2>0, <2>2, <3>1 DEF TryEnd, CanEnd
    <3>3. job[Sweeper].todo \ {s} = {}
      BY <1>1, <2>a, <3>2
    <3> QED BY <2>1, <3>2, <3>3
  <2>3. ASSUME DropCheck(Sweeper) \/ DropRemove(Sweeper) PROVE Thorough
    <3>1. UNCHANGED lease /\ (Proceed(Sweeper, job[Sweeper].todo) \/ Goto(Sweeper, "drop"))
      BY <2>3 DEF DropCheck, DropRemove, tables
    <3>2. job[Sweeper].todo = {}
      BY <1>1, <2>0, <2>a, <3>1 DEF Goto, Job
    <3> QED BY <2>1, <3>1, <3>2
  <2>4. ASSUME NEW t \in Thread, Continue(t) \/ Abort(t), t # Sweeper PROVE FALSE
    <3>1. job'[Sweeper] = job[Sweeper]
      BY <2>0, <2>4 DEF Continue, StartGates, RefuseStart, InsertSession, Grant, HeartbeatGates, RefuseHeartbeat, Renew,
                        BanList, BanDrop, TryEnd, DropCheck, DropRemove, Abort, Goto, Return, Reject, Proceed
    <3> QED BY <1>1, <3>1
  <2>5. ASSUME Continue(Sweeper) PROVE Thorough
    BY <2>0, <2>2, <2>3, <2>5 DEF Continue, StartGates, RefuseStart, InsertSession, Grant, HeartbeatGates,
       RefuseHeartbeat, Renew, BanList, BanDrop
  <2>6. ASSUME NEW w \in Worker, Call(w) PROVE FALSE
    <3>1. job'[Sweeper] = job[Sweeper]
      BY <2>0, <2>6, ConstantsAssumption
         DEF Call, BeginStart, BeginHeartbeat, BeginBan, BanRow, Unban, BeginEnd, BeginRevoke
    <3> QED BY <1>1, <3>1
  <2>7. ~(BeginSweep \/ Tick \/ Quiet \/ UNCHANGED vars)
    BY <1>1 DEF BeginSweep, Tick, Quiet, vars
  <2> QED BY <1>1, <2>4, <2>5, <2>6, <2>7 DEF Next
<1>2. Basic /\ SweepInv /\ [Next]_vars => [Ends => Abort(Sweeper) \/ Thorough]_vars
  BY <1>1
<1>3. Spec => []SweepInv
  BY BasicInvariant, LagInit, LagStep, SweepInit, SweepStep, PTL DEF Spec
<1> QED BY <1>2, <1>3, BasicInvariant, PTL DEF Spec, SweepIsThorough

(* README.md:90: with launchers alone calling and no failure, a server     *)
(* with no thread at work and no lease open has nobody on the whitelist.   *)
NobodyIsLeft ==
    (\A t \in Thread : job[t].pc = "idle") /\ (\A s \in Sid : ~IsActive(s)) => whitelist = {}

THEOREM NobodyIsForgotten == ASSUME LaunchersOnly PROVE Spec => []NobodyIsLeft
<1>1. FollowInv => NobodyIsLeft
  <2> SUFFICES ASSUME FollowInv, \A t \in Thread : job[t].pc = "idle", \A s \in Sid : ~IsActive(s), NEW p \in whitelist
               PROVE  FALSE
    BY DEF NobodyIsLeft
  <2>1. ActiveOf(p) = {}
    BY DEF ActiveOf
  <2>2. ~LeavingSoon(p)
    BY DEF LeavingSoon, FollowInv, JobTimely
  <2> QED BY <2>1, <2>2 DEF FollowInv, WhitelistedHasLease
<1>2. Spec => []FollowInv
  BY BasicInvariant, FollowInit, FollowStep, PTL DEF Spec
<1> QED BY <1>1, <1>2, PTL
=============================================================================
