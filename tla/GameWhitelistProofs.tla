------------------------ MODULE GameWhitelistProofs ------------------------
(***************************************************************************)
(* Leases and WhitelistSync, proved apart, put together: what the table    *)
(* promises reaches the game server.                                       *)
(***************************************************************************)
EXTENDS GameWhitelist, LeasesProofs

-----------------------------------------------------------------------------
(* Whoever is taken off the whitelist is a player. *)

OwnerInv ==
    /\ \A s \in Sid : lease[s].state # "Unused" => lease[s].player \in Player
    /\ \A t \in Thread : job[t].pc \in {"check", "drop"} \/ job[t].call = "ban" => job[t].player \in Player

LEMMA OwnerInit == Init => OwnerInv
BY DEF Init, OwnerInv, Idle, Unused

LEMMA OwnerFrame ==
    ASSUME Basic, OwnerInv, UNCHANGED lease, NEW t \in Thread, \A u \in Thread \ {t} : job'[u] = job[u],
           job'[t].pc \in {"check", "drop"} \/ job'[t].call = "ban" =>
               \/ job'[t].player \in Player
               \/ job'[t].player = job[t].player /\ (job[t].pc \in {"check", "drop"} \/ job[t].call = "ban")
    PROVE  OwnerInv'
BY DEF OwnerInv

LEMMA OwnerStep == Basic /\ OwnerInv /\ [Next]_vars => OwnerInv'
<1> SUFFICES ASSUME Basic, OwnerInv, [Next]_vars PROVE OwnerInv'
  OBVIOUS
<1> USE ConstantsAssumption DEF Thread, tables
<1>0. job \in [Thread -> Job] /\ lease \in [Sid -> LeaseRow]
  BY DEF Basic, TypeOK
<1>1. ASSUME NEW w \in Worker, Call(w) PROVE OwnerInv'
  <2>1. UNCHANGED lease /\ \A u \in Thread \ {w} : job'[u] = job[u]
    BY <1>0, <1>1 DEF Call, BeginStart, BeginBan, BanRow, Unban, BeginHeartbeat, BeginEnd, BeginRevoke
  <2>2. CASE UNCHANGED job
    BY <2>1, <2>2, OwnerFrame
  <2>3. CASE \E p \in Player : BeginStart(w, p) \/ BeginBan(w, p)
    <3>1. job'[w].player \in Player
      BY <1>0, <2>3 DEF BeginStart, BeginBan, Working
    <3> QED BY <2>1, <3>1, OwnerFrame
  <2>4. CASE \E s \in Sid : BeginHeartbeat(w, s) \/ BeginEnd(w, s) \/ BeginRevoke(w, s)
    <3>1. job'[w].pc \in {"gates", "end"} /\ job'[w].call # "ban"
      BY <1>0, <2>4 DEF BeginHeartbeat, BeginEnd, BeginRevoke, Working
    <3> QED BY <2>1, <3>1, OwnerFrame
  <2> QED BY <1>1, <2>2, <2>3, <2>4 DEF Call, BanRow, Unban
<1>2. ASSUME NEW t \in Thread, NEW s \in Sid, InsertSession(t, s) PROVE OwnerInv'
  <2>1. job[t].player \in Player
    BY <1>2 DEF InsertSession, Basic, JobOK
  <2>2. lease' = [lease EXCEPT ![s] = [state |-> "Active", player |-> job[t].player, beat |-> job[t].at]]
    BY <1>2 DEF InsertSession
  <2>3. job'[t].player = job[t].player /\ \A u \in Thread \ {t} : job'[u] = job[u]
    BY <1>0, <1>2 DEF InsertSession, Job
  <2> QED BY <1>0, <2>1, <2>2, <2>3 DEF OwnerInv
<1>3. ASSUME NEW t \in Thread, Renew(t) PROVE OwnerInv'
  <2>1. \A s \in Sid : lease'[s].state = lease[s].state /\ lease'[s].player = lease[s].player
    BY <1>0, <1>3 DEF Renew, LeaseRow
  <2>2. job'[t] = Idle /\ \A u \in Thread \ {t} : job'[u] = job[u]
    BY <1>0, <1>3 DEF Renew, Return
  <2> QED BY <2>1, <2>2 DEF OwnerInv, Idle
<1>4. ASSUME NEW t \in Thread, NEW todo, Proceed(t, todo), job[t].pc # "idle", UNCHANGED lease PROVE OwnerInv'
  <2>1. CASE todo = {} /\ job[t].call # "ban"
    <3>1. job'[t] = Idle /\ \A u \in Thread \ {t} : job'[u] = job[u]
      BY <1>0, <1>4, <2>1 DEF Proceed, Return
    <3> QED BY <1>4, <3>1, OwnerFrame DEF Idle
  <2>2. CASE ~(todo = {} /\ job[t].call # "ban")
    <3>1. job'[t].pc = "end" /\ job'[t].call = job[t].call /\ job'[t].player = job[t].player
          /\ \A u \in Thread \ {t} : job'[u] = job[u]
      BY <1>0, <1>4, <2>2 DEF Proceed, Job
    <3> QED BY <1>4, <3>1, OwnerFrame
  <2> QED BY <2>1, <2>2
<1>5. ASSUME NEW t \in Thread, NEW s \in Sid, TryEnd(t, s) PROVE OwnerInv'
  <2>1. CASE CanEnd(t, s)
    <3>1. lease[s].state # "Unused"
      BY <2>1 DEF CanEnd, Stale, IsActive
    <3>2. lease[s].player \in Player
      BY <3>1 DEF OwnerInv
    <3>3. \A r \in Sid : lease'[r].player = lease[r].player /\ (lease'[r].state # "Unused" => lease[r].state # "Unused")
      BY <1>0, <1>5, <2>1, <3>1 DEF TryEnd, LeaseRow
    <3>4. job'[t].player = lease[s].player /\ \A u \in Thread \ {t} : job'[u] = job[u]
      BY <1>0, <1>5, <2>1 DEF TryEnd, Job
    <3> QED BY <3>2, <3>3, <3>4 DEF OwnerInv
  <2>2. CASE ~CanEnd(t, s)
    BY <1>4, <1>5, <2>2 DEF TryEnd
  <2> QED BY <2>1, <2>2
<1>6. ASSUME NEW t \in Thread, StartGates(t) \/ RefuseStart(t) \/ Grant(t) \/ HeartbeatGates(t) \/ RefuseHeartbeat(t)
                               \/ BanList(t) \/ BanDrop(t) \/ Abort(t)
      PROVE  OwnerInv'
  <2>1. UNCHANGED lease /\ \A u \in Thread \ {t} : job'[u] = job[u]
    BY <1>0, <1>6 DEF StartGates, RefuseStart, Grant, HeartbeatGates, RefuseHeartbeat, BanList, BanDrop, Abort,
                Reject, Goto, Return
  <2>2. CASE BanList(t)
    <3>1. job[t].call = "ban" /\ job'[t].player = job[t].player
      BY <1>0, <2>2 DEF BanList, Job
    <3> QED BY <2>1, <3>1, OwnerFrame
  <2>3. CASE ~BanList(t)
    <3>1. job'[t].pc \notin {"check", "drop"} /\ job'[t].call # "ban"
      BY <1>0, <1>6, <2>3 DEF StartGates, RefuseStart, Grant, HeartbeatGates, RefuseHeartbeat, BanDrop, Abort,
                Reject, Goto, Return, Idle, Job
    <3> QED BY <2>1, <3>1, OwnerFrame
  <2> QED BY <2>2, <2>3
<1>7. ASSUME NEW t \in Thread, DropCheck(t) PROVE OwnerInv'
  <2>1. CASE Goto(t, "drop")
    <3>1. job[t].pc = "check" /\ job'[t].player = job[t].player /\ \A u \in Thread \ {t} : job'[u] = job[u]
      BY <1>0, <1>7, <2>1 DEF DropCheck, Goto, Job
    <3> QED BY <1>7, <3>1, OwnerFrame DEF DropCheck
  <2> QED BY <1>4, <1>7, <2>1 DEF DropCheck
<1>8. ASSUME NEW t \in Thread, DropRemove(t) PROVE OwnerInv'
  BY <1>4, <1>8 DEF DropRemove
<1>9. CASE BeginSweep
  <2>1. job'[Sweeper].pc = "end" /\ job'[Sweeper].call = "sweep" /\ \A u \in Thread \ {Sweeper} : job'[u] = job[u]
    BY <1>0, <1>9 DEF BeginSweep, Working
  <2> QED BY <1>9, <2>1, OwnerFrame DEF BeginSweep
<1>10. CASE Tick \/ Quiet \/ UNCHANGED vars
  BY <1>10 DEF Tick, Quiet, vars, OwnerInv
<1> QED BY <1>1, <1>2, <1>3, <1>5, <1>6, <1>7, <1>8, <1>9, <1>10 DEF Next, Continue

-----------------------------------------------------------------------------
(* A step of the whole is a step of each part, or leaves it alone. *)

LEMMA GameStep ==
    ASSUME Basic, OwnerInv, [GameNext]_gameVars
    PROVE  [Next]_vars /\ [Sync!Next]_(Sync!vars)
<1> USE DEF Thread, tables, leaseSide, syncSide, gameVars, vars, Sync!vars
<1>0. Worker \subseteq Thread /\ Sweeper \in Thread
  OBVIOUS
<1>1. ASSUME UNCHANGED leaseSide, [Sync!Next]_(Sync!vars), UNCHANGED whitelist
      PROVE  [Next]_vars /\ [Sync!Next]_(Sync!vars)
  BY <1>1
<1>2. ASSUME NEW t \in Thread, Other(t) PROVE [Next]_vars /\ [Sync!Next]_(Sync!vars)
  <2>1. CASE t \in Worker /\ Call(t)
    BY <1>2, <2>1 DEF Other, Next, Call, BeginStart, BeginBan, BanRow, Unban, BeginHeartbeat, BeginEnd, BeginRevoke
  <2>2. CASE ~AtWhitelist(t) /\ Continue(t)
    <3>1. Next
      BY <2>2 DEF Next
    <3>2. ~Grant(t) /\ ~BanDrop(t) /\ ~DropRemove(t)
      BY <2>2 DEF AtWhitelist, Grant, BanDrop, DropRemove
    <3>3. UNCHANGED whitelist
      BY <2>2, <3>2 DEF Continue, StartGates, RefuseStart, InsertSession, HeartbeatGates, RefuseHeartbeat, Renew,
                        BanList, TryEnd, DropCheck
    <3> QED BY <1>2, <3>1, <3>3 DEF Other
  <2>3. CASE Abort(t)
    BY <1>2, <2>3 DEF Other, Next, Abort
  <2>4. CASE BeginSweep
    BY <1>2, <2>4 DEF Other, Next, BeginSweep
  <2> QED BY <1>2, <2>1, <2>2, <2>3, <2>4 DEF Other
<1>3. ASSUME NEW t \in Thread, GrantCall(t) PROVE [Next]_vars /\ [Sync!Next]_(Sync!vars)
  <2>1. job[t].player \in Player
    BY <1>3 DEF GrantCall, Grant, Basic, JobOK
  <2> QED BY <1>3, <2>1 DEF GrantCall, Next, Continue, Sync!Next
<1>4. ASSUME NEW t \in Thread, RevokeCall(t) PROVE [Next]_vars /\ [Sync!Next]_(Sync!vars)
  <2>1. job[t].player \in Player
    BY <1>4 DEF RevokeCall, DropRemove, BanDrop, OwnerInv
  <2> QED BY <1>4, <2>1 DEF RevokeCall, Next, Continue, Sync!Next
<1>5. ASSUME NEW t \in Thread, Apply(t) PROVE [Next]_vars /\ [Sync!Next]_(Sync!vars)
  <2>1. Sync!Next
    BY <1>5 DEF Apply, Sync!Next
  <2>2. UNCHANGED whitelist
    BY <1>5 DEF Apply, Sync!Step, Sync!Send, Sync!Lock, Sync!Open, Sync!List, Sync!Write, Sync!Replace,
                Sync!RaiseRcon, Sync!RaiseFile
  <2> QED BY <1>1, <1>5, <2>1, <2>2 DEF Apply
<1>6. CASE CrashSync \/ (Sync!GameRestart /\ UNCHANGED leaseSide)
  <2>1. UNCHANGED whitelist
    BY <1>6 DEF CrashSync, Sync!Crash, Sync!GameRestart
  <2> QED BY <1>1, <1>6, <2>1 DEF CrashSync, Sync!Next
<1>7. CASE (Tick \/ Quiet) /\ UNCHANGED syncSide
  BY <1>7 DEF Next, Tick, Quiet
<1>8. CASE UNCHANGED gameVars
  BY <1>8
<1> QED BY <1>2, <1>3, <1>4, <1>5, <1>6, <1>7, <1>8 DEF GameNext

(* What the threads of Leases do to the whitelist is what WhitelistSync    *)
(* expects of its callers: a change is one grant or revoke, of one player, *)
(* by a thread that has finished the one before.  So all that is proved of *)
(* either holds of both together.                                          *)
THEOREM BothTogether == GameSpec => Spec /\ Sync!Spec
<1> DEFINE Inv == Basic /\ OwnerInv
<1>1. GameInit => Init /\ Sync!Init
  BY DEF GameInit
<1>2. Init => Inv
  BY BasicInit, OwnerInit
<1>3. Inv /\ [Next]_vars => Inv'
  BY BasicStep, OwnerStep
<1>4. Inv /\ [GameNext]_gameVars => [Next]_vars /\ [Sync!Next]_(Sync!vars)
  BY GameStep
<1> QED BY <1>1, <1>2, <1>3, <1>4, PTL DEF GameSpec, Spec, Sync!Spec

-----------------------------------------------------------------------------
(* What is proved of WhitelistSync, for the whitelist and the threads here. *)

SyncProofs == INSTANCE WhitelistSyncProofs WITH table <- whitelist, job <- sync

LEMMA SameSpec == Sync!Spec <=> SyncProofs!Spec
<1>1. Sync!Init <=> SyncProofs!Init
  BY DEF Sync!Init, SyncProofs!Init, Sync!Idle, SyncProofs!Idle
<1>2. [Sync!Next]_(Sync!vars) <=> [SyncProofs!Next]_(SyncProofs!vars)
  BY DEF Sync!Next, Sync!vars, Sync!Change, Sync!Grant, Sync!Revoke, Sync!Step, Sync!Send, Sync!Lock, Sync!Open,
         Sync!List, Sync!Write, Sync!Replace, Sync!RaiseRcon, Sync!RaiseFile, Sync!Crash, Sync!GameRestart,
         Sync!Quiet, Sync!Busy, Sync!Idle, Sync!InFile, Sync!Applied, Sync!Goto, Sync!Return, Sync!gameSide,
         Sync!fileSide,
         SyncProofs!Next, SyncProofs!vars, SyncProofs!Change, SyncProofs!Grant, SyncProofs!Revoke,
         SyncProofs!Step, SyncProofs!Send, SyncProofs!Lock, SyncProofs!Open, SyncProofs!List, SyncProofs!Write,
         SyncProofs!Replace, SyncProofs!RaiseRcon, SyncProofs!RaiseFile, SyncProofs!Crash,
         SyncProofs!GameRestart, SyncProofs!Quiet, SyncProofs!Busy, SyncProofs!Idle, SyncProofs!InFile,
         SyncProofs!Applied, SyncProofs!Goto, SyncProofs!Return, SyncProofs!gameSide, SyncProofs!fileSide
<1> QED BY <1>1, <1>2, PTL DEF Sync!Spec, SyncProofs!Spec

LEMMA SyncFacts ==
    ASSUME Sync!ConstantsAssumption
    PROVE  Sync!Spec => [](Sync!FileMatchesTable /\ Sync!GameMatchesUndisturbed /\ Sync!TypeOK)
<1>1. SyncProofs!ConstantsAssumption
  BY DEF Sync!ConstantsAssumption, SyncProofs!ConstantsAssumption
<1>2. SyncProofs!Spec => [](SyncProofs!FileMatchesTable /\ SyncProofs!GameMatchesUndisturbed /\ SyncProofs!TypeOK)
  BY <1>1, SyncProofs!FileFollowsTable, SyncProofs!GameFollowsTable, SyncProofs!TypeCorrect, PTL
<1>3. SyncProofs!FileMatchesTable => Sync!FileMatchesTable
  BY DEF SyncProofs!FileMatchesTable, Sync!FileMatchesTable
<1>4. SyncProofs!GameMatchesUndisturbed => Sync!GameMatchesUndisturbed
  BY DEF SyncProofs!GameMatchesUndisturbed, Sync!GameMatchesUndisturbed, SyncProofs!Busy, Sync!Busy
<1>5. SyncProofs!TypeOK => Sync!TypeOK
  BY DEF SyncProofs!TypeOK, Sync!TypeOK, SyncProofs!Job, Sync!Job
<1> QED BY <1>2, <1>3, <1>4, <1>5, SameSpec, PTL

-----------------------------------------------------------------------------
(* README.md:89: with launchers alone calling and no thread slower than    *)
(* the grace period, whom the game server lets in has a lease or is being  *)
(* taken off: the way there adds nobody, whatever commands and rewrites    *)
(* overlap or fail.                                                        *)
THEOREM GameFollowsLeases ==
    ASSUME Sync!ConstantsAssumption, LaunchersOnly
    PROVE  GameSpec => [](FileHasLeases /\ GameHasLeases)
<1>1. WhitelistedHasLease /\ Sync!FileMatchesTable => FileHasLeases
  <2> SUFFICES ASSUME WhitelistedHasLease, Sync!FileMatchesTable, mode = "file", ~missed, Settled, NEW p \in file
               PROVE  ActiveOf(p) # {} \/ LeavingSoon(p)
    BY DEF FileHasLeases
  <2>1. file = whitelist
    BY DEF Sync!FileMatchesTable, Settled, Syncing
  <2> QED BY <2>1 DEF WhitelistedHasLease
<1>2. WhitelistedHasLease /\ Sync!GameMatchesUndisturbed /\ Sync!TypeOK => GameHasLeases
  <2> SUFFICES ASSUME WhitelistedHasLease, Sync!GameMatchesUndisturbed, Sync!TypeOK, mode = "rcon",
                      NEW p \in game \ unsure, Sync!Busy(p) = {}
               PROVE  ActiveOf(p) # {} \/ LeavingSoon(p)
    BY DEF GameHasLeases
  <2>1. p \in whitelist
    BY DEF Sync!GameMatchesUndisturbed, Sync!TypeOK
  <2> QED BY <2>1 DEF WhitelistedHasLease
<1> QED BY <1>1, <1>2, BothTogether, WhitelistFollowsLeases, SyncFacts, PTL

(* README.md:90: when every lease is over and every call has returned, the *)
(* game server lets nobody in, but for a change that did not reach it.     *)
Closed ==
    (\A t \in Thread : job[t].pc = "idle") /\ (\A s \in Sid : ~IsActive(s)) /\ Settled =>
        /\ mode = "file" /\ ~missed => file = {}
        /\ mode = "rcon" => game \subseteq unsure

THEOREM GameIsClosed ==
    ASSUME Sync!ConstantsAssumption, LaunchersOnly
    PROVE  GameSpec => []Closed
<1>1. NobodyIsLeft /\ Sync!FileMatchesTable /\ Sync!GameMatchesUndisturbed /\ Sync!TypeOK => Closed
  <2> SUFFICES ASSUME NobodyIsLeft, Sync!FileMatchesTable, Sync!GameMatchesUndisturbed, Sync!TypeOK, Settled,
                      \A t \in Thread : job[t].pc = "idle", \A s \in Sid : ~IsActive(s)
               PROVE  /\ mode = "file" /\ ~missed => file = {}
                      /\ mode = "rcon" => game \subseteq unsure
    BY DEF Closed
  <2>1. whitelist = {}
    BY DEF NobodyIsLeft
  <2>2. \A p : Sync!Busy(p) = {}
    BY DEF Sync!Busy, Settled, Syncing
  <2> QED BY <2>1, <2>2 DEF Sync!FileMatchesTable, Sync!GameMatchesUndisturbed, Sync!TypeOK, Settled, Syncing
<1> QED BY <1>1, BothTogether, NobodyIsForgotten, SyncFacts, PTL
=============================================================================
