---------------------------- MODULE GameWhitelist ----------------------------
(***************************************************************************)
(* Leases and WhitelistSync together: the threads that grant and end       *)
(* leases carry their changes of the whitelist to the game server          *)
(* themselves, before they go on.  What they share is the whitelist table. *)
(***************************************************************************)
EXTENDS Leases

CONSTANTS
    Torn, Modes, MaxChanges, MaxMishaps  \* as in WhitelistSync

VARIABLES
    mode, changes, game, temp, file, holder, fileAt, missed, unsure, mishaps,  \* as in WhitelistSync
    sync  \* what each thread is doing in grant or revoke

Sync == INSTANCE WhitelistSync WITH table <- whitelist, job <- sync

leaseSide == <<clock, lease, banned, banTime, told, heard, job>>
syncSide == <<mode, changes, game, temp, file, holder, fileAt, missed, unsure, mishaps, sync>>
gameVars == <<leaseSide, syncSide, whitelist>>

GameInit == Init /\ Sync!Init

Syncing(t) == sync[t].pc # "idle"

(* The next step of the thread is a call of whitelist.grant or revoke:     *)
(* Grant, DropRemove, BanDrop.                                             *)
AtWhitelist(t) ==
    \/ job[t].pc \in {"grant", "drop"}
    \/ job[t].call = "ban" /\ job[t].pc = "end" /\ job[t].todo = {}

(* A step of a call that has nothing to do with the whitelist. *)
Other(t) ==
    /\ ~Syncing(t)
    /\ \/ t \in Worker /\ Call(t)
       \/ ~AtWhitelist(t) /\ Continue(t)
       \/ Abort(t)
       \/ t = Sweeper /\ BeginSweep
    /\ UNCHANGED syncSide

GrantCall(t) == Grant(t) /\ Sync!Grant(t, job[t].player)

RevokeCall(t) == (DropRemove(t) \/ BanDrop(t)) /\ Sync!Revoke(t, job[t].player)

(* grant and revoke go on; errors are caught there. *)
Apply(t) == (Sync!Step(t) \/ Sync!RaiseRcon(t) \/ Sync!RaiseFile(t)) /\ UNCHANGED leaseSide

(* The process dies.  What the calls lose beyond that is Abort's part,     *)
(* thread by thread.                                                       *)
CrashSync == "abort" \in Calls /\ Sync!Crash /\ UNCHANGED leaseSide

GameNext ==
    \/ \E t \in Thread : Other(t) \/ GrantCall(t) \/ RevokeCall(t) \/ Apply(t)
    \/ CrashSync
    \/ Sync!GameRestart /\ UNCHANGED leaseSide
    \/ (Tick \/ Quiet) /\ UNCHANGED syncSide

GameSpec == GameInit /\ [][GameNext]_gameVars

-----------------------------------------------------------------------------
(* Properties *)

Settled == \A t \in Thread : ~Syncing(t)

(* README.md:89: who is in the file that the game server reads has a lease *)
(* or is being taken off, once no rewrite is in progress and unless the    *)
(* last one failed.                                                        *)
FileHasLeases ==
    mode = "file" /\ ~missed /\ Settled => \A p \in file : ActiveOf(p) # {} \/ LeavingSoon(p)

(* In rcon mode the same of everybody whom the game server lets in, once   *)
(* no command for them is on its way and unless the last one was lost,     *)
(* overtaken or forgotten in a restart of the game server.                 *)
GameHasLeases ==
    mode = "rcon" =>
        \A p \in game \ unsure : Sync!Busy(p) = {} => ActiveOf(p) # {} \/ LeavingSoon(p)
=============================================================================
