---------------------------- MODULE WhitelistSync ----------------------------
(***************************************************************************)
(* WhitelistBridge (whitelist.py): how a change of the whitelist table     *)
(* reaches the game server.  grant and revoke change the table in one      *)
(* store call and only then apply the change: in rcon mode by a command of *)
(* their own, in file mode by rewriting the whole file under a lock.  The  *)
(* callers (Leases.tla) run in several threads, so calls overlap.          *)
(***************************************************************************)
EXTENDS Naturals, FiniteSets

CONSTANTS
    Player,     \* Steam IDs
    Thread,     \* threads that grant and drop leases
    Torn,       \* the content of a file that is being written
    Modes,      \* values of whitelist.mode to consider ("none" only logs)
    MaxChanges, \* bound: changes of the table
    MaxMishaps  \* bound: failed steps and game server restarts

ASSUME ConstantsAssumption ==
    /\ Modes \subseteq {"rcon", "file"}
    /\ MaxChanges \in Nat
    /\ MaxMishaps \in Nat
    /\ \A S \in SUBSET Player : Torn # S
    /\ "free" \notin Thread
    /\ "none" \notin Player

VARIABLES
    mode,     \* settings.whitelist.mode, read at start and never changed
    table,    \* the whitelist table
    changes,  \* number of changes of the table so far: its version
    game,     \* rcon: the whitelist in the game server's memory (external)
    temp,     \* file: the .tmp file, a set of players or Torn
    file,     \* file: what the game server reads
    holder,   \* file: the thread in _file_lock, or "free"
    job,      \* what each thread is doing
    fileAt,   \* history: the version of the table that file was listed from
    missed,   \* history: a rewrite failed and none has succeeded since
    unsure,   \* history: players whose last undisturbed command is not known
    mishaps   \* failures so far

vars == <<mode, table, changes, game, temp, file, holder, job, fileAt, missed, unsure, mishaps>>
gameSide == <<mode, game, unsure>>
fileSide == <<mode, temp, file, holder, fileAt, missed>>

Idle == [pc |-> "idle", player |-> "none", add |-> FALSE, rows |-> {}, at |-> 0]

Busy(p) == {t \in Thread : job[t].pc # "idle" /\ job[t].player = p}

Init ==
    /\ mode \in Modes
    /\ table = {}
    /\ changes = 0
    /\ game = {}
    /\ temp = {}
    /\ file = {}
    /\ holder = "free"
    /\ job = [t \in Thread |-> Idle]
    /\ fileAt = 0
    /\ missed = FALSE
    /\ unsure = {}
    /\ mishaps = 0

Goto(t, pc) == job' = [job EXCEPT ![t].pc = pc]
Return(t) == job' = [job EXCEPT ![t] = Idle]

-----------------------------------------------------------------------------
(* grant, revoke: the table first.  A call that overlaps another one for   *)
(* the same player leaves the game server's entry unsure; a call that runs *)
(* alone starts to settle it again.                                        *)
Change(t, p, add) ==
    /\ job[t].pc = "idle"
    /\ changes < MaxChanges
    /\ table' = IF add THEN table \cup {p} ELSE table \ {p}
    /\ changes' = changes + 1
    /\ unsure' = IF Busy(p) = {} THEN unsure \ {p} ELSE unsure \cup {p}
    /\ job' = [job EXCEPT ![t] = [Idle EXCEPT !.pc = "apply", !.player = p, !.add = add]]
    /\ UNCHANGED <<game, fileSide, mishaps>>

Grant(t, p) == Change(t, p, TRUE)
Revoke(t, p) == Change(t, p, FALSE)

(* Mutant: addwhitelist for grants and for revocations. *)
Applied_AlwaysAdds(t) == game \cup {job[t].player}

(* The game server's list after the thread's command. *)
Applied(t) ==
    IF job[t].add THEN game \cup {job[t].player} ELSE game \ {job[t].player}

(* _apply_rcon: addwhitelist or removewhitelist, on a connection of its own. *)
Send(t) ==
    /\ mode = "rcon"
    /\ job[t].pc = "apply"
    /\ game' = Applied(t)
    /\ Return(t)
    /\ UNCHANGED <<table, changes, unsure, fileSide, mishaps>>

-----------------------------------------------------------------------------
(* _write_file *)

(* Mutant: the table is read before the lock is taken. *)
Lock_ListsFirst(t) ==
    \/ /\ mode = "file"
       /\ job[t].pc = "apply"
       /\ job' = [job EXCEPT ![t].pc = "lock", ![t].rows = table, ![t].at = changes]
       /\ UNCHANGED <<table, changes, gameSide, fileSide, mishaps>>
    \/ /\ job[t].pc = "lock"
       /\ holder = "free"
       /\ holder' = t
       /\ Goto(t, "write")
       /\ UNCHANGED <<table, changes, gameSide, temp, file, fileAt, missed, mishaps>>

Lock(t) ==
    /\ mode = "file"
    /\ job[t].pc = "apply"
    /\ holder = "free"
    /\ holder' = t
    /\ Goto(t, "open")
    /\ UNCHANGED <<table, changes, gameSide, temp, file, fileAt, missed, mishaps>>

(* Mutant: the file itself is opened for writing, not a .tmp beside it. *)
Open_InPlace(t) ==
    /\ job[t].pc = "open"
    /\ file' = Torn
    /\ Goto(t, "list")
    /\ UNCHANGED <<table, changes, gameSide, temp, holder, fileAt, missed, mishaps>>

(* open(temp, "w") truncates what is there. *)
Open(t) ==
    /\ job[t].pc = "open"
    /\ temp' = Torn
    /\ Goto(t, "list")
    /\ UNCHANGED <<table, changes, gameSide, file, holder, fileAt, missed, mishaps>>

(* list_whitelist, read while the lock is held. *)
List(t) ==
    /\ job[t].pc = "list"
    /\ job' = [job EXCEPT ![t].pc = "write", ![t].rows = table, ![t].at = changes]
    /\ UNCHANGED <<table, changes, gameSide, fileSide, mishaps>>

Write(t) ==
    /\ job[t].pc = "write"
    /\ temp' = job[t].rows
    /\ Goto(t, "replace")
    /\ UNCHANGED <<table, changes, gameSide, file, holder, fileAt, missed, mishaps>>

(* os.replace, then the lock is released. *)
Replace(t) ==
    /\ job[t].pc = "replace"
    /\ file' = temp
    /\ fileAt' = job[t].at
    /\ missed' = FALSE
    /\ holder' = "free"
    /\ Return(t)
    /\ UNCHANGED <<table, changes, gameSide, temp, mishaps>>

-----------------------------------------------------------------------------
(* A step of _apply raises; the error is logged and nothing is retried.    *)
(* A command may have reached the game server all the same.                *)
RaiseRcon(t) ==
    /\ mode = "rcon"
    /\ job[t].pc = "apply"
    /\ mishaps < MaxMishaps
    /\ mishaps' = mishaps + 1
    /\ game' \in {game, Applied(t)}
    /\ unsure' = unsure \cup {job[t].player}
    /\ Return(t)
    /\ UNCHANGED <<table, changes, fileSide>>

InFile(t) == job[t].pc \in {"open", "list", "write", "replace"}

(* Mutant: the lock is not released when a step raises. *)
RaiseFile_KeepsLock(t) ==
    /\ InFile(t)
    /\ mishaps < MaxMishaps
    /\ mishaps' = mishaps + 1
    /\ missed' = TRUE
    /\ Return(t)
    /\ UNCHANGED <<table, changes, gameSide, temp, file, holder, fileAt>>

RaiseFile(t) ==
    /\ InFile(t)
    /\ mishaps < MaxMishaps
    /\ mishaps' = mishaps + 1
    /\ holder' = "free"
    /\ missed' = TRUE
    /\ Return(t)
    /\ UNCHANGED <<table, changes, gameSide, temp, file, fileAt>>

(* The process dies and starts again: the table, the files and the game    *)
(* server keep what they have; nothing is applied again at startup.        *)
Crash ==
    /\ \E t \in Thread : job[t].pc # "idle"
    /\ mishaps < MaxMishaps
    /\ mishaps' = mishaps + 1
    /\ holder' = "free"
    /\ missed' = TRUE
    /\ unsure' = unsure \cup {p \in Player : Busy(p) # {}}
    /\ job' = [t \in Thread |-> Idle]
    /\ UNCHANGED <<mode, table, changes, game, temp, file, fileAt>>

(* The RCON whitelist lives only in the game server's memory.              *)
GameRestart ==
    /\ mode = "rcon"
    /\ mishaps < MaxMishaps
    /\ mishaps' = mishaps + 1
    /\ game' = {}
    /\ unsure' = Player
    /\ UNCHANGED <<table, changes, fileSide, job>>

Step(t) == Send(t) \/ Lock(t) \/ Open(t) \/ List(t) \/ Write(t) \/ Replace(t)

(* All calls are done. *)
Quiet ==
    /\ \A t \in Thread : job[t].pc = "idle"
    /\ changes = MaxChanges
    /\ UNCHANGED vars

Next ==
    \/ \E t \in Thread, p \in Player : Grant(t, p) \/ Revoke(t, p)
    \/ \E t \in Thread : Step(t) \/ RaiseRcon(t) \/ RaiseFile(t)
    \/ Crash
    \/ GameRestart
    \/ Quiet

Spec == Init /\ [][Next]_vars
FairSpec == Spec /\ \A t \in Thread : WF_vars(Step(t))

-----------------------------------------------------------------------------
(* Properties *)

Job ==
    [pc : {"idle", "apply", "open", "list", "write", "replace"},
     player : Player \cup {"none"}, add : BOOLEAN, rows : SUBSET Player, at : 0 .. MaxChanges]

(* Every variable has its type. *)
TypeOK ==
    /\ mode \in Modes
    /\ table \subseteq Player
    /\ changes \in 0 .. MaxChanges
    /\ game \subseteq Player
    /\ temp = Torn \/ temp \subseteq Player
    /\ file = Torn \/ file \subseteq Player
    /\ holder \in Thread \cup {"free"}
    /\ job \in [Thread -> Job]
    /\ fileAt \in 0 .. MaxChanges
    /\ missed \in BOOLEAN
    /\ unsure \subseteq Player
    /\ mishaps \in 0 .. MaxMishaps

(* whitelist.py:81: the game server never reads a half-written file, at    *)
(* whatever step a rewrite fails or the process dies.                      *)
NeverTorn == file # Torn

(* whitelist.py:78: overlapping rewrites never put an older table back     *)
(* over a newer one.                                                       *)
FileGoesForward == [][fileAt' >= fileAt]_vars

(* Overlapping rewrites lose no change: when no call is in progress and    *)
(* the last rewrite did not fail, the file is the table.                   *)
FileMatchesTable ==
    (mode = "file" /\ ~missed /\ \A t \in Thread : job[t].pc = "idle") => file = table

(* In rcon mode the game server's list agrees with the table for every     *)
(* player whose last call ran alone and was not lost; one such call is     *)
(* enough to repair what overlaps, failures and restarts left behind.      *)
GameMatchesUndisturbed ==
    mode = "rcon" =>
        \A p \in Player \ unsure : Busy(p) = {} => (p \in game <=> p \in table)

(* Failing rewrites leave no lock behind: once no new call arrives, every  *)
(* call in progress returns.                                               *)
CallsReturn == changes = MaxChanges ~> \A t \in Thread : job[t].pc = "idle"
=============================================================================
