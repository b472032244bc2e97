------------------------ MODULE WhitelistSyncProofs ------------------------
(***************************************************************************)
(* Proofs about WhitelistSync, for every set of players and threads and    *)
(* any number of changes and failures.                                     *)
(***************************************************************************)
EXTENDS WhitelistSync, TLAPS

(* All that Next can do, one disjunct per action. *)
LEMMA NextCases ==
    ASSUME Next
    PROVE  \/ \E t \in Thread, p \in Player, add \in BOOLEAN : Change(t, p, add)
           \/ \E t \in Thread : \/ Send(t) \/ Lock(t) \/ Open(t) \/ List(t) \/ Write(t)
                                \/ Replace(t) \/ RaiseRcon(t) \/ RaiseFile(t)
           \/ Crash
           \/ GameRestart
           \/ UNCHANGED vars
BY DEF Next, Step, Quiet, Grant, Revoke

-----------------------------------------------------------------------------
(* Typing.  A thread in a call has a player in hand. *)

JobOK == \A t \in Thread : job[t].pc # "idle" => job[t].player \in Player

Basic == TypeOK /\ JobOK

(* What the local steps of a thread leave in job. *)
LEMMA IdleType == Idle \in Job
BY ConstantsAssumption DEF Idle, Job

LEMMA GotoType ==
    ASSUME job \in [Thread -> Job], JobOK, NEW t \in Thread, job[t].pc # "idle",
           NEW pc \in {"open", "list", "write", "replace"}, Goto(t, pc)
    PROVE  job' \in [Thread -> Job] /\ JobOK'
BY DEF Goto, Job, JobOK

LEMMA ReturnType ==
    ASSUME job \in [Thread -> Job], JobOK, NEW t \in Thread, Return(t)
    PROVE  job' \in [Thread -> Job] /\ JobOK'
<1>1. job' \in [Thread -> Job]
  BY IdleType DEF Return
<1>2. JobOK'
  BY DEF Return, JobOK, Idle
<1> QED BY <1>1, <1>2

LEMMA BasicInit == ASSUME Init PROVE Basic
<1>1. job \in [Thread -> Job] /\ JobOK
  BY IdleType DEF Init, JobOK, Idle
<1>2. mode \in Modes /\ changes \in 0 .. MaxChanges /\ fileAt \in 0 .. MaxChanges
      /\ mishaps \in 0 .. MaxMishaps
  BY ConstantsAssumption DEF Init
<1> QED BY <1>1, <1>2 DEF Init, Basic, TypeOK

LEMMA BasicStep == ASSUME Basic, [Next]_vars PROVE Basic'
<1> USE ConstantsAssumption DEF Basic, TypeOK, gameSide, fileSide
<1>1. ASSUME NEW t \in Thread, NEW p \in Player, NEW add \in BOOLEAN, Change(t, p, add)
      PROVE  Basic'
  <2>1. [Idle EXCEPT !.pc = "apply", !.player = p, !.add = add] \in Job
    BY IdleType DEF Job, Idle
  <2>2. job' \in [Thread -> Job]
    BY <1>1, <2>1 DEF Change
  <2>3. JobOK'
    BY <1>1 DEF Change, JobOK, Idle
  <2>4. table' \subseteq Player /\ unsure' \subseteq Player /\ changes' \in 0 .. MaxChanges
    BY <1>1 DEF Change
  <2>5. UNCHANGED <<mode, game, temp, file, holder, fileAt, missed, mishaps>>
    BY <1>1 DEF Change
  <2> QED BY <2>2, <2>3, <2>4, <2>5
<1>2. ASSUME NEW t \in Thread, Send(t) PROVE Basic'
  <2>1. job' \in [Thread -> Job] /\ JobOK'
    BY <1>2, ReturnType DEF Send
  <2>2. game' \subseteq Player
    BY <1>2 DEF Send, Applied, JobOK
  <2> QED BY <1>2, <2>1, <2>2 DEF Send
<1>3. ASSUME NEW t \in Thread, Lock(t) PROVE Basic'
  BY <1>3, GotoType DEF Lock
<1>4. ASSUME NEW t \in Thread, Open(t) PROVE Basic'
  BY <1>4, GotoType DEF Open
<1>5. ASSUME NEW t \in Thread, List(t) PROVE Basic'
  <2> DEFINE new == [job[t] EXCEPT !.pc = "write", !.rows = table, !.at = changes]
  <2>a. job[t] \in Job /\ table \in SUBSET Player
    OBVIOUS
  <2>b. new \in Job
    BY <2>a DEF Job
  <2>c. job' = [job EXCEPT ![t] = new]
    BY <1>5 DEF List
  <2> HIDE DEF new
  <2>1. job' \in [Thread -> Job]
    BY <2>b, <2>c
  <2>2. JobOK'
    BY <1>5 DEF List, JobOK, Job
  <2> QED BY <1>5, <2>1, <2>2 DEF List
<1>6. ASSUME NEW t \in Thread, Write(t) PROVE Basic'
  <2>1. job[t].rows \subseteq Player
    BY DEF Job
  <2> QED BY <1>6, <2>1, GotoType DEF Write
<1>7. ASSUME NEW t \in Thread, Replace(t) PROVE Basic'
  <2>1. job[t].at \in 0 .. MaxChanges
    BY DEF Job
  <2> QED BY <1>7, <2>1, ReturnType DEF Replace
<1>8. ASSUME NEW t \in Thread, RaiseRcon(t) PROVE Basic'
  <2>1. job' \in [Thread -> Job] /\ JobOK'
    BY <1>8, ReturnType DEF RaiseRcon
  <2>2. game' \subseteq Player /\ unsure' \subseteq Player
    BY <1>8 DEF RaiseRcon, Applied, JobOK
  <2> QED BY <1>8, <2>1, <2>2 DEF RaiseRcon
<1>9. ASSUME NEW t \in Thread, RaiseFile(t) PROVE Basic'
  BY <1>9, ReturnType DEF RaiseFile
<1>10. CASE Crash
  <2>1. job' \in [Thread -> Job] /\ JobOK'
    BY <1>10, IdleType DEF Crash, JobOK, Idle
  <2> QED BY <1>10, <2>1 DEF Crash
<1>11. CASE GameRestart
  BY <1>11 DEF GameRestart, JobOK
<1>12. CASE UNCHANGED vars
  BY <1>12 DEF vars, JobOK
<1> QED BY <1>1, <1>2, <1>3, <1>4, <1>5, <1>6, <1>7, <1>8, <1>9, <1>10, <1>11, <1>12, NextCases

LEMMA BasicAlways == Spec => []Basic
<1>1. Init => Basic
  BY BasicInit
<1>2. Basic /\ [Next]_vars => Basic'
  BY BasicStep
<1> QED BY <1>1, <1>2, PTL DEF Spec

(* Every variable of WhitelistSync keeps its type. *)
THEOREM TypeCorrect == Spec => []TypeOK
<1>1. Basic => TypeOK
  BY DEF Basic
<1> QED BY <1>1, BasicAlways, PTL

-----------------------------------------------------------------------------
(* File mode. *)

(* The thread between open and os.replace holds the lock, and the .tmp     *)
(* file it is about to move into place is what it listed.                  *)
Locked ==
    \A t \in Thread :
        /\ InFile(t) => holder = t
        /\ job[t].pc = "replace" => temp = job[t].rows

(* What is listed is at least as new as what the file was listed from.     *)
InOrder ==
    /\ fileAt <= changes
    /\ \A t \in Thread : job[t].pc \in {"write", "replace"} => fileAt <= job[t].at /\ job[t].at <= changes

(* A thread that listed a table which has changed since is followed by the *)
(* thread that changed it: that one still waits for the lock.              *)
Followed ==
    mode = "file" =>
        \A t \in Thread :
            job[t].pc \in {"write", "replace"} =>
                job[t].rows = table \/ \E u \in Thread : job[u].pc = "apply"

FileInv == Locked /\ InOrder /\ Followed /\ NeverTorn /\ FileMatchesTable

LEMMA FileInit == ASSUME Init PROVE FileInv
BY ConstantsAssumption DEF Init, FileInv, Locked, InOrder, Followed, NeverTorn, FileMatchesTable, Idle, InFile

LEMMA FileStep ==
    ASSUME Basic, FileInv, [Next]_vars
    PROVE  FileInv' /\ fileAt' >= fileAt
<1> USE ConstantsAssumption DEF Basic, TypeOK, FileInv, gameSide, fileSide
<1>0. \A t \in Thread : job[t] \in Job
  OBVIOUS
<1>1. ASSUME NEW t \in Thread, NEW p \in Player, NEW add \in BOOLEAN, Change(t, p, add)
      PROVE  FileInv' /\ fileAt' >= fileAt
  <2>1. job'[t].pc = "apply" /\ \A u \in Thread : u # t => job'[u] = job[u]
    BY <1>1 DEF Change, Idle
  <2>2. changes' = changes + 1 /\ UNCHANGED <<mode, temp, file, holder, fileAt>>
    BY <1>1 DEF Change
  <2>3. Locked'
    BY <2>1, <2>2 DEF Locked, InFile
  <2>4. InOrder'
    BY <2>1, <2>2, <1>0 DEF InOrder, Job
  <2>5. Followed' /\ FileMatchesTable' /\ NeverTorn'
    BY <2>1, <2>2 DEF Followed, FileMatchesTable, NeverTorn
  <2> QED BY <2>2, <2>3, <2>4, <2>5
<1>2. ASSUME NEW t \in Thread, Send(t) PROVE FileInv' /\ fileAt' >= fileAt
  <2>1. mode = "rcon" /\ job[t].pc = "apply" /\ job'[t].pc = "idle"
        /\ \A u \in Thread : u # t => job'[u] = job[u]
    BY <1>2 DEF Send, Return, Idle
  <2>2. UNCHANGED <<table, changes, mode, temp, file, holder, fileAt, missed>>
    BY <1>2 DEF Send
  <2> QED BY <2>1, <2>2 DEF Locked, InFile, InOrder, Followed, FileMatchesTable, NeverTorn
<1>3. ASSUME NEW t \in Thread, Lock(t) PROVE FileInv' /\ fileAt' >= fileAt
  <2>1. job[t].pc = "apply" /\ job'[t].pc = "open" /\ \A u \in Thread : u # t => job'[u] = job[u]
    BY <1>3 DEF Lock, Goto, Job
  <2>2. holder = "free" /\ holder' = t /\ UNCHANGED <<table, changes, mode, temp, file, fileAt, missed>>
    BY <1>3 DEF Lock
  <2>3. \A u \in Thread : ~InFile(u)
    BY <2>2 DEF Locked
  <2> QED BY <2>1, <2>2, <2>3 DEF Locked, InFile, InOrder, Followed, FileMatchesTable, NeverTorn
<1>4. ASSUME NEW t \in Thread, Open(t) PROVE FileInv' /\ fileAt' >= fileAt
  <2>1. job[t].pc = "open" /\ job'[t].pc = "list" /\ \A u \in Thread : u # t => job'[u] = job[u]
    BY <1>4 DEF Open, Goto, Job
  <2>2. UNCHANGED <<table, changes, mode, file, holder, fileAt, missed>>
    BY <1>4 DEF Open
  <2>3. \A u \in Thread : u # t => ~InFile(u)
    BY <2>1 DEF Locked, InFile
  <2> QED BY <2>1, <2>2, <2>3 DEF Locked, InFile, InOrder, Followed, FileMatchesTable, NeverTorn
<1>5. ASSUME NEW t \in Thread, List(t) PROVE FileInv' /\ fileAt' >= fileAt
  <2>1. job[t].pc = "list" /\ job'[t].pc = "write" /\ \A u \in Thread : u # t => job'[u] = job[u]
    BY <1>5 DEF List, Job
  <2>2. job'[t].rows = table /\ job'[t].at = changes
    BY <1>5, <1>0 DEF List, Job
  <2>3. UNCHANGED <<table, changes, mode, temp, file, holder, fileAt, missed>>
    BY <1>5 DEF List
  <2>4. \A u \in Thread : u # t => ~InFile(u)
    BY <2>1 DEF Locked, InFile
  <2> QED BY <2>1, <2>2, <2>3, <2>4 DEF Locked, InFile, InOrder, Followed, FileMatchesTable, NeverTorn
<1>6. ASSUME NEW t \in Thread, Write(t) PROVE FileInv' /\ fileAt' >= fileAt
  <2>1. /\ job[t].pc = "write" /\ job'[t].pc = "replace"
        /\ job'[t].rows = job[t].rows /\ job'[t].at = job[t].at
        /\ \A u \in Thread : u # t => job'[u] = job[u]
    BY <1>6, <1>0 DEF Write, Goto, Job
  <2>2. temp' = job[t].rows /\ UNCHANGED <<table, changes, mode, file, holder, fileAt, missed>>
    BY <1>6 DEF Write
  <2>3. \A u \in Thread : u # t => ~InFile(u)
    BY <2>1 DEF Locked, InFile
  <2>4. Locked' /\ InOrder' /\ NeverTorn'
    BY <2>1, <2>2, <2>3 DEF Locked, InFile, InOrder, NeverTorn
  <2>5. Followed' /\ FileMatchesTable'
    BY <2>1, <2>2, <2>3 DEF Followed, FileMatchesTable, InFile
  <2> QED BY <2>2, <2>4, <2>5
<1>7. ASSUME NEW t \in Thread, Replace(t) PROVE FileInv' /\ fileAt' >= fileAt
  <2>1. job[t].pc = "replace" /\ job'[t].pc = "idle" /\ \A u \in Thread : u # t => job'[u] = job[u]
    BY <1>7 DEF Replace, Return, Idle
  <2>2. /\ file' = job[t].rows /\ fileAt' = job[t].at
        /\ UNCHANGED <<table, changes, mode, temp>>
    BY <1>7, <2>1 DEF Replace, Locked
  <2>3. \A u \in Thread : u # t => ~InFile(u)
    BY <2>1 DEF Locked, InFile
  <2>4. Locked' /\ InOrder' /\ Followed' /\ fileAt' >= fileAt
    BY <2>1, <2>2, <2>3, <1>0 DEF Locked, InFile, InOrder, Followed, Job
  <2>5. NeverTorn'
    BY <2>2, <1>0 DEF NeverTorn, Job
  <2>6. FileMatchesTable'
    BY <2>1, <2>2 DEF Followed, FileMatchesTable
  <2> QED BY <2>4, <2>5, <2>6
<1>8. ASSUME NEW t \in Thread, RaiseRcon(t) PROVE FileInv' /\ fileAt' >= fileAt
  <2>1. mode = "rcon" /\ job[t].pc = "apply" /\ job'[t].pc = "idle"
        /\ \A u \in Thread : u # t => job'[u] = job[u]
    BY <1>8 DEF RaiseRcon, Return, Idle
  <2>2. UNCHANGED <<table, changes, mode, temp, file, holder, fileAt, missed>>
    BY <1>8 DEF RaiseRcon
  <2> QED BY <2>1, <2>2 DEF Locked, InFile, InOrder, Followed, FileMatchesTable, NeverTorn
<1>9. ASSUME NEW t \in Thread, RaiseFile(t) PROVE FileInv' /\ fileAt' >= fileAt
  <2>1. InFile(t) /\ job'[t].pc = "idle" /\ \A u \in Thread : u # t => job'[u] = job[u]
    BY <1>9 DEF RaiseFile, Return, Idle
  <2>2. missed' = TRUE /\ UNCHANGED <<table, changes, mode, temp, file, fileAt>>
    BY <1>9 DEF RaiseFile
  <2>3. \A u \in Thread : u # t => ~InFile(u)
    BY <2>1 DEF Locked
  <2> QED BY <2>1, <2>2, <2>3 DEF Locked, InFile, InOrder, Followed, FileMatchesTable, NeverTorn
<1>10. CASE Crash
  <2>1. \A u \in Thread : job'[u].pc = "idle"
    BY <1>10 DEF Crash, Idle
  <2>2. missed' = TRUE /\ UNCHANGED <<table, changes, mode, temp, file, fileAt>>
    BY <1>10 DEF Crash
  <2> QED BY <2>1, <2>2 DEF Locked, InFile, InOrder, Followed, FileMatchesTable, NeverTorn
<1>11. CASE GameRestart
  <2>1. UNCHANGED <<table, changes, mode, temp, file, holder, fileAt, missed, job>>
    BY <1>11 DEF GameRestart
  <2> QED BY <2>1 DEF Locked, InFile, InOrder, Followed, FileMatchesTable, NeverTorn
<1>12. CASE UNCHANGED vars
  BY <1>12 DEF vars, Locked, InFile, InOrder, Followed, FileMatchesTable, NeverTorn
<1> QED BY <1>1, <1>2, <1>3, <1>4, <1>5, <1>6, <1>7, <1>8, <1>9, <1>10, <1>11, <1>12, NextCases

LEMMA FileAlways == Spec => []FileInv /\ [][fileAt' >= fileAt]_vars
<1>1. Init => FileInv
  BY FileInit
<1>2. Basic /\ FileInv /\ [Next]_vars => FileInv' /\ [fileAt' >= fileAt]_vars
  BY FileStep
<1> QED BY <1>1, <1>2, BasicAlways, PTL DEF Spec

(* whitelist.py:81: whatever fails and however rewrites overlap, the game  *)
(* server never reads a half-written file.                                 *)
THEOREM FileNeverTorn == Spec => []NeverTorn
<1>1. FileInv => NeverTorn
  BY DEF FileInv
<1> QED BY <1>1, FileAlways, PTL

(* whitelist.py:78: when no call is in progress and the last rewrite did   *)
(* not fail, the file is the table; so overlapping rewrites lose nothing.  *)
THEOREM FileFollowsTable == Spec => []FileMatchesTable
<1>1. FileInv => FileMatchesTable
  BY DEF FileInv
<1> QED BY <1>1, FileAlways, PTL

(* whitelist.py:78: no rewrite puts an older table back over a newer one.  *)
THEOREM FileNeverGoesBack == Spec => FileGoesForward
BY FileAlways DEF FileGoesForward

-----------------------------------------------------------------------------
(* Rcon mode. *)

(* A player whose last call ran alone has one call in progress at most,    *)
(* and its command brings the game server's entry to the table's.          *)
GameInv ==
    mode = "rcon" =>
        /\ \A t \in Thread : job[t].pc \in {"idle", "apply"}
        /\ \A p \in Player \ unsure :
             /\ \A t, u \in Busy(p) : t = u
             /\ \A t \in Busy(p) : job[t].add <=> p \in table
             /\ Busy(p) = {} => (p \in game <=> p \in table)

LEMMA GameInit == ASSUME Init PROVE GameInv
BY DEF Init, GameInv, Busy, Idle

(* A thread that returns leaves the calls of the others as they are.       *)
LEMMA BusyAfterReturn ==
    ASSUME job \in [Thread -> Job], NEW t \in Thread, Return(t), NEW p
    PROVE  Busy(p)' = Busy(p) \ {t}
BY DEF Return, Busy, Idle

LEMMA GameStep == ASSUME Basic, GameInv, [Next]_vars PROVE GameInv'
<1> USE ConstantsAssumption DEF Basic, TypeOK, gameSide, fileSide
<1>0. SUFFICES ASSUME mode = "rcon", mode' = mode PROVE GameInv'
  <2>1. mode' = mode
    BY NextCases DEF Change, Send, Lock, Open, List, Write, Replace, RaiseRcon, RaiseFile, Crash,
                     GameRestart, vars
  <2> QED BY <2>1 DEF GameInv
<1>a. \A t \in Thread : job[t] \in Job /\ job[t].pc \in {"idle", "apply"}
  BY <1>0 DEF GameInv
<1>1. ASSUME NEW t \in Thread, NEW p \in Player, NEW add \in BOOLEAN, Change(t, p, add)
      PROVE  GameInv'
  <2>1. /\ job[t].pc = "idle"
        /\ job'[t].pc = "apply" /\ job'[t].player = p /\ job'[t].add = add
        /\ \A u \in Thread : u # t => job'[u] = job[u]
    BY <1>1 DEF Change, Idle
  <2>2. /\ table' = IF add THEN table \cup {p} ELSE table \ {p}
        /\ unsure' = IF Busy(p) = {} THEN unsure \ {p} ELSE unsure \cup {p}
        /\ game' = game
    BY <1>1 DEF Change
  <2>3. Busy(p)' = Busy(p) \cup {t} /\ \A q \in Player : q # p => Busy(q)' = Busy(q)
    BY <2>1 DEF Busy
  <2>4. \A u \in Thread : job'[u].pc \in {"idle", "apply"}
    BY <2>1, <1>a
  <2>5. ASSUME NEW q \in Player \ unsure'
        PROVE  /\ \A u, v \in Busy(q)' : u = v
               /\ \A u \in Busy(q)' : job'[u].add <=> q \in table'
               /\ Busy(q)' = {} => (q \in game' <=> q \in table')
    <3>1. CASE q = p
      <4>1. Busy(p) = {}
        BY <3>1, <2>2, <2>5
      <4> QED BY <3>1, <4>1, <2>1, <2>2, <2>3
    <3>2. CASE q # p
      <4>1. q \in Player \ unsure /\ Busy(q)' = Busy(q) /\ (q \in table' <=> q \in table)
        BY <3>2, <2>2, <2>3, <2>5
      <4>2. \A u \in Busy(q) : job'[u] = job[u]
        BY <2>1, <3>2 DEF Busy
      <4> QED BY <4>1, <4>2, <2>2, <1>0 DEF GameInv
    <3> QED BY <3>1, <3>2
  <2> QED BY <2>4, <2>5 DEF GameInv
<1>2. ASSUME NEW t \in Thread, Send(t) PROVE GameInv'
  <2>1. job[t].pc = "apply" /\ Return(t) /\ game' = Applied(t) /\ UNCHANGED <<table, unsure>>
    BY <1>2 DEF Send
  <2>2. \A q \in Player : Busy(q)' = Busy(q) \ {t}
    BY <2>1, BusyAfterReturn
  <2>3. \A u \in Thread : job'[u].pc \in {"idle", "apply"} /\ (u # t => job'[u] = job[u])
    BY <2>1, <1>a DEF Return, Idle
  <2>4. ASSUME NEW q \in Player \ unsure
        PROVE  /\ \A u, v \in Busy(q)' : u = v
               /\ \A u \in Busy(q)' : job'[u].add <=> q \in table'
               /\ Busy(q)' = {} => (q \in game' <=> q \in table')
    <3>1. /\ \A u, v \in Busy(q) : u = v
          /\ \A u \in Busy(q) : job[u].add <=> q \in table
          /\ Busy(q) = {} => (q \in game <=> q \in table)
      BY <1>0 DEF GameInv
    <3>2. CASE job[t].player = q
      <4>1. t \in Busy(q) /\ (q \in game' <=> job[t].add)
        BY <2>1, <3>2 DEF Busy, Applied
      <4> QED BY <3>1, <4>1, <2>1, <2>2
    <3>3. CASE job[t].player # q
      <4>1. Busy(q)' = Busy(q) /\ (q \in game' <=> q \in game)
        BY <2>1, <2>2, <3>3 DEF Busy, Applied
      <4>2. \A u \in Busy(q) : job'[u] = job[u]
        BY <2>3, <3>3 DEF Busy
      <4> QED BY <3>1, <4>1, <4>2, <2>1
    <3> QED BY <3>2, <3>3
  <2> QED BY <2>1, <2>3, <2>4 DEF GameInv
<1>3. ASSUME NEW t \in Thread, \/ Lock(t) \/ Open(t) \/ List(t) \/ Write(t) \/ Replace(t) \/ RaiseFile(t)
      PROVE  FALSE
  BY <1>3, <1>0, <1>a DEF Lock, Open, List, Write, Replace, RaiseFile, InFile
<1>4. ASSUME NEW t \in Thread, RaiseRcon(t) PROVE GameInv'
  <2>1. /\ Return(t) /\ game' \in {game, Applied(t)} /\ table' = table
        /\ unsure' = unsure \cup {job[t].player}
    BY <1>4 DEF RaiseRcon
  <2>2. \A q \in Player : Busy(q)' = Busy(q) \ {t}
    BY <2>1, BusyAfterReturn
  <2>3. \A u \in Thread : job'[u].pc \in {"idle", "apply"} /\ (u # t => job'[u] = job[u])
    BY <2>1, <1>a DEF Return, Idle
  <2>4. ASSUME NEW q \in Player \ unsure'
        PROVE  /\ \A u, v \in Busy(q)' : u = v
               /\ \A u \in Busy(q)' : job'[u].add <=> q \in table'
               /\ Busy(q)' = {} => (q \in game' <=> q \in table')
    <3>1. q \in Player \ unsure /\ job[t].player # q
      BY <2>1, <2>4
    <3>2. Busy(q)' = Busy(q) /\ (q \in game' <=> q \in game)
      BY <2>1, <2>2, <3>1 DEF Busy, Applied
    <3>3. \A u \in Busy(q) : job'[u] = job[u]
      BY <2>3, <3>1 DEF Busy
    <3> QED BY <3>1, <3>2, <3>3, <2>1, <1>0 DEF GameInv
  <2> QED BY <2>3, <2>4 DEF GameInv
<1>5. CASE Crash
  <2>1. /\ \A u \in Thread : job'[u].pc = "idle"
        /\ unsure' = unsure \cup {p \in Player : Busy(p) # {}}
        /\ UNCHANGED <<table, game>>
    BY <1>5 DEF Crash, Idle
  <2>2. \A q \in Player : Busy(q)' = {}
    BY <2>1 DEF Busy
  <2> QED BY <2>1, <2>2, <1>0 DEF GameInv
<1>6. CASE GameRestart
  <2>1. unsure' = Player /\ job' = job
    BY <1>6 DEF GameRestart
  <2> QED BY <2>1, <1>a DEF GameInv
<1>7. CASE UNCHANGED vars
  BY <1>7 DEF vars, GameInv, Busy
<1> QED BY <1>1, <1>2, <1>3, <1>4, <1>5, <1>6, <1>7, NextCases

(* In rcon mode the game server agrees with the table on every player      *)
(* whose last call ran alone and was not lost.                             *)
THEOREM GameFollowsTable == Spec => []GameMatchesUndisturbed
<1>1. Init => GameInv
  BY GameInit
<1>2. Basic /\ GameInv /\ [Next]_vars => GameInv'
  BY GameStep
<1>3. GameInv => GameMatchesUndisturbed
  BY DEF GameInv, GameMatchesUndisturbed
<1> QED BY <1>1, <1>2, <1>3, BasicAlways, PTL DEF Spec

-----------------------------------------------------------------------------
(* Nobody waits for ever. *)

(* The lock is free, or with a thread that is in the rewrite. *)
LockInUse == \/ holder = "free" /\ \A t \in Thread : ~InFile(t)
             \/ holder \in Thread /\ InFile(holder) /\ \A t \in Thread : InFile(t) => t = holder

(* whitelist.py:79: as long as a call is in progress some thread can take  *)
(* its next step; whatever rewrites failed, none waits for a lock that     *)
(* nobody will release.  (That they all return in the end is CallsReturn.) *)
SomeoneGoesOn ==
    (\E t \in Thread : job[t].pc # "idle") =>
        \E t \in Thread : InFile(t) \/ (job[t].pc = "apply" /\ (mode = "file" => holder = "free"))

LEMMA LockInit == ASSUME Init PROVE LockInUse
BY DEF Init, LockInUse, InFile, Idle

LEMMA LockStep == ASSUME Basic, LockInUse, [Next]_vars PROVE LockInUse'
<1> USE ConstantsAssumption DEF Basic, TypeOK, gameSide, fileSide
<1>0. \A t \in Thread : job[t] \in Job
  OBVIOUS
<1>1. ASSUME UNCHANGED holder, \A t \in Thread : InFile(t)' <=> InFile(t) PROVE LockInUse'
  BY <1>1 DEF LockInUse
<1>2. ASSUME NEW t \in Thread, NEW p \in Player, NEW add \in BOOLEAN, Change(t, p, add) PROVE LockInUse'
  BY <1>1, <1>2 DEF Change, InFile, Idle
<1>3. ASSUME NEW t \in Thread, Send(t) \/ RaiseRcon(t) PROVE LockInUse'
  BY <1>1, <1>3 DEF Send, RaiseRcon, Return, InFile, Idle
<1>4. ASSUME NEW t \in Thread, Lock(t) PROVE LockInUse'
  <2>1. job'[t].pc = "open" /\ holder = "free" /\ holder' = t /\ \A u \in Thread \ {t} : job'[u] = job[u]
    BY <1>4 DEF Lock, Goto, Job
  <2> QED BY <2>1 DEF LockInUse, InFile
<1>5. ASSUME NEW t \in Thread, Open(t) \/ List(t) \/ Write(t) PROVE LockInUse'
  <2>1. InFile(t) /\ InFile(t)' /\ \A u \in Thread \ {t} : job'[u] = job[u]
    BY <1>0, <1>5 DEF Open, List, Write, Goto, Job, InFile
  <2>2. UNCHANGED holder
    BY <1>5 DEF Open, List, Write
  <2> QED BY <1>1, <2>1, <2>2 DEF InFile
<1>6. ASSUME NEW t \in Thread, Replace(t) \/ RaiseFile(t) PROVE LockInUse'
  <2>1. InFile(t) /\ holder' = "free" /\ job'[t].pc = "idle" /\ \A u \in Thread \ {t} : job'[u] = job[u]
    BY <1>6 DEF Replace, RaiseFile, Return, Idle, InFile
  <2> QED BY <2>1 DEF LockInUse, InFile
<1>7. CASE Crash
  BY <1>7 DEF Crash, LockInUse, InFile, Idle
<1>8. CASE GameRestart \/ UNCHANGED vars
  BY <1>1, <1>8 DEF GameRestart, vars, InFile
<1> QED BY <1>2, <1>3, <1>4, <1>5, <1>6, <1>7, <1>8, NextCases

(* The safety half of CallsReturn, for any number of threads: the lock is  *)
(* always with a thread that is in the rewrite and can go on.              *)
THEOREM NobodyIsStuck == Spec => []SomeoneGoesOn
<1>1. Basic /\ LockInUse => SomeoneGoesOn
  BY DEF LockInUse, SomeoneGoesOn, InFile, Basic, TypeOK, Job
<1>2. Init => LockInUse
  BY LockInit
<1>3. Basic /\ LockInUse /\ [Next]_vars => LockInUse'
  BY LockStep
<1> QED BY <1>1, <1>2, <1>3, BasicAlways, PTL DEF Spec
=============================================================================
