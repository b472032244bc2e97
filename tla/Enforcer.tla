------------------------------ MODULE Enforcer ------------------------------
(***************************************************************************)
(* The kick safety net (enforcer.py): one thread that asks the game server *)
(* who is online and kicks who has no lease, after a grace period, or who  *)
(* is banned, at once.                                                     *)
(*                                                                         *)
(* Players come and go, leases start and end and bans are made while a     *)
(* poll goes on; the poll acts on what it read before.  Player is the set  *)
(* of the players followed here: the list the game server answers with may *)
(* hold others, which is why the store can fail a poll at any visit.       *)
(*                                                                         *)
(* Every stored time is kept as its age, how long ago it was, up to Long.  *)
(***************************************************************************)
EXTENDS Integers, FiniteSets

CONSTANTS
    Player,
    ExemptLists,  \* values of options.exempt_steam_ids to consider
    Grace,        \* options.kick_grace_seconds
    Window,       \* REJOIN_WINDOW
    AlertAfter,   \* FAILURES_BEFORE_ALERT
    EmptyAfter,   \* EMPTY_REPLIES_BEFORE_WARNING
    MaxDelay,     \* bound: the longest a poll may take
    MaxMishaps    \* bound: what fails, is not answered or obeyed, and restarts

ASSUME ConstantsAssumption ==
    /\ ExemptLists \subseteq SUBSET Player
    /\ Grace \in Nat /\ Window \in Nat /\ MaxDelay \in Nat /\ MaxMishaps \in Nat
    /\ AlertAfter \in Nat \ {0} /\ EmptyAfter \in Nat \ {0}
    /\ "none" \notin Player

VARIABLES
    exempt,     \* options.exempt_steam_ids, fixed at start
    online,     \* the players in the game (external)
    active,     \* the players with an Active lease
    banned,     \* the players with a Steam ID ban
    firstSeen,  \* _first_seen
    kicked,     \* _kicked
    failures,   \* _failures
    emptyReplies, \* _empty_replies, up to one more than is compared
    told,       \* the last that admins were told on Discord about polling
    poll,       \* what the thread is doing
    mishaps,    \* counts up to MaxMishaps
    held,       \* history: who has held a lease ever since the poll's "now"
    cleared,    \* history: age of the last whole poll that found the player
                \* offline or with a lease; of the start, if there was none
    blind,      \* history: how many polls in a row failed, broke off or got
                \* no Steam ID while a lease was open, up to EmptyAfter
    logged      \* history: what the log has said since the first of them

world == <<exempt, online, active, banned>>
alarm == <<failures, told, emptyReplies, blind, logged>>
memory == <<firstSeen, kicked, alarm>>
vars == <<world, memory, poll, mishaps, held, cleared>>

Never == -1
Long == Grace + Window + MaxDelay + 1
Age == 0 .. Long

Idle == [pc |-> "idle", age |-> 0, list |-> {}, ids |-> FALSE, todo |-> {}, active |-> {},
         player |-> "none", ban |-> FALSE]

Init ==
    /\ exempt \in ExemptLists
    /\ online \in SUBSET Player
    /\ active \in SUBSET Player
    /\ banned \in SUBSET Player
    /\ firstSeen = [p \in Player |-> Never]
    /\ kicked = [p \in Player |-> Never]
    /\ failures = 0
    /\ told = "nothing"
    /\ poll = Idle
    /\ mishaps = 0
    /\ held = {}
    /\ cleared = [p \in Player |-> 0]
    /\ emptyReplies = 0
    /\ blind = 0
    /\ logged = "nothing"

-----------------------------------------------------------------------------
(* poll() *)

Alert(count) == IF count = AlertAfter THEN "stopped" ELSE told

Capped(n, cap) == IF n < cap THEN n ELSE cap

(* One more poll that fails, breaks off or sees nobody; "says" if the log  *)
(* tells of it.                                                            *)
Blindly(says) ==
    /\ blind' = Capped(blind + 1, EmptyAfter)
    /\ logged' = IF says THEN "blind" ELSE logged

Seeing == blind' = 0 /\ logged' = "nothing"

ReadFails ==
    /\ poll.pc = "idle"
    /\ mishaps < MaxMishaps
    /\ mishaps' = mishaps + 1
    /\ failures' = failures + 1
    /\ told' = Alert(failures')
    /\ Blindly(failures' \in {1, AlertAfter})
    /\ UNCHANGED <<world, firstSeen, kicked, emptyReplies, poll, held, cleared>>

(* A reply with the players in "list", among others if there is any ID in  *)
(* it; then now = clock().  Any reply is a success, the empty one too.     *)
Read(list) ==
    /\ poll.pc = "idle"
    /\ \E ids \in BOOLEAN :
         /\ list # {} => ids
         /\ poll' = [Idle EXCEPT !.pc = "leases", !.list = list, !.ids = ids]
    /\ told' = IF failures >= AlertAfter THEN "working" ELSE told
    /\ failures' = 0
    /\ held' = active
    /\ UNCHANGED <<world, firstSeen, kicked, emptyReplies, blind, logged, cleared>>

ReadList == Read(online) /\ UNCHANGED mishaps

(* The game server does not answer, or goes quiet in the middle: _drain_all *)
(* returns what there is, as if that were the whole list.                  *)
ReadPart ==
    /\ mishaps < MaxMishaps
    /\ mishaps' = mishaps + 1
    /\ \E list \in SUBSET online : list # online /\ Read(list)

(* Who left starts a new grace period. *)
Forget(seen) == [p \in Player |-> IF p \in poll.list THEN seen[p] ELSE Never]

(* Kicks are remembered for the rejoin window. *)
Recent(at) == [p \in Player |-> IF at[p] - poll.age <= Window THEN at[p] ELSE Never]

(* Mutant: one empty reply more before the log says so. *)
Warns_Late(count) == count > EmptyAfter

Warns(count) == count = EmptyAfter

(* _note_lists_without_ids, if any lease is open or none is.               *)
NoteEmpty(open) ==
    IF ~poll.ids /\ open
    THEN /\ emptyReplies' = Capped(emptyReplies + 1, EmptyAfter + 1)
         /\ Blindly(Warns(emptyReplies'))
    ELSE emptyReplies' = 0 /\ Seeing

(* list_active_sessions.  Others than those followed may have a lease.     *)
ReadLeases ==
    /\ poll.pc = "leases"
    /\ poll' = [poll EXCEPT !.pc = "visit", !.todo = poll.list, !.active = active]
    /\ \E open \in BOOLEAN : (active # {} => open) /\ NoteEmpty(open)
    /\ firstSeen' = Forget(firstSeen)
    /\ kicked' = Recent(kicked)
    /\ UNCHANGED <<world, failures, told, mishaps, held, cleared>>

(* Mutant: the player stays in hand. *)
Onwards_KeepsPlayer == [poll EXCEPT !.pc = "visit", !.todo = @ \ {poll.player}]

(* On to the next player of the list. *)
Onwards == [poll EXCEPT !.pc = "visit", !.todo = @ \ {poll.player}, !.player = "none", !.ban = FALSE]

(* Mutant: a player with a lease keeps the grace period begun before. *)
VisitLeased_KeepsSeen(p) ==
    /\ poll.pc = "visit"
    /\ p \in poll.todo \cap poll.active
    /\ poll' = [poll EXCEPT !.todo = @ \ {p}]
    /\ UNCHANGED <<world, memory, mishaps, held, cleared>>

(* A lease ends the grace period. *)
VisitLeased(p) ==
    /\ poll.pc = "visit"
    /\ p \in poll.todo \cap poll.active
    /\ firstSeen' = [firstSeen EXCEPT ![p] = Never]
    /\ poll' = [poll EXCEPT !.todo = @ \ {p}]
    /\ UNCHANGED <<world, kicked, alarm, mishaps, held, cleared>>

(* Mutant: leases are not looked at. *)
VisitBare_AnyLease(p) ==
    /\ poll.pc = "visit"
    /\ p \in poll.todo
    /\ poll' = [poll EXCEPT !.pc = "ban", !.player = p]
    /\ UNCHANGED <<world, memory, mishaps, held, cleared>>

VisitBare(p) ==
    /\ poll.pc = "visit"
    /\ p \in poll.todo \ poll.active
    /\ poll' = [poll EXCEPT !.pc = "ban", !.player = p]
    /\ UNCHANGED <<world, memory, mishaps, held, cleared>>

(* Mutant: the time first seen is set anew at every poll. *)
Seen_Restarts(p) == poll.age

(* firstSeen[p], set to now if it is not there yet. *)
Seen(p) == IF firstSeen[p] = Never THEN poll.age ELSE firstSeen[p]

InGrace(p) == kicked[p] = Never /\ Seen(p) - poll.age < Grace

(* find_active_ban, then the decision: a ban comes before the exemption,   *)
(* and the exemption before the grace period.                              *)
CheckBan ==
    LET p == poll.player IN
    /\ poll.pc = "ban"
    /\ IF p \in banned
       THEN poll' = [poll EXCEPT !.pc = "kick", !.ban = TRUE] /\ UNCHANGED firstSeen
       ELSE IF p \in exempt
       THEN poll' = Onwards /\ UNCHANGED firstSeen
       ELSE /\ firstSeen' = IF kicked[p] = Never THEN [firstSeen EXCEPT ![p] = Seen(p)] ELSE firstSeen
            /\ poll' = IF InGrace(p) THEN Onwards ELSE [poll EXCEPT !.pc = "kick"]
    /\ UNCHANGED <<world, kicked, alarm, mishaps, held, cleared>>

(* The command is out: answered or not, it counts as done.                 *)
Sent ==
    /\ poll.pc = "kick"
    /\ firstSeen' = [firstSeen EXCEPT ![poll.player] = Never]
    /\ kicked' = [kicked EXCEPT ![poll.player] = poll.age]
    /\ poll' = Onwards
    /\ UNCHANGED <<exempt, active, banned, alarm, held, cleared>>

Kick == Sent /\ online' = online \ {poll.player} /\ UNCHANGED mishaps

(* The game server does not answer and does not kick.                      *)
KickIgnored ==
    /\ Sent
    /\ mishaps < MaxMishaps
    /\ mishaps' = mishaps + 1
    /\ UNCHANGED online

(* The connection fails, before or after the command arrived. *)
KickFails ==
    /\ poll.pc = "kick"
    /\ mishaps < MaxMishaps
    /\ mishaps' = mishaps + 1
    /\ online' \in {online, online \ {poll.player}}
    /\ poll' = Onwards
    /\ UNCHANGED <<exempt, active, banned, memory, held, cleared>>

EndPoll ==
    /\ poll.pc = "visit"
    /\ poll.todo = {}
    /\ poll' = Idle
    /\ cleared' = [p \in Player |-> IF p \notin poll.list \ poll.active THEN poll.age ELSE cleared[p]]
    /\ UNCHANGED <<world, memory, mishaps, held>>

(* The store raises: _run logs it and the rest of the poll is skipped.     *)
Abort ==
    /\ poll.pc \in {"leases", "visit", "ban"}
    /\ poll.pc = "visit" => poll.ids
    /\ mishaps < MaxMishaps
    /\ mishaps' = mishaps + 1
    /\ poll' = Idle
    /\ Blindly(TRUE)
    /\ UNCHANGED <<world, firstSeen, kicked, failures, told, emptyReplies, held, cleared>>

Restart ==
    /\ mishaps < MaxMishaps
    /\ mishaps' = mishaps + 1
    /\ firstSeen' = [p \in Player |-> Never]
    /\ kicked' = [p \in Player |-> Never]
    /\ failures' = 0 /\ emptyReplies' = 0 /\ Seeing
    /\ poll' = Idle
    /\ UNCHANGED <<world, told, held, cleared>>

-----------------------------------------------------------------------------
(* The rest of the world. *)

JoinOrLeave(p) ==
    /\ online' \in {online \cup {p}, online \ {p}}
    /\ UNCHANGED <<exempt, active, banned, memory, poll, mishaps, held, cleared>>

TakeLease(p) ==
    /\ active' = active \cup {p}
    /\ UNCHANGED <<exempt, online, banned, memory, poll, mishaps, held, cleared>>

LoseLease(p) ==
    /\ active' = active \ {p}
    /\ held' = held \ {p}
    /\ UNCHANGED <<exempt, online, banned, memory, poll, mishaps, cleared>>

BanOrUnban(p) ==
    /\ banned' \in {banned \cup {p}, banned \ {p}}
    /\ UNCHANGED <<exempt, online, active, memory, poll, mishaps, held, cleared>>

Older(age) == IF age = Never \/ age = Long THEN age ELSE age + 1

Tick ==
    /\ poll.pc # "idle" => poll.age < MaxDelay
    /\ poll' = IF poll.pc = "idle" THEN poll ELSE [poll EXCEPT !.age = @ + 1]
    /\ firstSeen' = [p \in Player |-> Older(firstSeen[p])]
    /\ kicked' = [p \in Player |-> Older(kicked[p])]
    /\ cleared' = [p \in Player |-> Older(cleared[p])]
    /\ UNCHANGED <<world, alarm, mishaps, held>>

Poll ==
    \/ ReadList \/ ReadLeases \/ CheckBan \/ Kick \/ EndPoll
    \/ \E p \in Player : VisitLeased(p) \/ VisitBare(p)

Mishap == ReadFails \/ ReadPart \/ KickFails \/ KickIgnored \/ Abort \/ Restart

World == \E p \in Player : JoinOrLeave(p) \/ TakeLease(p) \/ LoseLease(p) \/ BanOrUnban(p)

Next == Poll \/ Mishap \/ World \/ Tick

Spec == Init /\ [][Next]_vars
FairSpec == Spec /\ WF_vars(Poll) /\ WF_vars(Tick)

-----------------------------------------------------------------------------
(* Properties *)

(* Every variable has its type, and a player is in hand exactly while the  *)
(* poll decides about one of its list.                                     *)
TypeOK ==
    /\ exempt \in ExemptLists
    /\ online \subseteq Player /\ active \subseteq Player /\ banned \subseteq Player /\ held \subseteq Player
    /\ firstSeen \in [Player -> Age \cup {Never}]
    /\ kicked \in [Player -> Age \cup {Never}]
    /\ cleared \in [Player -> Age]
    /\ mishaps \in 0 .. MaxMishaps
    /\ failures \in 0 .. mishaps
    /\ told \in {"nothing", "stopped", "working"}
    /\ emptyReplies \in 0 .. EmptyAfter + 1
    /\ blind \in 0 .. EmptyAfter
    /\ logged \in {"nothing", "blind"}
    /\ poll \in [pc : {"idle", "leases", "visit", "ban", "kick"}, age : 0 .. MaxDelay,
                 list : SUBSET Player, ids : BOOLEAN, todo : SUBSET Player, active : SUBSET Player,
                 player : Player \cup {"none"}, ban : BOOLEAN]
    /\ poll.todo \subseteq poll.list
    /\ IF poll.pc \in {"ban", "kick"} THEN poll.player \in poll.todo ELSE poll.player = "none"

(* The decision to kick the player in hand for having no lease. *)
KicksBare == poll.pc = "kick" /\ ~poll.ban

(* enforcer.py:3: who has held a lease ever since the poll began is not    *)
(* kicked for having none, whatever the poll read when.                    *)
HolderStays == KicksBare => poll.player \notin held

(* REFERENCE.md:85-89: no staff, and nobody else before the grace period   *)
(* has passed since a poll that found them offline or with a lease, unless *)
(* they were kicked within the rejoin window; failed kicks, polls that     *)
(* broke off and restarts do not shorten it.                               *)
GraceIsGiven ==
    KicksBare =>
        /\ poll.player \notin exempt
        /\ \/ kicked[poll.player] \in 0 .. Window + poll.age
           \/ cleared[poll.player] - poll.age >= Grace

(* enforcer.py:71-84, 129-136, 146: after AlertAfter failed reads in a row  *)
(* the last that admins heard on Discord is that nobody is kicked.  After  *)
(* EmptyAfter polls in a row that did not do their work, whatever stopped  *)
(* each of them (the read, an exception, a reply without a Steam ID while  *)
(* a lease is open), the log has said so since the first of them, though   *)
(* each way has a counter of its own, or none, that another may reset.     *)
AdminsKnow ==
    /\ failures >= AlertAfter => told = "stopped"
    /\ blind >= EmptyAfter => logged = "blind"

(* enforcer.py:3: nobody stays online without a lease, except staff.       *)
NobodyStaysBare ==
    \A p \in Player : []<>(p \notin online \/ p \in active \/ p \in exempt)
=============================================================================
