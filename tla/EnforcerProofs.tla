--------------------------- MODULE EnforcerProofs ---------------------------
(***************************************************************************)
(* Proofs about Enforcer, for every set of players, grace period and       *)
(* rejoin window.                                                          *)
(***************************************************************************)
EXTENDS Enforcer, TLAPS

(* All that Next can do. *)
LEMMA Cases ==
    ASSUME Next
    PROVE  \/ ReadList \/ ReadLeases \/ CheckBan \/ Kick \/ EndPoll
           \/ \E p \in Player : VisitLeased(p) \/ VisitBare(p)
           \/ ReadFails \/ ReadPart \/ KickFails \/ KickIgnored \/ Abort \/ Restart
           \/ \E p \in Player : JoinOrLeave(p) \/ TakeLease(p) \/ LoseLease(p) \/ BanOrUnban(p)
           \/ Tick
BY DEF Next, Poll, Mishap, World

(* TypeOK in parts: what a step does to poll is the hard one.              *)
PollRecord == [pc : {"idle", "leases", "visit", "ban", "kick"}, age : 0 .. MaxDelay,
          list : SUBSET Player, ids : BOOLEAN, todo : SUBSET Player, active : SUBSET Player,
          player : Player \cup {"none"}, ban : BOOLEAN]

PollOK ==
    /\ poll \in PollRecord
    /\ poll.todo \subseteq poll.list
    /\ IF poll.pc \in {"ban", "kick"} THEN poll.player \in poll.todo ELSE poll.player = "none"

AgesOK ==
    /\ firstSeen \in [Player -> Age \cup {Never}]
    /\ kicked \in [Player -> Age \cup {Never}]
    /\ cleared \in [Player -> Age]

SetsOK ==
    /\ exempt \in ExemptLists
    /\ online \subseteq Player /\ active \subseteq Player /\ banned \subseteq Player /\ held \subseteq Player

CountsOK ==
    /\ mishaps \in 0 .. MaxMishaps
    /\ failures \in 0 .. mishaps
    /\ told \in {"nothing", "stopped", "working"}
    /\ emptyReplies \in 0 .. EmptyAfter + 1
    /\ blind \in 0 .. EmptyAfter
    /\ logged \in {"nothing", "blind"}

LEMMA Parts == TypeOK <=> PollOK /\ AgesOK /\ SetsOK /\ CountsOK
BY DEF TypeOK, PollOK, PollRecord, AgesOK, SetsOK, CountsOK

LEMMA Numbers == /\ Long \in Nat /\ MaxDelay \in Nat /\ MaxDelay < Long /\ 0 \in Age
                 /\ Grace \in Nat /\ Window \in Nat /\ Long = Grace + Window + MaxDelay + 1
                 /\ \A n \in 0 .. MaxDelay : n \in Age
                 /\ Never \notin Age /\ Never \in Int
BY ConstantsAssumption DEF Long, Age, Never

LEMMA IdleType == Idle \in PollRecord /\ Idle.pc = "idle" /\ Idle.age = 0 /\ Idle.todo = {} /\ Idle.list = {}
                  /\ Idle.player = "none"
BY ConstantsAssumption DEF Idle, PollRecord

LEMMA OnwardsType ==
    ASSUME PollOK, poll.pc \in {"ban", "kick"}, poll' = Onwards
    PROVE  PollOK' /\ poll'.pc = "visit" /\ poll'.age = poll.age /\ poll'.list = poll.list
           /\ poll'.active = poll.active /\ poll'.todo = poll.todo \ {poll.player}
<1>1. poll \in PollRecord /\ poll.todo \subseteq poll.list
  BY DEF PollOK
<1>2. Onwards = [poll EXCEPT !.pc = "visit", !.todo = poll.todo \ {poll.player}, !.player = "none", !.ban = FALSE]
  BY DEF Onwards
<1>3. Onwards \in PollRecord
  BY <1>1, <1>2 DEF PollRecord
<1>4. poll'.pc = "visit" /\ poll'.age = poll.age /\ poll'.list = poll.list /\ poll'.player = "none"
      /\ poll'.active = poll.active /\ poll'.todo = poll.todo \ {poll.player}
  BY <1>1, <1>2 DEF PollRecord
<1> QED BY <1>1, <1>3, <1>4 DEF PollOK

(* Whatever part of the list the reply holds, the poll starts with it.      *)
LEMMA ReadType ==
    ASSUME ReadList \/ ReadPart, online \subseteq Player
    PROVE  /\ PollOK'
           /\ poll'.pc = "leases" /\ poll'.age = 0
           /\ told' = IF failures >= AlertAfter THEN "working" ELSE told
           /\ failures' = 0
           /\ held' = active
           /\ UNCHANGED <<world, firstSeen, kicked, emptyReplies, blind, logged, cleared>>
<1>1. PICK list \in SUBSET online : Read(list)
  BY DEF ReadList, ReadPart
<1>2. PICK ids \in BOOLEAN : poll' = [Idle EXCEPT !.pc = "leases", !.list = list, !.ids = ids]
  BY <1>1 DEF Read
<1> QED BY <1>1, <1>2, IdleType DEF Read, PollOK, PollRecord

LEMMA PollStep == ASSUME TypeOK, [Next]_vars PROVE PollOK'
<1>0. PollOK /\ poll \in PollRecord /\ poll.todo \subseteq poll.list
  BY Parts DEF PollOK
<1>1. CASE ReadList \/ ReadPart
  BY <1>1, ReadType DEF TypeOK
<1>2. CASE ReadLeases
  BY <1>0, <1>2 DEF ReadLeases, PollOK, PollRecord, TypeOK
<1>3. CASE CheckBan
  <2>1. CASE poll' = Onwards
    BY <1>0, <1>3, <2>1, OnwardsType DEF CheckBan
  <2>2. CASE poll' = [poll EXCEPT !.pc = "kick", !.ban = TRUE] \/ poll' = [poll EXCEPT !.pc = "kick"]
    BY <1>0, <1>3, <2>2 DEF CheckBan, PollOK, PollRecord
  <2> QED BY <1>3, <2>1, <2>2 DEF CheckBan
<1>4. CASE Kick \/ KickIgnored \/ KickFails
  BY <1>0, <1>4, OnwardsType DEF Kick, KickIgnored, Sent, KickFails
<1>5. CASE EndPoll \/ Abort \/ Restart
  BY <1>5, IdleType DEF EndPoll, Abort, Restart, PollOK
<1>6. ASSUME NEW p \in Player, VisitLeased(p) PROVE PollOK'
  BY <1>0, <1>6 DEF VisitLeased, PollOK, PollRecord
<1>7. ASSUME NEW p \in Player, VisitBare(p) PROVE PollOK'
  BY <1>0, <1>7 DEF VisitBare, PollOK, PollRecord
<1>8. CASE Tick
  BY <1>0, <1>8, Numbers DEF Tick, PollOK, PollRecord
<1>9. CASE UNCHANGED poll
  BY <1>0, <1>9 DEF PollOK
<1> QED BY <1>1, <1>2, <1>3, <1>4, <1>5, <1>6, <1>7, <1>8, <1>9, Cases
        DEF vars, ReadFails, JoinOrLeave, TakeLease, LoseLease, BanOrUnban

LEMMA OlderType == ASSUME NEW age \in Age \cup {Never} PROVE Older(age) \in Age \cup {Never}
BY Numbers DEF Older, Age, Never

LEMMA TypeStep == ASSUME TypeOK, [Next]_vars PROVE TypeOK'
<1>0. PollOK /\ AgesOK /\ SetsOK /\ CountsOK /\ PollOK'
  BY Parts, PollStep
<1>1. poll.age \in Age /\ poll.player \in Player \cup {"none"} /\ poll.list \subseteq Player
  BY <1>0, Numbers DEF PollOK, PollRecord
<1>a. \A p \in Player : Older(cleared[p]) \in Age
  BY <1>0, Numbers DEF AgesOK, Older, Age, Never
<1>2. AgesOK'
  <2>1. CASE ReadLeases
    BY <1>0, <1>1, <2>1 DEF ReadLeases, AgesOK, Forget, Recent
  <2>2. CASE CheckBan
    BY <1>0, <1>1, <2>2 DEF CheckBan, AgesOK, Seen
  <2>3. CASE Kick \/ KickIgnored
    BY <1>0, <1>1, <2>3 DEF Kick, KickIgnored, Sent, AgesOK
  <2>4. CASE EndPoll
    BY <1>0, <1>1, <2>4 DEF EndPoll, AgesOK, memory
  <2>5. CASE Restart
    BY <1>0, <2>5 DEF Restart, AgesOK
  <2>6. CASE \E p \in Player : VisitLeased(p)
    BY <1>0, <2>6 DEF VisitLeased, AgesOK
  <2>7. CASE Tick
    BY <1>0, <1>a, <2>7, OlderType DEF Tick, AgesOK
  <2>8. CASE UNCHANGED <<firstSeen, kicked, cleared>>
    BY <1>0, <2>8 DEF AgesOK
  <2> QED BY <2>1, <2>2, <2>3, <2>4, <2>5, <2>6, <2>7, <2>8, Cases
          DEF vars, memory, ReadList, ReadPart, Read, VisitBare, ReadFails, KickFails, Abort, JoinOrLeave, TakeLease, LoseLease, BanOrUnban
<1>3. SetsOK'
  BY <1>0, Cases DEF SetsOK, vars, memory, world, ReadList, ReadPart, Read, ReadLeases, CheckBan, Kick, KickIgnored, Sent,
     EndPoll, VisitLeased, VisitBare, ReadFails, KickFails, Abort, Restart, JoinOrLeave, TakeLease, LoseLease, BanOrUnban, Tick
<1>4. CountsOK'
  <2>1. CASE ReadFails
    BY <1>0, <2>1, ConstantsAssumption DEF ReadFails, CountsOK, Alert, Blindly, Capped
  <2>2. CASE ReadLeases
    <3>1. PICK open \in BOOLEAN : NoteEmpty(open)
      BY <2>2 DEF ReadLeases
    <3>2. UNCHANGED <<failures, told, mishaps>>
      BY <2>2 DEF ReadLeases
    <3> QED BY <1>0, <3>1, <3>2, ConstantsAssumption DEF NoteEmpty, CountsOK, Blindly, Seeing, Capped
  <2>3. CASE ReadList \/ ReadPart
    BY <1>0, <2>3, ReadType, ConstantsAssumption DEF ReadList, ReadPart, CountsOK, SetsOK
  <2>4. CASE Restart \/ KickFails \/ KickIgnored \/ Kick
    BY <1>0, <2>4, ConstantsAssumption DEF Restart, Seeing, KickFails, KickIgnored, Kick, Sent, CountsOK, memory, alarm
  <2>5. CASE Abort
    BY <1>0, <2>5, ConstantsAssumption DEF Abort, CountsOK, Blindly, Capped
  <2>6. CASE UNCHANGED <<mishaps, alarm>>
    BY <1>0, <2>6 DEF CountsOK, alarm
  <2> QED BY <2>1, <2>2, <2>3, <2>4, <2>5, <2>6, Cases DEF vars, memory, CheckBan, EndPoll, VisitLeased, VisitBare,
             JoinOrLeave, TakeLease, LoseLease, BanOrUnban, Tick
<1>5. (PollOK /\ AgesOK /\ SetsOK /\ CountsOK)' => TypeOK'
  BY DEF TypeOK, PollOK, PollRecord, AgesOK, SetsOK, CountsOK
<1> QED BY <1>0, <1>2, <1>3, <1>4, <1>5

LEMMA TypeInit == ASSUME Init PROVE TypeOK
<1>1. PollOK
  BY IdleType DEF Init, PollOK
<1>2. AgesOK /\ SetsOK /\ CountsOK
  BY Numbers, ConstantsAssumption DEF Init, AgesOK, SetsOK, CountsOK
<1> QED BY <1>1, <1>2, Parts

(* Every variable of Enforcer keeps its type. *)
THEOREM TypeCorrect == Spec => []TypeOK
<1>1. Init => TypeOK
  BY TypeInit
<1>2. TypeOK /\ [Next]_vars => TypeOK'
  BY TypeStep
<1> QED BY <1>1, <1>2, PTL DEF Spec

-----------------------------------------------------------------------------
(* HolderStays: the leases that the poll acts on include those held ever    *)
(* since it began.                                                          *)

HeldInv ==
    /\ held \subseteq active \/ poll.pc = "idle"
    /\ poll.pc \in {"visit", "ban", "kick"} => held \subseteq poll.active
    /\ poll.pc \in {"ban", "kick"} => poll.player \notin poll.active

LEMMA HeldStep == ASSUME TypeOK, HeldInv, [Next]_vars PROVE HeldInv'
<1> USE DEF HeldInv
<1>0. PollOK /\ poll \in PollRecord
  BY Parts DEF PollOK
<1>1. CASE ReadList \/ ReadPart
  <2>1. poll'.pc = "leases" /\ held' = active /\ active' = active
    BY <1>1, ReadType DEF world, TypeOK
  <2> QED BY <2>1
<1>2. CASE ReadLeases
  <2>1. poll.pc = "leases" /\ poll'.pc = "visit" /\ poll'.active = active /\ active' = active /\ held' = held
    BY <1>0, <1>2 DEF ReadLeases, PollRecord, world
  <2> QED BY <2>1
<1>3. CASE CheckBan
  <2>1. CASE poll' = Onwards
    BY <1>0, <1>3, <2>1, OnwardsType DEF CheckBan, world
  <2>2. CASE poll' = [poll EXCEPT !.pc = "kick", !.ban = TRUE] \/ poll' = [poll EXCEPT !.pc = "kick"]
    BY <1>0, <1>3, <2>2 DEF CheckBan, PollRecord, world
  <2> QED BY <1>3, <2>1, <2>2 DEF CheckBan
<1>4. CASE Kick \/ KickIgnored \/ KickFails
  BY <1>0, <1>4, OnwardsType DEF Kick, KickIgnored, Sent, KickFails
<1>5. CASE EndPoll \/ Abort \/ Restart
  BY <1>5, IdleType DEF EndPoll, Abort, Restart
<1>6. ASSUME NEW p \in Player, VisitLeased(p) \/ VisitBare(p) PROVE HeldInv'
  BY <1>0, <1>6 DEF VisitLeased, VisitBare, PollRecord, world
<1>7. CASE Tick
  BY <1>0, <1>7 DEF Tick, PollRecord, world
<1>8. ASSUME NEW p \in Player, JoinOrLeave(p) \/ TakeLease(p) \/ LoseLease(p) \/ BanOrUnban(p) PROVE HeldInv'
  BY <1>8 DEF JoinOrLeave, TakeLease, LoseLease, BanOrUnban
<1>9. CASE ReadFails \/ UNCHANGED vars
  BY <1>9 DEF ReadFails, vars, world
<1> QED BY <1>1, <1>2, <1>3, <1>4, <1>5, <1>6, <1>7, <1>8, <1>9, Cases

(* Who has held a lease ever since the poll began is not kicked by it for   *)
(* having none (enforcer.py:3), whatever the poll read when.                *)
THEOREM HoldersStay == Spec => []HolderStays
<1>1. Init => TypeOK /\ HeldInv
  BY TypeInit, IdleType DEF Init, HeldInv
<1>2. TypeOK /\ HeldInv /\ [Next]_vars => (TypeOK /\ HeldInv)'
  BY TypeStep, HeldStep
<1>3. TypeOK /\ HeldInv => HolderStays
  <2> SUFFICES ASSUME TypeOK, HeldInv, KicksBare PROVE poll.player \notin held
    BY DEF HolderStays
  <2> QED BY DEF HeldInv, KicksBare
<1> QED BY <1>1, <1>2, <1>3, PTL DEF Spec

-----------------------------------------------------------------------------
(* AdminsKnow.  What the log has said counts from the first of the polls in *)
(* a row that could kick nobody.  A failed read and an exception are logged *)
(* when they begin, so that as long as the log has said nothing each of     *)
(* these polls was an empty reply, and _empty_replies has counted them all. *)

LogInv ==
    /\ failures > 0 => poll.pc = "idle" /\ logged = "blind"
    /\ logged = "blind" \/ (blind = emptyReplies /\ blind < EmptyAfter)
    /\ failures >= AlertAfter => told = "stopped"

LEMMA LogStep == ASSUME TypeOK, LogInv, [Next]_vars PROVE LogInv'
<1> USE ConstantsAssumption DEF LogInv
<1>0. failures \in Nat /\ emptyReplies \in 0 .. EmptyAfter + 1
      /\ blind \in 0 .. EmptyAfter /\ logged \in {"nothing", "blind"}
  BY Parts DEF CountsOK
<1>a. poll.pc = "idle" => ReadList \/ ReadPart \/ poll'.pc = "idle"
  BY Cases, IdleType DEF vars, ReadLeases, CheckBan, Kick, KickIgnored, Sent, KickFails, EndPoll, VisitLeased, VisitBare,
     ReadFails, Abort, Restart, JoinOrLeave, TakeLease, LoseLease, BanOrUnban, Tick
<1>1. CASE ReadFails
  BY <1>0, <1>1 DEF ReadFails, Alert, Blindly
<1>2. CASE ReadList \/ ReadPart
  BY <1>0, <1>2, ReadType DEF TypeOK
<1>3. CASE ReadLeases
  <2>1. PICK open \in BOOLEAN : NoteEmpty(open)
    BY <1>3 DEF ReadLeases
  <2>2. failures = 0 /\ failures' = 0 /\ told' = told
    BY <1>0, <1>3 DEF ReadLeases
  <2>3. CASE emptyReplies' = 0 /\ Seeing
    BY <1>0, <2>2, <2>3 DEF Seeing
  <2>4. CASE emptyReplies' = Capped(emptyReplies + 1, EmptyAfter + 1) /\ Blindly(Warns(emptyReplies'))
    <3>1. CASE logged = "blind"
      BY <2>2, <2>4, <3>1 DEF Blindly
    <3>2. CASE logged # "blind"
      BY <1>0, <2>2, <2>4, <3>2 DEF Blindly, Capped, Warns
    <3> QED BY <3>1, <3>2
  <2> QED BY <2>1, <2>3, <2>4 DEF NoteEmpty
<1>4. CASE Abort
  BY <1>0, <1>4, IdleType DEF Abort, Blindly
<1>5. CASE Restart
  BY <1>0, <1>5 DEF Restart, Seeing
<1>6. CASE UNCHANGED alarm
  BY <1>0, <1>2, <1>6, <1>a DEF alarm
<1> QED BY <1>1, <1>2, <1>3, <1>4, <1>5, <1>6, Cases
        DEF vars, memory, CheckBan, Kick, KickIgnored, Sent, KickFails, EndPoll, VisitLeased, VisitBare,
            JoinOrLeave, TakeLease, LoseLease, BanOrUnban, Tick

(* However failed reads, exceptions and replies without a Steam ID follow   *)
(* each other, the log tells of EmptyAfter such polls in a row, and Discord *)
(* of AlertAfter failed reads in a row (enforcer.py:71-84, 129-136).        *)
THEOREM AdminsAreTold == Spec => []AdminsKnow
<1>1. Init => TypeOK /\ LogInv
  BY TypeInit, ConstantsAssumption DEF Init, LogInv
<1>2. TypeOK /\ LogInv /\ [Next]_vars => (TypeOK /\ LogInv)'
  BY LogStep, TypeStep
<1>3. TypeOK /\ LogInv => AdminsKnow
  BY Parts, ConstantsAssumption DEF LogInv, AdminsKnow, CountsOK
<1> QED BY <1>1, <1>2, <1>3, PTL DEF Spec

-----------------------------------------------------------------------------
(* GraceIsGiven.  A player's grace period begins no earlier than the last   *)
(* poll that cleared them: such a poll leaves no time behind, and the poll  *)
(* in progress is later.                                                    *)

(* Those the poll has found offline or with a lease, and is done with.      *)
Spared == (Player \ poll.list) \cup (poll.active \ poll.todo)

GraceInv ==
    /\ poll.pc # "idle" => \A p \in Player : poll.age <= cleared[p]
    /\ \A p \in Player : firstSeen[p] <= cleared[p]
    /\ poll.pc \in {"visit", "ban", "kick"} =>
         \A p \in Player : /\ kicked[p] <= Window + poll.age
                           /\ p \in Spared => firstSeen[p] = Never
    /\ poll.pc \in {"ban", "kick"} => poll.player \notin poll.active
    /\ GraceIsGiven

LEMMA GraceStep == ASSUME TypeOK, PollOK', GraceInv, [Next]_vars PROVE GraceInv'
<1>0. PollOK /\ poll \in PollRecord /\ AgesOK
  BY Parts DEF PollOK
<1>1. /\ poll.age \in 0 .. MaxDelay
      /\ \A p \in Player : firstSeen[p] \in Age \cup {Never} /\ kicked[p] \in Age \cup {Never} /\ cleared[p] \in Age
  BY <1>0 DEF PollRecord, AgesOK
<1>2. CASE ReadList \/ ReadPart
  <2>1. poll'.pc = "leases" /\ poll'.age = 0 /\ UNCHANGED <<firstSeen, kicked, cleared>>
    BY <1>2, ReadType DEF TypeOK
  <2> QED BY <1>1, <2>1 DEF GraceInv, GraceIsGiven, KicksBare, Age
<1>3. CASE ReadLeases
  <2>1. /\ poll'.pc = "visit" /\ poll'.age = poll.age /\ poll'.list = poll.list /\ poll'.todo = poll.list
        /\ cleared' = cleared
    BY <1>0, <1>3 DEF ReadLeases, PollRecord
  <2>2. \A p \in Player : /\ firstSeen'[p] \in {firstSeen[p], Never}
                          /\ p \notin poll.list => firstSeen'[p] = Never
    BY <1>3 DEF ReadLeases, Forget
  <2>3. \A p \in Player : kicked'[p] <= Window + poll.age
    BY <1>1, <1>3, Numbers DEF ReadLeases, Recent, Never, Age
  <2>4. \A p \in Player : p \in Spared' => p \notin poll.list
    BY <2>1 DEF Spared
  <2>5. \A p \in Player : firstSeen'[p] <= cleared[p]
    BY <1>1, <2>2, Numbers DEF GraceInv, Never, Age
  <2>6. \A p \in Player : poll.age <= cleared[p]
    BY <1>3 DEF ReadLeases, GraceInv
  <2>8. \A p \in Player : p \in Spared' => firstSeen'[p] = Never
    BY <2>2, <2>4
  <2>7. GraceIsGiven'
    BY <2>1 DEF GraceIsGiven, KicksBare
  <2> QED BY <2>1, <2>3, <2>5, <2>6, <2>7, <2>8 DEF GraceInv
<1>4. CASE CheckBan
  <2> DEFINE p == poll.player
  <2>1. /\ p \in Player /\ p \in poll.list \ poll.active /\ p \in poll.todo /\ cleared' = cleared /\ kicked' = kicked
        /\ exempt' = exempt
    BY <1>0, <1>4 DEF CheckBan, PollOK, PollRecord, GraceInv, world
  <2>2. Seen(p) <= cleared[p]
    BY <1>4, <2>1 DEF CheckBan, Seen, GraceInv
  <2>3. firstSeen' = firstSeen \/ firstSeen' = [firstSeen EXCEPT ![p] = Seen(p)]
    BY <1>4 DEF CheckBan
  <2>4. \A q \in Player : /\ firstSeen'[q] <= cleared[q]
                          /\ q # p => firstSeen'[q] = firstSeen[q]
    BY <1>0, <1>1, <2>2, <2>3 DEF AgesOK, GraceInv
  <2>a. /\ \A q \in Player : kicked[q] <= Window + poll.age
        /\ \A q \in Player : q \in Spared => firstSeen[q] = Never
        /\ \A q \in Player : poll.age <= cleared[q]
    BY <1>4 DEF CheckBan, GraceInv
  <2>5. CASE poll' = Onwards
    <3>1. /\ poll'.pc = "visit" /\ poll'.age = poll.age /\ poll'.list = poll.list /\ poll'.active = poll.active
          /\ poll'.todo = poll.todo \ {p}
      BY <1>0, <1>4, <2>5, OnwardsType DEF CheckBan
    <3>2. \A q \in Player : q \in Spared' => q \in Spared /\ q # p
      BY <2>1, <3>1 DEF Spared
    <3>3. GraceIsGiven'
      BY <3>1 DEF GraceIsGiven, KicksBare
    <3>4. \A q \in Player : q \in Spared' => firstSeen'[q] = Never
      BY <2>4, <2>a, <3>2
    <3> QED BY <2>1, <2>4, <2>a, <3>1, <3>3, <3>4 DEF GraceInv
  <2>6. CASE poll' # Onwards
    <3>1. /\ poll'.pc = "kick" /\ poll'.age = poll.age /\ poll'.list = poll.list /\ poll'.active = poll.active
          /\ poll'.todo = poll.todo /\ poll'.player = p
      BY <1>0, <1>4, <2>6 DEF CheckBan, PollRecord
    <3>2. \A q \in Player : q \in Spared' => q \in Spared /\ q # p
      BY <2>1, <3>1 DEF Spared
    <3>3. GraceIsGiven'
      <4>1. CASE p \in banned
        BY <1>0, <1>4, <4>1 DEF CheckBan, PollRecord, GraceIsGiven, KicksBare
      <4>2. CASE p \notin banned
        <5>1. p \notin exempt /\ ~InGrace(p)
          BY <1>4, <2>6, <4>2 DEF CheckBan
        <5>2. CASE kicked[p] # Never
          BY <1>1, <1>4, <2>1, <3>1, <5>1, <5>2 DEF CheckBan, GraceInv, GraceIsGiven, Age
        <5>3. CASE Seen(p) - poll.age >= Grace
          <6>1. Seen(p) \in Int /\ cleared[p] \in Int /\ poll.age \in Int
            BY <1>1, <2>1, Numbers DEF Seen, Age
          <6>2. cleared[p] - poll.age >= Grace
            BY <2>2, <5>3, <6>1, Numbers
          <6> QED BY <2>1, <3>1, <5>1, <6>2 DEF GraceIsGiven
        <5> QED BY <1>1, <2>1, <5>1, <5>2, <5>3, Numbers DEF InGrace, Seen, Age
      <4> QED BY <4>1, <4>2
    <3>4. \A q \in Player : q \in Spared' => firstSeen'[q] = Never
      BY <2>4, <2>a, <3>2
    <3> QED BY <2>1, <2>4, <2>a, <3>1, <3>3, <3>4 DEF GraceInv
  <2> QED BY <2>5, <2>6
<1>5. CASE Kick \/ KickIgnored \/ KickFails
  <2> DEFINE p == poll.player
  <2>1. /\ poll'.pc = "visit" /\ poll'.age = poll.age /\ poll'.list = poll.list /\ poll'.active = poll.active
        /\ poll'.todo = poll.todo \ {p} /\ p \notin poll.active /\ p \in poll.list /\ p \in Player
    BY <1>0, <1>5, OnwardsType DEF Kick, KickIgnored, Sent, KickFails, GraceInv, PollOK, PollRecord
  <2>2. \A q \in Player : q \in Spared' => q \in Spared
    BY <2>1 DEF Spared
  <2>3. /\ cleared' = cleared
        /\ \A q \in Player : firstSeen'[q] \in {firstSeen[q], Never} /\ kicked'[q] \in {kicked[q], poll.age}
    BY <1>0, <1>5, <2>1 DEF Kick, KickIgnored, Sent, KickFails, AgesOK, memory
  <2>4. \A q \in Player : kicked'[q] <= Window + poll.age
    BY <1>1, <1>5, <2>3, Numbers DEF Kick, KickIgnored, Sent, KickFails, GraceInv, Age
  <2>5. \A q \in Player : firstSeen'[q] <= cleared[q]
    BY <1>1, <2>3 DEF GraceInv, Never, Age
  <2> QED BY <1>1, <1>5, <2>1, <2>2, <2>3, <2>4, <2>5 DEF Kick, KickIgnored, Sent, KickFails, GraceInv, GraceIsGiven, KicksBare
<1>6. CASE EndPoll
  <2>1. \A q \in Player : cleared'[q] \in {cleared[q], poll.age} /\ (q \in poll.list \ poll.active => cleared'[q] = cleared[q])
    BY <1>6 DEF EndPoll
  <2>2. \A q \in Player : q \notin poll.list \ poll.active => firstSeen[q] = Never
    BY <1>6 DEF EndPoll, GraceInv, Spared
  <2>3. \A q \in Player : firstSeen'[q] <= cleared'[q]
    BY <1>1, <1>6, <2>1, <2>2 DEF EndPoll, memory, GraceInv, Never, Age
  <2>4. poll'.pc = "idle"
    BY <1>6, IdleType DEF EndPoll
  <2> QED BY <2>3, <2>4 DEF GraceInv, GraceIsGiven, KicksBare
<1>7. CASE Abort
  <2>1. poll'.pc = "idle"
    BY <1>7, IdleType DEF Abort
  <2> QED BY <1>7, <2>1 DEF Abort, memory, GraceInv, GraceIsGiven, KicksBare
<1>8. CASE Restart
  <2>1. poll'.pc = "idle"
    BY <1>8, IdleType DEF Restart
  <2> QED BY <1>1, <1>8, <2>1 DEF Restart, GraceInv, GraceIsGiven, KicksBare, Never, Age
<1>9. ASSUME NEW p \in Player, VisitLeased(p) PROVE GraceInv'
  <2>1. /\ poll'.pc = "visit" /\ poll'.age = poll.age /\ poll'.list = poll.list /\ poll'.active = poll.active
        /\ poll'.todo = poll.todo \ {p} /\ poll.pc = "visit"
    BY <1>0, <1>9 DEF VisitLeased, PollRecord
  <2>2. \A q \in Player : q \in Spared' => q \in Spared \/ q = p
    BY <2>1 DEF Spared
  <2>3. firstSeen'[p] = Never /\ \A q \in Player \ {p} : firstSeen'[q] = firstSeen[q]
    BY <1>0, <1>9 DEF VisitLeased, AgesOK
  <2> QED BY <1>1, <1>9, <2>1, <2>2, <2>3 DEF VisitLeased, GraceInv, GraceIsGiven, KicksBare, Never, Age
<1>10. ASSUME NEW p \in Player, VisitBare(p) PROVE GraceInv'
  <2>1. /\ poll'.pc = "ban" /\ poll'.age = poll.age /\ poll'.list = poll.list /\ poll'.active = poll.active
        /\ poll'.todo = poll.todo /\ poll'.player = p /\ poll.pc = "visit" /\ p \notin poll.active
    BY <1>0, <1>10 DEF VisitBare, PollRecord
  <2> QED BY <1>10, <2>1 DEF VisitBare, memory, GraceInv, GraceIsGiven, KicksBare, Spared
<1>11. CASE Tick
  <2>1. \A p \in Player : firstSeen'[p] = Older(firstSeen[p]) /\ kicked'[p] = Older(kicked[p])
                         /\ cleared'[p] = Older(cleared[p])
    BY <1>11 DEF Tick
  <2>2. CASE poll.pc = "idle"
    BY <1>1, <1>11, <2>1, <2>2, Numbers DEF Tick, GraceInv, GraceIsGiven, KicksBare, Older, Never, Age
  <2>3. CASE poll.pc # "idle"
    <3>1. /\ poll'.pc = poll.pc /\ poll'.age = poll.age + 1 /\ poll'.list = poll.list /\ poll'.active = poll.active
          /\ poll'.todo = poll.todo /\ poll'.player = poll.player /\ poll'.ban = poll.ban /\ poll.age < MaxDelay
      BY <1>0, <1>11, <2>3 DEF Tick, PollRecord
    <3>2. \A p \in Player : poll.age + 1 <= Older(cleared[p])
      BY <1>1, <2>3, <3>1, Numbers DEF GraceInv, Older, Age, Never
    <3>3. \A p \in Player : Older(firstSeen[p]) <= Older(cleared[p])
      BY <1>1, Numbers DEF GraceInv, Older, Age, Never
    <3>4. poll.pc \in {"visit", "ban", "kick"} =>
             \A p \in Player : /\ Older(kicked[p]) <= Window + poll.age + 1
                               /\ p \in Spared => Older(firstSeen[p]) = Never
      BY <1>1, Numbers DEF GraceInv, Older, Age, Never
    <3>5. Spared' = Spared
      BY <3>1 DEF Spared
    <3>6. GraceIsGiven'
      <4> DEFINE p == poll.player
      <4>1. ASSUME KicksBare
            PROVE  /\ p \in Player /\ p \notin exempt
                   /\ \/ Older(kicked[p]) \in 0 .. Window + poll.age + 1
                      \/ Older(cleared[p]) - (poll.age + 1) >= Grace
        <5>1. p \in Player
          BY <1>0, <4>1 DEF KicksBare, PollOK, PollRecord
        <5>2. p \notin exempt /\ (kicked[p] \in 0 .. Window + poll.age \/ cleared[p] - poll.age >= Grace)
          BY <4>1 DEF GraceInv, GraceIsGiven
        <5>3. CASE kicked[p] \in 0 .. Window + poll.age
          BY <1>1, <5>1, <5>2, <5>3, Numbers DEF Older, Age, Never
        <5>4. CASE cleared[p] - poll.age >= Grace
          BY <1>1, <3>1, <5>1, <5>2, <5>4, Numbers DEF Older, Age, Never
        <5> QED BY <5>1, <5>2, <5>3, <5>4
      <4>2. exempt' = exempt /\ (KicksBare' => KicksBare) /\ poll'.player = p /\ poll'.age = poll.age + 1
        BY <1>11, <3>1 DEF Tick, world, KicksBare
      <4>3. p \in Player => kicked'[p] = Older(kicked[p]) /\ cleared'[p] = Older(cleared[p])
        BY <2>1
      <4> HIDE DEF p
      <4> QED BY <1>1, <4>1, <4>2, <4>3, Numbers DEF GraceIsGiven
    <3> QED BY <1>1, <2>1, <3>1, <3>2, <3>3, <3>4, <3>5, <3>6, Numbers DEF GraceInv, Age
  <2> QED BY <2>2, <2>3
<1>12. CASE UNCHANGED <<firstSeen, kicked, cleared, poll, exempt>>
  BY <1>12 DEF GraceInv, GraceIsGiven, KicksBare, Spared
<1> QED BY <1>2, <1>3, <1>4, <1>5, <1>6, <1>7, <1>8, <1>9, <1>10, <1>11, <1>12, Cases
        DEF vars, world, memory, ReadFails, JoinOrLeave, TakeLease, LoseLease, BanOrUnban

(* No staff is kicked for having no lease, and nobody else before the grace *)
(* period has passed since a poll that cleared them (REFERENCE.md:85-89),   *)
(* whatever failed in between.                                              *)
THEOREM GraceAlwaysGiven == Spec => []GraceIsGiven
<1>1. Init => TypeOK /\ GraceInv
  BY TypeInit, IdleType DEF Init, GraceInv, GraceIsGiven, KicksBare, Never
<1>2. TypeOK /\ GraceInv /\ [Next]_vars => (TypeOK /\ GraceInv)'
  BY TypeStep, PollStep, GraceStep
<1>3. GraceInv => GraceIsGiven
  BY DEF GraceInv
<1> QED BY <1>1, <1>2, <1>3, PTL DEF Spec
=============================================================================
