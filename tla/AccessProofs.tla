---------------------------- MODULE AccessProofs ----------------------------
(***************************************************************************)
(* Proofs about Access, for any players, PCs, parts, accounts, threads and *)
(* settings.                                                               *)
(***************************************************************************)
EXTENDS Access, TLAPS

Registering == {"own", "rekey", "review", "insert"}
Gates == {"device", "bypass", "parts", "bans", "link", "ask", "record", "report", "admit", "refuse"}

\* The fields of a call fit its step, and a PC has the owner that the call found.
JobOK(j) ==
    /\ j.call = None <=> j.pc = "idle"
    /\ j.call = "register" =>
          /\ j.pc \in Registering
          /\ j.player \in Player
          /\ j.pc = "insert" => j.status \in Status
    /\ j.call \in {"start", "heartbeat"} =>
          /\ j.pc \in Gates
          /\ j.player \in Player
          /\ j.dev \in Device
          /\ device[j.dev].of = j.player

\* What may have spoken against a call from its beginning, given how far it got.
MayStand(j, r) ==
    \/ j.pc \in {"idle", "refuse"}
    \/ /\ j.call = "register"
       /\ j.pc = "insert" => j.status # "approved"
    \/ /\ r.why = "rejected"
       /\ j.pc \in {"device", "bypass", "parts", "bans"}
       /\ j.pc # "device" => j.status = "rejected"
    \/ /\ r.why = "pending"
       /\ j.call = "start"
       /\ j.pc = "device" \/ (j.pc = "bypass" /\ j.status = "pending")
    \/ /\ r.why = "flagged"
       /\ j.dirty
       /\ j.pc \in Gates \ {"admit"}
       /\ j.pc \in {"device", "bypass"} \/ ~j.exempt
    \/ /\ r.why = "banned"
       /\ \/ j.pc \in {"device", "bypass", "parts"}
          \/ j.pc = "bans" /\ r.of \in {j.player, j.dev} \cup j.parts
    \/ /\ r.why = "unlinked"
       /\ j.pc \in {"device", "bypass", "parts", "bans", "link"}
       /\ DiscordRequired
    \/ /\ r.why = "roleless"
       /\ \/ j.pc \in {"device", "bypass", "parts", "bans", "link"}
          \/ j.pc = "ask" /\ r.of = j.account /\ ~j.ok
          \/ j.pc = "record" /\ ~j.ok
       /\ DiscordRequired

JobsOK == \A t \in Thread : JobOK(job[t])

StoodOK == \A t \in Thread : \A r \in stood[t] : MayStand(job[t], r)

\* A player who is to pass is linked with the role, on record and on Discord, and every check of
\* the player that is in progress agrees.
FairOK ==
    \A p \in fair :
        /\ HasRole(p) /\ link[p].ok
        /\ \A t \in Thread : job[t].player = p =>
              /\ job[t].pc = "ask" => job[t].account = link[p].account /\ job[t].ok
              /\ job[t].pc = "record" => job[t].ok
              /\ job[t].why # "role"

Inv == TypeOK /\ JobsOK /\ StoodOK /\ FairOK
-----------------------------------------------------------------------------
(* What is the same for all steps *)

LEMMA WatchTyped ==
    ASSUME TypeOK, Watch
    PROVE  stood' \in [Thread -> SUBSET Reason] /\ scene' \in SceneType
<1>1. ASSUME NEW t \in Thread
      PROVE  Standing(t)' \subseteq Reason
  <2>1. AgainstDevice(job[t])' \subseteq Reason /\ AgainstLink(job[t])' \subseteq Reason
          /\ AgainstApproval(job[t])' \subseteq Reason
    BY DEF AgainstDevice, AgainstLink, AgainstApproval
  <2> QED
    BY <2>1 DEF Standing, Against
<1> QED
  BY <1>1 DEF Watch, TypeOK

LEMMA WatchKeeps ==
    ASSUME TypeOK, Watch, NEW t \in Thread
    PROVE  /\ stood'[t] \subseteq Standing(t)'
           /\ job[t].pc # "idle" => stood'[t] \subseteq stood[t]
  BY DEF Watch, TypeOK

\* A thread that does not act: nothing new speaks against its call.
LEMMA OthersStood ==
    ASSUME Inv, Watch, NEW t \in Thread, job'[t] = job[t], NEW r \in stood'[t]
    PROVE  MayStand(job'[t], r)
  BY WatchKeeps DEF Inv, StoodOK, MayStand

OwnersStay == \A d \in Device : device[d].of # None => device'[d].of = device[d].of

LEMMA OthersOK ==
    ASSUME Inv, OwnersStay, NEW t \in Thread, job'[t] = job[t]
    PROVE  JobOK(job[t])'
  BY ConstantsAssumption DEF Inv, JobsOK, JobOK, OwnersStay

\* What a thread at a gate, or in a registration, has in hand.
LEMMA AtGate ==
    ASSUME TypeOK, JobsOK, NEW t \in Thread, job[t].pc \in Gates
    PROVE  /\ job[t].call \in {"start", "heartbeat"}
           /\ job[t].player \in Player
           /\ job[t].dev \in Device
           /\ device[job[t].dev].of = job[t].player
           /\ device[job[t].dev].status \in Status
           /\ device[job[t].dev].parts \in SUBSET Part
<1>1. job[t] \in Job
  BY DEF TypeOK
<1>2. job[t].call \in Calls \cup {None}
  BY <1>1 DEF Job
<1>3. job[t].call # None /\ job[t].call # "register"
  BY DEF JobsOK, JobOK, Gates, Registering
<1>4. job[t].call \in {"start", "heartbeat"}
  BY <1>2, <1>3 DEF Calls
<1>5. job[t].dev \in Device /\ job[t].player \in Player /\ device[job[t].dev].of = job[t].player
  BY <1>4 DEF JobsOK, JobOK
<1> QED
  BY <1>4, <1>5 DEF TypeOK, Devices

LEMMA AtRegistration ==
    ASSUME TypeOK, JobsOK, NEW t \in Thread, job[t].pc \in Registering
    PROVE  /\ job[t].call = "register"
           /\ job[t].player \in Player
           /\ job[t].parts \in SUBSET Part
<1>1. job[t] \in Job
  BY DEF TypeOK
<1>2. job[t].call \in Calls \cup {None} /\ job[t].parts \in SUBSET Part
  BY <1>1 DEF Job
<1>3. job[t].call # None /\ job[t].call \notin {"start", "heartbeat"}
  BY DEF JobsOK, JobOK, Gates, Registering
<1>4. job[t].call = "register"
  BY <1>2, <1>3 DEF Calls
<1> QED
  BY <1>2, <1>4 DEF JobsOK, JobOK

\* Job as an assignment of its fields: what EXCEPT makes of a job.
LEMMA JobFields ==
    ASSUME NEW j \in Job
    PROVE  /\ j.call \in Calls \cup {None}
           /\ j.player \in Player \cup {None}
           /\ j.dev \in Device \cup {None}
           /\ j.parts \in SUBSET Part
           /\ j.dirty \in BOOLEAN /\ j.exempt \in BOOLEAN /\ j.ok \in BOOLEAN
           /\ j.status \in Status \cup {None}
           /\ j.account \in Account \cup {None}
           /\ j.why \in {None, "role", "other"}
  BY DEF Job

LEMMA IdleTyped == Idle \in Job
  BY DEF Idle, Job

\* What a step writes into a job besides constants.
LEMMA JobWith ==
    ASSUME NEW j \in Job
    PROVE  /\ \A ps \in SUBSET Part : [j EXCEPT !.pc = "bans", !.parts = ps] \in Job
           /\ \A s \in Status : [j EXCEPT !.pc = "insert", !.status = s] \in Job
           /\ \A ok \in BOOLEAN : [j EXCEPT !.pc = "record", !.ok = ok] \in Job
  BY DEF Job
-----------------------------------------------------------------------------
(* Types *)

LEMMA JobsTyped ==
    ASSUME TypeOK, JobsOK, NEW t \in Thread, Call(t) \/ Step(t) \/ Abort(t)
    PROVE  job' \in [Thread -> Job]
<1>1. CASE Call(t)
  <2>1. ASSUME NEW p \in scene.players, NEW ps \in scene.prints, BeginRegister(t, p, ps)
        PROVE  job' \in [Thread -> Job]
    BY <2>1 DEF TypeOK, BeginRegister, Begin, Idle, Job, SceneType, Calls
  <2>2. ASSUME NEW d \in Device, NEW dirty \in scene.reports,
               BeginStart(t, d, dirty) \/ BeginHeartbeat(t, d, dirty)
        PROVE  job' \in [Thread -> Job]
    <3>1. device[d].of \in Player
      BY <2>2 DEF BeginStart, BeginHeartbeat, TypeOK, Devices
    <3>2. dirty \in BOOLEAN
      BY <2>2 DEF TypeOK, SceneType
    <3>3. \A c \in {"start", "heartbeat"} :
             [Idle EXCEPT !.call = c, !.pc = "device", !.player = device[d].of,
                          !.dev = d, !.dirty = dirty] \in Job
      BY <3>1, <3>2 DEF Idle, Job, Calls
    <3>4. CASE BeginStart(t, d, dirty)
      BY <3>4, <3>3 DEF TypeOK, BeginStart, Begin
    <3>5. CASE BeginHeartbeat(t, d, dirty)
      BY <3>5, <3>3 DEF TypeOK, BeginHeartbeat, Begin
    <3> QED
      BY <2>2, <3>4, <3>5
  <2> QED
    BY <1>1, <2>1, <2>2 DEF Call
<1>2. CASE FindOwn(t)
  <2>1. Same(job[t].player, job[t].parts) \cup Closest(job[t].player, job[t].parts)
            \subseteq Device
    BY DEF Same, Closest, Owned
  <2> QED
    BY <1>2, <2>1 DEF FindOwn, Goto, TypeOK, Job
<1>3. CASE Review(t)
  <2>1. PICK s \in Status : job' = [job EXCEPT ![t].pc = "insert", ![t].status = s]
    BY <1>3 DEF Review, Status
  <2>2. [job[t] EXCEPT !.pc = "insert", !.status = s] \in Job
    BY JobWith DEF TypeOK
  <2> QED
    BY <2>1, <2>2 DEF TypeOK
<1>4. CASE ReadDevice(t)
  <2>2. device[job[t].dev].status \in Status
    BY <1>4, AtGate DEF ReadDevice, At, Gates
  <2> QED
    BY <1>4, <2>2 DEF ReadDevice, Refused, TypeOK, Job
<1>5. CASE FindBypass(t)
  <2>1. (AllowBypass /\ job[t].player \in exempt) \in BOOLEAN
    BY ConstantsAssumption
  <2> QED
    BY <1>5, <2>1 DEF FindBypass, Refused, TypeOK, Job
<1>6. CASE ReadParts(t)
  <2>2. device[job[t].dev].parts \in SUBSET Part
    BY <1>6, AtGate DEF ReadParts, At, Gates
  <2>3. PICK ps \in SUBSET Part : job' = [job EXCEPT ![t].pc = "bans", ![t].parts = ps]
    BY <1>6, <2>2 DEF ReadParts
  <2>4. [job[t] EXCEPT !.pc = "bans", !.parts = ps] \in Job
    BY JobWith DEF TypeOK
  <2> QED
    BY <2>3, <2>4 DEF TypeOK
<1>7. CASE FindBan(t)
  BY <1>7 DEF FindBan, Refused, TypeOK, Job
<1>8. CASE ReadLink(t)
  <2>1. job[t].player \in Player
    BY <1>8, AtGate DEF ReadLink, At, Gates
  <2>2. link[job[t].player] # None => link[job[t].player] \in Link
    BY <2>1 DEF TypeOK, Links
  <2> QED
    BY <1>8, <2>2 DEF ReadLink, Refused, Judged, TypeOK, Job, Link
<1>9. CASE Answered(t)
  <2> DEFINE ok == job[t].account \in role
  <2>1. job' = [job EXCEPT ![t].pc = "record", ![t].ok = ok]
    BY <1>9 DEF Answered
  <2>2. ok \in BOOLEAN
    OBVIOUS
  <2> HIDE DEF ok
  <2>3. [job[t] EXCEPT !.pc = "record", !.ok = ok] \in Job
    BY <2>2, JobWith DEF TypeOK
  <2> QED
    BY <2>1, <2>3 DEF TypeOK
<1>10. CASE Unavailable(t) \/ Record(t)
  BY <1>10 DEF Unavailable, Record, Judged, TypeOK, Job
<1>11. CASE Report(t)
  BY <1>11 DEF Report, Refused, Goto, TypeOK, Job
<1>12. CASE Rekey(t) \/ Insert(t) \/ Admit(t) \/ Refuse(t) \/ Abort(t)
  BY <1>12, IdleTyped DEF Rekey, Insert, Admit, Refuse, Abort, Done, TypeOK
<1> QED
  BY <1>1, <1>2, <1>3, <1>4, <1>5, <1>6, <1>7, <1>8, <1>9, <1>10, <1>11, <1>12 DEF Step

LEMMA OwnersKept ==
    ASSUME TypeOK, JobsOK, Next
    PROVE  OwnersStay
<1>1. ASSUME NEW t \in Thread, Rekey(t)
      PROVE  OwnersStay
  BY <1>1 DEF Rekey, OwnersStay, TypeOK, Devices
<1>2. ASSUME NEW t \in Thread, Insert(t)
      PROVE  OwnersStay
  BY <1>2 DEF Insert, Free, OwnersStay, TypeOK, Devices
<1>3. ASSUME NEW d \in Device, NEW s \in Status, SetStatus(d, s)
      PROVE  OwnersStay
  BY <1>3 DEF SetStatus, OwnersStay, TypeOK, Devices
<1>4. CASE UNCHANGED device
  BY <1>4 DEF OwnersStay
<1> QED
  BY <1>1, <1>2, <1>3, <1>4
  DEF Next, Call, Step, Abort, World, tables, BeginRegister, BeginStart, BeginHeartbeat, FindOwn,
      Review, ReadDevice, FindBypass, ReadParts, FindBan, ReadLink, Answered, Unavailable, Record,
      Report, Admit, Refuse, EndLease, AddBan, DropBan, Bypass, Unlink, Age, LinkAccount,
      RoleChange, Confirm, Forget

LEMMA StepTyped ==
    ASSUME TypeOK, JobsOK, OwnersStay, Watch,
           NEW t \in Thread, Call(t) \/ Step(t) \/ Abort(t)
    PROVE  TypeOK'
<1>1. job' \in [Thread -> Job]
  BY JobsTyped
<1>2. stood' \in [Thread -> SUBSET Reason] /\ scene' \in SceneType
  BY WatchTyped
<1>3. UNCHANGED <<bans, exempt, role, proven, fair>>
  BY DEF Call, Step, Abort, tables, BeginRegister, BeginStart, BeginHeartbeat, FindOwn, Rekey,
         Review, Insert, ReadDevice, FindBypass, ReadParts, FindBan, ReadLink, Answered,
         Unavailable, Record, Report, Admit, Refuse
<1>4. CASE Rekey(t)
  <2>1. job[t].parts \in SUBSET Part
    BY <1>4, AtRegistration DEF Rekey, At, Registering
  <2>2. device' \in Devices
    BY <1>4, <2>1 DEF Rekey, TypeOK, Devices
  <2> QED
    BY <1>1, <1>2, <1>3, <1>4, <2>2 DEF Rekey, TypeOK, OwnersStay
<1>5. CASE Insert(t)
  <2>1. job[t].parts \in SUBSET Part /\ job[t].player \in Player /\ job[t].status \in Status
    BY <1>5, AtRegistration DEF Insert, At, Registering, JobsOK, JobOK
  <2>2. device' \in Devices
    BY <1>5, <2>1 DEF Insert, TypeOK, Devices, Free
  <2>3. link' = link /\ active' = active
    BY <1>5 DEF Insert
  <2>4. \A d \in active : device'[d].of # None
    BY DEF OwnersStay, TypeOK
  <2> QED
    BY <1>1, <1>2, <1>3, <2>2, <2>3, <2>4 DEF TypeOK
<1>6. CASE Record(t)
  <2>1. job[t].ok \in BOOLEAN
    BY DEF TypeOK, Job
  <2>2. ASSUME NEW p \in Player
        PROVE  link'[p] \in {None} \cup Link
    BY <1>6, <2>1 DEF Record, TypeOK, Links, Link
  <2>3. link' \in Links
    BY <1>6, <2>2 DEF Record, TypeOK, Links
  <2> QED
    BY <1>1, <1>2, <1>3, <1>6, <2>3 DEF Record, TypeOK
<1>7. CASE Admit(t) \/ Refuse(t)
  <2>1. job[t].dev \in Device /\ device[job[t].dev].of \in Player
    BY <1>7, AtGate DEF Admit, Refuse, At, Gates
  <2>2. device[job[t].dev].of # None
    BY <2>1, ConstantsAssumption
  <2> QED
    BY <1>1, <1>2, <1>3, <1>7, <2>1, <2>2 DEF Admit, Refuse, TypeOK
<1>8. CASE UNCHANGED <<device, link, active>>
  BY <1>1, <1>2, <1>3, <1>8 DEF TypeOK
<1> QED
  BY <1>4, <1>5, <1>6, <1>7, <1>8
  DEF Call, Step, Abort, tables, BeginRegister, BeginStart, BeginHeartbeat, FindOwn, Review,
      ReadDevice, FindBypass, ReadParts, FindBan, ReadLink, Answered, Unavailable, Report

LEMMA WorldTyped ==
    ASSUME TypeOK, OwnersStay, World, Watch
    PROVE  TypeOK'
<1>1. job' = job
  BY DEF World, EndLease, SetStatus, AddBan, DropBan, Bypass, Unlink, Age, LinkAccount,
         RoleChange, Confirm, Forget
<1>2. stood' \in [Thread -> SUBSET Reason] /\ scene' \in SceneType
  BY WatchTyped
<1>3. scene.bans \subseteq Subject /\ scene.players \subseteq Player
        /\ scene.accounts \subseteq Account
  BY DEF TypeOK, SceneType
<1>4. ASSUME NEW d \in Device, NEW s \in Status, SetStatus(d, s)
      PROVE  TypeOK'
  <2>1. device' \in Devices
    BY <1>4 DEF SetStatus, TypeOK, Devices
  <2> QED
    BY <1>1, <1>2, <1>4, <2>1 DEF SetStatus, TypeOK, OwnersStay
<1>5. ASSUME NEW p \in scene.players, Age(p)
      PROVE  TypeOK'
  <2>1. link[p] \in Link /\ link[p].age \in 0 .. 1
    BY <1>3, <1>5 DEF Age, TypeOK, Links, Link
  <2>2. [link[p] EXCEPT !.age = @ + 1] \in Link
    BY <2>1 DEF Link
  <2>3. link' \in Links
    BY <1>3, <1>5, <2>2 DEF Age, TypeOK, Links
  <2> QED
    BY <1>1, <1>2, <1>5, <2>3 DEF Age, TypeOK
<1>6. ASSUME NEW p \in scene.players, NEW a \in proven, LinkAccount(p, a)
      PROVE  TypeOK'
  <2>1. link' \in Links
    BY <1>3, <1>6 DEF LinkAccount, TypeOK, Links, Link
  <2> QED
    BY <1>1, <1>2, <1>3, <1>6, <2>1 DEF LinkAccount, TypeOK
<1>7. ASSUME NEW p \in scene.players, Unlink(p) \/ Bypass(p)
      PROVE  TypeOK'
  BY <1>1, <1>2, <1>3, <1>7 DEF Unlink, Bypass, TypeOK, Links
<1>8. ASSUME NEW a \in scene.accounts, RoleChange(a) \/ Confirm(a)
      PROVE  TypeOK'
  BY <1>1, <1>2, <1>3, <1>8 DEF RoleChange, Confirm, TypeOK
<1>9. ASSUME NEW s \in scene.bans, AddBan(s) \/ DropBan(s)
      PROVE  TypeOK'
  BY <1>1, <1>2, <1>3, <1>9 DEF AddBan, DropBan, TypeOK
<1>10. ASSUME NEW d \in Device, EndLease(d)
       PROVE  TypeOK'
  BY <1>1, <1>2, <1>10 DEF EndLease, TypeOK
<1>11. ASSUME NEW a \in proven, Forget(a)
       PROVE  TypeOK'
  BY <1>1, <1>2, <1>11 DEF Forget, TypeOK
<1> QED
  BY <1>4, <1>5, <1>6, <1>7, <1>8, <1>9, <1>10, <1>11 DEF World
-----------------------------------------------------------------------------
(* What a call has in hand *)

LEMMA ActorOK ==
    ASSUME TypeOK, JobsOK, OwnersStay, NEW t \in Thread, Call(t) \/ Step(t) \/ Abort(t)
    PROVE  JobOK(job[t])'
<1>1. ASSUME NEW p \in scene.players, NEW ps \in scene.prints, BeginRegister(t, p, ps)
      PROVE  JobOK(job[t])'
  <2>1. p \in Player
    BY DEF TypeOK, SceneType
  <2>2. job'[t] = [Idle EXCEPT !.call = "register", !.pc = "own", !.player = p, !.parts = ps]
    BY <1>1 DEF BeginRegister, Begin, TypeOK
  <2> QED
    BY <2>1, <2>2, ConstantsAssumption DEF JobOK, Idle, Registering, Calls
<1>2. ASSUME NEW d \in Device, NEW dirty \in scene.reports,
             BeginStart(t, d, dirty) \/ BeginHeartbeat(t, d, dirty)
      PROVE  JobOK(job[t])'
  <2>1. device[d].of \in Player /\ device'[d].of = device[d].of
    BY <1>2, ConstantsAssumption DEF BeginStart, BeginHeartbeat, TypeOK, Devices, OwnersStay
  <2>2. PICK c \in {"start", "heartbeat"} :
            job'[t] = [Idle EXCEPT !.call = c, !.pc = "device", !.player = device[d].of,
                                   !.dev = d, !.dirty = dirty]
    BY <1>2 DEF BeginStart, BeginHeartbeat, Begin, TypeOK
  <2> QED
    BY <2>1, <2>2, ConstantsAssumption DEF JobOK, Idle, Gates, Calls
<1>3. CASE Rekey(t) \/ Insert(t) \/ Admit(t) \/ Refuse(t) \/ Abort(t)
  <2>1. job'[t] = Idle
    BY <1>3 DEF Rekey, Insert, Admit, Refuse, Abort, Done, TypeOK
  <2> QED
    BY <2>1, ConstantsAssumption DEF JobOK, Idle, Calls
<1>4. CASE FindOwn(t) \/ Review(t)
  <2>1. job[t].call = "register" /\ job[t].player \in Player
    BY <1>4, AtRegistration DEF FindOwn, Review, At, Registering
  <2>2. /\ job'[t].call = job[t].call /\ job'[t].player = job[t].player
        /\ \/ job'[t].pc \in {"rekey", "review"}
           \/ job'[t].pc = "insert" /\ job'[t].status \in Status
    BY <1>4 DEF FindOwn, Review, Goto, TypeOK, Job, Status
  <2> QED
    BY <2>1, <2>2, ConstantsAssumption DEF JobOK, Registering, Calls
<1>5. CASE \/ ReadDevice(t) \/ FindBypass(t) \/ ReadParts(t) \/ FindBan(t) \/ ReadLink(t)
           \/ Answered(t) \/ Unavailable(t) \/ Record(t) \/ Report(t)
  <2>1. /\ job[t].call \in {"start", "heartbeat"} /\ job[t].player \in Player
        /\ job[t].dev \in Device /\ device[job[t].dev].of = job[t].player
    BY <1>5, AtGate DEF ReadDevice, FindBypass, ReadParts, FindBan, ReadLink, Answered,
           Unavailable, Record, Report, At, Gates
  <2>2. device' = device
    BY <1>5 DEF ReadDevice, FindBypass, ReadParts, FindBan, ReadLink, Answered, Unavailable,
                Record, Report, tables
  <2>3. /\ job'[t].call = job[t].call /\ job'[t].player = job[t].player
        /\ job'[t].dev = job[t].dev
        /\ job'[t].pc \in Gates
    BY <1>5 DEF ReadDevice, FindBypass, ReadParts, FindBan, ReadLink, Answered, Unavailable,
                Record, Report, Refused, Judged, Goto, TypeOK, Job, Gates
  <2> QED
    BY <2>1, <2>2, <2>3, ConstantsAssumption DEF JobOK, Gates, Calls
<1> QED
  BY <1>1, <1>2, <1>3, <1>4, <1>5 DEF Call, Step
-----------------------------------------------------------------------------
(* What may have spoken against a call *)

LEMMA RegistrationStood ==
    ASSUME Inv, Watch, NEW t \in Thread,
           FindOwn(t) \/ Review(t), NEW r \in stood'[t]
    PROVE  MayStand(job'[t], r)
<1>1. job[t].call = "register" /\ job[t].pc # "idle"
  BY AtRegistration DEF Inv, FindOwn, Review, At, Registering
<1>2. CASE FindOwn(t)
  <2>1. job'[t].call = "register" /\ job'[t].pc # "insert"
    BY <1>1, <1>2 DEF FindOwn, Goto, Inv, TypeOK, Job
  <2> QED
    BY <2>1 DEF MayStand
<1>3. CASE Review(t)
  <2>1. /\ job'[t].call = "register" /\ job'[t].parts = job[t].parts
        /\ job'[t].player = job[t].player /\ device' = device
        /\ job'[t].status = "approved"
              => job[t].parts # {} /\ SharingOthers(job[t].player, job[t].parts) = {}
    BY <1>1, <1>3 DEF Review, Inv, TypeOK, Job, tables
  <2>3. r \in AgainstApproval(job[t])'
    BY <2>1, WatchKeeps DEF Inv, Standing, Against
  <2>4. job'[t].status # "approved"
    BY <2>1, <2>3 DEF AgainstApproval, SharingOthers
  <2> QED
    BY <2>1, <2>4 DEF MayStand
<1> QED
  BY <1>2, <1>3

\* What stands against a call at a gate now.
LEMMA GateStands ==
    ASSUME Inv, Watch, NEW t \in Thread, job'[t].call \in {"start", "heartbeat"},
           NEW r \in stood'[t]
    PROVE  r \in AgainstDevice(job[t])' \/ r \in AgainstLink(job[t])'
  BY WatchKeeps DEF Inv, Standing, Against

LEMMA DeviceGatesStood ==
    ASSUME Inv, Watch, NEW t \in Thread,
           ReadDevice(t) \/ FindBypass(t) \/ ReadParts(t) \/ FindBan(t), NEW r \in stood'[t]
    PROVE  MayStand(job'[t], r)
<1>1. /\ job[t].call \in {"start", "heartbeat"} /\ job[t].pc # "idle"
      /\ UNCHANGED <<device, bans, exempt, link, role>>
  BY AtGate DEF Inv, ReadDevice, FindBypass, ReadParts, FindBan, At, Gates, tables
<1>2. /\ job'[t].call = job[t].call /\ job'[t].player = job[t].player
      /\ job'[t].dev = job[t].dev /\ job'[t].dirty = job[t].dirty
  BY DEF ReadDevice, FindBypass, ReadParts, FindBan, Refused, Inv, TypeOK, Job
<1>3. MayStand(job[t], r)
  BY <1>1, WatchKeeps DEF Inv, StoodOK
<1>4. r \in AgainstDevice(job[t])' \/ r \in AgainstLink(job[t])'
  BY <1>1, <1>2, GateStands
<1>5. CASE job'[t].pc = "refuse"
  BY <1>5 DEF MayStand
<1>6. CASE ReadDevice(t) /\ job'[t].pc # "refuse"
  <2>1. job'[t].pc = "bypass" /\ job'[t].status = device[job[t].dev].status
    BY <1>6 DEF ReadDevice, Refused, Inv, TypeOK, Job
  <2>2. job[t].pc = "device"
    BY <1>6 DEF ReadDevice, At
  <2> QED
    BY <1>1, <1>2, <1>3, <1>4, <2>1, <2>2 DEF MayStand, AgainstDevice, AgainstLink, Gates
<1>7. CASE FindBypass(t) /\ job'[t].pc # "refuse"
  <2>1. /\ job'[t].pc = "parts" /\ job'[t].status = job[t].status
        /\ job'[t].exempt = (AllowBypass /\ job[t].player \in exempt)
        /\ ~(job[t].call = "start" /\ job[t].status = "pending"
                /\ ~(AllowBypass /\ job[t].player \in exempt))
    BY <1>7 DEF FindBypass, Refused, Inv, TypeOK, Job
  <2>2. job[t].pc = "bypass"
    BY <1>7 DEF FindBypass, At
  <2> QED
    BY <1>1, <1>2, <1>3, <1>4, <2>1, <2>2 DEF MayStand, AgainstDevice, AgainstLink, Gates
<1>8. CASE ReadParts(t) /\ job'[t].pc # "refuse"
  <2>1. /\ job'[t].pc = "bans" /\ job'[t].status = job[t].status
        /\ job'[t].exempt = job[t].exempt
        /\ job'[t].parts = device[job[t].dev].parts
    BY <1>8 DEF ReadParts, Inv, TypeOK, Job
  <2>2. job[t].pc = "parts"
    BY <1>8 DEF ReadParts, At
  <2> QED
    BY <1>1, <1>2, <1>3, <1>4, <2>1, <2>2 DEF MayStand, AgainstDevice, AgainstLink, Gates
<1>9. CASE FindBan(t) /\ job'[t].pc # "refuse"
  <2>1. /\ job'[t].pc = IF DiscordRequired THEN "link" ELSE "report"
        /\ job'[t].exempt = job[t].exempt
        /\ ({job[t].player, job[t].dev} \cup job[t].parts) \cap bans = {}
        /\ job[t].status # "rejected"
    BY <1>9 DEF FindBan, Refused, Inv, TypeOK, Job
  <2>2. job[t].pc = "bans"
    BY <1>9 DEF FindBan, At
  <2>3. r.why = "banned" => r.of \in bans
    BY <1>1, <1>4 DEF AgainstDevice, AgainstLink
  <2> QED
    BY <1>1, <1>2, <1>3, <2>1, <2>2, <2>3 DEF MayStand, Gates
<1> QED
  BY <1>5, <1>6, <1>7, <1>8, <1>9

LEMMA DiscordStood ==
    ASSUME Inv, Watch, NEW t \in Thread,
           ReadLink(t) \/ Answered(t) \/ Unavailable(t) \/ Record(t) \/ Report(t),
           NEW r \in stood'[t]
    PROVE  MayStand(job'[t], r)
<1>1. /\ job[t].call \in {"start", "heartbeat"} /\ job[t].pc # "idle"
      /\ UNCHANGED <<device, bans, exempt, role>>
  BY AtGate DEF Inv, ReadLink, Answered, Unavailable, Record, Report, At, Gates, tables
<1>2. /\ job'[t].call = job[t].call /\ job'[t].player = job[t].player
      /\ job'[t].dev = job[t].dev /\ job'[t].dirty = job[t].dirty
      /\ job'[t].exempt = job[t].exempt
  BY DEF ReadLink, Answered, Unavailable, Record, Report, Refused, Judged, Goto, Inv, TypeOK, Job
<1>3. MayStand(job[t], r)
  BY <1>1, WatchKeeps DEF Inv, StoodOK
<1>4. r \in AgainstDevice(job[t])' \/ r \in AgainstLink(job[t])'
  BY <1>1, <1>2, GateStands
<1>5. CASE job'[t].pc = "refuse"
  BY <1>5 DEF MayStand
<1>6. CASE ReadLink(t) /\ job'[t].pc # "refuse"
  <2> DEFINE l == link[job[t].player]
  <2>1. /\ l # None
        /\ \/ l.ok /\ job'[t].pc = "report"
           \/ job'[t].pc = "ask" /\ job'[t].account = l.account /\ job'[t].ok = l.ok
    BY <1>6 DEF ReadLink, Refused, Judged, Inv, TypeOK, Job
  <2>2. job[t].pc = "link" /\ link' = link
    BY <1>6 DEF ReadLink, At, tables
  <2>3. r.why # "unlinked"
    BY <1>1, <1>2, <1>4, <2>1, <2>2 DEF AgainstDevice, AgainstLink
  <2>4. r.why = "roleless" => r.of = l.account /\ ~l.ok
    BY <1>1, <1>2, <1>4, <2>1, <2>2 DEF AgainstDevice, AgainstLink
  <2> HIDE DEF l
  <2> QED
    BY <1>1, <1>2, <1>3, <2>1, <2>2, <2>3, <2>4 DEF MayStand, Gates
<1>7. CASE Answered(t) /\ job'[t].pc # "refuse"
  <2>1. /\ job'[t].pc = "record"
        /\ job'[t].ok <=> job[t].account \in role
    BY <1>7 DEF Answered, Inv, TypeOK, Job
  <2>2. job[t].pc = "ask" /\ link' = link
    BY <1>7 DEF Answered, At, tables
  <2>3. r.why = "roleless" => r.of \notin role
    BY <1>1, <1>2, <1>4, <2>2 DEF AgainstDevice, AgainstLink
  <2> QED
    BY <1>1, <1>2, <1>3, <2>1, <2>2, <2>3 DEF MayStand, Gates
<1>8. CASE (Unavailable(t) \/ Record(t)) /\ job'[t].pc # "refuse"
  <2>1. job'[t].pc = "report" /\ job[t].ok
    BY <1>8 DEF Unavailable, Record, Judged, Inv, TypeOK, Job
  <2>2. job[t].pc \in {"ask", "record"}
    BY <1>8 DEF Unavailable, Record, At
  <2> QED
    BY <1>1, <1>2, <1>3, <2>1, <2>2 DEF MayStand, Gates
<1>9. CASE Report(t) /\ job'[t].pc # "refuse"
  <2>1. job'[t].pc = "admit" /\ (~job[t].dirty \/ job[t].exempt)
    BY <1>9 DEF Report, Refused, Goto, Inv, TypeOK, Job
  <2>2. job[t].pc = "report"
    BY <1>9 DEF Report, At
  <2> QED
    BY <1>1, <1>2, <1>3, <2>1, <2>2 DEF MayStand, Gates
<1> QED
  BY <1>5, <1>6, <1>7, <1>8, <1>9

LEMMA ActorStood ==
    ASSUME Inv, Watch, NEW t \in Thread, Call(t) \/ Step(t) \/ Abort(t), NEW r \in stood'[t]
    PROVE  MayStand(job'[t], r)
<1>1. ASSUME NEW p \in scene.players, NEW ps \in scene.prints, BeginRegister(t, p, ps)
      PROVE  MayStand(job'[t], r)
  BY <1>1 DEF BeginRegister, Begin, Inv, TypeOK, Idle, MayStand
<1>2. ASSUME NEW d \in Device, NEW dirty \in scene.reports,
             BeginStart(t, d, dirty) \/ BeginHeartbeat(t, d, dirty)
      PROVE  MayStand(job'[t], r)
  <2>1. PICK c \in {"start", "heartbeat"} :
            job'[t] = [Idle EXCEPT !.call = c, !.pc = "device", !.player = device[d].of,
                                   !.dev = d, !.dirty = dirty]
    BY <1>2 DEF BeginStart, BeginHeartbeat, Begin, Inv, TypeOK
  <2>2. /\ job'[t].call \in {"start", "heartbeat"} /\ job'[t].pc = "device"
    BY <2>1 DEF Idle
  <2>3. r \in AgainstDevice(job[t])' \/ r \in AgainstLink(job[t])'
    BY <2>2, GateStands
  <2> QED
    BY <2>2, <2>3 DEF MayStand, AgainstDevice, AgainstLink, Gates
<1>3. CASE Rekey(t) \/ Insert(t) \/ Admit(t) \/ Refuse(t) \/ Abort(t)
  BY <1>3 DEF Rekey, Insert, Admit, Refuse, Abort, Done, Inv, TypeOK, Idle, MayStand
<1> QED
  BY <1>1, <1>2, <1>3, RegistrationStood, DeviceGatesStood, DiscordStood DEF Call, Step
-----------------------------------------------------------------------------
(* Who is to pass *)

\* FairOK of one call of a player.
Agrees(p, j) ==
    j.player = p =>
        /\ j.pc = "ask" => j.account = link[p].account /\ j.ok
        /\ j.pc = "record" => j.ok
        /\ j.why # "role"

LEMMA ActorFair ==
    ASSUME Inv, NEW t \in Thread, Call(t) \/ Step(t) \/ Abort(t), NEW p \in fair
    PROVE  Agrees(p, job[t])'
<1>1. link[p] # None /\ link[p].ok /\ link[p].account \in role /\ Agrees(p, job[t])
  BY DEF Inv, FairOK, HasRole, Agrees
<1>2. ASSUME NEW q \in scene.players, NEW ps \in scene.prints, BeginRegister(t, q, ps)
      PROVE  Agrees(p, job[t])'
  <2>1. job'[t] = [Idle EXCEPT !.call = "register", !.pc = "own", !.player = q, !.parts = ps]
    BY <1>2 DEF BeginRegister, Begin, Inv, TypeOK
  <2>2. job'[t].pc = "own" /\ job'[t].why = None
    BY <2>1 DEF Idle
  <2> QED
    BY <2>2, ConstantsAssumption DEF Agrees
<1>3. ASSUME NEW d \in Device, NEW dirty \in scene.reports,
             BeginStart(t, d, dirty) \/ BeginHeartbeat(t, d, dirty)
      PROVE  Agrees(p, job[t])'
  <2>1. PICK c \in {"start", "heartbeat"} :
            job'[t] = [Idle EXCEPT !.call = c, !.pc = "device", !.player = device[d].of,
                                   !.dev = d, !.dirty = dirty]
    BY <1>3 DEF BeginStart, BeginHeartbeat, Begin, Inv, TypeOK
  <2>2. job'[t].pc = "device" /\ job'[t].why = None
    BY <2>1 DEF Idle
  <2> QED
    BY <2>2, ConstantsAssumption DEF Agrees
<1>4. CASE Rekey(t) \/ Insert(t) \/ Admit(t) \/ Refuse(t) \/ Abort(t)
  <2>1. job'[t].player = None /\ p \in Player
    BY <1>4 DEF Rekey, Insert, Admit, Refuse, Abort, Done, Inv, TypeOK, Idle
  <2> QED
    BY <2>1, ConstantsAssumption DEF Agrees
<1>5. CASE FindOwn(t) \/ Review(t) \/ ReadDevice(t) \/ FindBypass(t) \/ ReadParts(t)
           \/ FindBan(t) \/ Report(t)
  <2>1. /\ job'[t].player = job[t].player /\ job'[t].pc \notin {"ask", "record"}
        /\ job'[t].why \in {job[t].why, "other"}
    BY <1>5 DEF FindOwn, Review, ReadDevice, FindBypass, ReadParts, FindBan, Report, Refused,
                Goto, Inv, TypeOK, Job
  <2> QED
    BY <1>1, <2>1 DEF Agrees
<1>6. CASE ReadLink(t) /\ job[t].player = p
  <2>1. \/ job'[t].pc = "refuse" /\ job'[t].why = "other"
        \/ job'[t].pc = "report" /\ job'[t].why = None
        \/ /\ job'[t].pc = "ask" /\ job'[t].why = job[t].why
           /\ job'[t].account = link[p].account /\ job'[t].ok = link[p].ok
    <3>1. job[t] \in Job /\ p = job[t].player
      BY <1>6 DEF Inv, TypeOK
    <3>2. CASE Young(t) /\ Judged(t, link[p].ok)
      <4>1. job' = [job EXCEPT ![t].pc = "report", ![t].why = None,
                               ![t].account = None, ![t].ok = FALSE]
        BY <1>1, <3>2 DEF Judged
      <4> QED
        BY <4>1 DEF Inv, TypeOK, Job
    <3>3. CASE Refused(t, "other")
      BY <3>3 DEF Refused, Inv, TypeOK, Job
    <3>4. CASE job' = [job EXCEPT ![t].pc = "ask", ![t].account = link[p].account,
                                  ![t].ok = link[p].ok]
      BY <3>4 DEF Inv, TypeOK, Job
    <3> QED
      BY <1>6, <3>1, <3>2, <3>3, <3>4 DEF ReadLink
  <2>2. link' = link
    BY <1>6 DEF ReadLink, tables
  <2> QED
    BY <1>1, <1>6, <2>1, <2>2, ConstantsAssumption DEF Agrees
<1>7. CASE Answered(t) /\ job[t].player = p
  <2>1. /\ job'[t].pc = "record" /\ job'[t].why = job[t].why
        /\ job'[t].ok <=> job[t].account \in role
    BY <1>7 DEF Answered, Inv, TypeOK, Job
  <2>2. job[t].account = link[p].account
    BY <1>1, <1>7 DEF Answered, At, Agrees
  <2> QED
    BY <1>1, <1>7, <2>1, <2>2 DEF Agrees
<1>8. CASE (Unavailable(t) \/ Record(t)) /\ job[t].player = p
  <2>1. job[t].ok
    BY <1>1, <1>8 DEF Unavailable, Record, At, Agrees
  <2>2. job'[t].pc = "report" /\ job'[t].why = None
    BY <1>8, <2>1 DEF Unavailable, Record, Judged, Inv, TypeOK, Job
  <2> QED
    BY <2>2, ConstantsAssumption DEF Agrees
<1>9. CASE /\ ReadLink(t) \/ Answered(t) \/ Unavailable(t) \/ Record(t)
           /\ job[t].player # p
  <2>1. job'[t].player = job[t].player
    BY <1>9 DEF ReadLink, Answered, Unavailable, Record, Refused, Judged, Inv, TypeOK, Job
  <2> QED
    BY <1>9, <2>1 DEF Agrees
<1> QED
  BY <1>2, <1>3, <1>4, <1>5, <1>6, <1>7, <1>8, <1>9 DEF Call, Step

LEMMA LinkWith ==
    ASSUME NEW l \in Link
    PROVE  [l EXCEPT !.ok = TRUE, !.age = 0] \in Link
<1> DEFINE ages == 0 .. 2
<1>1. 0 \in ages
  OBVIOUS
<1>2. l \in [account : Account, ok : BOOLEAN, age : ages]
  BY DEF Link
<1> HIDE DEF ages
<1>3. [l EXCEPT !.age = 0] \in [account : Account, ok : BOOLEAN, age : ages]
  BY <1>1, <1>2
<1>4. \A k \in [account : Account, ok : BOOLEAN, age : ages] :
          [k EXCEPT !.ok = TRUE] \in [account : Account, ok : BOOLEAN, age : ages]
  OBVIOUS
<1>5. [l EXCEPT !.ok = TRUE, !.age = 0] = [[l EXCEPT !.age = 0] EXCEPT !.ok = TRUE]
  BY <1>2
<1> QED
  BY <1>3, <1>4, <1>5 DEF Link, ages

LEMMA StepFair ==
    ASSUME Inv, NEW t \in Thread, Call(t) \/ Step(t) \/ Abort(t)
    PROVE  FairOK'
<1>1. fair' = fair /\ role' = role /\ \A u \in Thread \ {t} : job'[u] = job[u]
  BY DEF Inv, TypeOK, Call, Step, Abort, tables, BeginRegister, BeginStart, BeginHeartbeat,
         FindOwn, Rekey, Review, Insert, ReadDevice, FindBypass, ReadParts, FindBan, ReadLink,
         Answered, Unavailable, Record, Report, Admit, Refuse, Begin, Goto, Refused, Done, Judged
<1>2. ASSUME NEW p \in fair
      PROVE  /\ link[p] # None /\ link[p].ok /\ link[p].account \in role
             /\ \A u \in Thread : Agrees(p, job[u])
  BY DEF Inv, FairOK, HasRole, Agrees
<1>3. ASSUME NEW p \in fair
      PROVE  link'[p] # None /\ link'[p].ok /\ link'[p].account = link[p].account
  <2>1. CASE Record(t)
    <3>1. link[p] \in Link /\ p \in Player
      BY <1>2 DEF Inv, TypeOK, Links
    <3>2. job[t].player = p => job[t].ok
      BY <1>2, <2>1 DEF Record, At, Agrees
    <3>3. link'[p] = link[p] \/ link'[p] = [link[p] EXCEPT !.ok = job[t].ok, !.age = 0]
      BY <2>1, <3>1 DEF Record, Inv, TypeOK, Links
    <3>4. CASE job[t].player = p
      <4>1. job[t].ok = TRUE
        BY <3>2, <3>4 DEF Inv, TypeOK, Job
      <4>2. link'[p] = link[p] \/ link'[p] = [link[p] EXCEPT !.ok = TRUE, !.age = 0]
        BY <3>3, <4>1
      <4>3. \A l \in Link : [l EXCEPT !.ok = TRUE, !.age = 0] \in Link
        BY LinkWith
      <4> QED
        BY <1>2, <3>1, <4>2, <4>3, ConstantsAssumption DEF Link
    <3>5. CASE job[t].player # p
      BY <1>2, <2>1, <3>5 DEF Record, Inv, TypeOK, Links
    <3> QED
      BY <3>4, <3>5
  <2>2. CASE link' = link
    BY <1>2, <2>2
  <2> QED
    BY <2>1, <2>2
    DEF Call, Step, Abort, tables, BeginRegister, BeginStart, BeginHeartbeat, FindOwn, Rekey,
        Review, Insert, ReadDevice, FindBypass, ReadParts, FindBan, ReadLink, Answered,
        Unavailable, Report, Admit, Refuse
<1>4. ASSUME NEW p \in fair, NEW u \in Thread
      PROVE  Agrees(p, job[u])'
  <2>1. CASE u = t
    BY <2>1, ActorFair
  <2>2. CASE u # t
    BY <1>1, <1>2, <1>3, <2>2 DEF Agrees
  <2> QED
    BY <2>1, <2>2
<1> QED
  BY <1>1, <1>2, <1>3, <1>4 DEF FairOK, HasRole, Agrees

LEMMA WorldFair ==
    ASSUME Inv, World
    PROVE  FairOK'
<1>1. job' = job
  BY DEF World, EndLease, SetStatus, AddBan, DropBan, Bypass, Unlink, Age, LinkAccount,
         RoleChange, Confirm, Forget
<1>2. scene.players \subseteq Player /\ fair \subseteq Player
  BY DEF Inv, TypeOK, SceneType
<1>3. ASSUME NEW a \in scene.accounts, RoleChange(a)
      PROVE  FairOK'
  BY <1>1, <1>3 DEF Inv, RoleChange, FairOK, HasRole
<1>4. ASSUME NEW p \in scene.players, NEW a \in proven, LinkAccount(p, a)
      PROVE  FairOK'
  <2>1. ASSUME NEW q \in fair'
        PROVE  /\ HasRole(q)' /\ link'[q].ok
               /\ \A t \in Thread : job[t].player = q =>
                     /\ job[t].pc = "ask" => job[t].account = link'[q].account /\ job[t].ok
                     /\ job[t].pc = "record" => job[t].ok
                     /\ job[t].why # "role"
    <3>1. CASE q = p
      <4>1. a \in role /\ ~Checking(p)
        BY <1>4, <2>1, <3>1 DEF LinkAccount
      <4>2. link'[p] = [account |-> a, ok |-> TRUE, age |-> 0] /\ role' = role
        BY <1>2, <1>4 DEF LinkAccount, Inv, TypeOK, Links
      <4>3. link'[p] \in Link
        BY <4>1, <4>2 DEF Inv, TypeOK, Link
      <4>4. link'[p] # None /\ link'[p].account = a /\ link'[p].ok
        <5>1. link'[p] # None
          BY <4>3, ConstantsAssumption
        <5>2. link'[p].account = a /\ link'[p].ok = TRUE
          BY <4>2
        <5> QED
          BY <5>1, <5>2
      <4>5. \A t \in Thread : job[t].player = p =>
                job[t].pc \notin {"ask", "record"} /\ job[t].why # "role"
        BY <4>1 DEF Checking
      <4> QED
        BY <3>1, <4>1, <4>2, <4>4, <4>5 DEF HasRole
    <3>2. CASE q # p
      <4>1. q \in fair /\ link'[q] = link[q] /\ role' = role
        BY <1>2, <1>4, <2>1, <3>2 DEF LinkAccount, Inv, TypeOK, Links
      <4> QED
        BY <4>1 DEF Inv, FairOK, HasRole
    <3> QED
      BY <3>1, <3>2
  <2> QED
    BY <1>1, <2>1 DEF FairOK
<1>5. ASSUME NEW p \in scene.players, Unlink(p)
      PROVE  FairOK'
  BY <1>1, <1>2, <1>5 DEF Inv, TypeOK, Links, Unlink, FairOK, HasRole
<1>6. ASSUME NEW p \in scene.players, Age(p)
      PROVE  FairOK'
  <2>1. link[p] \in Link
    BY <1>2, <1>6 DEF Age, Inv, TypeOK, Links
  <2>2. /\ link'[p] = [link[p] EXCEPT !.age = @ + 1]
        /\ \A q \in Player \ {p} : link'[q] = link[q]
    BY <1>2, <1>6 DEF Age, Inv, TypeOK, Links
  <2>3. link'[p] \in [account : Account, ok : BOOLEAN, age : {link[p].age + 1}]
    BY <2>1, <2>2 DEF Link
  <2>4. link'[p] \in Link
    BY <1>6, <2>1, <2>3 DEF Age, Link
  <2>5. link'[p].account = link[p].account /\ link'[p].ok = link[p].ok /\ link'[p] # None
    BY <2>1, <2>2, <2>4, ConstantsAssumption DEF Link
  <2>6. fair' = fair /\ role' = role
    BY <1>6 DEF Age
  <2> QED
    <3>1. ASSUME NEW q \in fair
          PROVE  /\ link'[q].account = link[q].account /\ link'[q].ok = link[q].ok
                 /\ link'[q] = None => link[q] = None
      BY <1>2, <2>2, <2>5
    <3> QED
      BY <1>1, <2>6, <3>1 DEF Inv, FairOK, HasRole
<1>7. CASE UNCHANGED <<link, role, fair>>
  BY <1>1, <1>7 DEF Inv, FairOK, HasRole
<1> QED
  BY <1>3, <1>4, <1>5, <1>6, <1>7
  DEF World, EndLease, SetStatus, AddBan, DropBan, Bypass, Confirm, Forget
-----------------------------------------------------------------------------
LEMMA InitInv ==
    ASSUME Init
    PROVE  Inv
<1>1. TypeOK
  BY ConstantsAssumption, IdleTyped DEF Init, TypeOK, SceneType
<1> QED
  BY <1>1, ConstantsAssumption
  DEF Init, Inv, JobsOK, JobOK, StoodOK, FairOK, Idle, Calls

LEMMA NextInv ==
    ASSUME Inv, Next
    PROVE  Inv'
<1>1. OwnersStay /\ Watch
  BY OwnersKept DEF Inv, Next
<1>2. ASSUME NEW t \in Thread, Call(t) \/ Step(t) \/ Abort(t)
      PROVE  Inv'
  <2>1. TypeOK' /\ FairOK'
    BY <1>1, <1>2, StepTyped, StepFair DEF Inv
  <2>2. \A u \in Thread \ {t} : job'[u] = job[u]
    BY <1>2 DEF Inv, TypeOK, Call, Step, Abort, tables, BeginRegister, BeginStart, BeginHeartbeat,
         FindOwn, Rekey, Review, Insert, ReadDevice, FindBypass, ReadParts, FindBan, ReadLink,
         Answered, Unavailable, Record, Report, Admit, Refuse, Begin, Goto, Refused, Done, Judged
  <2>3. ASSUME NEW u \in Thread
        PROVE  JobOK(job[u])'
    BY <1>1, <1>2, <2>2, ActorOK, OthersOK DEF Inv
  <2>4. ASSUME NEW u \in Thread, NEW r \in stood'[u]
        PROVE  MayStand(job'[u], r)
    BY <1>1, <1>2, <2>2, ActorStood, OthersStood
  <2> QED
    BY <2>1, <2>3, <2>4 DEF Inv, JobsOK, StoodOK, MayStand
<1>3. CASE World
  <2>1. TypeOK' /\ FairOK'
    BY <1>1, <1>3, WorldTyped, WorldFair DEF Inv
  <2>2. job' = job
    BY <1>3 DEF World, EndLease, SetStatus, AddBan, DropBan, Bypass, Unlink, Age, LinkAccount,
                RoleChange, Confirm, Forget
  <2>3. ASSUME NEW u \in Thread
        PROVE  JobOK(job[u])'
    BY <1>1, <2>2, OthersOK
  <2>4. ASSUME NEW u \in Thread, NEW r \in stood'[u]
        PROVE  MayStand(job'[u], r)
    BY <1>1, <2>2, OthersStood
  <2> QED
    BY <2>1, <2>3, <2>4 DEF Inv, JobsOK, StoodOK, MayStand
<1> QED
  BY <1>2, <1>3 DEF Next

LEMMA StutterInv ==
    ASSUME Inv, UNCHANGED vars
    PROVE  Inv'
  BY DEF Inv, TypeOK, JobsOK, JobOK, StoodOK, MayStand, FairOK, HasRole, vars

\* The inductive invariant holds in every state.
THEOREM Invariance == Spec => []Inv
  BY InitInv, NextInv, StutterInv, PTL DEF Spec

\* Every variable keeps its type, and a lease belongs to a registered PC.
THEOREM TypeCorrect == Spec => []TypeOK
<1>1. Inv => TypeOK
  BY DEF Inv
<1> QED
  BY <1>1, Invariance, PTL

LEMMA NothingStood ==
    ASSUME Inv
    PROVE  NothingStandsAgainst
<1>1. ASSUME NEW t \in Thread, NEW r \in stood[t], job[t].pc = "admit"
      PROVE  FALSE
  <2>1. job[t].call # "register"
    BY <1>1, AtGate DEF Inv, Gates
  <2> QED
    BY <1>1, <2>1 DEF Inv, StoodOK, MayStand
<1>2. ASSUME NEW t \in Thread, NEW r \in stood[t],
             job[t].pc = "insert", job[t].status = "approved"
      PROVE  FALSE
  BY <1>2 DEF Inv, StoodOK, MayStand, Gates
<1> QED
  BY <1>1, <1>2 DEF NothingStandsAgainst

\* No lease is granted or renewed, and no PC approved by itself, by a call against which something
\* has spoken all the time since it began: whatever changes between the store calls that read the
\* device, the bypasses, the bans and the link, and while Discord is asked (sessions.py).
THEOREM NothingStands == Spec => []NothingStandsAgainst
  BY Invariance, NothingStood, PTL

\* Who linked an account with the role, and has kept it, is never refused for the role
\* (discord_gate.py).
THEOREM RoleHoldersPass == Spec => []RoleHolderPasses
<1>1. Inv => RoleHolderPasses
  BY DEF Inv, FairOK, RoleHolderPasses
<1> QED
  BY <1>1, Invariance, PTL
=============================================================================
