----------------------------- MODULE LoginProofs -----------------------------
(***************************************************************************)
(* Proofs about Login, for every number of logins, codes, accounts and     *)
(* threads.                                                                *)
(***************************************************************************)
EXTENDS Login, TLAPS

(* All that Next can do. *)
LEMMA Cases ==
    ASSUME Next
    PROVE  \/ Start
           \/ \E w \in Worker, l \in Login : BeginSteam(w, l) \/ BeginDiscord(w, l)
           \/ \E w \in Worker, s \in Steam : SteamConfirms(w, s)
           \/ \E w \in Worker, d \in Discord : DiscordConfirms(w, d)
           \/ \E w \in Worker : Refused(w) \/ Settle(w)
           \/ \E w \in Worker, c \in Code : Finish(w, c) \/ Redeem(w, c)
           \/ \E w \in Worker : ReadFailure(w) \/ ReadSteam(w) \/ ReadDiscord(w)
           \/ \E w \in Worker : ByDiscord(w) \/ BySteam(w) \/ Upsert(w)
           \/ \E s \in Steam : Unlink(s)
           \/ \E l \in Login : Expire(l)
           \/ Restart
BY DEF Next, Handle

-----------------------------------------------------------------------------
(* Typing.  A thread in a callback or a redemption has a login in hand.    *)

Holding == {"steam", "discord", "settle", "finish", "redeemed", "readSteam", "readDiscord"}
USE DEF Holding

JobOK == \A w \in Worker : job[w].pc \in Holding => job[w].login \in Login

Basic == TypeOK /\ JobOK

(* What a step leaves in job.                                              *)
JobGood == job \in [Worker -> Job] /\ JobOK

LEMMA IdleType == Idle \in Job
BY DEF Idle, Job

LEMMA SetType ==
    ASSUME JobGood, NEW w \in Worker, NEW new \in Job,
           new.pc \in Holding => new.login \in Login,
           job' = [job EXCEPT ![w] = new]
    PROVE  JobGood'
BY DEF JobGood, JobOK

LEMMA ReturnType ==
    ASSUME JobGood, NEW w \in Worker, Return(w)
    PROVE  JobGood'
<1>1. Idle.pc = "idle"
  BY DEF Idle
<1> QED BY <1>1, IdleType, SetType DEF Return

LEMMA GotoType ==
    ASSUME JobGood, NEW w \in Worker,
           NEW pc \in {"settle", "finish", "readSteam", "bySteam"}, Goto(w, pc),
           job[w].login \in Login \/ pc = "bySteam"
    PROVE  JobGood'
<1> DEFINE new == [job[w] EXCEPT !.pc = pc]
<1>1. job[w] \in Job
  BY DEF JobGood
<1>2. new \in Job /\ new.pc = pc /\ new.login = job[w].login
  BY <1>1 DEF Job
<1>3. job' = [job EXCEPT ![w] = new]
  BY DEF Goto
<1> QED BY <1>2, <1>3, SetType

LEMMA BasicInit == ASSUME Init PROVE Basic
<1>1. job \in [Worker -> Job] /\ JobOK
  BY IdleType DEF Init, JobOK, Idle
<1>2. login \in [Login -> [steam : Steam \cup {"none"}, discord : Discord \cup {"none"}, failed : BOOLEAN]]
  BY DEF Init, Started
<1> QED BY <1>1, <1>2 DEF Init, Basic, TypeOK

LEMMA BasicStep == ASSUME Basic, [Next]_vars PROVE Basic'
<1> USE DEF Basic, TypeOK, pending
<1>0. JobGood
  BY DEF JobGood
<1>1. CASE Start
  BY <1>1 DEF Start, Sweep, JobOK
<1>2. ASSUME NEW w \in Worker, NEW l \in Login, BeginSteam(w, l) \/ BeginDiscord(w, l) PROVE Basic'
  <2>1. ASSUME NEW pc \in {"steam", "discord"}, job' = [job EXCEPT ![w] = [Idle EXCEPT !.pc = pc, !.login = l]]
        PROVE  JobGood'
    <3> DEFINE new == [Idle EXCEPT !.pc = pc, !.login = l]
    <3>1. new \in Job /\ new.login = l
      BY DEF Idle, Job
    <3> HIDE DEF new
    <3> QED BY <1>0, <2>1, <3>1, SetType DEF new
  <2>2. JobGood'
    BY <1>2, <2>1 DEF BeginSteam, BeginDiscord
  <2> QED BY <1>2, <2>2 DEF BeginSteam, BeginDiscord, JobGood
<1>3. ASSUME NEW w \in Worker, NEW s \in Steam, SteamConfirms(w, s) PROVE Basic'
  <2>1. JobGood'
    BY <1>0, <1>3, ReturnType, GotoType DEF SteamConfirms, JobOK
  <2> QED BY <1>3, <2>1 DEF SteamConfirms, JobGood
<1>4. ASSUME NEW w \in Worker, NEW d \in Discord, DiscordConfirms(w, d) PROVE Basic'
  <2>1. JobGood'
    BY <1>0, <1>4, GotoType DEF DiscordConfirms, JobOK
  <2> QED BY <1>4, <2>1 DEF DiscordConfirms, JobGood
<1>5. ASSUME NEW w \in Worker, Refused(w) PROVE Basic'
  <2> DEFINE new == [job[w] EXCEPT !.pc = "settle", !.failing = TRUE]
  <2>1. job[w] \in Job /\ job[w].login \in Login
    BY <1>5 DEF Refused, JobOK
  <2>2. new \in Job /\ new.login = job[w].login
    BY <2>1 DEF Job
  <2>3. job' = [job EXCEPT ![w] = new]
    BY <1>5 DEF Refused
  <2> HIDE DEF new
  <2>4. JobGood'
    BY <1>0, <2>1, <2>2, <2>3, SetType
  <2> QED BY <1>5, <2>4 DEF Refused, JobGood
<1>6. ASSUME NEW w \in Worker, Settle(w) PROVE Basic'
  <2>1. JobGood'
    BY <1>0, <1>6, GotoType DEF Settle, JobOK
  <2>2. login' = [login EXCEPT ![job[w].login] = [login[job[w].login] EXCEPT !.failed = job[w].failing]]
    BY <1>6 DEF Settle
  <2>3. job[w].login \in Login /\ job[w].failing \in BOOLEAN
    BY <1>0, <1>6 DEF Settle, JobOK, JobGood, Job
  <2>4. [login[job[w].login] EXCEPT !.failed = job[w].failing]
           \in [steam : Steam \cup {"none"}, discord : Discord \cup {"none"}, failed : BOOLEAN]
    BY <2>3
  <2>5. login' \in [Login -> [steam : Steam \cup {"none"}, discord : Discord \cup {"none"}, failed : BOOLEAN]]
    BY <2>2, <2>3, <2>4, Zenon
  <2> QED BY <1>6, <2>1, <2>5 DEF Settle, JobGood
<1>7. ASSUME NEW w \in Worker, NEW c \in Code, Finish(w, c) PROVE Basic'
  <2>1. JobGood'
    BY <1>0, <1>7, ReturnType DEF Finish
  <2> QED BY <1>7, <2>1 DEF Finish, JobGood, JobOK
<1>8. ASSUME NEW w \in Worker, NEW c \in Code, Redeem(w, c) PROVE Basic'
  <2> DEFINE new == [Idle EXCEPT !.pc = "redeemed", !.login = byCode[c]]
  <2>1. new \in Job /\ new.login \in Login
    BY <1>8 DEF Redeem, Idle, Job
  <2>2. job' = [job EXCEPT ![w] = new]
    BY <1>8 DEF Redeem
  <2> HIDE DEF new
  <2>3. JobGood'
    BY <1>0, <2>1, <2>2, SetType
  <2> QED BY <1>8, <2>3 DEF Redeem, JobGood
<1>9. ASSUME NEW w \in Worker, ReadFailure(w) \/ ReadSteam(w) \/ ReadDiscord(w) PROVE Basic'
  <2>1. job[w] \in Job /\ job[w].login \in Login
    BY <1>9 DEF ReadFailure, ReadSteam, ReadDiscord, JobOK
  <2>2. CASE ReadFailure(w)
    <3>1. JobGood'
      BY <1>0, <2>1, <2>2, ReturnType, GotoType DEF ReadFailure
    <3> QED BY <2>2, <3>1 DEF ReadFailure, JobGood
  <2>3. CASE ReadSteam(w)
    <3> DEFINE new == [job[w] EXCEPT !.pc = "readDiscord", !.steam = login[job[w].login].steam]
    <3>1. new \in Job /\ new.login = job[w].login
      BY <2>1 DEF Job
    <3>2. job' = [job EXCEPT ![w] = new]
      BY <2>3 DEF ReadSteam
    <3> HIDE DEF new
    <3>3. JobGood'
      BY <1>0, <2>1, <3>1, <3>2, SetType
    <3> QED BY <2>3, <3>3 DEF ReadSteam, JobGood
  <2>4. CASE ReadDiscord(w)
    <3> DEFINE new == [job[w] EXCEPT !.pc = "byDiscord", !.discord = login[job[w].login].discord]
    <3>1. new \in Job /\ new.login = job[w].login
      BY <2>1 DEF Job
    <3>2. job' = [job EXCEPT ![w] = new]
      BY <2>4 DEF ReadDiscord
    <3> HIDE DEF new
    <3>3. JobGood'
      BY <1>0, <2>1, <3>1, <3>2, SetType
    <3> QED BY <2>4, <3>3 DEF ReadDiscord, JobGood
  <2> QED BY <1>9, <2>2, <2>3, <2>4
<1>10. ASSUME NEW w \in Worker, ByDiscord(w) PROVE Basic'
  <2>1. JobGood'
    BY <1>0, <1>10, ReturnType, GotoType DEF ByDiscord
  <2> QED BY <1>10, <2>1 DEF ByDiscord, JobGood
<1>11. ASSUME NEW w \in Worker, BySteam(w) PROVE Basic'
  <2> DEFINE new == [job[w] EXCEPT !.pc = "upsert", !.seen = link[job[w].steam]]
  <2>1. Return(w) \/ (job' = [job EXCEPT ![w] = new] /\ link[job[w].steam] \in {"none", job[w].discord})
    BY <1>11 DEF BySteam
  <2>2. job[w] \in Job /\ job[w].discord \in Discord \cup {"none"}
    BY DEF Job
  <2>3. link[job[w].steam] \in {"none", job[w].discord} => new \in Job /\ new.pc = "upsert"
    BY <2>2 DEF Job
  <2> HIDE DEF new
  <2>4. JobGood'
    BY <1>0, <2>1, <2>3, SetType, ReturnType
  <2> QED BY <1>11, <2>4 DEF BySteam, JobGood
<1>12. ASSUME NEW w \in Worker, Upsert(w) PROVE Basic'
  <2>1. JobGood'
    BY <1>0, <1>12, ReturnType DEF Upsert
  <2>2. job[w].discord \in Discord \cup {"none"}
    BY DEF Job
  <2> QED BY <1>12, <2>1, <2>2 DEF Upsert, JobGood
<1>13. ASSUME NEW s \in Steam, Unlink(s) PROVE Basic'
  BY <1>13 DEF Unlink, JobOK
<1>14. ASSUME NEW l \in Login, Expire(l) PROVE Basic'
  BY <1>14 DEF Expire, JobOK
<1>15. CASE Restart
  <2>1. job' \in [Worker -> Job] /\ JobOK'
    BY <1>15, IdleType DEF Restart, JobOK, Idle
  <2> QED BY <1>15, <2>1 DEF Restart
<1>16. CASE UNCHANGED vars
  BY <1>16 DEF vars, JobOK
<1> QED BY <1>1, <1>2, <1>3, <1>4, <1>5, <1>6, <1>7, <1>8, <1>9, <1>10, <1>11, <1>12, <1>13,
           <1>14, <1>15, <1>16, Cases

LEMMA BasicAlways == Spec => []Basic
<1>1. Init => Basic
  BY BasicInit
<1>2. Basic /\ [Next]_vars => Basic'
  BY BasicStep
<1> QED BY <1>1, <1>2, PTL DEF Spec

(* Every variable of Login keeps its type. *)
THEOREM TypeCorrect == Spec => []TypeOK
<1>1. Basic => TypeOK
  BY DEF Basic
<1> QED BY <1>1, BasicAlways, PTL

-----------------------------------------------------------------------------
(* LinksOneToOne is inductive over the types: only Upsert makes a link.    *)

LEMMA OneToOneStep == ASSUME Basic, LinksOneToOne, [Next]_vars PROVE LinksOneToOne'
<1> USE DEF LinksOneToOne, pending
<1>1. ASSUME NEW w \in Worker, Upsert(w) PROVE LinksOneToOne'
  <2>1. CASE LinkedElsewhere(job[w].steam, job[w].discord)
    BY <1>1, <2>1 DEF Upsert
  <2>2. CASE ~LinkedElsewhere(job[w].steam, job[w].discord)
    <3>1. \A s \in Steam \ {job[w].steam} : link[s] # job[w].discord
      BY <2>2 DEF LinkedElsewhere
    <3>2. \A s \in Steam : link'[s] = IF s = job[w].steam THEN job[w].discord ELSE link[s]
      BY <1>1, <2>2 DEF Upsert, Basic, TypeOK
    <3> QED BY <3>1, <3>2
  <2> QED BY <2>1, <2>2
<1>2. ASSUME NEW s \in Steam, Unlink(s) PROVE LinksOneToOne'
  BY <1>2 DEF Unlink, Basic, TypeOK
<1>3. CASE UNCHANGED link
  BY <1>3
<1>4. Next => UNCHANGED link \/ (\E w \in Worker : Upsert(w)) \/ (\E s \in Steam : Unlink(s))
  BY Cases DEF Start, BeginSteam, BeginDiscord, SteamConfirms, DiscordConfirms, Refused, Settle, Finish,
               Redeem, ReadFailure, ReadSteam, ReadDiscord, ByDiscord, BySteam, Expire, Restart
<1> QED BY <1>1, <1>2, <1>3, <1>4 DEF vars

(* A Discord account is linked to one Steam ID at most, whatever logins,   *)
(* redemptions and unlinks overlap (service.py:143).                       *)
THEOREM LinksAreOneToOne == Spec => []LinksOneToOne
<1>1. Init => LinksOneToOne
  BY DEF Init, LinksOneToOne
<1>2. Basic /\ LinksOneToOne /\ [Next]_vars => LinksOneToOne'
  BY OneToOneStep
<1> QED BY <1>1, <1>2, BasicAlways, PTL DEF Spec

-----------------------------------------------------------------------------
(* RedeemedIsProven.  A login that is proven stays proven, whatever failure *)
(* another callback of it records, and its failure is cleared only by a     *)
(* callback that has proven it.                                             *)

(* The conclusion thread w has drawn about the login it has in hand.        *)
Knows(w) ==
    /\ job[w].pc = "discord" => login[job[w].login].steam # "none"
    /\ job[w].pc = "settle" /\ ~job[w].failing => Proven(job[w].login)
    /\ job[w].pc \in {"finish", "redeemed"} => login[job[w].login].failed \/ Proven(job[w].login)
    /\ job[w].pc \in {"readSteam", "readDiscord"} => required /\ Proven(job[w].login)
    /\ job[w].pc \in {"readDiscord", "byDiscord", "bySteam", "upsert"} => job[w].steam # "none"
    /\ job[w].pc \in {"byDiscord", "bySteam", "upsert"} => job[w].discord # "none"

Sound(l) == login[l].failed \/ Proven(l)

CodesSound == \A c \in Code : byCode[c] \in Login => Sound(byCode[c])

ProvenInv ==
    /\ Basic
    /\ CodesSound
    /\ \A w \in Worker : Knows(w)

(* Steps that leave the login objects alone keep what the others know.     *)
LEMMA LoginsKept ==
    ASSUME ProvenInv, NEW w \in Worker, UNCHANGED <<required, login>>,
           \A v \in Worker \ {w} : job'[v] = job[v], Knows(w)',
           \A c \in Code : byCode'[c] \in Login => byCode'[c] = byCode[c] \/ \E l \in Login : byCode'[c] = l /\ Sound(l)
    PROVE  /\ CodesSound'
           /\ \A v \in Worker : Knows(v)'
<1>1. \A l : Proven(l)' = Proven(l) /\ Sound(l)' = Sound(l)
  BY DEF Proven, Sound
<1>2. ASSUME NEW v \in Worker \ {w} PROVE Knows(v)'
  BY <1>1 DEF ProvenInv, Knows
<1>3. CodesSound'
  BY <1>1 DEF ProvenInv, CodesSound
<1> QED BY <1>2, <1>3

(* Steps that write one login object: what is proven stays proven, and     *)
(* what is sound stays sound.                                              *)
LEMMA LoginChanged ==
    ASSUME ProvenInv, NEW w \in Worker, UNCHANGED <<required, byCode>>,
           \A v \in Worker \ {w} : job'[v] = job[v], Knows(w)',
           \A l \in Login : /\ login[l].steam # "none" => login'[l].steam # "none"
                            /\ Proven(l) => Proven(l)'
                            /\ Sound(l) => Sound(l)'
    PROVE  /\ CodesSound'
           /\ \A v \in Worker : Knows(v)'
<1>1. ASSUME NEW v \in Worker \ {w} PROVE Knows(v)'
  BY DEF ProvenInv, Basic, JobOK, Knows, Sound
<1>2. CodesSound'
  BY DEF ProvenInv, CodesSound
<1> QED BY <1>1, <1>2

(* A step that only moves thread w, or changes nothing but byId, expired,  *)
(* link and the codes that are gone.                                       *)
LEMMA Elsewhere ==
    ASSUME ProvenInv, UNCHANGED <<required, login>>,
           \A w \in Worker : job'[w] = job[w] \/ job'[w] = Idle,
           \A c \in Code : byCode'[c] \in Login => byCode'[c] = byCode[c]
    PROVE  CodesSound' /\ \A w \in Worker : Knows(w)'
<1>1. \A l : Proven(l)' = Proven(l) /\ Sound(l)' = Sound(l)
  BY DEF Proven, Sound
<1>2. CodesSound'
  BY <1>1 DEF ProvenInv, CodesSound
<1>3. ASSUME NEW w \in Worker PROVE Knows(w)'
  BY <1>1 DEF ProvenInv, Knows, Idle
<1> QED BY <1>2, <1>3

LEMMA ReturnKnows ==
    ASSUME job \in [Worker -> Job], NEW w \in Worker, Return(w)
    PROVE  Knows(w)'
<1>1. job'[w].pc = "idle"
  BY DEF Return, Idle
<1> QED BY <1>1 DEF Knows

LEMMA GotoKnows ==
    ASSUME job \in [Worker -> Job], NEW w \in Worker, NEW pc, Goto(w, pc)
    PROVE  job'[w].pc = pc /\ job'[w].login = job[w].login /\ job'[w].failing = job[w].failing
           /\ job'[w].steam = job[w].steam /\ job'[w].discord = job[w].discord
BY DEF Goto, Job

LEMMA ProvenStep == ASSUME ProvenInv, Basic', [Next]_vars PROVE ProvenInv'
<1> USE DEF pending
<1>0. SUFFICES CodesSound' /\ \A w \in Worker : Knows(w)'
  BY DEF ProvenInv
<1>a. /\ job \in [Worker -> Job] /\ JobOK
      /\ login \in [Login -> [steam : Steam \cup {"none"}, discord : Discord \cup {"none"}, failed : BOOLEAN]]
      /\ byCode \in [Code -> Login \cup {"unissued", "gone"}]
      /\ required \in Required
  BY DEF ProvenInv, Basic, TypeOK
<1>b. \A w \in Worker : Knows(w)
  BY DEF ProvenInv
<1>1. CASE Start
  BY <1>1, <1>a, ConstantsAssumption, Elsewhere DEF Start, Sweep
<1>2. ASSUME NEW w \in Worker, NEW l \in Login, BeginSteam(w, l) \/ BeginDiscord(w, l)
      PROVE  CodesSound' /\ \A v \in Worker : Knows(v)'
  <2>1. Knows(w)'
    BY <1>2, <1>a DEF BeginSteam, BeginDiscord, Knows, Idle
  <2> QED BY <1>2, <1>a, <2>1, LoginsKept DEF BeginSteam, BeginDiscord
<1>3. ASSUME NEW w \in Worker, NEW s \in Steam, SteamConfirms(w, s)
      PROVE  CodesSound' /\ \A v \in Worker : Knows(v)'
  <2>1. login' = [login EXCEPT ![job[w].login] = [login[job[w].login] EXCEPT !.steam = s]]
    BY <1>3 DEF SteamConfirms
  <2>2. s # "none"
    BY ConstantsAssumption
  <2>3. ASSUME NEW l \in Login
        PROVE  /\ login[l].steam # "none" => login'[l].steam # "none"
               /\ Proven(l) => Proven(l)'
               /\ Sound(l) => Sound(l)'
    BY <1>3, <1>a, <2>1, <2>2 DEF SteamConfirms, Proven, Sound
  <2>4. Knows(w)'
    <3>1. CASE required
      BY <1>3, <1>a, <3>1, ReturnKnows DEF SteamConfirms
    <3>2. CASE ~required
      <4>1. job'[w].pc = "settle" /\ job'[w].login = job[w].login /\ job[w].login \in Login
        BY <1>3, <1>a, <3>2, GotoKnows DEF SteamConfirms, JobOK
      <4>2. Proven(job[w].login)'
        BY <1>3, <1>a, <2>1, <2>2, <3>2, <4>1 DEF SteamConfirms, Proven
      <4> QED BY <4>1, <4>2 DEF Knows
    <3> QED BY <3>1, <3>2
  <2> QED BY <1>3, <1>a, <2>3, <2>4, LoginChanged DEF SteamConfirms, Return, Goto
<1>4. ASSUME NEW w \in Worker, NEW d \in Discord, DiscordConfirms(w, d)
      PROVE  CodesSound' /\ \A v \in Worker : Knows(v)'
  <2>1. login' = [login EXCEPT ![job[w].login] = [login[job[w].login] EXCEPT !.discord = d]]
    BY <1>4 DEF DiscordConfirms
  <2>2. d # "none"
    BY ConstantsAssumption
  <2>3. ASSUME NEW l \in Login
        PROVE  /\ login[l].steam # "none" => login'[l].steam # "none"
               /\ Proven(l) => Proven(l)'
               /\ Sound(l) => Sound(l)'
    BY <1>4, <1>a, <2>1, <2>2 DEF DiscordConfirms, Proven, Sound
  <2>4. Knows(w)'
    BY <1>4, <1>a, <1>b, <2>1, <2>2 DEF DiscordConfirms, Knows, Proven, Goto, JobOK
  <2> QED BY <1>4, <1>a, <2>3, <2>4, LoginChanged DEF DiscordConfirms, Goto
<1>5. ASSUME NEW w \in Worker, Refused(w)
      PROVE  CodesSound' /\ \A v \in Worker : Knows(v)'
  <2>1. Knows(w)'
    BY <1>5, <1>a DEF Refused, Knows
  <2> QED BY <1>5, <1>a, <2>1, LoginsKept DEF Refused
<1>6. ASSUME NEW w \in Worker, Settle(w)
      PROVE  CodesSound' /\ \A v \in Worker : Knows(v)'
  <2>1. login' = [login EXCEPT ![job[w].login] = [login[job[w].login] EXCEPT !.failed = job[w].failing]]
    BY <1>6 DEF Settle
  <2>2. job[w].login \in Login /\ (job[w].failing \/ Proven(job[w].login))
    BY <1>6, <1>a, <1>b DEF Settle, JobOK, Knows
  <2>3. ASSUME NEW l \in Login
        PROVE  /\ login[l].steam # "none" => login'[l].steam # "none"
               /\ Proven(l) => Proven(l)'
               /\ Sound(l) => Sound(l)'
    BY <1>6, <1>a, <2>1, <2>2 DEF Settle, Proven, Sound
  <2>4. job'[w].pc = "finish" /\ job'[w].login = job[w].login
    BY <1>6, <1>a DEF Settle, Goto
  <2>5. Sound(job[w].login)'
    BY <1>6, <1>a, <2>1, <2>2, <2>3, <2>4 DEF Settle, Sound
  <2>6. Knows(w)'
    BY <2>4, <2>5 DEF Knows, Sound
  <2> QED BY <1>6, <1>a, <2>3, <2>6, LoginChanged DEF Settle, Goto
<1>7. ASSUME NEW w \in Worker, NEW c \in Code, Finish(w, c)
      PROVE  CodesSound' /\ \A v \in Worker : Knows(v)'
  <2>1. Knows(w)'
    BY <1>7, <1>a DEF Finish, Return, Knows, Idle
  <2>2. job[w].login \in Login /\ Sound(job[w].login)
    BY <1>7, <1>a, <1>b DEF Finish, JobOK, Knows, Sound
  <2> QED BY <1>7, <1>a, <2>1, <2>2, LoginsKept DEF Finish, Return
<1>8. ASSUME NEW w \in Worker, NEW c \in Code, Redeem(w, c)
      PROVE  CodesSound' /\ \A v \in Worker : Knows(v)'
  <2>1. Sound(byCode[c]) /\ UNCHANGED <<required, login>>
    BY <1>8 DEF Redeem, ProvenInv, CodesSound
  <2>2. job'[w].pc = "redeemed" /\ job'[w].login = byCode[c]
    BY <1>8, <1>a DEF Redeem, Idle
  <2>3. Knows(w)'
    <3>1. Sound(job[w].login)'
      BY <2>1, <2>2 DEF Sound, Proven
    <3> QED BY <2>2, <3>1 DEF Knows, Sound
  <2> QED BY <1>8, <1>a, <2>3, ConstantsAssumption, LoginsKept DEF Redeem
<1>9. ASSUME NEW w \in Worker, ReadFailure(w) \/ ReadSteam(w) \/ ReadDiscord(w)
      PROVE  CodesSound' /\ \A v \in Worker : Knows(v)'
  <2>1. UNCHANGED <<required, byCode, login>> /\ \A v \in Worker \ {w} : job'[v] = job[v]
    BY <1>9, <1>a DEF ReadFailure, ReadSteam, ReadDiscord, Return, Goto
  <2>2. CASE ReadFailure(w)
    <3>1. Knows(w)'
      <4>1. CASE Return(w)
        BY <1>a, <4>1, ReturnKnows
      <4>2. CASE Goto(w, "readSteam") /\ ~login[job[w].login].failed /\ required
        <5>1. Proven(job[w].login)
          BY <1>b, <2>2, <4>2 DEF Knows, ReadFailure
        <5>2. Proven(job[w].login)'
          BY <2>1, <4>2, <5>1, <1>a, GotoKnows DEF Proven
        <5> QED BY <1>a, <2>1, <4>2, <5>2, GotoKnows DEF Knows
      <4> QED BY <2>2, <4>1, <4>2 DEF ReadFailure
    <3> QED BY <2>1, <3>1, LoginsKept
  <2>3. CASE ReadSteam(w)
    <3>1. Knows(w)'
      BY <1>a, <1>b, <2>1, <2>3 DEF ReadSteam, Knows, Proven
    <3> QED BY <2>1, <3>1, LoginsKept
  <2>4. CASE ReadDiscord(w)
    <3>1. Knows(w)'
      BY <1>a, <1>b, <2>1, <2>4 DEF ReadDiscord, Knows, Proven
    <3> QED BY <2>1, <3>1, LoginsKept
  <2> QED BY <1>9, <2>2, <2>3, <2>4
<1>10. ASSUME NEW w \in Worker, ByDiscord(w) \/ BySteam(w) \/ Upsert(w)
       PROVE  CodesSound' /\ \A v \in Worker : Knows(v)'
  <2>1. Knows(w)'
    <3>1. CASE Return(w)
      BY <1>a, <3>1, ReturnKnows
    <3>2. CASE Goto(w, "bySteam") /\ ByDiscord(w)
      BY <1>a, <1>b, <3>2, GotoKnows DEF ByDiscord, Knows
    <3>3. CASE job' = [job EXCEPT ![w].pc = "upsert", ![w].seen = link[job[w].steam]] /\ BySteam(w)
      <4>1. job[w].pc = "bySteam"
        BY <3>3 DEF BySteam
      <4>2. job'[w].pc = "upsert" /\ job'[w].steam = job[w].steam /\ job'[w].discord = job[w].discord
        BY <1>a, <3>3 DEF Job
      <4> QED BY <1>b, <4>1, <4>2 DEF Knows
    <3> QED BY <1>10, <3>1, <3>2, <3>3 DEF ByDiscord, BySteam, Upsert
  <2> QED BY <1>10, <1>a, <2>1, LoginsKept DEF ByDiscord, BySteam, Upsert, Return, Goto
<1>11. CASE \E s \in Steam : Unlink(s)
  BY <1>11, Elsewhere DEF Unlink
<1>12. CASE \E l \in Login : Expire(l)
  BY <1>12, Elsewhere DEF Expire
<1>13. CASE Restart
  BY <1>13, <1>a, ConstantsAssumption, Elsewhere DEF Restart
<1>14. CASE UNCHANGED vars
  BY <1>14, Elsewhere DEF vars
<1> QED BY <1>1, <1>2, <1>3, <1>4, <1>5, <1>6, <1>7, <1>8, <1>9, <1>10, <1>11, <1>12, <1>13, <1>14, Cases

(* What a code redeems with success has been proven to Steam, and to       *)
(* Discord where it is required, whatever callbacks overlap.               *)
THEOREM RedeemedHasProof == Spec => []RedeemedIsProven
<1>1. Init => ProvenInv
  <2>1. ASSUME Init PROVE CodesSound /\ \A w \in Worker : Knows(w)
    BY <2>1, ConstantsAssumption DEF Init, CodesSound, Knows, Idle
  <2> QED BY <2>1, BasicInit DEF ProvenInv
<1>2. ProvenInv /\ [Next]_vars => ProvenInv'
  BY ProvenStep, BasicStep DEF ProvenInv
<1>3. ProvenInv => RedeemedIsProven
  BY DEF ProvenInv, RedeemedIsProven, CodesSound, Sound, Knows
<1> QED BY <1>1, <1>2, <1>3, PTL DEF Spec

-----------------------------------------------------------------------------
(* RelinkOnlyByOverlap: a thread about to write has seen the Steam ID       *)
(* without a link, or with the one it writes.                               *)

SeenOK == \A w \in Worker : job[w].pc = "upsert" => job[w].seen \in {"none", job[w].discord}

LEMMA SeenStep == ASSUME Basic, SeenOK, [Next]_vars PROVE SeenOK'
<1> USE DEF SeenOK
<1>0. job \in [Worker -> Job]
  BY DEF Basic, TypeOK
<1>1. ASSUME NEW w \in Worker, BySteam(w) PROVE SeenOK'
  <2>1. CASE Return(w)
    BY <1>0, <2>1 DEF Return, Idle
  <2>2. CASE ~Return(w)
    <3> DEFINE new == [job[w] EXCEPT !.pc = "upsert", !.seen = link[job[w].steam]]
    <3>1. new.seen \in {"none", new.discord}
      BY <1>0, <1>1, <2>2 DEF BySteam, Job
    <3>2. job' = [job EXCEPT ![w] = new]
      BY <1>1, <2>2 DEF BySteam
    <3> HIDE DEF new
    <3> QED BY <1>0, <3>1, <3>2
  <2> QED BY <2>1, <2>2
<1>2. CASE UNCHANGED job
  BY <1>2
<1>3. CASE Restart
  BY <1>3 DEF Restart, Idle
<1>4. ASSUME NEW w \in Worker, \A v \in Worker \ {w} : job'[v] = job[v], job'[w].pc # "upsert"
      PROVE  SeenOK'
  BY <1>4
<1>5. ASSUME NEW w \in Worker, NEW l \in Login, BeginSteam(w, l) \/ BeginDiscord(w, l) PROVE SeenOK'
  BY <1>0, <1>4, <1>5 DEF BeginSteam, BeginDiscord, Idle
<1>6. ASSUME NEW w \in Worker, Return(w) PROVE SeenOK'
  BY <1>0, <1>4, <1>6 DEF Return, Idle
<1>7. ASSUME NEW w \in Worker, NEW pc \in {"settle", "finish", "readSteam", "bySteam"}, Goto(w, pc) PROVE SeenOK'
  BY <1>0, <1>4, <1>7, GotoKnows DEF Goto
<1>8. ASSUME NEW w \in Worker, Refused(w) \/ ReadSteam(w) \/ ReadDiscord(w) PROVE SeenOK'
  <2>1. CASE Refused(w)
    BY <1>0, <1>4, <2>1 DEF Refused
  <2>2. CASE ReadSteam(w)
    BY <1>0, <1>4, <2>2 DEF ReadSteam
  <2>3. CASE ReadDiscord(w)
    BY <1>0, <1>4, <2>3 DEF ReadDiscord
  <2> QED BY <1>8, <2>1, <2>2, <2>3
<1>9. ASSUME NEW w \in Worker, NEW c \in Code, Redeem(w, c) PROVE SeenOK'
  BY <1>0, <1>4, <1>9 DEF Redeem, Idle
<1>10. ASSUME NEW w \in Worker,
              \/ \E s \in Steam : SteamConfirms(w, s)
              \/ \E d \in Discord : DiscordConfirms(w, d)
              \/ \E c \in Code : Finish(w, c)
              \/ Settle(w) \/ ReadFailure(w) \/ ByDiscord(w) \/ Upsert(w)
       PROVE  SeenOK'
  BY <1>6, <1>7, <1>10 DEF SteamConfirms, DiscordConfirms, Finish, Settle, ReadFailure, ByDiscord, Upsert
<1>11. CASE Start \/ (\E s \in Steam : Unlink(s)) \/ \E l \in Login : Expire(l)
  BY <1>2, <1>11 DEF Start, Unlink, Expire
<1> QED BY <1>1, <1>2, <1>3, <1>5, <1>8, <1>9, <1>10, <1>11, Cases DEF vars

(* A link turns into another one only by a login that looked before the     *)
(* present link was made (service.py:153), never by one that looked later.  *)
THEOREM RelinkNeedsOverlap == Spec => RelinkOnlyByOverlap
<1>1. Init => SeenOK
  BY DEF Init, SeenOK, Idle
<1>2. Basic /\ SeenOK /\ [Next]_vars => SeenOK'
  BY SeenStep
<1>3. ASSUME Basic, SeenOK, [Next]_vars
      PROVE  [\A s \in Steam :
                link[s] # "none" /\ link'[s] \notin {"none", link[s]} =>
                    \E w \in Worker : job[w].steam = s /\ job[w].pc = "upsert" /\ job[w].seen # link[s]]_vars
  <2>1. SUFFICES ASSUME NEW s \in Steam, link[s] # "none", link'[s] \notin {"none", link[s]}
                 PROVE  \E w \in Worker : job[w].steam = s /\ job[w].pc = "upsert" /\ job[w].seen # link[s]
    OBVIOUS
  <2>2. ASSUME NEW r \in Steam, Unlink(r) PROVE FALSE
    BY <2>1, <2>2 DEF Unlink, Basic, TypeOK
  <2>3. PICK w \in Worker : Upsert(w)
    <3>1. ~UNCHANGED link
      BY <2>1
    <3> QED BY <1>3, <2>2, <3>1, Cases
            DEF vars, pending, Start, BeginSteam, BeginDiscord, SteamConfirms, DiscordConfirms, Refused, Settle,
                Finish, Redeem, ReadFailure, ReadSteam, ReadDiscord, ByDiscord, BySteam, Expire, Restart
  <2>4. job[w].steam = s /\ job[w].pc = "upsert" /\ link'[s] = job[w].discord
    BY <2>1, <2>3 DEF Upsert, Basic, TypeOK
  <2>5. job[w].seen # link[s]
    BY <1>3, <2>1, <2>4 DEF SeenOK
  <2> QED BY <2>4, <2>5
<1> QED BY <1>1, <1>2, <1>3, BasicAlways, PTL DEF Spec, RelinkOnlyByOverlap

-----------------------------------------------------------------------------
(* One-time codes *)

(* pending.py:76-84: a code leads to one login and works once: it is used  *)
(* up by the redemption that it starts, no redemption starts without one,  *)
(* none for a login past its LIFETIME, and nothing, a second callback, a   *)
(* sweep or a restart, brings a used code back or gives it to another      *)
(* login.                                                                  *)
CodesAreOneTime ==
    [][/\ \A c \in Code : /\ byCode[c] = "gone" => byCode'[c] = "gone"
                          /\ byCode[c] \in Login => byCode'[c] \in {byCode[c], "gone"}
       /\ \A w \in Worker :
            job[w].pc # "redeemed" /\ job'[w].pc = "redeemed" =>
                \E c \in Code : /\ byCode[c] = job'[w].login
                                /\ byCode'[c] = "gone"
                                /\ job'[w].login \notin expired]_vars

LEMMA CodesStep ==
    ASSUME Basic, [Next]_vars
    PROVE  /\ \A c \in Code : /\ byCode[c] = "gone" => byCode'[c] = "gone"
                              /\ byCode[c] \in Login => byCode'[c] \in {byCode[c], "gone"}
           /\ \A w \in Worker :
                job[w].pc # "redeemed" /\ job'[w].pc = "redeemed" =>
                    \E c \in Code : /\ byCode[c] = job'[w].login
                                    /\ byCode'[c] = "gone"
                                    /\ job'[w].login \notin expired
<1> DEFINE Codes == \A c \in Code : /\ byCode[c] = "gone" => byCode'[c] = "gone"
                                    /\ byCode[c] \in Login => byCode'[c] \in {byCode[c], "gone"}
           Starts(w) == job[w].pc # "redeemed" /\ job'[w].pc = "redeemed"
           Goal == /\ Codes
                   /\ \A w \in Worker : Starts(w) =>
                        \E c \in Code : byCode[c] = job'[w].login /\ byCode'[c] = "gone" /\ job'[w].login \notin expired
<1> SUFFICES Goal
  OBVIOUS
<1>0. job \in [Worker -> Job] /\ byCode \in [Code -> Login \cup {"unissued", "gone"}] /\ Idle.pc = "idle"
  BY DEF Basic, TypeOK, Idle
<1>1. ASSUME UNCHANGED byCode, NEW w \in Worker, NEW new, job' = [job EXCEPT ![w] = new], new.pc # "redeemed" PROVE Goal
  BY <1>0, <1>1
<1>2. CASE Start
  <2>1. byCode' = Sweep(byCode) /\ UNCHANGED job
    BY <1>2 DEF Start
  <2>2. Codes
    BY <2>1, ConstantsAssumption DEF Sweep, Basic, TypeOK
  <2> QED BY <2>1, <2>2
<1>3. ASSUME NEW w \in Worker, NEW l \in Login, BeginSteam(w, l) \/ BeginDiscord(w, l) PROVE Goal
  <2>1. /\ [Idle EXCEPT !.pc = "steam", !.login = l].pc # "redeemed"
        /\ [Idle EXCEPT !.pc = "discord", !.login = l].pc # "redeemed"
    BY DEF Idle
  <2> QED BY <1>1, <1>3, <2>1 DEF BeginSteam, BeginDiscord, pending
<1>4. ASSUME NEW w \in Worker, NEW pc, UNCHANGED byCode, pc # "redeemed", Goto(w, pc) \/ Return(w) PROVE Goal
  <2>1. [job[w] EXCEPT !.pc = pc].pc = pc
    BY <1>0 DEF Job
  <2> QED BY <1>0, <1>1, <1>4, <2>1 DEF Goto, Return
<1>5. ASSUME NEW w \in Worker, NEW s \in Steam, SteamConfirms(w, s) PROVE Goal
  BY <1>4, <1>5 DEF SteamConfirms, pending
<1>6. ASSUME NEW w \in Worker, NEW d \in Discord, DiscordConfirms(w, d) PROVE Goal
  BY <1>4, <1>6 DEF DiscordConfirms, pending
<1>7. ASSUME NEW w \in Worker, Refused(w) PROVE Goal
  <2>1. [job[w] EXCEPT !.pc = "settle", !.failing = TRUE].pc # "redeemed"
    BY <1>0 DEF Job
  <2> QED BY <1>1, <1>7, <2>1 DEF Refused, pending
<1>8. ASSUME NEW w \in Worker, Settle(w) PROVE Goal
  BY <1>4, <1>8 DEF Settle, pending
<1>9. ASSUME NEW w \in Worker, NEW c \in Code, Finish(w, c) PROVE Goal
  <2>1. byCode[c] = "unissued" /\ byCode' = [byCode EXCEPT ![c] = job[w].login] /\ job' = [job EXCEPT ![w] = Idle]
    BY <1>9 DEF Finish, Return
  <2>2. Codes
    BY <1>0, <2>1, ConstantsAssumption
  <2> QED BY <1>0, <2>1, <2>2
<1>10. ASSUME NEW w \in Worker, NEW c \in Code, Redeem(w, c) PROVE Goal
  <2> DEFINE new == [Idle EXCEPT !.pc = "redeemed", !.login = byCode[c]]
  <2>1. /\ byCode[c] \in Login \ expired /\ byCode' = [byCode EXCEPT ![c] = "gone"]
        /\ job' = [job EXCEPT ![w] = new] /\ new.login = byCode[c]
    BY <1>10 DEF Redeem, Idle
  <2> HIDE DEF new
  <2>2. Codes
    BY <1>0, <2>1
  <2> QED BY <1>0, <2>1, <2>2
<1>11. ASSUME NEW w \in Worker, ReadFailure(w) \/ ByDiscord(w) PROVE Goal
  BY <1>4, <1>11 DEF ReadFailure, ByDiscord, pending
<1>12. ASSUME NEW w \in Worker, ReadSteam(w) \/ ReadDiscord(w) PROVE Goal
  <2> DEFINE steam == [job[w] EXCEPT !.pc = "readDiscord", !.steam = login[job[w].login].steam]
             discord == [job[w] EXCEPT !.pc = "byDiscord", !.discord = login[job[w].login].discord]
  <2>1. steam.pc # "redeemed" /\ discord.pc # "redeemed"
    BY <1>0 DEF Job
  <2>2. UNCHANGED byCode /\ (job' = [job EXCEPT ![w] = steam] \/ job' = [job EXCEPT ![w] = discord])
    BY <1>12 DEF ReadSteam, ReadDiscord, pending
  <2> HIDE DEF steam, discord
  <2> QED BY <1>1, <2>1, <2>2
<1>13. ASSUME NEW w \in Worker, BySteam(w) \/ Upsert(w) PROVE Goal
  <2>1. [job[w] EXCEPT !.pc = "upsert", !.seen = link[job[w].steam]].pc # "redeemed"
    BY <1>0 DEF Job
  <2> QED BY <1>0, <1>1, <1>13, <2>1 DEF BySteam, Upsert, Return, pending
<1>14. CASE (\E s \in Steam : Unlink(s)) \/ (\E l \in Login : Expire(l)) \/ UNCHANGED vars
  BY <1>14 DEF Unlink, Expire, vars, pending
<1>15. CASE Restart
  <2>1. /\ byCode' = [c \in Code |-> IF byCode[c] \in Login THEN "gone" ELSE byCode[c]]
        /\ \A w \in Worker : job'[w].pc = "idle"
    BY <1>0, <1>15 DEF Restart
  <2>2. Codes
    BY <2>1, ConstantsAssumption
  <2> QED BY <2>1, <2>2
<1> QED BY <1>2, <1>3, <1>5, <1>6, <1>7, <1>8, <1>9, <1>10, <1>11, <1>12, <1>13, <1>14, <1>15, Cases

(* However callbacks are duplicated and redemptions race for a code, it is *)
(* redeemed once.                                                          *)
THEOREM CodesWorkOnce == Spec => CodesAreOneTime
<1> QED BY CodesStep, BasicAlways, PTL DEF Spec, CodesAreOneTime
=============================================================================
