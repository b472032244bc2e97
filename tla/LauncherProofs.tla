--------------------------- MODULE LauncherProofs ---------------------------
(***************************************************************************)
(* Proofs about Launcher, for every number of processes, leases and keys   *)
(* and all periods, delays and failures.                                   *)
(***************************************************************************)
EXTENDS Launcher, TLAPS

(* All that Next can do. *)
LEMMA Cases ==
    ASSUME [Next]_vars
    PROVE  \/ \E p \in Process : Act(p) \/ Serve(p) \/ Play(p) \/ Login(p) \/ Quit(p) \/ Crash(p) \/ Lose(p) \/ Reject(p)
           \/ \E l \in Lease : Expire(l) \/ Revoke(l)
           \/ ServeStray
           \/ Tick
           \/ UNCHANGED vars
BY DEF Next

-----------------------------------------------------------------------------
(* Typing *)

JobsOK == job \in [Process -> Job]
LeasesOK == lease \in [Lease -> [state : {"Unused", "Active", "Over"}, silent : Age]]
KeysOK == key \in Key \cup {"none"} /\ issued \subseteq Key
FileOK == file \in [saved : State, open : Process \cup {"none"}]
StrayOK == stray \subseteq Requests
CountOK == mishaps \in 0 .. MaxMishaps

LEMMA Parts == TypeOK <=> JobsOK /\ LeasesOK /\ KeysOK /\ FileOK /\ StrayOK /\ CountOK
BY DEF TypeOK, JobsOK, LeasesOK, KeysOK, FileOK, StrayOK, CountOK

LEMMA Numbers ==
    /\ Grace \in Nat /\ Heartbeat \in Nat /\ RetryDelay \in Nat /\ Timeout \in Nat /\ EndTimeout \in Nat
    /\ Latency \in Nat /\ MaxScan \in Nat /\ MaxMishaps \in Nat
BY ConstantsAssumption

(* The sets that the fields of a job are taken from.                       *)
LEMMA Values ==
    /\ Step = {"off", "policy", "resume", "start", "wait", "beat", "end", "login", "save", "saving"}
    /\ \A s \in {"unsent", "sent", "answered", "lost", "rejected"} : s \in Stage
    /\ \A s \in {"off", "resume", "start", "wait"} : s \in Target /\ s \in Step
    /\ Target \subseteq Step
    /\ 0 \in Delay /\ Heartbeat \in Delay /\ RetryDelay \in Delay
    /\ 0 \in ReportAge /\ None \in ReportAge
    /\ 0 \in ShortAge /\ 0 \in Losses /\ 0 \in Nat
    /\ "none" \in LeaseOrNone /\ Lease \subseteq LeaseOrNone
    /\ "nothing" \in Outcome /\ Answers \subseteq Outcome
    /\ Empty \in State /\ \A m \in State : m.lease \in LeaseOrNone
BY Numbers DEF Step, Stage, Target, Delay, ReportAge, ShortAge, Losses, None, LeaseOrNone, Outcome, State, Empty

LEMMA OffType == Off \in Job
BY Values DEF Off, Job

LEMMA SetType ==
    ASSUME JobsOK, NEW p \in Process, NEW new \in Job, Set(p, new)
    PROVE  JobsOK'
BY DEF Set, JobsOK

LEMMA ExitType == ASSUME JobsOK, NEW p \in Process, Exit(p) PROVE JobsOK'
BY OffType, SetType DEF Exit

LEMMA HoldType ==
    ASSUME JobsOK, NEW p \in Process, NEW l \in Lease \cup {"none"}
    PROVE  Hold(p, l) \in Job
<1>1. [job[p].mem EXCEPT !.lease = l] \in State
  BY DEF JobsOK, Job, State
<1>2. l \in LeaseOrNone
  BY DEF LeaseOrNone
<1>3. job[p] \in Job
  BY DEF JobsOK
<1>4. "wait" \in Step /\ "unsent" \in Stage /\ "nothing" \in Outcome /\ 0 \in ShortAge /\ 0 \in Losses
      /\ 0 \in Nat /\ Heartbeat \in Delay /\ None \in ReportAge
  BY Values
<1>5. job[p].handled \in ShortAge
  BY <1>3 DEF Job
<1> QED BY <1>1, <1>2, <1>3, <1>4, <1>5 DEF Hold, Job

LEMMA ForgetType == ASSUME JobsOK, NEW p \in Process, Forget(p) PROVE JobsOK'
<1> DEFINE new == [Off EXCEPT !.pc = "save", !.mem = [job[p].mem EXCEPT !.lease = "none"], !.held = job[p].held,
                              !.stop = job[p].stop, !.loaded = job[p].loaded]
<1>1. [job[p].mem EXCEPT !.lease = "none"] \in State
  BY DEF JobsOK, Job, State
<1>2. new \in Job
  BY <1>1, OffType, Values DEF JobsOK, Job
<1> QED BY <1>2, SetType DEF Forget

LEMMA ActType == ASSUME JobsOK, NEW p \in Process, Act(p) PROVE JobsOK'
<1>0. job[p] \in Job
  BY DEF JobsOK
<1>1. CASE Policy(p)
  <2>1. First(job[p].mem) \in {"start", "resume"}
    BY DEF First
  <2>2. [job[p] EXCEPT !.pc = "save", !.next = First(job[p].mem)] \in Job
    BY <1>0, <2>1, Values DEF Job
  <2>3. [job[p] EXCEPT !.pc = First(job[p].mem)] \in Job
    BY <1>0, <2>1, Values DEF Job
  <2> QED BY <1>1, <2>2, <2>3, SetType DEF Policy
<1>2. CASE NoPolicy(p) \/ Fail(p) \/ Cancel(p) \/ Refused(p)
  BY <1>2, ExitType DEF NoPolicy, Fail, Cancel, Refused
<1>3. CASE Send(p)
  <2>1. [job[p] EXCEPT !.req = "sent", !.timer = 0, !.report = IF job[p].pc = "beat" THEN 0 ELSE None] \in Job
    BY <1>0, Values DEF Job
  <2> QED BY <1>3, <2>1, SetType DEF Send
<1>4. CASE Resumed(p)
  BY <1>0, <1>4, HoldType, SetType, Values DEF Resumed, Job, LeaseOrNone
<1>5. CASE NotResumed(p)
  <2>0. [job[p].mem EXCEPT !.lease = "none"] \in State
    BY <1>0 DEF Job, State
  <2>1. [job[p] EXCEPT !.pc = "save", !.next = "start", !.mem.lease = "none", !.timer = 0,
                       !.req = "unsent", !.answer = "nothing", !.handled = 0] \in Job
    BY <1>0, <2>0, Values DEF Job
  <2> QED BY <1>5, <2>1, SetType DEF NotResumed
<1>6. CASE Granted(p)
  <2>0. Hold(p, job[p].answer) \in Job
    BY <1>6, HoldType DEF Granted
  <2>1. [Hold(p, job[p].answer) EXCEPT !.pc = "save", !.next = "wait"] \in Job
    <3> DEFINE held == Hold(p, job[p].answer)
    <3> HIDE DEF held
    <3>1. held \in Job
      BY <2>0 DEF held
    <3>2. "save" \in Step /\ "wait" \in Target
      BY Values
    <3>3. [held EXCEPT !.pc = "save", !.next = "wait"] \in Job
      BY <3>1, <3>2 DEF Job
    <3> QED BY <3>3 DEF held
  <2> QED BY <1>6, <2>1, SetType DEF Granted
<1>7. CASE Registered(p)
  <2>0. [Empty EXCEPT !.key = job[p].answer] \in State
    BY <1>7 DEF State, Empty, Registered
  <2>1. [Off EXCEPT !.pc = "save", !.mem = [Empty EXCEPT !.key = job[p].answer], !.stop = job[p].stop] \in Job
    BY <1>0, <2>0, OffType, Values DEF Job
  <2> QED BY <1>7, <2>1, SetType DEF Registered
<1>8. CASE WaitOver(p)
  <2>1. [job[p] EXCEPT !.pc = "beat", !.timer = 0,
                 !.req = IF job[p].report \in 0 .. Heartbeat THEN "sent" ELSE "unsent"] \in Job
    BY <1>0, Values DEF Job
  <2> QED BY <1>8, <2>1, SetType DEF WaitOver
<1>9. CASE Renewed(p)
  BY <1>0, <1>9, HoldType, SetType DEF Renewed, Job, LeaseOrNone
<1>10. CASE Retry(p)
  <2>1. [job[p] EXCEPT !.pc = "wait", !.req = "unsent", !.timer = 0, !.delay = RetryDelay] \in Job
    BY <1>0, Values DEF Job
  <2> QED BY <1>10, <2>1, SetType DEF Retry
<1>11. CASE Ended(p) \/ GiveUp(p) \/ FailStopping(p) \/ HandedBack(p)
  BY <1>11, ForgetType DEF Ended, GiveUp, FailStopping, HandedBack
<1>12. CASE HandBack(p)
  <2>1. [job[p] EXCEPT !.pc = "end", !.req = "sent", !.timer = 0, !.answer = "nothing", !.handled = 0,
                          !.since = 0, !.heard = 0, !.losses = 0, !.delay = 0, !.report = None] \in Job
    BY <1>0, Values DEF Job
  <2> QED BY <1>12, <2>1, SetType DEF HandBack
<1>13. CASE SaveOpen(p)
  <2>1. [job[p] EXCEPT !.pc = "saving"] \in Job
    BY <1>0, Values DEF Job
  <2> QED BY <1>13, <2>1, SetType, ExitType DEF SaveOpen
<1>14. CASE SaveWrite(p)
  <2>1. job[p].next # "off" => [job[p] EXCEPT !.pc = job[p].next, !.next = "off"] \in Job
    BY <1>0, Values DEF Job
  <2> QED BY <1>14, <2>1, SetType, ExitType DEF SaveWrite
<1> QED BY <1>1, <1>2, <1>3, <1>4, <1>5, <1>6, <1>7, <1>8, <1>9, <1>10, <1>11, <1>12, <1>13, <1>14 DEF Act

LEMMA AgedType == ASSUME NEW j \in Job PROVE Aged(j) \in Job
<1>1. \A age \in ShortAge : Capped(age, Grace) \in ShortAge
  BY Numbers DEF ShortAge, Capped
<1>2. \A age \in ReportAge : age # None => Capped(age, Heartbeat + 1) \in ReportAge
  BY Numbers DEF ReportAge, Capped, None
<1>3. j.timer + 1 \in Nat
  BY DEF Job
<1>4. (IF j.req = "answered" THEN Capped(j.handled, Grace) ELSE 0) \in ShortAge
  BY <1>1, Values DEF Job
<1>5. (IF j.pc \in {"wait", "beat"} THEN Capped(j.since, Grace) ELSE 0) \in ShortAge
  BY <1>1, Values DEF Job
<1>6. (IF j.pc \in {"wait", "beat"} THEN Capped(j.heard, Grace) ELSE 0) \in ShortAge
  BY <1>1, Values DEF Job
<1>7. (IF j.report = None THEN None ELSE Capped(j.report, Heartbeat + 1)) \in ReportAge
  BY <1>2, Values DEF Job
<1> QED BY <1>3, <1>4, <1>5, <1>6, <1>7 DEF Aged, Job

LEMMA JobsStep == ASSUME JobsOK, FileOK, [Next]_vars PROVE JobsOK'
<1>1. ASSUME NEW p \in Process, Serve(p) PROVE JobsOK'
  <2>1. PICK answer \in Answers : Set(p, [job[p] EXCEPT !.req = "answered", !.answer = answer, !.handled = 0])
    BY <1>1 DEF Serve
  <2>a. "answered" \in Stage /\ answer \in Outcome /\ 0 \in ShortAge
    BY Values
  <2>b. job[p] \in Job
    BY DEF JobsOK
  <2>2. [job[p] EXCEPT !.req = "answered", !.answer = answer, !.handled = 0] \in Job
    BY <2>a, <2>b DEF Job
  <2> QED BY <2>1, <2>2, SetType
<1>2. ASSUME NEW p \in Process, Play(p) PROVE JobsOK'
  <2>1. [Off EXCEPT !.pc = "policy", !.mem = file.saved, !.loaded = file.saved.lease] \in Job
    BY <1>2, OffType, Values DEF Job, FileOK
  <2> QED BY <1>2, <2>1, SetType DEF Play
<1>3. ASSUME NEW p \in Process, Login(p) PROVE JobsOK'
  <2>1. [Off EXCEPT !.pc = "login"] \in Job
    BY OffType, Values DEF Job
  <2> QED BY <1>3, <2>1, SetType DEF Login
<1>4. ASSUME NEW p \in Process, Quit(p) PROVE JobsOK'
  <2>1. [job[p] EXCEPT !.stop = TRUE] \in Job
    BY DEF JobsOK, Job
  <2> QED BY <1>4, <2>1, SetType DEF Quit
<1>5. ASSUME NEW p \in Process, Crash(p) PROVE JobsOK'
  BY <1>5, ExitType DEF Crash
<1>6. ASSUME NEW p \in Process, Lose(p) PROVE JobsOK'
  <2> DEFINE n == IF job[p].pc = "beat" /\ job[p].losses < 2 THEN job[p].losses + 1 ELSE job[p].losses
  <2>1. n \in Losses
    BY DEF JobsOK, Job, Losses
  <2>2. Set(p, [job[p] EXCEPT !.req = "lost", !.answer = "nothing", !.handled = 0, !.losses = n])
    BY <1>6 DEF Lose
  <2>a. "lost" \in Stage /\ "nothing" \in Outcome /\ 0 \in ShortAge
    BY Values
  <2>b. job[p] \in Job
    BY DEF JobsOK
  <2> HIDE DEF n
  <2>3. [job[p] EXCEPT !.req = "lost", !.answer = "nothing", !.handled = 0, !.losses = n] \in Job
    BY <2>1, <2>a, <2>b DEF Job
  <2> QED BY <2>2, <2>3, SetType
<1>7. ASSUME NEW p \in Process, Reject(p) PROVE JobsOK'
  <2>1. [job[p] EXCEPT !.req = "rejected"] \in Job
    BY Values DEF JobsOK, Job
  <2> QED BY <1>7, <2>1, SetType DEF Reject
<1>8. CASE Tick
  BY <1>8, AgedType DEF Tick, JobsOK
<1>9. CASE UNCHANGED job
  BY <1>9 DEF JobsOK
<1> QED BY <1>1, <1>2, <1>3, <1>4, <1>5, <1>6, <1>7, <1>8, <1>9, ActType, Cases DEF Expire, Revoke, ServeStray, vars

(* Only what has been sent can wander; and the launcher takes its lease    *)
(* for renewed no earlier than the server did.                             *)
Sender(j) ==
    /\ j.req # "unsent" => j.pc \in {"resume", "start", "beat", "end", "login"}
    /\ j.since <= j.heard
SentBySender == \A p \in Process : Sender(job[p])

LEMMA SentInit == Init => SentBySender
BY DEF Init, SentBySender, Sender, Off

(* What a step makes of its own process, and of the others. *)
LEMMA SetAt ==
    ASSUME JobsOK, NEW p \in Process, NEW new, Set(p, new)
    PROVE  job'[p] = new /\ \A q \in Process \ {p} : job'[q] = job[q]
BY DEF Set, JobsOK

LEMMA SentSet ==
    ASSUME JobsOK, SentBySender, NEW p \in Process, NEW new, Set(p, new), Sender(new)
    PROVE  SentBySender'
BY SetAt DEF SentBySender

LEMMA SentUnsent ==
    ASSUME JobsOK, SentBySender, NEW p \in Process, NEW new, Set(p, new), new.req = "unsent", new.since <= new.heard
    PROVE  SentBySender'
BY SentSet DEF Sender

LEMMA SentExit == ASSUME JobsOK, SentBySender, NEW p \in Process, Exit(p) PROVE SentBySender'
BY SentUnsent DEF Exit, Off

LEMMA SentForget == ASSUME JobsOK, SentBySender, NEW p \in Process, Forget(p) PROVE SentBySender'
<1> DEFINE new == [Off EXCEPT !.pc = "save", !.mem = [job[p].mem EXCEPT !.lease = "none"], !.held = job[p].held,
                              !.stop = job[p].stop, !.loaded = job[p].loaded]
<1>1. new.req = "unsent" /\ new.since = 0 /\ new.heard = 0
  BY DEF Off
<1>2. Set(p, new)
  BY DEF Forget
<1> HIDE DEF new
<1>3. new.since <= new.heard
  BY <1>1
<1> QED BY <1>1, <1>2, <1>3, SentUnsent

LEMMA HoldUnsent ==
    ASSUME JobsOK, NEW p \in Process, NEW l
    PROVE  Hold(p, l).req = "unsent" /\ Hold(p, l).since <= Hold(p, l).heard
BY Numbers DEF Hold, JobsOK, Job, ShortAge

LEMMA SentStep == ASSUME JobsOK, SentBySender, [Next]_vars PROVE SentBySender'
<1>1. ASSUME NEW p \in Process, Act(p) PROVE SentBySender'
  <2>0. job[p] \in Job /\ Sender(job[p])
    BY DEF JobsOK, SentBySender
  <2>1. CASE Policy(p)
    <3>1. job[p].req = "unsent"
      BY <2>0, <2>1 DEF Policy, Sender
    <3> QED BY <2>0, <2>1, <3>1, SentUnsent DEF Policy, Job, Sender
  <2>2. CASE NoPolicy(p) \/ Fail(p) \/ Cancel(p) \/ Refused(p)
    BY <2>2, SentExit DEF NoPolicy, Fail, Cancel, Refused
  <2>3. CASE Send(p)
    <3>1. Sender([job[p] EXCEPT !.req = "sent", !.timer = 0, !.report = IF job[p].pc = "beat" THEN 0 ELSE None])
      BY <2>0, <2>3 DEF Send, Sender, Job
    <3> QED BY <2>3, <3>1, SentSet DEF Send
  <2>4. CASE Resumed(p) \/ Renewed(p)
    BY <2>4, HoldUnsent, SentUnsent DEF Resumed, Renewed
  <2>5. CASE NotResumed(p)
    BY <2>0, <2>5, SentUnsent DEF NotResumed, Job, Sender
  <2>6. CASE Granted(p)
    <3> DEFINE new == [Hold(p, job[p].answer) EXCEPT !.pc = "save", !.next = "wait"]
    <3>1. new.req = "unsent" /\ new.since <= new.heard
      BY Numbers, <2>0 DEF Hold, Job, ShortAge
    <3> QED BY <2>6, <3>1, SentUnsent DEF Granted
  <2>7. CASE Registered(p)
    <3> DEFINE new == [Off EXCEPT !.pc = "save", !.mem = [Empty EXCEPT !.key = job[p].answer], !.stop = job[p].stop]
    <3>1. new.req = "unsent" /\ new.since = 0 /\ new.heard = 0
      BY DEF Off
    <3>2. Set(p, new)
      BY <2>7 DEF Registered
    <3> HIDE DEF new
    <3>3. new.since <= new.heard
      BY <3>1
    <3> QED BY <3>1, <3>2, <3>3, SentUnsent
  <2>8. CASE WaitOver(p)
    <3>1. Sender([job[p] EXCEPT !.pc = "beat", !.timer = 0,
                    !.req = IF job[p].report \in 0 .. Heartbeat THEN "sent" ELSE "unsent"])
      BY <2>0 DEF Sender, Job
    <3> QED BY <2>8, <3>1, SentSet DEF WaitOver
  <2>9. CASE Retry(p)
    BY <2>0, <2>9, SentUnsent DEF Retry, Job, Sender
  <2>10. CASE Ended(p) \/ GiveUp(p) \/ FailStopping(p) \/ HandedBack(p)
    BY <2>10, SentForget DEF Ended, GiveUp, FailStopping, HandedBack
  <2>11. CASE HandBack(p)
    <3>1. Sender([job[p] EXCEPT !.pc = "end", !.req = "sent", !.timer = 0, !.answer = "nothing", !.handled = 0,
                          !.since = 0, !.heard = 0, !.losses = 0, !.delay = 0, !.report = None])
      BY <2>0 DEF Sender, Job
    <3> QED BY <2>11, <3>1, SentSet DEF HandBack
  <2>12. CASE SaveOpen(p) \/ SaveWrite(p)
    <3>1. job[p].req = "unsent"
      BY <2>0, <2>12 DEF SaveOpen, SaveWrite, Sender
    <3>2. /\ [job[p] EXCEPT !.pc = "saving"].req = "unsent"
          /\ [job[p] EXCEPT !.pc = "saving"].since <= [job[p] EXCEPT !.pc = "saving"].heard
      BY <2>0, <3>1 DEF Job, Sender
    <3>3. /\ [job[p] EXCEPT !.pc = job[p].next, !.next = "off"].req = "unsent"
          /\ [job[p] EXCEPT !.pc = job[p].next, !.next = "off"].since <= [job[p] EXCEPT !.pc = job[p].next, !.next = "off"].heard
      BY <2>0, <3>1 DEF Job, Sender
    <3> QED BY <2>12, <3>2, <3>3, SentUnsent, SentExit DEF SaveOpen, SaveWrite
  <2> QED BY <1>1, <2>1, <2>2, <2>3, <2>4, <2>5, <2>6, <2>7, <2>8, <2>9, <2>10, <2>11, <2>12 DEF Act
<1>2. ASSUME NEW p \in Process, Serve(p) \/ Lose(p) \/ Reject(p) \/ Quit(p) PROVE SentBySender'
  <2>0. job[p] \in Job /\ Sender(job[p])
    BY DEF JobsOK, SentBySender
  <2>1. CASE Serve(p)
    <3>1. PICK answer : Set(p, [job[p] EXCEPT !.req = "answered", !.answer = answer, !.handled = 0])
      BY <2>1 DEF Serve
    <3>2. Sender([job[p] EXCEPT !.req = "answered", !.answer = answer, !.handled = 0])
      BY <2>0, <2>1 DEF Serve, Sender, Job
    <3> QED BY <3>1, <3>2, SentSet
  <2>2. CASE Lose(p)
    <3> DEFINE n == IF job[p].pc = "beat" /\ job[p].losses < 2 THEN job[p].losses + 1 ELSE job[p].losses
    <3>1. Set(p, [job[p] EXCEPT !.req = "lost", !.answer = "nothing", !.handled = 0, !.losses = n])
      BY <2>2 DEF Lose
    <3> HIDE DEF n
    <3>2. Sender([job[p] EXCEPT !.req = "lost", !.answer = "nothing", !.handled = 0, !.losses = n])
      BY <2>0, <2>2 DEF Lose, Sender, Job
    <3> QED BY <3>1, <3>2, SentSet
  <2>3. CASE Reject(p)
    <3>1. Sender([job[p] EXCEPT !.req = "rejected"])
      BY <2>0, <2>3 DEF Reject, Sender, Job
    <3> QED BY <2>3, <3>1, SentSet DEF Reject
  <2>4. CASE Quit(p)
    <3>1. Sender([job[p] EXCEPT !.stop = TRUE])
      BY <2>0 DEF Sender, Job
    <3> QED BY <2>4, <3>1, SentSet DEF Quit
  <2> QED BY <1>2, <2>1, <2>2, <2>3, <2>4
<1>3. ASSUME NEW p \in Process, Play(p) \/ Login(p) PROVE SentBySender'
  <2> DEFINE play == [Off EXCEPT !.pc = "policy", !.mem = file.saved, !.loaded = file.saved.lease]
             login == [Off EXCEPT !.pc = "login"]
  <2>1. play.req = "unsent" /\ play.since = 0 /\ play.heard = 0 /\ login.req = "unsent" /\ login.since = 0 /\ login.heard = 0
    BY DEF Off
  <2>2. Set(p, play) \/ Set(p, login)
    BY <1>3 DEF Play, Login
  <2> HIDE DEF play, login
  <2>3. play.since <= play.heard /\ login.since <= login.heard
    BY <2>1
  <2> QED BY <2>1, <2>2, <2>3, SentUnsent
<1>4. ASSUME NEW p \in Process, Crash(p) PROVE SentBySender'
  BY <1>4, SentExit DEF Crash
<1>5. CASE Tick
  <2>1. ASSUME NEW j \in Job, Sender(j) PROVE Sender(Aged(j))
    <3>1. Capped(j.since, Grace) <= Capped(j.heard, Grace)
      BY <2>1, Numbers DEF Capped, Job, ShortAge, Sender
    <3>2. Aged(j).pc = j.pc /\ Aged(j).req = j.req
      BY DEF Aged, Job
    <3>3. Aged(j).since <= Aged(j).heard
      BY <3>1 DEF Aged, Job
    <3> QED BY <2>1, <3>2, <3>3 DEF Sender
  <2> QED BY <1>5, <2>1 DEF Tick, SentBySender, JobsOK
<1>6. CASE UNCHANGED job
  BY <1>6 DEF SentBySender
<1> QED BY <1>1, <1>2, <1>3, <1>4, <1>5, <1>6, Cases DEF Expire, Revoke, ServeStray, vars

LEMMA AnswerType ==
    ASSUME LeasesOK, KeysOK, NEW r, NEW answer, Answer(r, answer)
    PROVE  LeasesOK' /\ KeysOK'
<1>0. 0 \in Age
  BY Numbers DEF Age
<1>1. CASE BeatAnswer(r.lease, answer)
  BY <1>0, <1>1 DEF BeatAnswer, LeasesOK, KeysOK
<1>2. CASE StartAnswer(r.key, answer)
  BY <1>0, <1>2 DEF StartAnswer, LeasesOK, KeysOK
<1>3. CASE EndAnswer(r.lease, answer)
  BY <1>0, <1>3 DEF EndAnswer, LeasesOK, KeysOK
<1>4. CASE LoginAnswer(answer)
  BY <1>4 DEF LoginAnswer, LeasesOK, KeysOK
<1> QED BY <1>1, <1>2, <1>3, <1>4 DEF Answer

LEMMA ServerStep == ASSUME LeasesOK, KeysOK, [Next]_vars PROVE LeasesOK' /\ KeysOK'
<1>1. ASSUME NEW p \in Process, Serve(p) PROVE LeasesOK' /\ KeysOK'
  BY <1>1, AnswerType DEF Serve
<1>2. CASE ServeStray
  BY <1>2, AnswerType DEF ServeStray
<1>3. ASSUME NEW l \in Lease, Expire(l) \/ Revoke(l) PROVE LeasesOK' /\ KeysOK'
  BY <1>3 DEF Expire, Revoke, LeasesOK, KeysOK
<1>4. CASE Tick
  <2>1. \A age \in Age : Capped(age, Grace + 1) \in Age /\ 0 \in Age
    BY Numbers DEF Age, Capped
  <2> QED BY <1>4, <2>1 DEF Tick, LeasesOK, KeysOK
<1>5. CASE UNCHANGED server
  BY <1>5 DEF server, LeasesOK, KeysOK
<1>6. ASSUME NEW p \in Process, Act(p) PROVE UNCHANGED server
  BY <1>6 DEF Act, Policy, NoPolicy, Send, Fail, Cancel, Resumed, NotResumed, Granted, Refused, Registered, WaitOver,
       Renewed, Ended, Retry, GiveUp, FailStopping, HandBack, HandedBack, SaveOpen, SaveWrite, server
<1>7. ASSUME NEW p \in Process, Play(p) \/ Login(p) \/ Quit(p) \/ Crash(p) \/ Lose(p) \/ Reject(p) PROVE UNCHANGED server
  BY <1>7 DEF Play, Login, Quit, Crash, Lose, Reject, server
<1> QED BY <1>1, <1>2, <1>3, <1>4, <1>5, <1>6, <1>7, Cases DEF vars, server

LEMMA RestStep ==
    ASSUME JobsOK, FileOK, StrayOK, CountOK, SentBySender, [Next]_vars
    PROVE  FileOK' /\ StrayOK' /\ CountOK'
<1>0. Empty \in State
  BY Values
<1>1. ASSUME NEW p \in Process, job[p].pc \in {"policy", "resume", "start", "login", "wait", "beat"} \/ job[p].req = "sent",
             Withdraw(p)
      PROVE  StrayOK'
  <2>1. CASE UNCHANGED stray
    BY <2>1 DEF StrayOK
  <2>2. CASE job[p].req = "sent" /\ stray' = stray \cup {Request(p)}
    <3>1. job[p].pc \in {"resume", "start", "beat", "end", "login"}
      BY <2>2 DEF SentBySender, Sender
    <3>2. job[p].mem.lease \in Lease \cup {"none"} /\ job[p].mem.key \in Key \cup {"none"} /\ job[p].held \in Lease \cup {"none"}
      BY DEF JobsOK, Job, State, LeaseOrNone
    <3>3. Request(p) \in Requests
      BY <3>1, <3>2 DEF Request, Requests
    <3> QED BY <2>2, <3>3 DEF StrayOK
  <2> QED BY <1>1, <2>1, <2>2 DEF Withdraw
<1>2. ASSUME NEW p \in Process, Act(p) PROVE FileOK' /\ StrayOK' /\ CountOK'
  <2>1. CASE Cancel(p) \/ HandBack(p)
    BY <1>1, <2>1 DEF Cancel, HandBack, FileOK, CountOK
  <2>2. CASE SaveOpen(p)
    BY <1>0, <2>2 DEF SaveOpen, FileOK, StrayOK, CountOK
  <2>3. CASE SaveWrite(p)
    BY <2>3 DEF SaveWrite, FileOK, StrayOK, CountOK, JobsOK, Job
  <2>4. CASE UNCHANGED <<file, stray, mishaps>>
    BY <2>4 DEF FileOK, StrayOK, CountOK
  <2> QED BY <1>2, <2>1, <2>2, <2>3, <2>4 DEF Act, Policy, NoPolicy, Send, Fail, Resumed, NotResumed, Granted, Refused,
             Registered, WaitOver, Renewed, Ended, Retry, GiveUp, FailStopping, HandedBack
<1>3. ASSUME NEW p \in Process, Serve(p) \/ Play(p) \/ Login(p) \/ Quit(p) PROVE FileOK' /\ StrayOK' /\ CountOK'
  BY <1>3 DEF Serve, Play, Login, Quit, FileOK, StrayOK, CountOK
<1>4. ASSUME NEW p \in Process, Crash(p) \/ Lose(p) \/ Reject(p) PROVE FileOK' /\ StrayOK' /\ CountOK'
  <2>1. CountOK'
    BY <1>4, Numbers DEF Crash, Lose, Reject, Mishap, CountOK
  <2>2. FileOK'
    BY <1>4 DEF Crash, Lose, Reject, FileOK
  <2>3. CASE Crash(p) \/ Lose(p)
    <3>1. Withdraw(p)
      BY <2>3 DEF Crash, Lose
    <3>2. StrayOK'
      BY <1>1, <3>1 DEF Withdraw, StrayOK
    <3> QED BY <2>1, <2>2, <3>2
  <2>4. CASE Reject(p)
    BY <2>1, <2>2, <2>4 DEF Reject, StrayOK
  <2> QED BY <1>4, <2>3, <2>4
<1>5. ASSUME NEW l \in Lease, Expire(l) \/ Revoke(l) PROVE FileOK' /\ StrayOK' /\ CountOK'
  BY <1>5 DEF Expire, Revoke, FileOK, StrayOK, CountOK
<1>6. CASE ServeStray \/ Tick
  BY <1>6 DEF ServeStray, Tick, FileOK, StrayOK, CountOK
<1>7. CASE UNCHANGED vars
  BY <1>7 DEF vars, FileOK, StrayOK, CountOK
<1> QED BY <1>2, <1>3, <1>4, <1>5, <1>6, <1>7, Cases

LEMMA TypeInit == Init => TypeOK
<1> SUFFICES ASSUME Init PROVE TypeOK
  OBVIOUS
<1>1. JobsOK
  BY OffType DEF Init, JobsOK
<1>2. LeasesOK /\ KeysOK /\ CountOK
  BY Numbers DEF Init, LeasesOK, KeysOK, CountOK, Age
<1>3. FileOK /\ StrayOK
  BY Values DEF Init, FileOK, StrayOK
<1> QED BY <1>1, <1>2, <1>3, Parts

LEMMA TypeStep == ASSUME TypeOK, SentBySender, [Next]_vars PROVE TypeOK'
<1>1. JobsOK /\ LeasesOK /\ KeysOK /\ FileOK /\ StrayOK /\ CountOK
  BY Parts
<1>2. JobsOK' /\ LeasesOK' /\ KeysOK' /\ FileOK' /\ StrayOK' /\ CountOK'
  BY <1>1, JobsStep, ServerStep, RestStep
<1> QED BY <1>2 DEF TypeOK, JobsOK, LeasesOK, KeysOK, FileOK, StrayOK, CountOK

(* Every variable keeps its type: agent.json, the launchers and what they  *)
(* send are always as the code writes them.                                *)
THEOREM TypeCorrect == Spec => []TypeOK
<1>1. Init => TypeOK /\ SentBySender
  BY TypeInit, SentInit
<1>2. TypeOK /\ SentBySender /\ [Next]_vars => (TypeOK /\ SentBySender)'
  BY TypeStep, SentStep, Parts
<1> QED BY <1>1, <1>2, PTL DEF Spec

(* A launcher that stops for want of answers does so only when its lease   *)
(* would have expired anyway: GiveUp counts from the renewal as the        *)
(* launcher saw it, which the server's answer comes before.                *)
THEOREM GivesUpCorrect == Spec => GivesUpLate
<1> DEFINE Early(p) == job[p].pc = "beat" /\ job[p].req = "lost" /\ ~job[p].stop /\ job'[p].pc = "save"
<1>1. ASSUME TypeOK, SentBySender, [Next]_vars, NEW p \in Process, Early(p) PROVE job[p].heard >= Grace
  <2>0. JobsOK /\ job[p] \in Job /\ Sender(job[p])
    BY <1>1, Parts DEF JobsOK, SentBySender
  <2>1. ASSUME NEW q \in Process \ {p}, NEW new, Set(q, new) PROVE FALSE
    BY <1>1, <2>0, <2>1, SetAt
  <2>2. ASSUME NEW new, Set(p, new), new.pc # "save" PROVE FALSE
    BY <1>1, <2>0, <2>2, SetAt
  <2>3. ASSUME NEW q \in Process, Act(q) PROVE GiveUp(p)
    <3>1. q = p
      BY <2>1, <2>3 DEF Act, Policy, NoPolicy, Send, Fail, Cancel, Resumed, NotResumed, Granted, Refused, Registered, WaitOver,
         Renewed, Ended, Retry, GiveUp, FailStopping, HandBack, HandedBack, SaveOpen, SaveWrite, Exit, Forget
    <3>2. Retry(p) => FALSE
      BY <2>0, <2>2 DEF Retry, Job
    <3> QED BY <1>1, <2>3, <3>1, <3>2 DEF Act, Policy, NoPolicy, Send, Fail, Cancel, Resumed, NotResumed, Granted, Refused,
         Registered, WaitOver, Renewed, Ended, FailStopping, HandBack, HandedBack, SaveOpen, SaveWrite, Answered
  <2>4. GiveUp(p) => job[p].heard >= Grace
    BY <2>0, Numbers DEF GiveUp, Remaining, Sender, Job, ShortAge
  <2>5. ASSUME NEW q \in Process, Serve(q) \/ Play(q) \/ Login(q) \/ Quit(q) \/ Crash(q) \/ Lose(q) \/ Reject(q) PROVE FALSE
    <3>1. q = p
      BY <2>1, <2>5 DEF Serve, Play, Login, Quit, Crash, Lose, Reject, Exit
    <3>2. ~Quit(p)
      <4>1. [job[p] EXCEPT !.stop = TRUE].pc = "beat"
        BY <1>1, <2>0 DEF Job
      <4> QED BY <2>2, <4>1 DEF Quit
    <3>3. ~Crash(p)
      BY <2>2 DEF Crash, Exit, Off
    <3> QED BY <1>1, <2>5, <3>1, <3>2, <3>3 DEF Serve, Play, Login, Lose, Reject
  <2>6. Tick => FALSE
    <3>1. Aged(job[p]).pc = job[p].pc
      BY <2>0 DEF Aged, Job
    <3> QED BY <1>1, <3>1 DEF Tick
  <2>7. UNCHANGED job => FALSE
    BY <1>1
  <2> QED BY <1>1, <2>3, <2>4, <2>5, <2>6, <2>7, Cases DEF Expire, Revoke, ServeStray, vars
<1>2. TypeOK /\ SentBySender /\ [Next]_vars => [\A p \in Process : Early(p) => job[p].heard >= Grace]_vars
  BY <1>1
<1>3. Init => TypeOK /\ SentBySender
  BY TypeInit, SentInit
<1>4. TypeOK /\ SentBySender /\ [Next]_vars => (TypeOK /\ SentBySender)'
  BY TypeStep, SentStep, Parts
<1> QED BY <1>2, <1>3, <1>4, PTL DEF Spec, GivesUpLate

-----------------------------------------------------------------------------
(* The margins of the timeouts *)

(* A request that is answered at all is answered in time, a report that    *)
(* was lost is still fresh when it is sent again, and two tries fit into   *)
(* the grace period.                                                       *)
Margins ==
    /\ Latency <= Timeout
    /\ Timeout + RetryDelay <= Heartbeat
    /\ Latency + Heartbeat + MaxScan + Timeout + RetryDelay + Latency <= Grace

Looping(j) == j.pc \in {"wait", "beat"} \/ (j.pc \in {"save", "saving"} /\ j.next = "wait")

(* What is known of the age of a launcher's steps and of its report. *)
Timely(j) ==
    /\ j.pc \in {"save", "saving"} /\ j.next = "wait" =>
         j.losses = 0 /\ j.timer = 0 /\ j.delay = Heartbeat /\ j.report = None
    /\ j.pc = "wait" =>
         /\ j.timer <= j.delay
         /\ j.losses = 0 => j.delay = Heartbeat /\ j.report = None
         /\ j.losses = 1 => j.delay = RetryDelay /\ j.report \in 0 .. Timeout + j.timer
    /\ j.pc = "beat" =>
         /\ j.req = "unsent" => j.timer <= MaxScan /\ j.losses # 1
         /\ j.req \in {"sent", "answered"} /\ j.losses = 0 => j.report \in 0 .. j.timer
         /\ j.req = "lost" => j.timer <= Timeout /\ j.losses # 0
         /\ j.req = "lost" /\ j.losses = 1 => j.report \in 0 .. j.timer
    /\ j.pc \in {"resume", "start", "beat"} /\ j.req \in {"sent", "answered", "rejected"} => j.timer <= Latency
    /\ j.req = "answered" => j.handled <= j.timer

(* How long the lease has been silent, at most, when the step began. *)
Late(j) ==
    CASE j.pc \in {"save", "saving"} -> Latency
      [] j.pc = "wait" -> IF j.losses = 0 THEN Latency ELSE Latency + Heartbeat + MaxScan + Timeout
      [] j.pc = "beat" ->
           IF j.req = "unsent" THEN Latency + Heartbeat
           ELSE IF j.losses = 0 \/ j.req = "lost" THEN Latency + Heartbeat + MaxScan
                ELSE Latency + Heartbeat + MaxScan + Timeout + RetryDelay

Silent(ls, l, age) == ls[l].state = "Active" => ls[l].silent <= age

(* What is known, of the leases ls, of the one that a launcher holds, or   *)
(* that has just been confirmed to it.                                     *)
Kept(ls, j) ==
    /\ Looping(j) => j.held \in Lease /\ (j.losses < 2 => Silent(ls, j.held, Late(j) + j.timer))
    /\ j.pc = "resume" \/ (j.pc \in {"save", "saving"} /\ j.next = "resume") => j.mem.lease \in Lease
    /\ j.req = "answered" /\ j.pc = "beat" /\ j.answer = "active" => Silent(ls, j.held, j.handled)
    /\ j.req = "answered" /\ j.pc = "start" /\ j.answer \in Lease => Silent(ls, j.answer, j.handled)
    /\ j.req = "answered" /\ j.pc = "resume" /\ j.answer = "active" => Silent(ls, j.mem.lease, j.handled)

OnTime == \A p \in Process : Timely(job[p])
AllKept == \A p \in Process : Kept(lease, job[p])

LEMMA TimelySet ==
    ASSUME JobsOK, OnTime, NEW p \in Process, NEW new, Set(p, new), Timely(new)
    PROVE  OnTime'
BY SetAt DEF OnTime

LEMMA TimelyOff == Timely(Off)
BY DEF Timely, Off

LEMMA TimelyHold ==
    ASSUME JobsOK, NEW p \in Process, NEW l
    PROVE  Timely(Hold(p, l)) /\ Timely([Hold(p, l) EXCEPT !.pc = "save", !.next = "wait"])
<1>0. job[p] \in Job
  BY DEF JobsOK
<1> DEFINE hold == Hold(p, l)
           save == [hold EXCEPT !.pc = "save", !.next = "wait"]
<1>1. hold.pc = "wait" /\ hold.req = "unsent" /\ hold.timer = 0 /\ hold.delay = Heartbeat /\ hold.report = None
      /\ hold.losses = 0
  BY <1>0 DEF Hold, Job
<1>2. Timely(hold)
  <2> HIDE DEF hold
  <2> QED BY <1>1, Numbers DEF Timely
<1>3. save.pc = "save" /\ save.req = "unsent" /\ save.timer = 0 /\ save.delay = Heartbeat /\ save.report = None
      /\ save.losses = 0
  BY <1>0 DEF Hold, Job
<1>4. Timely(save)
  <2> HIDE DEF save
  <2> QED BY <1>3 DEF Timely
<1> QED BY <1>2, <1>4

LEMMA TimelyForget == ASSUME JobsOK, OnTime, NEW p \in Process, Forget(p) PROVE OnTime'
<1> DEFINE new == [Off EXCEPT !.pc = "save", !.mem = [job[p].mem EXCEPT !.lease = "none"], !.held = job[p].held,
                              !.stop = job[p].stop, !.loaded = job[p].loaded]
<1>1. new.pc = "save" /\ new.next = "off" /\ new.req = "unsent"
  BY DEF Off
<1>2. Timely(new)
  <2> HIDE DEF new
  <2> QED BY <1>1 DEF Timely
<1>3. Set(p, new)
  BY DEF Forget
<1> QED BY <1>2, <1>3, TimelySet

LEMMA TimelyAct == ASSUME Margins, JobsOK, SentBySender, OnTime, NEW p \in Process, Act(p) PROVE OnTime'
<1>0. job[p] \in Job /\ Sender(job[p]) /\ Timely(job[p])
  BY DEF JobsOK, SentBySender, OnTime
<1>1. CASE Policy(p)
  <2>1. First(job[p].mem) \in {"start", "resume"} /\ job[p].req = "unsent"
    BY <1>0, <1>1 DEF First, Policy, Sender
  <2>2. Timely([job[p] EXCEPT !.pc = "save", !.next = First(job[p].mem)])
    BY <1>0, <2>1 DEF Timely, Job
  <2>3. Timely([job[p] EXCEPT !.pc = First(job[p].mem)])
    BY <1>0, <2>1 DEF Timely, Job
  <2> QED BY <1>1, <2>2, <2>3, TimelySet DEF Policy
<1>2. CASE NoPolicy(p) \/ Fail(p) \/ Cancel(p) \/ Refused(p)
  BY <1>2, TimelyOff, TimelySet DEF NoPolicy, Fail, Cancel, Refused, Exit
<1>3. CASE Send(p)
  <2> DEFINE new == [job[p] EXCEPT !.req = "sent", !.timer = 0, !.report = IF job[p].pc = "beat" THEN 0 ELSE None]
  <2>1. new.pc = job[p].pc /\ new.req = "sent" /\ new.timer = 0 /\ (new.pc = "beat" => new.report = 0)
        /\ job[p].pc \in {"resume", "start", "beat", "login"}
    BY <1>0, <1>3 DEF Job, Send
  <2>2. Timely(new)
    <3> HIDE DEF new
    <3> QED BY <2>1, Numbers DEF Timely
  <2> QED BY <1>3, <2>2, TimelySet DEF Send
<1>4. CASE Resumed(p) \/ Renewed(p) \/ Granted(p)
  BY <1>4, TimelyHold, TimelySet DEF Resumed, Renewed, Granted
<1>5. CASE NotResumed(p)
  <2> DEFINE new == [job[p] EXCEPT !.pc = "save", !.next = "start", !.mem.lease = "none", !.timer = 0,
                                   !.req = "unsent", !.answer = "nothing", !.handled = 0]
  <2>1. new.pc = "save" /\ new.next = "start" /\ new.req = "unsent"
    BY <1>0 DEF Job
  <2>2. Timely(new)
    <3> HIDE DEF new
    <3> QED BY <2>1 DEF Timely
  <2> QED BY <1>5, <2>2, TimelySet DEF NotResumed
<1>6. CASE Registered(p)
  <2> DEFINE new == [Off EXCEPT !.pc = "save", !.mem = [Empty EXCEPT !.key = job[p].answer], !.stop = job[p].stop]
  <2>1. new.pc = "save" /\ new.next = "off" /\ new.req = "unsent"
    BY DEF Off
  <2>2. Timely(new)
    <3> HIDE DEF new
    <3> QED BY <2>1 DEF Timely
  <2> QED BY <1>6, <2>2, TimelySet DEF Registered
<1>7. CASE WaitOver(p)
  <2> DEFINE new == [job[p] EXCEPT !.pc = "beat", !.timer = 0,
                       !.req = IF job[p].report \in 0 .. Heartbeat THEN "sent" ELSE "unsent"]
  <2>1. new.pc = "beat" /\ new.timer = 0 /\ new.losses = job[p].losses
        /\ new.req = (IF job[p].report \in 0 .. Heartbeat THEN "sent" ELSE "unsent")
    BY <1>0 DEF Job
  <2>2. job[p].losses = 0 => new.req = "unsent"
    BY <1>0, <1>7, <2>1 DEF WaitOver, Timely, None
  <2>3. job[p].losses = 1 => new.req = "sent"
    BY <1>0, <1>7, <2>1, Numbers DEF WaitOver, Timely, Margins, Job
  <2>4. Timely(new)
    <3> HIDE DEF new
    <3>1. new.req = "sent" \/ new.req = "unsent"
      BY <2>1
    <3> QED BY <2>1, <2>2, <2>3, <3>1, Numbers DEF Timely
  <2> QED BY <1>7, <2>4, TimelySet DEF WaitOver
<1>8. CASE Retry(p)
  <2> DEFINE new == [job[p] EXCEPT !.pc = "wait", !.req = "unsent", !.timer = 0, !.delay = RetryDelay]
  <2>1. new.pc = "wait" /\ new.req = "unsent" /\ new.timer = 0 /\ new.delay = RetryDelay /\ new.losses = job[p].losses
        /\ new.report = job[p].report
    BY <1>0 DEF Job
  <2>2. job[p].losses # 0 /\ (job[p].losses = 1 => job[p].report \in 0 .. Timeout)
    BY <1>0, <1>8, Numbers DEF Retry, Timely, Job
  <2>3. Timely(new)
    <3> HIDE DEF new
    <3> QED BY <2>1, <2>2, Numbers DEF Timely
  <2> QED BY <1>8, <2>3, TimelySet DEF Retry
<1>9. CASE Ended(p) \/ GiveUp(p) \/ FailStopping(p) \/ HandedBack(p)
  BY <1>9, TimelyForget DEF Ended, GiveUp, FailStopping, HandedBack
<1>10. CASE HandBack(p)
  <2> DEFINE new == [job[p] EXCEPT !.pc = "end", !.req = "sent", !.timer = 0, !.answer = "nothing", !.handled = 0,
                          !.since = 0, !.heard = 0, !.losses = 0, !.delay = 0, !.report = None]
  <2>1. new.pc = "end" /\ new.req = "sent"
    BY <1>0 DEF Job
  <2>2. Timely(new)
    <3> HIDE DEF new
    <3> QED BY <2>1 DEF Timely
  <2> QED BY <1>10, <2>2, TimelySet DEF HandBack
<1>11. CASE SaveOpen(p)
  <2>1. Timely([job[p] EXCEPT !.pc = "saving"])
    BY <1>0, <1>11 DEF SaveOpen, Timely, Job, Sender
  <2> QED BY <1>11, <2>1, TimelyOff, TimelySet DEF SaveOpen, Exit
<1>12. CASE SaveWrite(p)
  <2>1. ASSUME job[p].next # "off" PROVE Timely([job[p] EXCEPT !.pc = job[p].next, !.next = "off"])
    <3> DEFINE new == [job[p] EXCEPT !.pc = job[p].next, !.next = "off"]
    <3>1. new.pc = job[p].next /\ new.next = "off" /\ new.req = "unsent" /\ job[p].next \in {"resume", "start", "wait"}
          /\ new.losses = job[p].losses /\ new.timer = job[p].timer /\ new.delay = job[p].delay /\ new.report = job[p].report
      BY <1>0, <1>12, <2>1 DEF SaveWrite, Job, Target, Sender
    <3>2. new.pc = "wait" => new.losses = 0 /\ new.timer = 0 /\ new.delay = Heartbeat /\ new.report = None
      BY <1>0, <1>12, <3>1 DEF SaveWrite, Timely
    <3> HIDE DEF new
    <3>3. Timely(new)
      BY <3>1, <3>2, Numbers DEF Timely
    <3> QED BY <3>3 DEF new
  <2> QED BY <1>12, <2>1, TimelyOff, TimelySet DEF SaveWrite, Exit
<1> QED BY <1>1, <1>2, <1>3, <1>4, <1>5, <1>6, <1>7, <1>8, <1>9, <1>10, <1>11, <1>12 DEF Act

LEMMA TimelyTick == ASSUME JobsOK, OnTime, Tick PROVE OnTime'
<1>1. ASSUME NEW p \in Process, ~Patient(p) PROVE Timely(Aged(job[p]))
  <2> DEFINE j == job[p]
             new == Aged(j)
  <2>0. j \in Job /\ Timely(j)
    BY DEF JobsOK, OnTime
  <2>1. j.pc \notin {"save", "saving"} /\ j.timer < Limit(p)
    BY <1>1 DEF Tick
  <2>2. /\ new.pc = j.pc /\ new.req = j.req /\ new.timer = j.timer + 1 /\ new.losses = j.losses /\ new.delay = j.delay
        /\ new.next = j.next
        /\ new.report = (IF j.report = None THEN None ELSE Capped(j.report, Heartbeat + 1))
        /\ new.handled = (IF j.req = "answered" THEN Capped(j.handled, Grace) ELSE 0)
    BY <2>0 DEF Aged, Job
  <2>3. j.report # None => new.report \in Nat /\ new.report <= j.report + 1
    BY <2>0, <2>2, Numbers DEF Capped, Job, ReportAge, None
  <2>4. new.req = "answered" => new.handled <= new.timer
    <3>1. j.handled \in 0 .. Grace /\ j.timer \in Nat
      BY <2>0 DEF Job, ShortAge
    <3>2. j.req = "answered" => j.handled <= j.timer
      BY <2>0 DEF Timely
    <3>3. Capped(j.handled, Grace) <= j.handled + 1 /\ Capped(j.handled, Grace) \in Nat
      BY <3>1, Numbers DEF Capped
    <3>4. j.req = "answered" => Capped(j.handled, Grace) <= j.timer + 1
      BY <3>1, <3>2, <3>3
    <3> HIDE DEF new
    <3> QED BY <2>2, <3>4
  <2>5. j.pc = "wait" => j.timer < j.delay
    BY <2>1 DEF Limit
  <2>6. j.pc # "wait" /\ j.req = "unsent" => j.timer < MaxScan
    BY <2>1 DEF Limit
  <2>7. j.pc # "wait" /\ j.req \in {"sent", "answered"} => j.timer < Latency
    BY <2>1 DEF Limit
  <2>8. j.pc = "beat" /\ j.req = "lost" => j.timer < Timeout
    BY <2>1 DEF Limit
  <2>9. j.pc # "wait" => j.req # "rejected"
    BY <2>0, <2>1 DEF Limit, Job
  <2>10. j.timer \in Nat /\ j.handled \in ShortAge /\ j.losses \in Losses
    BY <2>0 DEF Job
  <2> HIDE DEF new
  <2>11. j.pc = "wait" => Timely(new)
    <3> SUFFICES ASSUME j.pc = "wait" PROVE Timely(new)
      OBVIOUS
    <3>1. new.timer <= new.delay
      BY <2>0, <2>2, <2>5, <2>10, Numbers DEF Job, Delay
    <3>2. new.losses = 0 => new.delay = Heartbeat /\ new.report = None
      BY <2>0, <2>2 DEF Timely
    <3>3. new.losses = 1 => new.delay = RetryDelay /\ new.report \in 0 .. Timeout + new.timer
      BY <2>0, <2>2, <2>3, <2>10, Numbers DEF Timely, None
    <3> QED BY <2>2, <2>4, <3>1, <3>2, <3>3 DEF Timely
  <2>12. j.pc = "beat" => Timely(new)
    <3> SUFFICES ASSUME j.pc = "beat" PROVE Timely(new)
      OBVIOUS
    <3>1. new.req = "unsent" => new.timer <= MaxScan /\ new.losses # 1
      BY <2>0, <2>2, <2>6, <2>10, Numbers DEF Timely
    <3>2. new.req \in {"sent", "answered"} /\ new.losses = 0 => new.report \in 0 .. new.timer
      BY <2>0, <2>2, <2>3, <2>10 DEF Timely, None
    <3>3. new.req = "lost" => new.timer <= Timeout /\ new.losses # 0
      BY <2>0, <2>2, <2>8, <2>10, Numbers DEF Timely
    <3>4. new.req = "lost" /\ new.losses = 1 => new.report \in 0 .. new.timer
      BY <2>0, <2>2, <2>3, <2>10 DEF Timely, None
    <3>5. new.req \in {"sent", "answered", "rejected"} => new.timer <= Latency
      BY <2>2, <2>7, <2>9, <2>10, Numbers
    <3> QED BY <2>2, <2>4, <3>1, <3>2, <3>3, <3>4, <3>5 DEF Timely
  <2>13. j.pc \notin {"wait", "beat"} => Timely(new)
    <3> SUFFICES ASSUME j.pc \notin {"wait", "beat"} PROVE Timely(new)
      OBVIOUS
    <3>1. new.req \in {"sent", "answered", "rejected"} => new.timer <= Latency
      BY <2>2, <2>7, <2>9, <2>10, Numbers
    <3> QED BY <2>1, <2>2, <2>4, <3>1 DEF Timely
  <2> QED BY <2>11, <2>12, <2>13 DEF new
<1> QED BY <1>1 DEF Tick, OnTime, JobsOK

LEMMA TimelyStep == ASSUME Margins, JobsOK, SentBySender, OnTime, [Next]_vars PROVE OnTime'
<1>1. ASSUME NEW p \in Process, Serve(p) PROVE OnTime'
  <2>0. job[p] \in Job /\ Timely(job[p])
    BY DEF JobsOK, OnTime
  <2>1. PICK answer : Set(p, [job[p] EXCEPT !.req = "answered", !.answer = answer, !.handled = 0])
    BY <1>1 DEF Serve
  <2> DEFINE new == [job[p] EXCEPT !.req = "answered", !.answer = answer, !.handled = 0]
  <2>2. new.pc = job[p].pc /\ new.req = "answered" /\ new.handled = 0 /\ new.timer = job[p].timer /\ new.report = job[p].report
        /\ new.losses = job[p].losses /\ new.next = job[p].next /\ new.delay = job[p].delay /\ job[p].req = "sent"
        /\ job[p].timer \in Nat
    BY <1>1, <2>0 DEF Job, Serve
  <2>3. Timely(new)
    <3> HIDE DEF new
    <3> QED BY <2>0, <2>2 DEF Timely
  <2> QED BY <2>1, <2>3, TimelySet
<1>2. ASSUME NEW p \in Process, Play(p) \/ Login(p) PROVE OnTime'
  <2> DEFINE play == [Off EXCEPT !.pc = "policy", !.mem = file.saved, !.loaded = file.saved.lease]
             login == [Off EXCEPT !.pc = "login"]
  <2>1. Timely(play) /\ Timely(login)
    BY DEF Off, Timely
  <2> QED BY <1>2, <2>1, TimelySet DEF Play, Login
<1>3. ASSUME NEW p \in Process, Quit(p) PROVE OnTime'
  <2>0. job[p] \in Job /\ Timely(job[p])
    BY DEF JobsOK, OnTime
  <2>1. Timely([job[p] EXCEPT !.stop = TRUE])
    BY <2>0 DEF Timely, Job
  <2> QED BY <1>3, <2>1, TimelySet DEF Quit
<1>4. ASSUME NEW p \in Process, Crash(p) PROVE OnTime'
  BY <1>4, TimelyOff, TimelySet DEF Crash, Exit
<1>5. ASSUME NEW p \in Process, Lose(p) PROVE OnTime'
  <2>0. job[p] \in Job /\ Timely(job[p]) /\ Sender(job[p])
    BY DEF JobsOK, OnTime, SentBySender
  <2> DEFINE n == IF job[p].pc = "beat" /\ job[p].losses < 2 THEN job[p].losses + 1 ELSE job[p].losses
             new == [job[p] EXCEPT !.req = "lost", !.answer = "nothing", !.handled = 0, !.losses = n]
  <2>1. Set(p, new)
    BY <1>5 DEF Lose
  <2>2. n \in Losses /\ (job[p].pc = "beat" => n # 0 /\ (n = 1 => job[p].losses = 0))
    BY <2>0 DEF Job, Losses
  <2> HIDE DEF n
  <2>3. new.pc = job[p].pc /\ new.req = "lost" /\ new.losses = n /\ new.timer = job[p].timer /\ new.report = job[p].report
        /\ job[p].req \in {"sent", "answered"} /\ job[p].timer \in Nat
        /\ job[p].pc \in {"resume", "start", "beat", "end", "login"}
    BY <1>5, <2>0 DEF Job, Lose, Sender
  <2>4. Timely(new)
    <3> HIDE DEF new
    <3>1. new.pc = "beat" => new.timer <= Timeout /\ (n = 1 => new.report \in 0 .. new.timer)
      BY <2>0, <2>2, <2>3, Numbers DEF Timely, Margins
    <3> QED BY <2>2, <2>3, <3>1 DEF Timely
  <2> QED BY <2>1, <2>4, TimelySet
<1>6. ASSUME NEW p \in Process, Reject(p) PROVE OnTime'
  <2>0. job[p] \in Job /\ Timely(job[p]) /\ Sender(job[p])
    BY DEF JobsOK, OnTime, SentBySender
  <2>1. Timely([job[p] EXCEPT !.req = "rejected"])
    BY <1>6, <2>0 DEF Timely, Job, Reject, Sender
  <2> QED BY <1>6, <2>1, TimelySet DEF Reject
<1>7. CASE UNCHANGED job
  BY <1>7 DEF OnTime
<1> QED BY <1>1, <1>2, <1>3, <1>4, <1>5, <1>6, <1>7, TimelyAct, TimelyTick, Cases DEF Expire, Revoke, ServeStray, vars

(* Nothing but time makes a lease older. *)
Softer(old, new) ==
    \A l \in Lease : new[l].state = "Active" =>
        new[l].silent = 0 \/ (old[l].state = "Active" /\ new[l].silent = old[l].silent)

LEMMA AnswerSofter ==
    ASSUME LeasesOK, NEW r, NEW answer, Answer(r, answer)
    PROVE  Softer(lease, lease')
<1>1. CASE BeatAnswer(r.lease, answer)
  BY <1>1 DEF BeatAnswer, LeasesOK, Softer
<1>2. CASE StartAnswer(r.key, answer)
  BY <1>2 DEF StartAnswer, LeasesOK, Softer
<1>3. CASE EndAnswer(r.lease, answer)
  BY <1>3 DEF EndAnswer, LeasesOK, Softer
<1>4. CASE LoginAnswer(answer)
  BY <1>4 DEF LoginAnswer, LeasesOK, Softer
<1> QED BY <1>1, <1>2, <1>3, <1>4 DEF Answer

LEMMA LateType == ASSUME NEW j \in Job, Looping(j) PROVE Late(j) \in Nat
BY Numbers DEF Late, Looping

LEMMA SilentSofter ==
    ASSUME NEW old, NEW new, Softer(old, new), NEW l \in Lease, NEW age \in Nat, Silent(old, l, age)
    PROVE  Silent(new, l, age)
BY DEF Softer, Silent

LEMMA KeptSofter ==
    ASSUME NEW old, NEW new, Softer(old, new), NEW j \in Job, Kept(old, j)
    PROVE  Kept(new, j)
<1>0. j.timer \in Nat /\ j.handled \in Nat
  BY Numbers DEF Job, ShortAge
<1>1. Looping(j) => j.held \in Lease /\ (j.losses < 2 => Silent(new, j.held, Late(j) + j.timer))
  BY <1>0, LateType, SilentSofter DEF Kept
<1>2. j.req = "answered" /\ j.pc = "beat" /\ j.answer = "active" => Silent(new, j.held, j.handled)
  BY <1>0, SilentSofter DEF Kept, Looping
<1>3. j.req = "answered" /\ j.pc = "start" /\ j.answer \in Lease => Silent(new, j.answer, j.handled)
  BY <1>0, SilentSofter DEF Kept
<1>4. j.req = "answered" /\ j.pc = "resume" /\ j.answer = "active" => Silent(new, j.mem.lease, j.handled)
  BY <1>0, SilentSofter DEF Kept
<1>5. j.pc = "resume" \/ (j.pc \in {"save", "saving"} /\ j.next = "resume") => j.mem.lease \in Lease
  BY DEF Kept
<1> QED BY <1>1, <1>2, <1>3, <1>4, <1>5 DEF Kept

LEMMA KeptSet ==
    ASSUME JobsOK, AllKept, Softer(lease, lease'), NEW p \in Process, NEW new, Set(p, new), Kept(lease', new)
    PROVE  AllKept'
<1>1. \A q \in Process : Kept(lease', job[q])
  BY KeptSofter DEF AllKept, JobsOK
<1> QED BY <1>1, SetAt DEF AllKept

LEMMA KeptUnchanged == ASSUME JobsOK, AllKept, Softer(lease, lease'), UNCHANGED job PROVE AllKept'
BY KeptSofter DEF AllKept, JobsOK

LEMMA SofterSame == Softer(lease, lease)
BY DEF Softer

(* A step of a launcher, which leaves the leases alone. *)
LEMMA KeptMove ==
    ASSUME JobsOK, AllKept, UNCHANGED lease, NEW p \in Process, NEW new, Set(p, new), Kept(lease, new)
    PROVE  AllKept'
BY SetAt DEF AllKept

LEMMA KeptOff == ASSUME NEW ls PROVE Kept(ls, Off)
BY DEF Kept, Off, Looping

LEMMA KeptForget == ASSUME JobsOK, AllKept, UNCHANGED lease, NEW p \in Process, Forget(p) PROVE AllKept'
<1> DEFINE new == [Off EXCEPT !.pc = "save", !.mem = [job[p].mem EXCEPT !.lease = "none"], !.held = job[p].held,
                              !.stop = job[p].stop, !.loaded = job[p].loaded]
<1>1. new.pc = "save" /\ new.next = "off" /\ new.req = "unsent"
  BY DEF Off
<1>2. Kept(lease, new)
  <2> HIDE DEF new
  <2> QED BY <1>1 DEF Kept, Looping
<1>3. Set(p, new)
  BY DEF Forget
<1> QED BY <1>2, <1>3, KeptMove

(* A lease that the server has just confirmed. *)
LEMMA KeptHold ==
    ASSUME JobsOK, LeasesOK, OnTime, NEW p \in Process, job[p].req = "answered", job[p].pc \in {"resume", "start", "beat"},
           NEW l \in Lease, Silent(lease, l, job[p].handled)
    PROVE  Kept(lease, Hold(p, l)) /\ Kept(lease, [Hold(p, l) EXCEPT !.pc = "save", !.next = "wait"])
<1>0. job[p] \in Job /\ Timely(job[p])
  BY DEF JobsOK, OnTime
<1>1. job[p].handled \in Nat /\ job[p].timer \in Nat /\ job[p].handled <= job[p].timer /\ job[p].timer <= Latency
  BY <1>0, Numbers DEF Timely, Job, ShortAge
<1>2. Silent(lease, l, Latency + 0)
  <2>1. job[p].handled <= Latency
    BY <1>1, Numbers
  <2>2. lease[l].state = "Active" => lease[l].silent <= Latency
    BY <2>1, <1>1, Numbers DEF Silent, LeasesOK, Age
  <2> QED BY <2>2, Numbers DEF Silent
<1> DEFINE hold == Hold(p, l)
           save == [hold EXCEPT !.pc = "save", !.next = "wait"]
<1>3. hold.pc = "wait" /\ hold.held = l /\ hold.req = "unsent" /\ hold.timer = 0 /\ hold.losses = 0
  BY <1>0 DEF Hold, Job
<1>4. save.pc = "save" /\ save.next = "wait" /\ save.held = l /\ save.req = "unsent" /\ save.timer = 0 /\ save.losses = 0
  BY <1>0 DEF Hold, Job
<1> HIDE DEF hold, save
<1>5. Late(hold) = Latency /\ Late(save) = Latency
  BY <1>3, <1>4 DEF Late
<1>6. Kept(lease, hold)
  BY <1>2, <1>3, <1>5 DEF Kept
<1>7. Kept(lease, save)
  BY <1>2, <1>4, <1>5 DEF Kept
<1> QED BY <1>6, <1>7 DEF hold, save

LEMMA KeptAct ==
    ASSUME Margins, JobsOK, LeasesOK, SentBySender, OnTime, AllKept, NEW p \in Process, Act(p)
    PROVE  AllKept'
<1>0. job[p] \in Job /\ Sender(job[p]) /\ Timely(job[p]) /\ Kept(lease, job[p])
  BY DEF JobsOK, SentBySender, OnTime, AllKept
<1>1. CASE Policy(p)
  <2> DEFINE saved == [job[p] EXCEPT !.pc = "save", !.next = First(job[p].mem)]
             ready == [job[p] EXCEPT !.pc = First(job[p].mem)]
             first == First(job[p].mem)
  <2>1. job[p].req = "unsent"
    BY <1>0, <1>1 DEF Policy, Sender
  <2>2. first \in {"start", "resume"} /\ (first = "resume" => job[p].mem.lease \in Lease)
    BY <1>0 DEF First, Job, State
  <2> HIDE DEF first
  <2>3. Kept(lease, [job[p] EXCEPT !.pc = "save", !.next = first])
    BY <1>0, <2>1, <2>2 DEF Kept, Looping, Job
  <2>4. Kept(lease, [job[p] EXCEPT !.pc = first])
    BY <1>0, <2>1, <2>2, <1>1 DEF Kept, Looping, Job
  <2> QED BY <1>1, <2>3, <2>4, KeptMove DEF Policy, server, first
<1>2. CASE NoPolicy(p) \/ Fail(p) \/ Cancel(p) \/ Refused(p)
  BY <1>2, KeptOff, KeptMove DEF NoPolicy, Fail, Cancel, Refused, Exit, server
<1>3. CASE Send(p)
  <2> DEFINE new == [job[p] EXCEPT !.req = "sent", !.timer = 0, !.report = IF job[p].pc = "beat" THEN 0 ELSE None]
  <2>1. new.pc = job[p].pc /\ new.req = "sent" /\ new.timer = 0 /\ new.held = job[p].held /\ new.mem = job[p].mem
        /\ new.losses = job[p].losses /\ job[p].req = "unsent" /\ job[p].pc \in {"resume", "start", "beat", "login"}
    BY <1>0, <1>3 DEF Job, Send
  <2>2. job[p].timer \in Nat /\ job[p].losses \in Losses
    BY <1>0 DEF Job
  <2> HIDE DEF new
  <2>3. new.pc = "beat" /\ new.losses < 2 => Silent(lease, new.held, Late(new) + new.timer)
    <3> SUFFICES ASSUME new.pc = "beat", new.losses < 2 PROVE Silent(lease, new.held, Late(new) + new.timer)
      OBVIOUS
    <3>1. new.losses = 0 /\ job[p].timer <= MaxScan
      BY <1>0, <2>1, <2>2 DEF Timely, Losses
    <3>2. Late(job[p]) = Latency + Heartbeat /\ Late(new) = Latency + Heartbeat + MaxScan
      BY <2>1, <3>1 DEF Late
    <3>3. new.held \in Lease /\ Silent(lease, new.held, Latency + Heartbeat + job[p].timer)
      BY <1>0, <2>1, <3>1, <3>2 DEF Kept, Looping
    <3>4. lease[new.held].silent \in Nat
      BY <3>3, Numbers DEF LeasesOK, Age
    <3> QED BY <2>1, <2>2, <3>1, <3>2, <3>3, <3>4, Numbers DEF Silent
  <2>4. new.pc = "beat" => new.held \in Lease
    BY <1>0, <2>1 DEF Kept, Looping
  <2>5. Kept(lease, new)
    BY <1>0, <2>1, <2>3, <2>4 DEF Kept, Looping
  <2> QED BY <1>3, <2>5, KeptMove DEF Send, server, new
<1>4. CASE Resumed(p)
  <2>1. Kept(lease, Hold(p, job[p].mem.lease))
    BY <1>0, <1>4, KeptHold DEF Resumed, Answered, Kept
  <2> QED BY <1>4, <2>1, KeptMove DEF Resumed, server
<1>5. CASE Renewed(p)
  <2>1. Kept(lease, Hold(p, job[p].held))
    BY <1>0, <1>5, KeptHold DEF Renewed, Answered, Kept, Looping
  <2> QED BY <1>5, <2>1, KeptMove DEF Renewed, server
<1>6. CASE Granted(p)
  <2>1. Kept(lease, [Hold(p, job[p].answer) EXCEPT !.pc = "save", !.next = "wait"])
    BY <1>0, <1>6, KeptHold DEF Granted, Answered, Kept
  <2> QED BY <1>6, <2>1, KeptMove DEF Granted, server
<1>7. CASE NotResumed(p)
  <2> DEFINE new == [job[p] EXCEPT !.pc = "save", !.next = "start", !.mem.lease = "none", !.timer = 0,
                                   !.req = "unsent", !.answer = "nothing", !.handled = 0]
  <2>1. new.pc = "save" /\ new.next = "start" /\ new.req = "unsent"
    BY <1>0 DEF Job
  <2>2. Kept(lease, new)
    <3> HIDE DEF new
    <3> QED BY <2>1 DEF Kept, Looping
  <2> QED BY <1>7, <2>2, KeptMove DEF NotResumed, server
<1>8. CASE Registered(p)
  <2> DEFINE new == [Off EXCEPT !.pc = "save", !.mem = [Empty EXCEPT !.key = job[p].answer], !.stop = job[p].stop]
  <2>1. new.pc = "save" /\ new.next = "off" /\ new.req = "unsent"
    BY DEF Off
  <2>2. Kept(lease, new)
    <3> HIDE DEF new
    <3> QED BY <2>1 DEF Kept, Looping
  <2> QED BY <1>8, <2>2, KeptMove DEF Registered, server
<1>9. CASE WaitOver(p)
  <2> DEFINE new == [job[p] EXCEPT !.pc = "beat", !.timer = 0,
                       !.req = IF job[p].report \in 0 .. Heartbeat THEN "sent" ELSE "unsent"]
  <2>1. /\ new.pc = "beat" /\ new.timer = 0 /\ new.held = job[p].held /\ new.losses = job[p].losses
        /\ new.req = (IF job[p].report \in 0 .. Heartbeat THEN "sent" ELSE "unsent")
        /\ job[p].pc = "wait" /\ job[p].timer \in Nat /\ job[p].losses \in Losses
    BY <1>0, <1>9 DEF Job, WaitOver
  <2>2. new.held \in Lease
    BY <1>0, <2>1 DEF Kept, Looping
  <2>3. lease[new.held].silent \in Nat
    BY <2>2, Numbers DEF LeasesOK, Age
  <2>4. ASSUME job[p].losses = 0 PROVE Kept(lease, new)
    <3>1. new.req = "unsent"
      BY <1>0, <2>1, <2>4 DEF Timely, None
    <3> HIDE DEF new
    <3>2. Late(job[p]) = Latency /\ Late(new) = Latency + Heartbeat
      BY <2>1, <2>4, <3>1 DEF Late
    <3>3. Silent(lease, new.held, Latency + job[p].timer) /\ job[p].timer <= Heartbeat
      BY <1>0, <2>1, <2>4, <3>2 DEF Kept, Looping, Timely
    <3>4. Silent(lease, new.held, Late(new) + new.timer)
      BY <2>1, <2>3, <3>2, <3>3, Numbers DEF Silent
    <3> QED BY <2>1, <2>2, <3>1, <3>4 DEF Kept
  <2>5. ASSUME job[p].losses = 1 PROVE Kept(lease, new)
    <3>1. job[p].timer <= RetryDelay /\ job[p].report \in 0 .. Heartbeat
      BY <1>0, <2>1, <2>5, Numbers DEF Timely, Margins
    <3>2. new.req = "sent"
      BY <2>1, <3>1
    <3> HIDE DEF new
    <3>3. /\ Late(job[p]) = Latency + Heartbeat + MaxScan + Timeout
          /\ Late(new) = Latency + Heartbeat + MaxScan + Timeout + RetryDelay
      BY <2>1, <2>5, <3>2 DEF Late
    <3>4. Silent(lease, new.held, Latency + Heartbeat + MaxScan + Timeout + job[p].timer)
      BY <1>0, <2>1, <2>5, <3>3 DEF Kept, Looping
    <3>5. Silent(lease, new.held, Late(new) + new.timer)
      BY <2>1, <2>3, <3>1, <3>3, <3>4, Numbers DEF Silent
    <3> QED BY <2>1, <2>2, <3>2, <3>5 DEF Kept
  <2>6. ASSUME job[p].losses = 2 PROVE Kept(lease, new)
    <3>1. new.req # "answered"
      BY <2>1
    <3> HIDE DEF new
    <3> QED BY <2>1, <2>2, <2>6, <3>1 DEF Kept
  <2>7. Kept(lease, new)
    BY <2>1, <2>4, <2>5, <2>6 DEF Losses
  <2> QED BY <1>9, <2>7, KeptMove DEF WaitOver, server
<1>10. CASE Retry(p)
  <2> DEFINE new == [job[p] EXCEPT !.pc = "wait", !.req = "unsent", !.timer = 0, !.delay = RetryDelay]
  <2>1. /\ new.pc = "wait" /\ new.req = "unsent" /\ new.timer = 0 /\ new.held = job[p].held /\ new.losses = job[p].losses
        /\ job[p].pc = "beat" /\ job[p].req = "lost" /\ job[p].timer \in Nat /\ job[p].losses \in Losses
    BY <1>0, <1>10 DEF Job, Retry
  <2>2. new.held \in Lease
    BY <1>0, <2>1 DEF Kept, Looping
  <2>3. lease[new.held].silent \in Nat
    BY <2>2, Numbers DEF LeasesOK, Age
  <2> HIDE DEF new
  <2>4. new.losses < 2 => Silent(lease, new.held, Late(new) + new.timer)
    <3> SUFFICES ASSUME new.losses < 2 PROVE Silent(lease, new.held, Late(new) + new.timer)
      OBVIOUS
    <3>1. new.losses = 1 /\ job[p].timer <= Timeout
      BY <1>0, <2>1 DEF Timely, Losses
    <3>2. Late(job[p]) = Latency + Heartbeat + MaxScan /\ Late(new) = Latency + Heartbeat + MaxScan + Timeout
      BY <2>1, <3>1 DEF Late
    <3>3. Silent(lease, new.held, Latency + Heartbeat + MaxScan + job[p].timer)
      BY <1>0, <2>1, <3>1, <3>2 DEF Kept, Looping
    <3> QED BY <2>1, <2>3, <3>1, <3>2, <3>3, Numbers DEF Silent
  <2>5. Kept(lease, new)
    BY <2>1, <2>2, <2>4 DEF Kept
  <2> QED BY <1>10, <2>5, KeptMove DEF Retry, server, new
<1>11. CASE Ended(p) \/ GiveUp(p) \/ FailStopping(p) \/ HandedBack(p)
  BY <1>11, KeptForget DEF Ended, GiveUp, FailStopping, HandedBack, server
<1>12. CASE HandBack(p)
  <2> DEFINE new == [job[p] EXCEPT !.pc = "end", !.req = "sent", !.timer = 0, !.answer = "nothing", !.handled = 0,
                          !.since = 0, !.heard = 0, !.losses = 0, !.delay = 0, !.report = None]
  <2>1. new.pc = "end" /\ new.req = "sent"
    BY <1>0 DEF Job
  <2>2. Kept(lease, new)
    <3> HIDE DEF new
    <3> QED BY <2>1 DEF Kept, Looping
  <2> QED BY <1>12, <2>2, KeptMove DEF HandBack, server
<1>13. CASE SaveOpen(p)
  <2> DEFINE new == [job[p] EXCEPT !.pc = "saving"]
  <2>1. new.pc = "saving" /\ job[p].pc = "save" /\ new.next = job[p].next /\ new.held = job[p].held /\ new.mem = job[p].mem
        /\ new.losses = job[p].losses /\ new.timer = job[p].timer /\ new.req = job[p].req
    BY <1>0, <1>13 DEF Job, SaveOpen
  <2> HIDE DEF new
  <2>2. Late(new) = Late(job[p])
    BY <2>1 DEF Late
  <2>3. Kept(lease, new)
    BY <1>0, <2>1, <2>2 DEF Kept, Looping
  <2> QED BY <1>13, <2>3, KeptOff, KeptMove DEF SaveOpen, Exit, server, new
<1>14. CASE SaveWrite(p)
  <2> DEFINE new == [job[p] EXCEPT !.pc = job[p].next, !.next = "off"]
  <2>1. job[p].pc = "saving" /\ new.pc = job[p].next /\ new.next = "off" /\ new.held = job[p].held /\ new.mem = job[p].mem
        /\ new.losses = job[p].losses /\ new.timer = job[p].timer /\ new.req = job[p].req /\ job[p].next \in Target
    BY <1>0, <1>14 DEF Job, SaveWrite
  <2>2. job[p].req = "unsent"
    BY <1>0, <2>1 DEF Sender
  <2> HIDE DEF new
  <2>3. new.pc = "wait" => Late(new) = Late(job[p])
    BY <1>0, <2>1 DEF Late, Timely
  <2>4. Kept(lease, new)
    BY <1>0, <2>1, <2>2, <2>3 DEF Kept, Looping, Target
  <2> QED BY <1>14, <2>4, KeptOff, KeptMove DEF SaveWrite, Exit, server, new
<1> QED BY <1>1, <1>2, <1>3, <1>4, <1>5, <1>6, <1>7, <1>8, <1>9, <1>10, <1>11, <1>12, <1>13, <1>14 DEF Act

LEMMA KeptTick == ASSUME Margins, JobsOK, LeasesOK, SentBySender, OnTime, AllKept, Tick PROVE AllKept'
<1>1. \A l \in Lease : /\ lease[l].silent \in Nat /\ lease'[l].state = lease[l].state
                       /\ lease[l].state = "Active" => lease'[l].silent \in Nat /\ lease'[l].silent <= lease[l].silent + 1
  <2>1. \A age \in Age : Capped(age, Grace + 1) \in Nat /\ Capped(age, Grace + 1) <= age + 1
    BY Numbers DEF Age, Capped
  <2>2. \A l \in Lease : lease[l].silent \in Nat
    BY Numbers DEF LeasesOK, Age
  <2>3. \A l \in Lease : /\ lease'[l].state = lease[l].state
                         /\ lease[l].state = "Active" => lease'[l].silent = Capped(lease[l].silent, Grace + 1)
    BY DEF Tick, LeasesOK
  <2> QED BY <2>1, <2>2, <2>3 DEF LeasesOK
<1>2. ASSUME NEW l \in Lease, NEW age \in Nat, Silent(lease, l, age) PROVE Silent(lease', l, age + 1)
  <2>1. /\ lease[l].silent \in Nat /\ lease'[l].state = lease[l].state
        /\ lease[l].state = "Active" => lease'[l].silent \in Nat /\ lease'[l].silent <= lease[l].silent + 1
    BY <1>1
  <2>2. ASSUME lease[l].state = "Active" PROVE lease'[l].silent <= age + 1
    <3>1. lease[l].silent <= age
      BY <1>2, <2>2 DEF Silent
    <3> QED BY <2>1, <2>2, <3>1
  <2> QED BY <2>1, <2>2 DEF Silent
<1>3. ASSUME NEW p \in Process, Patient(p) PROVE Kept(lease', job[p])
  <2>1. job[p] \in Job /\ Sender(job[p]) /\ job[p].pc \in {"off", "policy", "login"}
    BY <1>3 DEF Patient, JobsOK, SentBySender
  <2>2. job[p].pc \in {"off", "policy", "login"} => Kept(lease', job[p])
    BY DEF Kept, Looping
  <2> QED BY <2>1, <2>2
<1>4. ASSUME NEW p \in Process, ~Patient(p) PROVE Kept(lease', Aged(job[p]))
  <2> DEFINE j == job[p]
             new == Aged(j)
  <2>0. j \in Job /\ Timely(j) /\ Kept(lease, j) /\ Sender(j)
    BY DEF JobsOK, OnTime, AllKept, SentBySender
  <2>1. j.pc \notin {"save", "saving"} /\ j.timer < Limit(p)
    BY <1>4 DEF Tick
  <2>2. /\ new.pc = j.pc /\ new.req = j.req /\ new.timer = j.timer + 1 /\ new.losses = j.losses /\ new.held = j.held
        /\ new.mem = j.mem /\ new.answer = j.answer
        /\ j.req = "answered" => new.handled = Capped(j.handled, Grace)
    BY <2>0 DEF Aged, Job
  <2>3. j.timer \in Nat /\ j.handled \in Nat
    BY <2>0, Numbers DEF Job, ShortAge
  <2>4. j.req = "answered" /\ j.pc \in {"resume", "start", "beat"} => new.handled = j.handled + 1
    <3> SUFFICES ASSUME j.req = "answered", j.pc \in {"resume", "start", "beat"} PROVE new.handled = j.handled + 1
      OBVIOUS
    <3>1. j.timer < Latency
      BY <2>1 DEF Limit
    <3>2. j.handled <= j.timer
      BY <2>0 DEF Timely
    <3>3. j.handled < Grace
      BY <2>3, <3>1, <3>2, Numbers DEF Margins
    <3> HIDE DEF new
    <3> QED BY <2>2, <3>3 DEF Capped
  <2> HIDE DEF new
  <2>5. Looping(new) => new.held \in Lease /\ (new.losses < 2 => Silent(lease', new.held, Late(new) + new.timer))
    <3> SUFFICES ASSUME Looping(new)
                 PROVE  new.held \in Lease /\ (new.losses < 2 => Silent(lease', new.held, Late(new) + new.timer))
      OBVIOUS
    <3>1. Looping(j) /\ j.pc \in {"wait", "beat"}
      BY <2>1, <2>2 DEF Looping
    <3>2. Late(new) = Late(j)
      BY <2>2, <3>1 DEF Late
    <3>3. Late(j) \in Nat
      BY <2>0, <3>1, LateType
    <3>4. j.held \in Lease /\ (j.losses < 2 => Silent(lease, j.held, Late(j) + j.timer))
      BY <2>0, <3>1 DEF Kept
    <3>5. j.losses < 2 => Silent(lease', j.held, (Late(j) + j.timer) + 1)
      BY <1>2, <2>3, <3>3, <3>4
    <3>6. (Late(j) + j.timer) + 1 = Late(new) + new.timer
      BY <2>2, <2>3, <3>2, <3>3
    <3> QED BY <2>2, <3>4, <3>5, <3>6
  <2>6. new.pc = "resume" => new.mem.lease \in Lease
    BY <2>0, <2>2 DEF Kept
  <2>7. new.req = "answered" /\ new.pc = "beat" /\ new.answer = "active" => Silent(lease', new.held, new.handled)
    BY <1>2, <2>0, <2>2, <2>3, <2>4 DEF Kept, Looping
  <2>8. new.req = "answered" /\ new.pc = "start" /\ new.answer \in Lease => Silent(lease', new.answer, new.handled)
    BY <1>2, <2>0, <2>2, <2>3, <2>4 DEF Kept
  <2>9. new.req = "answered" /\ new.pc = "resume" /\ new.answer = "active" => Silent(lease', new.mem.lease, new.handled)
    BY <1>2, <2>0, <2>2, <2>3, <2>4 DEF Kept
  <2> QED BY <2>1, <2>2, <2>5, <2>6, <2>7, <2>8, <2>9 DEF Kept, new
<1> QED BY <1>3, <1>4 DEF Tick, AllKept, JobsOK

(* What the server says of a lease is true when it says it. *)
LEMMA KeptServe == ASSUME JobsOK, LeasesOK, SentBySender, AllKept, NEW p \in Process, Serve(p) PROVE AllKept'
<1>0. job[p] \in Job /\ Kept(lease, job[p]) /\ Sender(job[p])
  BY DEF JobsOK, AllKept, SentBySender
<1>1. PICK answer \in Answers :
        /\ Answer(Request(p), answer)
        /\ Set(p, [job[p] EXCEPT !.req = "answered", !.answer = answer, !.handled = 0])
  BY DEF Serve
<1> DEFINE new == [job[p] EXCEPT !.req = "answered", !.answer = answer, !.handled = 0]
<1>2. /\ new.pc = job[p].pc /\ new.req = "answered" /\ new.answer = answer /\ new.handled = 0 /\ new.timer = job[p].timer
      /\ new.losses = job[p].losses /\ new.held = job[p].held /\ new.mem = job[p].mem /\ new.next = job[p].next
      /\ job[p].req = "sent"
  BY <1>0 DEF Job, Serve
<1>3. Softer(lease, lease')
  BY <1>1, AnswerSofter
<1>4. Kept(lease', job[p])
  BY <1>0, <1>3, KeptSofter
<1> HIDE DEF new
<1>5. Late(new) = Late(job[p]) \/ ~Looping(new)
  BY <1>2 DEF Late, Looping
<1>6. new.pc = "beat" /\ answer = "active" => Silent(lease', new.held, 0)
  <2> SUFFICES ASSUME new.pc = "beat", answer = "active" PROVE Silent(lease', new.held, 0)
    OBVIOUS
  <2>1. Request(p).kind = "beat" /\ Request(p).lease = new.held /\ new.held \in Lease
    BY <1>0, <1>2 DEF Request, Kept, Looping
  <2>2. BeatAnswer(new.held, "active")
    BY <1>1, <2>1 DEF Answer
  <2> QED BY <2>1, <2>2 DEF BeatAnswer, Silent, LeasesOK
<1>7. new.pc = "resume" /\ answer = "active" => Silent(lease', new.mem.lease, 0)
  <2> SUFFICES ASSUME new.pc = "resume", answer = "active" PROVE Silent(lease', new.mem.lease, 0)
    OBVIOUS
  <2>1. Request(p).kind = "beat" /\ Request(p).lease = new.mem.lease /\ new.mem.lease \in Lease
    BY <1>0, <1>2 DEF Request, Kept
  <2>2. BeatAnswer(new.mem.lease, "active")
    BY <1>1, <2>1 DEF Answer
  <2> QED BY <2>1, <2>2 DEF BeatAnswer, Silent, LeasesOK
<1>8. new.pc = "start" /\ answer \in Lease => Silent(lease', answer, 0)
  <2> SUFFICES ASSUME new.pc = "start", answer \in Lease PROVE Silent(lease', answer, 0)
    OBVIOUS
  <2>1. Request(p).kind = "start"
    BY <1>2 DEF Request
  <2>2. StartAnswer(Request(p).key, answer)
    BY <1>1, <2>1 DEF Answer
  <2>3. answer # "refused"
    BY ConstantsAssumption
  <2> QED BY <2>2, <2>3 DEF StartAnswer, Silent, LeasesOK
<1>9. Kept(lease', new)
  BY <1>2, <1>4, <1>5, <1>6, <1>7, <1>8 DEF Kept, Looping
<1> QED BY <1>1, <1>3, <1>9, KeptSet DEF new

LEMMA KeptStep == ASSUME Margins, TypeOK, SentBySender, OnTime, AllKept, [Next]_vars PROVE AllKept'
<1>0. JobsOK /\ LeasesOK
  BY Parts
<1>1. ASSUME NEW p \in Process, Play(p) \/ Login(p) PROVE AllKept'
  <2> DEFINE play == [Off EXCEPT !.pc = "policy", !.mem = file.saved, !.loaded = file.saved.lease]
             login == [Off EXCEPT !.pc = "login"]
  <2>1. play.pc = "policy" /\ play.req = "unsent" /\ login.pc = "login" /\ login.req = "unsent"
    BY DEF Off
  <2>2. Set(p, play) \/ Set(p, login)
    BY <1>1 DEF Play, Login
  <2> HIDE DEF play, login
  <2>3. Kept(lease, play) /\ Kept(lease, login)
    BY <2>1 DEF Kept, Looping
  <2> QED BY <1>0, <1>1, <2>2, <2>3, KeptMove DEF Play, Login, server
<1>2. ASSUME NEW p \in Process, Quit(p) PROVE AllKept'
  <2> DEFINE new == [job[p] EXCEPT !.stop = TRUE]
  <2>0. job[p] \in Job /\ Kept(lease, job[p])
    BY <1>0 DEF JobsOK, AllKept
  <2>1. /\ new.pc = job[p].pc /\ new.req = job[p].req /\ new.answer = job[p].answer /\ new.handled = job[p].handled
        /\ new.timer = job[p].timer /\ new.losses = job[p].losses /\ new.held = job[p].held /\ new.mem = job[p].mem
        /\ new.next = job[p].next
    BY <2>0 DEF Job
  <2> HIDE DEF new
  <2>2. Late(new) = Late(job[p])
    BY <2>1 DEF Late
  <2>3. Kept(lease, new)
    BY <2>0, <2>1, <2>2 DEF Kept, Looping
  <2> QED BY <1>0, <1>2, <2>3, KeptMove DEF Quit, server, new
<1>3. ASSUME NEW p \in Process, Crash(p) PROVE AllKept'
  BY <1>0, <1>3, KeptOff, KeptMove DEF Crash, Exit, server
<1>4. ASSUME NEW p \in Process, Lose(p) PROVE AllKept'
  <2>0. job[p] \in Job /\ Kept(lease, job[p]) /\ Sender(job[p])
    BY <1>0 DEF JobsOK, AllKept, SentBySender
  <2> DEFINE n == IF job[p].pc = "beat" /\ job[p].losses < 2 THEN job[p].losses + 1 ELSE job[p].losses
             new == [job[p] EXCEPT !.req = "lost", !.answer = "nothing", !.handled = 0, !.losses = n]
  <2>1. Set(p, new)
    BY <1>4 DEF Lose
  <2>2. job[p].losses \in {0, 1, 2} /\ (job[p].pc = "beat" /\ n < 2 => job[p].losses = 0)
    BY <2>0 DEF Job, Losses
  <2> HIDE DEF n
  <2>3. /\ new.pc = job[p].pc /\ new.req = "lost" /\ new.timer = job[p].timer /\ new.losses = n /\ new.held = job[p].held
        /\ new.mem = job[p].mem /\ job[p].req \in {"sent", "answered"}
        /\ job[p].pc \in {"resume", "start", "beat", "end", "login"}
    BY <1>4, <2>0 DEF Job, Lose, Sender
  <2> HIDE DEF new
  <2>4. new.pc = "beat" /\ n < 2 => Late(new) = Late(job[p])
    BY <2>2, <2>3 DEF Late
  <2>5. Kept(lease, new)
    BY <2>0, <2>2, <2>3, <2>4 DEF Kept, Looping
  <2> QED BY <1>0, <1>4, <2>1, <2>5, KeptMove DEF Lose, server
<1>5. ASSUME NEW p \in Process, Reject(p) PROVE AllKept'
  <2> DEFINE new == [job[p] EXCEPT !.req = "rejected"]
  <2>0. job[p] \in Job /\ Kept(lease, job[p])
    BY <1>0 DEF JobsOK, AllKept
  <2>1. /\ new.pc = job[p].pc /\ new.req = "rejected" /\ new.timer = job[p].timer /\ new.losses = job[p].losses
        /\ new.held = job[p].held /\ new.mem = job[p].mem /\ new.next = job[p].next /\ job[p].req = "sent"
    BY <1>5, <2>0 DEF Job, Reject
  <2> HIDE DEF new
  <2>2. Late(new) = Late(job[p]) \/ ~Looping(new)
    BY <2>1 DEF Late, Looping
  <2>3. Kept(lease, new)
    BY <2>0, <2>1, <2>2 DEF Kept, Looping
  <2> QED BY <1>0, <1>5, <2>3, KeptMove DEF Reject, server, new
<1>6. ASSUME NEW l \in Lease, Expire(l) \/ Revoke(l) PROVE AllKept'
  <2>1. Softer(lease, lease')
    BY <1>0, <1>6 DEF Expire, Revoke, Softer, LeasesOK
  <2> QED BY <1>0, <1>6, <2>1, KeptUnchanged DEF Expire, Revoke
<1>7. CASE ServeStray
  <2>1. Softer(lease, lease')
    BY <1>0, <1>7, AnswerSofter DEF ServeStray
  <2> QED BY <1>0, <1>7, <2>1, KeptUnchanged DEF ServeStray
<1>8. CASE UNCHANGED vars
  BY <1>8 DEF vars, AllKept
<1> QED BY <1>0, <1>1, <1>2, <1>3, <1>4, <1>5, <1>6, <1>7, <1>8, KeptAct, KeptServe, KeptTick, Cases

LEMMA Survives ==
    ASSUME Margins, TypeOK, OnTime, AllKept
    PROVE  OneLossIsSurvived
<1> SUFFICES ASSUME NEW p \in Process, InLoop(p), job[p].losses < 2, lease[job[p].held].state = "Active"
             PROVE  lease[job[p].held].silent <= Grace
  BY DEF OneLossIsSurvived
<1> DEFINE j == job[p]
<1>0. j \in Job /\ Timely(j) /\ Kept(lease, j) /\ j.pc \in {"wait", "beat"}
  BY Parts DEF JobsOK, OnTime, AllKept, InLoop
<1>1. j.held \in Lease /\ Silent(lease, j.held, Late(j) + j.timer)
  BY <1>0 DEF Kept, Looping
<1>2. lease[j.held].silent \in Nat
  BY <1>1, Parts, Numbers DEF LeasesOK, Age
<1>3. lease[j.held].silent <= Late(j) + j.timer
  BY <1>1 DEF Silent
<1>4. j.timer \in Nat /\ j.losses \in {0, 1} /\ j.req \in Stage
  BY <1>0 DEF Job, Losses
<1>5. CASE j.pc = "wait"
  <2>1. Late(j) = (IF j.losses = 0 THEN Latency ELSE Latency + Heartbeat + MaxScan + Timeout)
    BY <1>5 DEF Late
  <2>2. j.timer <= (IF j.losses = 0 THEN Heartbeat ELSE RetryDelay)
    BY <1>0, <1>4, <1>5 DEF Timely
  <2> QED BY <1>2, <1>3, <1>4, <2>1, <2>2, Numbers DEF Margins
<1>6. CASE j.pc = "beat" /\ j.req = "unsent"
  <2>1. Late(j) = Latency + Heartbeat
    BY <1>6 DEF Late
  <2>2. j.timer <= MaxScan
    BY <1>0, <1>6 DEF Timely
  <2> QED BY <1>2, <1>3, <1>4, <2>1, <2>2, Numbers DEF Margins
<1>7. CASE j.pc = "beat" /\ j.req = "lost"
  <2>1. Late(j) = Latency + Heartbeat + MaxScan
    BY <1>7 DEF Late
  <2>2. j.timer <= Timeout
    BY <1>0, <1>7 DEF Timely
  <2> QED BY <1>2, <1>3, <1>4, <2>1, <2>2, Numbers DEF Margins
<1>8. CASE j.pc = "beat" /\ j.req \in {"sent", "answered", "rejected"}
  <2>1. Late(j) = Latency + Heartbeat + MaxScan \/ Late(j) = Latency + Heartbeat + MaxScan + Timeout + RetryDelay
    BY <1>8 DEF Late
  <2>2. j.timer <= Latency
    BY <1>0, <1>8 DEF Timely
  <2> QED BY <1>2, <1>3, <1>4, <2>1, <2>2, Numbers DEF Margins
<1> QED BY <1>0, <1>4, <1>5, <1>6, <1>7, <1>8 DEF Stage

(* One lost heartbeat never costs a lease, for all periods and timeouts    *)
(* that leave the margins: the retry of PlayCommand.cs reaches the server  *)
(* before the grace period is over.                                        *)
THEOREM OneLossCorrect == ASSUME Margins PROVE Spec => []OneLossIsSurvived
<1> DEFINE Inv == TypeOK /\ SentBySender /\ OnTime /\ AllKept
<1>1. Init => Inv
  <2>1. Init => OnTime
    BY TimelyOff DEF Init, OnTime
  <2>2. Init => AllKept
    BY KeptOff DEF Init, AllKept
  <2> QED BY <2>1, <2>2, TypeInit, SentInit
<1>2. Inv /\ [Next]_vars => Inv'
  BY TypeStep, SentStep, TimelyStep, KeptStep, Parts
<1>3. Inv => OneLossIsSurvived
  BY Survives
<1> QED BY <1>1, <1>2, <1>3, PTL DEF Spec

-----------------------------------------------------------------------------
(* What a launcher knows of its leases *)

Issued(ls, l) == l \in Lease => ls[l].state # "Unused"
Over(ls, l) == l \in Lease /\ ls[l].state = "Over"

(* A step, or a save that leads to it. *)
Heading(j, step) == j.pc = step \/ (j.pc \in {"save", "saving"} /\ j.next = step)

(* The finally block, of a launcher that has held a lease. *)
Leaving(j) == j.pc \in {"save", "saving"} /\ j.next = "off" /\ j.held # "none"

(* Every lease that a launcher has seen was handed out; a new one is asked *)
(* for after the one on disk was found to be over; and what the server has *)
(* said of a lease that is over stays true.                                *)
Informed(ls, j) ==
    /\ Issued(ls, j.mem.lease) /\ Issued(ls, j.held) /\ Issued(ls, j.loaded)
    /\ j.pc = "start" /\ j.req = "answered" => Issued(ls, j.answer)
    /\ j.pc = "policy" \/ Heading(j, "resume") => j.mem.lease = j.loaded
    /\ Heading(j, "resume") => j.mem.lease \in Lease
    /\ j.pc = "resume" /\ j.req = "answered" /\ j.answer = "over" => Over(ls, j.mem.lease)
    /\ Heading(j, "start") /\ j.loaded # "none" => Over(ls, j.loaded)
    /\ j.pc \in {"beat", "end"} \/ Heading(j, "wait") => j.held \in Lease
    /\ j.pc = "beat" /\ j.req = "answered" /\ j.answer = "over" => Over(ls, j.held)
    /\ j.pc = "end" /\ j.req = "answered" => Over(ls, j.held)

(* As long as nothing has failed, the loop is left with the lease over.    *)
Untroubled(ls, j) ==
    /\ j.req \notin {"lost", "rejected"}
    /\ Leaving(j) => Over(ls, j.held)

Knows(ls, failed, j) == Informed(ls, j) /\ (failed = 0 => Untroubled(ls, j))

KnowInv ==
    /\ \A p \in Process : Knows(lease, mishaps, job[p])
    /\ Issued(lease, file.saved.lease)

(* Leases go forward: handed out for good, and over for good. *)
Onward(old, new) ==
    \A l \in Lease : /\ old[l].state # "Unused" => new[l].state # "Unused"
                     /\ old[l].state = "Over" => new[l].state = "Over"

LEMMA AnswerOnward ==
    ASSUME LeasesOK, NEW r, NEW answer, Answer(r, answer)
    PROVE  Onward(lease, lease')
<1>1. CASE BeatAnswer(r.lease, answer)
  BY <1>1 DEF BeatAnswer, LeasesOK, Onward
<1>2. CASE StartAnswer(r.key, answer)
  BY <1>2 DEF StartAnswer, LeasesOK, Onward
<1>3. CASE EndAnswer(r.lease, answer)
  BY <1>3 DEF EndAnswer, LeasesOK, Onward
<1>4. CASE LoginAnswer(answer)
  BY <1>4 DEF LoginAnswer, LeasesOK, Onward
<1> QED BY <1>1, <1>2, <1>3, <1>4 DEF Answer

LEMMA LeasesOnward == ASSUME LeasesOK, [Next]_vars PROVE Onward(lease, lease')
<1>1. ASSUME NEW p \in Process, Serve(p) PROVE Onward(lease, lease')
  BY <1>1, AnswerOnward DEF Serve
<1>2. CASE ServeStray
  BY <1>2, AnswerOnward DEF ServeStray
<1>3. ASSUME NEW l \in Lease, Expire(l) \/ Revoke(l) PROVE Onward(lease, lease')
  BY <1>3 DEF Expire, Revoke, LeasesOK, Onward
<1>4. CASE Tick
  BY <1>4 DEF Tick, LeasesOK, Onward
<1>5. CASE UNCHANGED lease
  BY <1>5 DEF Onward
<1>6. ASSUME NEW p \in Process, Act(p) PROVE UNCHANGED lease
  BY <1>6 DEF Act, Policy, NoPolicy, Send, Fail, Cancel, Resumed, NotResumed, Granted, Refused, Registered, WaitOver,
       Renewed, Ended, Retry, GiveUp, FailStopping, HandBack, HandedBack, SaveOpen, SaveWrite, server
<1>7. ASSUME NEW p \in Process, Play(p) \/ Login(p) \/ Quit(p) \/ Crash(p) \/ Lose(p) \/ Reject(p) PROVE UNCHANGED lease
  BY <1>7 DEF Play, Login, Quit, Crash, Lose, Reject, server
<1> QED BY <1>1, <1>2, <1>3, <1>4, <1>5, <1>6, <1>7, Cases DEF vars

LEMMA KnowsOnward ==
    ASSUME NEW old, NEW new, Onward(old, new), NEW failed, NEW j, Knows(old, failed, j)
    PROVE  Knows(new, failed, j)
<1>1. \A l : (Issued(old, l) => Issued(new, l)) /\ (Over(old, l) => Over(new, l))
  BY DEF Onward, Issued, Over
<1> QED BY <1>1 DEF Knows, Informed, Untroubled

(* A step of one launcher that leaves the others and the file alone.       *)
LEMMA KnowSet ==
    ASSUME JobsOK, KnowInv, Onward(lease, lease'), UNCHANGED <<file, mishaps>>,
           NEW p \in Process, NEW new, Set(p, new), Knows(lease', mishaps, new)
    PROVE  KnowInv'
<1>1. \A q \in Process : Knows(lease', mishaps, job[q])
  BY KnowsOnward DEF KnowInv
<1>2. Issued(lease', file.saved.lease)
  BY DEF KnowInv, Onward, Issued
<1> QED BY <1>1, <1>2, SetAt DEF KnowInv

LEMMA KnowsOff == ASSUME NEW ls, NEW failed PROVE Knows(ls, failed, Off)
BY ConstantsAssumption DEF Knows, Informed, Untroubled, Issued, Heading, Leaving, Off, Empty

LEMMA KnowsForget ==
    ASSUME JobsOK, KnowInv, UNCHANGED <<lease, file, mishaps>>, NEW p \in Process, Forget(p),
           mishaps = 0 => Over(lease, job[p].held)
    PROVE  KnowInv'
<1> DEFINE new == [Off EXCEPT !.pc = "save", !.mem = [job[p].mem EXCEPT !.lease = "none"], !.held = job[p].held,
                              !.stop = job[p].stop, !.loaded = job[p].loaded]
<1>0. job[p] \in Job /\ Informed(lease, job[p])
  BY DEF JobsOK, KnowInv, Knows
<1>1. /\ new.pc = "save" /\ new.next = "off" /\ new.req = "unsent" /\ new.held = job[p].held
      /\ new.loaded = job[p].loaded /\ new.mem.lease = "none"
  BY <1>0 DEF Off, Job, State
<1>2. Set(p, new)
  BY DEF Forget
<1> HIDE DEF new
<1>3. Informed(lease, new)
  BY <1>0, <1>1, ConstantsAssumption DEF Informed, Heading, Issued
<1>4. Knows(lease, mishaps, new)
  BY <1>1, <1>3 DEF Knows, Untroubled
<1> QED BY <1>2, <1>4, KnowSet DEF Onward

(* A lease in hand and in agent.json's copy in memory. *)
LEMMA KnowsHold ==
    ASSUME JobsOK, KnowInv, NEW p \in Process, NEW l \in Lease, Issued(lease, l)
    PROVE  /\ Knows(lease, mishaps, Hold(p, l))
           /\ Knows(lease, mishaps, [Hold(p, l) EXCEPT !.pc = "save", !.next = "wait"])
<1> DEFINE hold == Hold(p, l)
           save == [hold EXCEPT !.pc = "save", !.next = "wait"]
<1>0. job[p] \in Job /\ Issued(lease, job[p].loaded)
  BY DEF JobsOK, KnowInv, Knows, Informed
<1>1. hold.pc = "wait" /\ hold.held = l /\ hold.mem.lease = l /\ hold.req = "unsent" /\ hold.loaded = job[p].loaded
  BY <1>0 DEF Hold, Job, State
<1>2. /\ save.pc = "save" /\ save.next = "wait" /\ save.held = l /\ save.mem.lease = l /\ save.req = "unsent"
      /\ save.loaded = job[p].loaded
  BY <1>0 DEF Hold, Job, State
<1> HIDE DEF hold, save
<1>3. Knows(lease, mishaps, hold)
  BY <1>0, <1>1 DEF Knows, Informed, Untroubled, Heading, Leaving
<1>4. Knows(lease, mishaps, save)
  BY <1>0, <1>2 DEF Knows, Informed, Untroubled, Heading, Leaving
<1> QED BY <1>3, <1>4 DEF hold, save

LEMMA KnowSave ==
    ASSUME JobsOK, SentBySender, KnowInv, NEW p \in Process, SaveOpen(p) \/ SaveWrite(p)
    PROVE  KnowInv'
<1>0. job[p] \in Job /\ Knows(lease, mishaps, job[p])
  BY DEF JobsOK, KnowInv
<1>1. ASSUME NEW new, Set(p, new), Knows(lease, mishaps, new), Issued(lease, file'.saved.lease), UNCHANGED <<lease, mishaps>>
      PROVE  KnowInv'
  BY <1>1, SetAt DEF KnowInv
<1>2. Issued(lease, Empty.lease) /\ Issued(lease, job[p].mem.lease) /\ Issued(lease, file.saved.lease)
  BY <1>0, ConstantsAssumption DEF Issued, Empty, Knows, Informed, KnowInv
<1>3. CASE SaveOpen(p)
  <2> DEFINE new == [job[p] EXCEPT !.pc = "saving"]
  <2>1. job[p].pc = "save" /\ Issued(lease, file'.saved.lease)
    BY <1>2, <1>3 DEF SaveOpen
  <2>2. /\ new.pc = "saving" /\ new.next = job[p].next /\ new.mem = job[p].mem /\ new.held = job[p].held
        /\ new.loaded = job[p].loaded /\ new.req = job[p].req /\ new.answer = job[p].answer
    BY <1>0 DEF Job
  <2> HIDE DEF new
  <2>3. Knows(lease, mishaps, new)
    BY <1>0, <2>1, <2>2 DEF Knows, Informed, Untroubled, Heading, Leaving
  <2> QED BY <1>1, <1>3, <2>1, <2>3, KnowsOff DEF SaveOpen, Exit, server, new
<1>4. CASE SaveWrite(p)
  <2> DEFINE new == [job[p] EXCEPT !.pc = job[p].next, !.next = "off"]
  <2>1. job[p].pc = "saving" /\ Issued(lease, file'.saved.lease)
    BY <1>2, <1>4 DEF SaveWrite
  <2>2. /\ new.pc = job[p].next /\ new.next = "off" /\ new.mem = job[p].mem /\ new.held = job[p].held
        /\ new.loaded = job[p].loaded /\ new.req = job[p].req /\ new.answer = job[p].answer
        /\ job[p].next \in Target
    BY <1>0 DEF Job
  <2>3. job[p].req = "unsent"
    BY <1>0, <2>1 DEF SentBySender, Sender, Job, Stage
  <2> HIDE DEF new
  <2>4. job[p].next # "off" => Knows(lease, mishaps, new)
    BY <1>0, <2>1, <2>2, <2>3 DEF Knows, Informed, Untroubled, Heading, Leaving, Target
  <2> QED BY <1>1, <1>4, <2>1, <2>4, KnowsOff DEF SaveWrite, Exit, server, new
<1> QED BY <1>3, <1>4

LEMMA KnowAct ==
    ASSUME JobsOK, SentBySender, KnowInv, NEW p \in Process, Act(p)
    PROVE  KnowInv'
<1>0. job[p] \in Job /\ Sender(job[p]) /\ Informed(lease, job[p]) /\ (mishaps = 0 => Untroubled(lease, job[p]))
  BY DEF JobsOK, SentBySender, KnowInv, Knows
<1>a. ASSUME NEW new, Set(p, new), Knows(lease, mishaps, new), UNCHANGED <<lease, file, mishaps>> PROVE KnowInv'
  BY <1>a, KnowSet DEF Onward
<1>1. CASE Policy(p)
  <2> DEFINE first == First(job[p].mem)
             saved == [job[p] EXCEPT !.pc = "save", !.next = first]
             ready == [job[p] EXCEPT !.pc = first]
  <2>1. job[p].req = "unsent" /\ job[p].pc = "policy" /\ job[p].mem.lease = job[p].loaded
    BY <1>0, <1>1 DEF Policy, Sender, Informed
  <2>2. first \in {"start", "resume"} /\ (first = "resume" => job[p].mem.lease \in Lease)
        /\ (first = "start" => job[p].mem.lease = "none")
    BY <1>0 DEF First, Job, State
  <2>3. \A new \in {saved, ready} : /\ new.mem = job[p].mem /\ new.held = job[p].held /\ new.loaded = job[p].loaded
                                    /\ new.req = "unsent"
    BY <1>0, <2>1 DEF Job
  <2>4. saved.pc = "save" /\ saved.next = first /\ ready.pc = first
    BY <1>0 DEF Job
  <2> HIDE DEF first, saved, ready
  <2>5. Knows(lease, mishaps, saved) /\ Knows(lease, mishaps, ready)
    BY <1>0, <2>1, <2>2, <2>3, <2>4 DEF Knows, Informed, Untroubled, Heading, Leaving
  <2> QED BY <1>a, <1>1, <2>5 DEF Policy, server, first, saved, ready
<1>2. CASE NoPolicy(p) \/ Fail(p) \/ Cancel(p) \/ Refused(p)
  BY <1>a, <1>2, KnowsOff DEF NoPolicy, Fail, Cancel, Refused, Exit, server
<1>3. CASE Send(p)
  <2> DEFINE new == [job[p] EXCEPT !.req = "sent", !.timer = 0, !.report = IF job[p].pc = "beat" THEN 0 ELSE None]
  <2>1. /\ new.pc = job[p].pc /\ new.req = "sent" /\ new.held = job[p].held /\ new.mem = job[p].mem
        /\ new.loaded = job[p].loaded /\ new.next = job[p].next
    BY <1>0 DEF Job
  <2> HIDE DEF new
  <2>2. Knows(lease, mishaps, new)
    BY <1>0, <2>1 DEF Knows, Informed, Untroubled, Heading, Leaving
  <2> QED BY <1>a, <1>3, <2>2 DEF Send, server, new
<1>4. CASE Resumed(p)
  <2>1. job[p].mem.lease \in Lease /\ Issued(lease, job[p].mem.lease)
    BY <1>0, <1>4 DEF Resumed, Answered, Informed, Heading
  <2> QED BY <1>a, <1>4, <2>1, KnowsHold DEF Resumed, server
<1>5. CASE Renewed(p)
  <2>1. job[p].held \in Lease /\ Issued(lease, job[p].held)
    BY <1>0, <1>5 DEF Renewed, Answered, Informed
  <2> QED BY <1>a, <1>5, <2>1, KnowsHold DEF Renewed, server
<1>6. CASE Granted(p)
  <2>1. job[p].answer \in Lease /\ Issued(lease, job[p].answer)
    BY <1>0, <1>6 DEF Granted, Answered, Informed
  <2> QED BY <1>a, <1>6, <2>1, KnowsHold DEF Granted, server
<1>7. CASE NotResumed(p)
  <2> DEFINE new == [job[p] EXCEPT !.pc = "save", !.next = "start", !.mem.lease = "none", !.timer = 0,
                                   !.req = "unsent", !.answer = "nothing", !.handled = 0]
  <2>1. /\ new.pc = "save" /\ new.next = "start" /\ new.req = "unsent" /\ new.mem.lease = "none"
        /\ new.held = job[p].held /\ new.loaded = job[p].loaded
    BY <1>0 DEF Job, State
  <2>2. Over(lease, job[p].loaded)
    BY <1>0, <1>7 DEF NotResumed, Answered, Informed, Heading
  <2> HIDE DEF new
  <2>3. Knows(lease, mishaps, new)
    BY <1>0, <2>1, <2>2, ConstantsAssumption DEF Knows, Informed, Untroubled, Heading, Leaving, Issued
  <2> QED BY <1>a, <1>7, <2>3 DEF NotResumed, server, new
<1>8. CASE Registered(p)
  <2> DEFINE new == [Off EXCEPT !.pc = "save", !.mem = [Empty EXCEPT !.key = job[p].answer], !.stop = job[p].stop]
  <2>1. /\ new.pc = "save" /\ new.next = "off" /\ new.req = "unsent" /\ new.mem.lease = "none" /\ new.held = "none"
        /\ new.loaded = "none"
    BY DEF Off, Empty
  <2> HIDE DEF new
  <2>2. Knows(lease, mishaps, new)
    BY <2>1, ConstantsAssumption DEF Knows, Informed, Untroubled, Heading, Leaving, Issued
  <2> QED BY <1>a, <1>8, <2>2 DEF Registered, server, new
<1>9. CASE WaitOver(p)
  <2> DEFINE new == [job[p] EXCEPT !.pc = "beat", !.timer = 0,
                       !.req = IF job[p].report \in 0 .. Heartbeat THEN "sent" ELSE "unsent"]
  <2>1. /\ new.pc = "beat" /\ new.held = job[p].held /\ new.mem = job[p].mem /\ new.loaded = job[p].loaded
        /\ new.req \in {"sent", "unsent"} /\ job[p].pc = "wait"
    BY <1>0, <1>9 DEF Job, WaitOver
  <2> HIDE DEF new
  <2>2. Knows(lease, mishaps, new)
    BY <1>0, <2>1 DEF Knows, Informed, Untroubled, Heading, Leaving
  <2> QED BY <1>a, <1>9, <2>2 DEF WaitOver, server, new
<1>10. CASE Retry(p)
  <2> DEFINE new == [job[p] EXCEPT !.pc = "wait", !.req = "unsent", !.timer = 0, !.delay = RetryDelay]
  <2>1. /\ new.pc = "wait" /\ new.held = job[p].held /\ new.mem = job[p].mem /\ new.loaded = job[p].loaded
        /\ new.req = "unsent" /\ job[p].pc = "beat"
    BY <1>0, <1>10 DEF Job, Retry
  <2> HIDE DEF new
  <2>2. Knows(lease, mishaps, new)
    BY <1>0, <2>1 DEF Knows, Informed, Untroubled, Heading, Leaving
  <2> QED BY <1>a, <1>10, <2>2 DEF Retry, server, new
<1>11. CASE Ended(p) \/ GiveUp(p) \/ FailStopping(p) \/ HandedBack(p)
  <2>1. mishaps = 0 => Over(lease, job[p].held)
    BY <1>0, <1>11 DEF Ended, GiveUp, FailStopping, HandedBack, Informed, Untroubled
  <2> QED BY <1>11, <2>1, KnowsForget DEF Ended, GiveUp, FailStopping, HandedBack, server
<1>12. CASE HandBack(p)
  <2> DEFINE new == [job[p] EXCEPT !.pc = "end", !.req = "sent", !.timer = 0, !.answer = "nothing", !.handled = 0,
                          !.since = 0, !.heard = 0, !.losses = 0, !.delay = 0, !.report = None]
  <2>1. /\ new.pc = "end" /\ new.held = job[p].held /\ new.mem = job[p].mem /\ new.loaded = job[p].loaded
        /\ new.req = "sent" /\ job[p].pc \in {"wait", "beat"}
    BY <1>0, <1>12 DEF Job, HandBack
  <2> HIDE DEF new
  <2>2. Knows(lease, mishaps, new)
    BY <1>0, <2>1 DEF Knows, Informed, Untroubled, Heading, Leaving
  <2> QED BY <1>a, <1>12, <2>2 DEF HandBack, server, new
<1>13. CASE SaveOpen(p) \/ SaveWrite(p)
  BY <1>13, KnowSave
<1> QED BY <1>1, <1>2, <1>3, <1>4, <1>5, <1>6, <1>7, <1>8, <1>9, <1>10, <1>11, <1>12, <1>13 DEF Act

(* What the server answers about a lease is so from then on. *)
LEMMA KnowServe ==
    ASSUME JobsOK, LeasesOK, SentBySender, KnowInv, NEW p \in Process, Serve(p)
    PROVE  KnowInv'
<1>0. job[p] \in Job /\ Sender(job[p]) /\ Knows(lease, mishaps, job[p])
  BY DEF JobsOK, SentBySender, KnowInv
<1>1. PICK answer \in Answers :
        /\ Answer(Request(p), answer)
        /\ Set(p, [job[p] EXCEPT !.req = "answered", !.answer = answer, !.handled = 0])
  BY DEF Serve
<1> DEFINE new == [job[p] EXCEPT !.req = "answered", !.answer = answer, !.handled = 0]
<1>2. /\ new.pc = job[p].pc /\ new.req = "answered" /\ new.answer = answer /\ new.held = job[p].held
      /\ new.mem = job[p].mem /\ new.next = job[p].next /\ new.loaded = job[p].loaded
      /\ job[p].req = "sent" /\ job[p].pc \in {"resume", "start", "beat", "end", "login"}
  BY <1>0 DEF Job, Serve, Sender
<1>3. Onward(lease, lease')
  BY <1>1, AnswerOnward
<1>4. Knows(lease', mishaps, job[p])
  BY <1>0, <1>3, KnowsOnward
<1> HIDE DEF new
<1>5. new.pc = "start" => Issued(lease', answer)
  <2> SUFFICES ASSUME new.pc = "start" PROVE Issued(lease', answer)
    OBVIOUS
  <2>1. StartAnswer(Request(p).key, answer)
    BY <1>1, <1>2 DEF Answer, Request
  <2> QED BY <2>1, ConstantsAssumption DEF StartAnswer, Issued, LeasesOK
<1>6. ASSUME NEW l \in Lease, Issued(lease, l), BeatAnswer(l, answer), answer = "over" PROVE Over(lease', l)
  BY <1>6 DEF BeatAnswer, Over, Issued, LeasesOK
<1>7. new.pc = "resume" /\ answer = "over" => Over(lease', new.mem.lease)
  <2> SUFFICES ASSUME new.pc = "resume", answer = "over" PROVE Over(lease', new.mem.lease)
    OBVIOUS
  <2>1. Request(p).kind = "beat" /\ Request(p).lease = new.mem.lease
    BY <1>2 DEF Request
  <2>2. new.mem.lease \in Lease /\ Issued(lease, new.mem.lease)
    BY <1>0, <1>2 DEF Knows, Informed, Heading
  <2> QED BY <1>1, <1>6, <2>1, <2>2 DEF Answer
<1>8. new.pc = "beat" /\ answer = "over" => Over(lease', new.held)
  <2> SUFFICES ASSUME new.pc = "beat", answer = "over" PROVE Over(lease', new.held)
    OBVIOUS
  <2>1. Request(p).kind = "beat" /\ Request(p).lease = new.held
    BY <1>2 DEF Request
  <2>2. new.held \in Lease /\ Issued(lease, new.held)
    BY <1>0, <1>2 DEF Knows, Informed
  <2> QED BY <1>1, <1>6, <2>1, <2>2 DEF Answer
<1>9. new.pc = "end" => Over(lease', new.held)
  <2> SUFFICES ASSUME new.pc = "end" PROVE Over(lease', new.held)
    OBVIOUS
  <2>1. Request(p).kind = "end" /\ Request(p).lease = new.held
    BY <1>2 DEF Request
  <2>2. new.held \in Lease /\ Issued(lease, new.held)
    BY <1>0, <1>2 DEF Knows, Informed
  <2>3. EndAnswer(new.held, answer)
    BY <1>1, <2>1 DEF Answer
  <2> QED BY <2>2, <2>3 DEF EndAnswer, Over, Issued, LeasesOK
<1>10. Knows(lease', mishaps, new)
  BY <1>2, <1>4, <1>5, <1>7, <1>8, <1>9 DEF Knows, Informed, Untroubled, Heading, Leaving
<1> QED BY <1>1, <1>3, <1>10, KnowSet DEF Serve, new

LEMMA KnowStep == ASSUME TypeOK, SentBySender, KnowInv, [Next]_vars PROVE KnowInv'
<1>0. JobsOK /\ LeasesOK /\ FileOK /\ mishaps \in Nat /\ Onward(lease, lease')
  BY Parts, LeasesOnward DEF CountOK
<1>1. ASSUME NEW p \in Process, Play(p) \/ Login(p) PROVE KnowInv'
  <2> DEFINE play == [Off EXCEPT !.pc = "policy", !.mem = file.saved, !.loaded = file.saved.lease]
             login == [Off EXCEPT !.pc = "login"]
  <2>1. /\ play.pc = "policy" /\ play.req = "unsent" /\ play.mem = file.saved /\ play.loaded = file.saved.lease
        /\ play.held = "none"
    BY DEF Off
  <2>2. /\ login.pc = "login" /\ login.req = "unsent" /\ login.mem.lease = "none" /\ login.loaded = "none"
        /\ login.held = "none"
    BY DEF Off, Empty
  <2>3. Set(p, play) \/ Set(p, login)
    BY <1>1 DEF Play, Login
  <2> HIDE DEF play, login
  <2>4. Knows(lease, mishaps, play)
    BY <2>1, ConstantsAssumption DEF KnowInv, Knows, Informed, Untroubled, Heading, Leaving, Issued
  <2>5. Knows(lease, mishaps, login)
    BY <2>2, ConstantsAssumption DEF Knows, Informed, Untroubled, Heading, Leaving, Issued
  <2> QED BY <1>0, <1>1, <2>3, <2>4, <2>5, KnowSet DEF Play, Login, server
<1>2. ASSUME NEW p \in Process, Quit(p) PROVE KnowInv'
  <2> DEFINE new == [job[p] EXCEPT !.stop = TRUE]
  <2>0. job[p] \in Job /\ Knows(lease, mishaps, job[p])
    BY <1>0 DEF JobsOK, KnowInv
  <2>1. /\ new.pc = job[p].pc /\ new.req = job[p].req /\ new.answer = job[p].answer /\ new.held = job[p].held
        /\ new.mem = job[p].mem /\ new.next = job[p].next /\ new.loaded = job[p].loaded
    BY <2>0 DEF Job
  <2> HIDE DEF new
  <2>2. Knows(lease, mishaps, new)
    BY <2>0, <2>1 DEF Knows, Informed, Untroubled, Heading, Leaving
  <2> QED BY <1>0, <1>2, <2>2, KnowSet DEF Quit, server, new
<1>3. ASSUME NEW p \in Process, NEW new, Set(p, new), Informed(lease, new), Mishap, UNCHANGED lease,
             file'.saved = file.saved
      PROVE  KnowInv'
  <2>1. mishaps' # 0
    BY <1>0, <1>3 DEF Mishap
  <2>2. \A q \in Process : Informed(lease, job'[q])
    BY <1>0, <1>3, SetAt DEF KnowInv, Knows
  <2> QED BY <1>3, <2>1, <2>2 DEF KnowInv, Knows
<1>4. ASSUME NEW p \in Process, Crash(p) PROVE KnowInv'
  <2>1. file'.saved = file.saved
    BY <1>0, <1>4 DEF Crash, FileOK
  <2> QED BY <1>3, <1>4, <2>1, KnowsOff DEF Crash, Exit, server, Knows
<1>5. ASSUME NEW p \in Process, Lose(p) PROVE KnowInv'
  <2> DEFINE n == IF job[p].pc = "beat" /\ job[p].losses < 2 THEN job[p].losses + 1 ELSE job[p].losses
             new == [job[p] EXCEPT !.req = "lost", !.answer = "nothing", !.handled = 0, !.losses = n]
  <2>0. job[p] \in Job /\ Informed(lease, job[p])
    BY <1>0 DEF JobsOK, KnowInv, Knows
  <2>1. Set(p, new)
    BY <1>5 DEF Lose
  <2> HIDE DEF n
  <2>2. /\ new.pc = job[p].pc /\ new.req = "lost" /\ new.held = job[p].held /\ new.mem = job[p].mem
        /\ new.next = job[p].next /\ new.loaded = job[p].loaded
    BY <2>0 DEF Job
  <2> HIDE DEF new
  <2>3. Informed(lease, new)
    BY <2>0, <2>2 DEF Informed, Heading
  <2> QED BY <1>3, <1>5, <2>1, <2>3 DEF Lose, server
<1>6. ASSUME NEW p \in Process, Reject(p) PROVE KnowInv'
  <2> DEFINE new == [job[p] EXCEPT !.req = "rejected"]
  <2>0. job[p] \in Job /\ Informed(lease, job[p])
    BY <1>0 DEF JobsOK, KnowInv, Knows
  <2>1. /\ new.pc = job[p].pc /\ new.req = "rejected" /\ new.held = job[p].held /\ new.mem = job[p].mem
        /\ new.next = job[p].next /\ new.loaded = job[p].loaded
    BY <2>0 DEF Job
  <2> HIDE DEF new
  <2>2. Informed(lease, new)
    BY <2>0, <2>1 DEF Informed, Heading
  <2> QED BY <1>3, <1>6, <2>2 DEF Reject, server, new
<1>7. ASSUME UNCHANGED <<file, mishaps>>, \A p \in Process : Knows(lease', mishaps, job'[p]) PROVE KnowInv'
  <2>1. Issued(lease', file.saved.lease)
    BY <1>0 DEF KnowInv, Onward, Issued
  <2> QED BY <1>7, <2>1 DEF KnowInv
<1>8. \A p \in Process : Knows(lease', mishaps, job[p])
  BY <1>0, KnowsOnward DEF KnowInv
<1>9. CASE Tick
  <2>1. ASSUME NEW p \in Process PROVE Knows(lease', mishaps, Aged(job[p]))
    <3> DEFINE new == Aged(job[p])
    <3>0. job[p] \in Job /\ Knows(lease', mishaps, job[p])
      BY <1>0, <1>8 DEF JobsOK
    <3>1. /\ new.pc = job[p].pc /\ new.req = job[p].req /\ new.answer = job[p].answer /\ new.held = job[p].held
          /\ new.mem = job[p].mem /\ new.next = job[p].next /\ new.loaded = job[p].loaded
      BY <3>0 DEF Job, Aged
    <3> HIDE DEF new
    <3>2. Knows(lease', mishaps, new)
      BY <3>0, <3>1 DEF Knows, Informed, Untroubled, Heading, Leaving
    <3> QED BY <3>2 DEF new
  <2> QED BY <1>7, <1>8, <1>9, <2>1 DEF Tick
<1>10. CASE ServeStray \/ (\E l \in Lease : Expire(l) \/ Revoke(l)) \/ UNCHANGED vars
  BY <1>7, <1>8, <1>10 DEF ServeStray, Expire, Revoke, vars
<1> QED BY <1>0, <1>1, <1>2, <1>4, <1>5, <1>6, <1>9, <1>10, KnowAct, KnowServe, Cases

LEMMA KnowAlways == Spec => [](TypeOK /\ SentBySender /\ KnowInv)
<1> DEFINE Inv == TypeOK /\ SentBySender /\ KnowInv
<1>1. Init => Inv
  <2>1. Init => KnowInv
    BY KnowsOff, ConstantsAssumption DEF Init, KnowInv, Issued, Empty
  <2> QED BY <2>1, TypeInit, SentInit
<1>2. Inv /\ [Next]_vars => Inv'
  BY TypeStep, SentStep, KnowStep, Parts
<1> QED BY <1>1, <1>2, PTL DEF Spec

(* A launcher asks for a new lease only after the one it found on disk is  *)
(* over, however many launchers run, and whatever requests are lost, late, *)
(* rejected or wander: an error on resuming never costs a live lease.      *)
THEOREM NewOnlyIfOverCorrect == Spec => []NewOnlyIfOver
<1>1. KnowInv => NewOnlyIfOver
  <2> SUFFICES ASSUME KnowInv, NEW p \in Process, job[p].pc = "start", job[p].loaded # "none"
               PROVE  lease[job[p].loaded].state # "Active"
    BY DEF NewOnlyIfOver
  <2> QED BY DEF KnowInv, Knows, Informed, Heading, Over
<1> QED BY <1>1, KnowAlways, PTL

(* PlayCommand.cs:15, 106-119: whoever leaves the heartbeat loop, by       *)
(* quitting or because the server said so, leaves a lease behind that is   *)
(* over, unless something had failed.  (Who quits before the loop does     *)
(* not: QuitHandsBack.)                                                    *)
LoopHandsBack ==
    \A p \in Process : mishaps = 0 /\ Leaving(job[p]) => lease[job[p].held].state = "Over"

(* Nothing but a failure makes a launcher that was in its heartbeat loop   *)
(* leave a lease behind, however late its quitting falls.                  *)
THEOREM LoopHandsBackCorrect == Spec => []LoopHandsBack
<1>1. KnowInv => LoopHandsBack
  BY DEF KnowInv, Knows, Untroubled, LoopHandsBack, Over
<1> QED BY <1>1, KnowAlways, PTL

-----------------------------------------------------------------------------
(* agent.json *)

(* Who has the file open is writing it, so that one launcher does at most. *)
WriterInv == \A p \in Process : file.open = p <=> job[p].pc = "saving"

Running(p) == job[p].pc # "off"

(* Launchers may come and go, and crash, but do not run side by side.      *)
OneAtATime == \A p, q \in Process : Running(p) /\ Running(q) => p = q

(* What a launcher that runs alone has in memory is on disk, but for the   *)
(* time in which it saves a change.                                        *)
Stored(saved, j) ==
    /\ j.pc \in {"policy", "resume", "start", "wait", "beat"} => saved = j.mem
    /\ j.pc = "beat" \/ Heading(j, "wait") => j.mem.lease = j.held

StoredInv == \A p \in Process : Stored(file.saved, job[p])

LEMMA StoredSet ==
    ASSUME JobsOK, StoredInv, UNCHANGED file, NEW p \in Process, NEW new, Set(p, new), Stored(file.saved, new)
    PROVE  StoredInv'
BY SetAt DEF StoredInv

LEMMA StoredOff == ASSUME NEW saved PROVE Stored(saved, Off)
BY DEF Stored, Heading, Off

LEMMA StoredForget == ASSUME JobsOK, StoredInv, UNCHANGED file, NEW p \in Process, Forget(p) PROVE StoredInv'
<1> DEFINE new == [Off EXCEPT !.pc = "save", !.mem = [job[p].mem EXCEPT !.lease = "none"], !.held = job[p].held,
                              !.stop = job[p].stop, !.loaded = job[p].loaded]
<1>1. new.pc = "save" /\ new.next = "off"
  BY DEF Off
<1>2. Set(p, new)
  BY DEF Forget
<1> HIDE DEF new
<1>3. Stored(file.saved, new)
  BY <1>1 DEF Stored, Heading
<1> QED BY <1>2, <1>3, StoredSet

(* A lease that is saved already. *)
LEMMA StoredHold ==
    ASSUME JobsOK, NEW p \in Process, NEW l
    PROVE  /\ file.saved = job[p].mem /\ job[p].mem.lease = l => Stored(file.saved, Hold(p, l))
           /\ Stored(file.saved, [Hold(p, l) EXCEPT !.pc = "save", !.next = "wait"])
<1> DEFINE hold == Hold(p, l)
           save == [hold EXCEPT !.pc = "save", !.next = "wait"]
<1>0. job[p] \in Job
  BY DEF JobsOK
<1>1. hold.pc = "wait" /\ hold.held = l /\ hold.mem.lease = l /\ (job[p].mem.lease = l => hold.mem = job[p].mem)
  BY <1>0 DEF Hold, Job, State
<1>2. save.pc = "save" /\ save.held = l /\ save.mem.lease = l
  BY <1>0 DEF Hold, Job, State
<1> HIDE DEF hold, save
<1>3. file.saved = job[p].mem /\ job[p].mem.lease = l => Stored(file.saved, hold)
  BY <1>1 DEF Stored
<1>4. Stored(file.saved, save)
  BY <1>2 DEF Stored
<1> QED BY <1>3, <1>4 DEF hold, save

LEMMA StoredAct ==
    ASSUME JobsOK, KnowInv, WriterInv, OneAtATime, StoredInv, NEW p \in Process, Act(p)
    PROVE  StoredInv'
<1>0. job[p] \in Job /\ Stored(file.saved, job[p]) /\ Informed(lease, job[p])
  BY DEF JobsOK, StoredInv, KnowInv, Knows
<1>1. CASE Policy(p)
  <2> DEFINE first == First(job[p].mem)
             saved == [job[p] EXCEPT !.pc = "save", !.next = first]
             ready == [job[p] EXCEPT !.pc = first]
  <2>1. job[p].pc = "policy" /\ first \in {"start", "resume"}
    BY <1>1 DEF Policy, First
  <2>2. saved.pc = "save" /\ saved.next = first /\ ready.pc = first /\ ready.mem = job[p].mem
    BY <1>0 DEF Job
  <2> HIDE DEF first, saved, ready
  <2>3. Stored(file.saved, saved) /\ Stored(file.saved, ready)
    BY <1>0, <2>1, <2>2 DEF Stored, Heading
  <2> QED BY <1>1, <2>3, StoredSet DEF Policy, first, saved, ready
<1>2. CASE NoPolicy(p) \/ Fail(p) \/ Cancel(p) \/ Refused(p)
  BY <1>2, StoredOff, StoredSet DEF NoPolicy, Fail, Cancel, Refused, Exit
<1>3. ASSUME NEW new, Set(p, new), new.mem = job[p].mem, new.held = job[p].held, UNCHANGED file,
             \/ new.pc = job[p].pc /\ new.next = job[p].next
             \/ new.pc \in {"beat", "wait"} /\ job[p].pc \in {"beat", "wait"}
      PROVE  StoredInv'
  BY <1>0, <1>3, StoredSet DEF Stored, Heading
<1>4. CASE Send(p)
  <2> DEFINE new == [job[p] EXCEPT !.req = "sent", !.timer = 0, !.report = IF job[p].pc = "beat" THEN 0 ELSE None]
  <2>1. new.pc = job[p].pc /\ new.held = job[p].held /\ new.mem = job[p].mem /\ new.next = job[p].next
    BY <1>0 DEF Job
  <2> HIDE DEF new
  <2> QED BY <1>3, <1>4, <2>1 DEF Send, new
<1>5. CASE Resumed(p)
  BY <1>0, <1>5, StoredHold, StoredSet DEF Resumed, Answered, Stored
<1>6. CASE Renewed(p)
  BY <1>0, <1>6, StoredHold, StoredSet DEF Renewed, Answered, Stored
<1>7. CASE Granted(p)
  BY <1>7, StoredHold, StoredSet DEF Granted
<1>8. CASE NotResumed(p)
  <2> DEFINE new == [job[p] EXCEPT !.pc = "save", !.next = "start", !.mem.lease = "none", !.timer = 0,
                                   !.req = "unsent", !.answer = "nothing", !.handled = 0]
  <2>1. new.pc = "save" /\ new.next = "start"
    BY <1>0 DEF Job
  <2> HIDE DEF new
  <2>2. Stored(file.saved, new)
    BY <2>1 DEF Stored, Heading
  <2> QED BY <1>8, <2>2, StoredSet DEF NotResumed, new
<1>9. CASE Registered(p)
  <2> DEFINE new == [Off EXCEPT !.pc = "save", !.mem = [Empty EXCEPT !.key = job[p].answer], !.stop = job[p].stop]
  <2>1. new.pc = "save" /\ new.next = "off"
    BY DEF Off
  <2> HIDE DEF new
  <2>2. Stored(file.saved, new)
    BY <2>1 DEF Stored, Heading
  <2> QED BY <1>9, <2>2, StoredSet DEF Registered, new
<1>10. CASE WaitOver(p)
  <2> DEFINE new == [job[p] EXCEPT !.pc = "beat", !.timer = 0,
                       !.req = IF job[p].report \in 0 .. Heartbeat THEN "sent" ELSE "unsent"]
  <2>1. new.pc = "beat" /\ new.held = job[p].held /\ new.mem = job[p].mem /\ job[p].pc = "wait"
    BY <1>0, <1>10 DEF Job, WaitOver
  <2> HIDE DEF new
  <2> QED BY <1>3, <1>10, <2>1 DEF WaitOver, new
<1>11. CASE Retry(p)
  <2> DEFINE new == [job[p] EXCEPT !.pc = "wait", !.req = "unsent", !.timer = 0, !.delay = RetryDelay]
  <2>1. new.pc = "wait" /\ new.held = job[p].held /\ new.mem = job[p].mem /\ job[p].pc = "beat"
    BY <1>0, <1>11 DEF Job, Retry
  <2> HIDE DEF new
  <2> QED BY <1>3, <1>11, <2>1 DEF Retry, new
<1>12. CASE Ended(p) \/ GiveUp(p) \/ FailStopping(p) \/ HandedBack(p)
  BY <1>12, StoredForget DEF Ended, GiveUp, FailStopping, HandedBack
<1>13. CASE HandBack(p)
  <2> DEFINE new == [job[p] EXCEPT !.pc = "end", !.req = "sent", !.timer = 0, !.answer = "nothing", !.handled = 0,
                          !.since = 0, !.heard = 0, !.losses = 0, !.delay = 0, !.report = None]
  <2>1. new.pc = "end"
    BY <1>0 DEF Job
  <2> HIDE DEF new
  <2>2. Stored(file.saved, new)
    BY <2>1 DEF Stored, Heading
  <2> QED BY <1>13, <2>2, StoredSet DEF HandBack, new
<1>14. ASSUME NEW new, Set(p, new), Stored(file'.saved, new), Running(p) PROVE StoredInv'
  <2>1. ASSUME NEW q \in Process \ {p} PROVE Stored(file'.saved, job[q])
    <3>1. job[q].pc = "off"
      BY <1>14 DEF OneAtATime, Running
    <3> QED BY <3>1 DEF Stored, Heading
  <2> QED BY <1>14, <2>1, SetAt DEF StoredInv
<1>15. CASE SaveOpen(p)
  <2> DEFINE new == [job[p] EXCEPT !.pc = "saving"]
  <2>1. /\ new.pc = "saving" /\ new.next = job[p].next /\ new.mem = job[p].mem /\ new.held = job[p].held
        /\ job[p].pc = "save"
    BY <1>0, <1>15 DEF Job, SaveOpen
  <2> HIDE DEF new
  <2>2. Stored(file'.saved, new)
    BY <1>0, <2>1 DEF Stored, Heading
  <2> QED BY <1>14, <1>15, <2>1, <2>2, StoredOff DEF SaveOpen, Exit, Running, new
<1>16. CASE SaveWrite(p)
  <2> DEFINE new == [job[p] EXCEPT !.pc = job[p].next, !.next = "off"]
  <2>1. /\ new.pc = job[p].next /\ new.next = "off" /\ new.mem = job[p].mem /\ new.held = job[p].held
        /\ job[p].pc = "saving" /\ file'.saved = job[p].mem /\ job[p].next \in Target
    BY <1>0, <1>16 DEF Job, SaveWrite
  <2> HIDE DEF new
  <2>2. Stored(file'.saved, new)
    BY <1>0, <2>1 DEF Stored, Heading, Target
  <2> QED BY <1>14, <1>16, <2>1, <2>2, StoredOff DEF SaveWrite, Exit, Running, new
<1> QED BY <1>1, <1>2, <1>4, <1>5, <1>6, <1>7, <1>8, <1>9, <1>10, <1>11, <1>12, <1>13, <1>15, <1>16 DEF Act

LEMMA StoredStep ==
    ASSUME TypeOK, KnowInv, WriterInv, OneAtATime, StoredInv, [Next]_vars, OneAtATime'
    PROVE  StoredInv'
<1>0. JobsOK /\ FileOK
  BY Parts
<1>1. ASSUME NEW p \in Process, NEW new, Set(p, new), UNCHANGED file, NEW j \in Job, j = job[p],
             new.pc = j.pc, new.next = j.next, new.mem = j.mem, new.held = j.held
      PROVE  StoredInv'
  BY <1>0, <1>1, StoredSet DEF StoredInv, Stored, Heading
<1>2. ASSUME NEW p \in Process, Serve(p) PROVE StoredInv'
  <2>1. PICK answer \in Answers : Set(p, [job[p] EXCEPT !.req = "answered", !.answer = answer, !.handled = 0])
    BY <1>2 DEF Serve
  <2> DEFINE new == [job[p] EXCEPT !.req = "answered", !.answer = answer, !.handled = 0]
  <2>2. /\ job[p] \in Job /\ new.pc = job[p].pc /\ new.next = job[p].next /\ new.mem = job[p].mem
        /\ new.held = job[p].held /\ Set(p, new)
    BY <1>0, <2>1 DEF JobsOK, Job
  <2> HIDE DEF new
  <2> QED BY <1>1, <1>2, <2>2 DEF Serve
<1>3. ASSUME NEW p \in Process, Play(p) PROVE StoredInv'
  <2> DEFINE new == [Off EXCEPT !.pc = "policy", !.mem = file.saved, !.loaded = file.saved.lease]
  <2>1. new.pc = "policy" /\ new.mem = file.saved
    BY DEF Off
  <2> HIDE DEF new
  <2>2. Stored(file.saved, new)
    BY <2>1 DEF Stored, Heading
  <2> QED BY <1>0, <1>3, <2>2, StoredSet DEF Play, new
<1>4. ASSUME NEW p \in Process, Login(p) PROVE StoredInv'
  <2>1. Stored(file.saved, [Off EXCEPT !.pc = "login"])
    BY DEF Stored, Heading, Off
  <2> QED BY <1>0, <1>4, <2>1, StoredSet DEF Login
<1>5. ASSUME NEW p \in Process, Quit(p) PROVE StoredInv'
  BY <1>0, <1>1, <1>5 DEF Quit, JobsOK, Job
<1>6. ASSUME NEW p \in Process, Crash(p) PROVE StoredInv'
  <2>1. file'.saved = file.saved
    BY <1>0, <1>6 DEF Crash, FileOK
  <2> QED BY <1>0, <1>6, <2>1, SetAt, StoredOff DEF Crash, Exit, StoredInv
<1>7. ASSUME NEW p \in Process, Lose(p) PROVE StoredInv'
  <2> DEFINE n == IF job[p].pc = "beat" /\ job[p].losses < 2 THEN job[p].losses + 1 ELSE job[p].losses
  <2>1. Set(p, [job[p] EXCEPT !.req = "lost", !.answer = "nothing", !.handled = 0, !.losses = n])
    BY <1>7 DEF Lose
  <2> HIDE DEF n
  <2> DEFINE new == [job[p] EXCEPT !.req = "lost", !.answer = "nothing", !.handled = 0, !.losses = n]
  <2>2. /\ job[p] \in Job /\ new.pc = job[p].pc /\ new.next = job[p].next /\ new.mem = job[p].mem
        /\ new.held = job[p].held /\ Set(p, new)
    BY <1>0, <2>1 DEF JobsOK, Job
  <2> HIDE DEF new
  <2> QED BY <1>1, <1>7, <2>2 DEF Lose
<1>8. ASSUME NEW p \in Process, Reject(p) PROVE StoredInv'
  BY <1>0, <1>1, <1>8 DEF Reject, JobsOK, Job
<1>9. CASE Tick
  <2>1. ASSUME NEW j \in Job, Stored(file.saved, j) PROVE Stored(file.saved, Aged(j))
    <3>1. Aged(j).pc = j.pc /\ Aged(j).next = j.next /\ Aged(j).mem = j.mem /\ Aged(j).held = j.held
      BY DEF Aged, Job
    <3> QED BY <2>1, <3>1 DEF Stored, Heading
  <2> QED BY <1>0, <1>9, <2>1 DEF Tick, StoredInv, JobsOK
<1>10. CASE ServeStray \/ (\E l \in Lease : Expire(l) \/ Revoke(l)) \/ UNCHANGED vars
  BY <1>10 DEF ServeStray, Expire, Revoke, vars, StoredInv
<1> QED BY <1>0, <1>2, <1>3, <1>4, <1>5, <1>6, <1>7, <1>8, <1>9, <1>10, StoredAct, Cases

LEMMA WriterSet ==
    ASSUME JobsOK, WriterInv, UNCHANGED file, NEW p \in Process, NEW new, Set(p, new),
           new.pc = "saving" <=> job[p].pc = "saving"
    PROVE  WriterInv'
BY SetAt DEF WriterInv

LEMMA WriterAct == ASSUME JobsOK, WriterInv, NEW p \in Process, Act(p) PROVE WriterInv'
<1>0. job[p] \in Job /\ p # "none"
  BY ConstantsAssumption DEF JobsOK
<1>1. ASSUME NEW new, Set(p, new), UNCHANGED file, new.pc # "saving", job[p].pc # "saving" PROVE WriterInv'
  BY <1>1, WriterSet
<1>2. Off.pc = "off"
  BY DEF Off
<1>3. CASE Policy(p)
  <2> DEFINE saved == [job[p] EXCEPT !.pc = "save", !.next = First(job[p].mem)]
             ready == [job[p] EXCEPT !.pc = First(job[p].mem)]
  <2>1. saved.pc # "saving" /\ ready.pc # "saving" /\ job[p].pc = "policy"
    BY <1>0, <1>3 DEF Job, First, Policy
  <2> HIDE DEF saved, ready
  <2> QED BY <1>1, <1>3, <2>1 DEF Policy, saved, ready
<1>4. CASE NoPolicy(p) \/ Fail(p) \/ Cancel(p) \/ Refused(p)
  BY <1>1, <1>2, <1>4 DEF NoPolicy, Fail, Cancel, Refused, Exit, Answered
<1>5. CASE Send(p)
  <2> DEFINE new == [job[p] EXCEPT !.req = "sent", !.timer = 0, !.report = IF job[p].pc = "beat" THEN 0 ELSE None]
  <2>1. new.pc = job[p].pc
    BY <1>0 DEF Job
  <2> HIDE DEF new
  <2> QED BY <1>5, <2>1, WriterSet DEF Send, new
<1>6. CASE Resumed(p) \/ Renewed(p) \/ Granted(p)
  <2>1. ASSUME NEW l
        PROVE  Hold(p, l).pc = "wait" /\ [Hold(p, l) EXCEPT !.pc = "save", !.next = "wait"].pc = "save"
    BY <1>0 DEF Hold, Job
  <2> QED BY <1>1, <1>6, <2>1 DEF Resumed, Renewed, Granted, Answered
<1>7. CASE NotResumed(p)
  <2> DEFINE new == [job[p] EXCEPT !.pc = "save", !.next = "start", !.mem.lease = "none", !.timer = 0,
                                   !.req = "unsent", !.answer = "nothing", !.handled = 0]
  <2>1. new.pc = "save"
    BY <1>0 DEF Job
  <2> HIDE DEF new
  <2> QED BY <1>1, <1>7, <2>1 DEF NotResumed, Answered, new
<1>8. CASE Registered(p)
  <2> DEFINE new == [Off EXCEPT !.pc = "save", !.mem = [Empty EXCEPT !.key = job[p].answer], !.stop = job[p].stop]
  <2>1. new.pc = "save"
    BY DEF Off
  <2> HIDE DEF new
  <2> QED BY <1>1, <1>8, <2>1 DEF Registered, Answered, new
<1>9. CASE WaitOver(p)
  <2> DEFINE new == [job[p] EXCEPT !.pc = "beat", !.timer = 0,
                       !.req = IF job[p].report \in 0 .. Heartbeat THEN "sent" ELSE "unsent"]
  <2>1. new.pc = "beat"
    BY <1>0 DEF Job
  <2> HIDE DEF new
  <2> QED BY <1>1, <1>9, <2>1 DEF WaitOver, new
<1>10. CASE Retry(p)
  <2> DEFINE new == [job[p] EXCEPT !.pc = "wait", !.req = "unsent", !.timer = 0, !.delay = RetryDelay]
  <2>1. new.pc = "wait"
    BY <1>0 DEF Job
  <2> HIDE DEF new
  <2> QED BY <1>1, <1>10, <2>1 DEF Retry, new
<1>11. CASE Ended(p) \/ GiveUp(p) \/ FailStopping(p) \/ HandedBack(p)
  <2> DEFINE new == [Off EXCEPT !.pc = "save", !.mem = [job[p].mem EXCEPT !.lease = "none"], !.held = job[p].held,
                                !.stop = job[p].stop, !.loaded = job[p].loaded]
  <2>1. new.pc = "save"
    BY DEF Off
  <2>2. Set(p, new) /\ job[p].pc \in {"beat", "end"} /\ UNCHANGED file
    BY <1>11 DEF Ended, GiveUp, FailStopping, HandedBack, Forget
  <2> HIDE DEF new
  <2> QED BY <1>1, <2>1, <2>2
<1>12. CASE HandBack(p)
  <2> DEFINE new == [job[p] EXCEPT !.pc = "end", !.req = "sent", !.timer = 0, !.answer = "nothing", !.handled = 0,
                          !.since = 0, !.heard = 0, !.losses = 0, !.delay = 0, !.report = None]
  <2>1. new.pc = "end"
    BY <1>0 DEF Job
  <2> HIDE DEF new
  <2> QED BY <1>1, <1>12, <2>1 DEF HandBack, new
<1>13. CASE SaveOpen(p)
  <2> DEFINE new == [job[p] EXCEPT !.pc = "saving"]
  <2>1. new.pc = "saving" /\ job[p].pc = "save"
    BY <1>0, <1>13 DEF Job, SaveOpen
  <2> HIDE DEF new
  <2>2. CASE file.open = "none"
    <3>1. Set(p, new) /\ file'.open = p
      BY <1>13, <2>2 DEF SaveOpen, new
    <3>2. \A q \in Process : job[q].pc # "saving"
      BY <2>2, ConstantsAssumption DEF WriterInv
    <3> QED BY <2>1, <3>1, <3>2, SetAt DEF WriterInv
  <2>3. CASE file.open # "none"
    BY <1>1, <1>2, <1>13, <2>1, <2>3 DEF SaveOpen, Exit
  <2> QED BY <2>2, <2>3
<1>14. CASE SaveWrite(p)
  <2> DEFINE new == [job[p] EXCEPT !.pc = job[p].next, !.next = "off"]
  <2>1. /\ new.pc # "saving" /\ job[p].pc = "saving" /\ file.open = p /\ file'.open = "none"
    BY <1>0, <1>14 DEF Job, SaveWrite, Target, WriterInv
  <2> HIDE DEF new
  <2>2. \A q \in Process \ {p} : job[q].pc # "saving"
    BY <2>1 DEF WriterInv
  <2>3. Set(p, new) \/ Set(p, Off)
    BY <1>14 DEF SaveWrite, Exit, new
  <2> QED BY <1>2, <2>1, <2>2, <2>3, SetAt, ConstantsAssumption DEF WriterInv
<1> QED BY <1>3, <1>4, <1>5, <1>6, <1>7, <1>8, <1>9, <1>10, <1>11, <1>12, <1>13, <1>14 DEF Act

LEMMA WriterStep == ASSUME JobsOK, FileOK, WriterInv, [Next]_vars PROVE WriterInv'
<1>1. ASSUME NEW p \in Process, Serve(p) \/ Quit(p) \/ Lose(p) \/ Reject(p) PROVE WriterInv'
  <2>0. job[p] \in Job
    BY DEF JobsOK
  <2>1. PICK new : Set(p, new) /\ new.pc = job[p].pc
    <3>1. CASE Serve(p)
      <4>1. PICK answer \in Answers : Set(p, [job[p] EXCEPT !.req = "answered", !.answer = answer, !.handled = 0])
        BY <3>1 DEF Serve
      <4> DEFINE served == [job[p] EXCEPT !.req = "answered", !.answer = answer, !.handled = 0]
      <4>2. Set(p, served) /\ served.pc = job[p].pc
        BY <2>0, <4>1 DEF Job
      <4> HIDE DEF served
      <4> QED BY <4>2
    <3>2. CASE Quit(p)
      BY <2>0, <3>2 DEF Quit, Job
    <3>3. CASE Lose(p)
      <4> DEFINE n == IF job[p].pc = "beat" /\ job[p].losses < 2 THEN job[p].losses + 1 ELSE job[p].losses
      <4>1. Set(p, [job[p] EXCEPT !.req = "lost", !.answer = "nothing", !.handled = 0, !.losses = n])
        BY <3>3 DEF Lose
      <4> HIDE DEF n
      <4> DEFINE lost == [job[p] EXCEPT !.req = "lost", !.answer = "nothing", !.handled = 0, !.losses = n]
      <4>2. Set(p, lost) /\ lost.pc = job[p].pc
        BY <2>0, <4>1 DEF Job
      <4> HIDE DEF lost
      <4> QED BY <4>2
    <3>4. CASE Reject(p)
      BY <2>0, <3>4 DEF Reject, Job
    <3> QED BY <1>1, <3>1, <3>2, <3>3, <3>4
  <2> QED BY <1>1, <2>1, WriterSet DEF Serve, Quit, Lose, Reject
<1>2. ASSUME NEW p \in Process, Play(p) \/ Login(p) PROVE WriterInv'
  <2>1. [Off EXCEPT !.pc = "policy", !.mem = file.saved, !.loaded = file.saved.lease].pc = "policy"
        /\ [Off EXCEPT !.pc = "login"].pc = "login"
    BY DEF Off
  <2> QED BY <1>2, <2>1, WriterSet DEF Play, Login
<1>3. ASSUME NEW p \in Process, Crash(p) PROVE WriterInv'
  <2>1. job'[p] = Off /\ Off.pc = "off" /\ \A q \in Process \ {p} : job'[q] = job[q]
    BY <1>3, SetAt DEF Crash, Exit, Off
  <2>2. CASE file.open = p
    <3>1. file'.open = "none"
      BY <1>3, <2>2 DEF Crash, FileOK
    <3> QED BY <2>1, <2>2, <3>1, ConstantsAssumption DEF WriterInv
  <2>3. CASE file.open # p
    BY <1>3, <2>1, <2>3 DEF Crash, WriterInv
  <2> QED BY <2>2, <2>3
<1>4. CASE Tick
  <2>1. ASSUME NEW j \in Job PROVE Aged(j).pc = j.pc
    BY DEF Aged, Job
  <2> QED BY <1>4, <2>1 DEF Tick, WriterInv, JobsOK
<1>5. CASE ServeStray \/ (\E l \in Lease : Expire(l) \/ Revoke(l)) \/ UNCHANGED vars
  BY <1>5 DEF ServeStray, Expire, Revoke, vars, WriterInv
<1> QED BY <1>1, <1>2, <1>3, <1>4, <1>5, WriterAct, Cases

(* Launchers that do not run side by side, however they end, keep the      *)
(* lease they play on, and all else they know, in agent.json.  (Two that   *)
(* do run side by side overwrite what the other saved.)                    *)
THEOREM HeldIsSavedCorrect == Spec /\ []OneAtATime => []HeldIsSaved
<1> DEFINE Inv == TypeOK /\ SentBySender /\ KnowInv /\ WriterInv
           Good == Inv /\ StoredInv
<1>1. Init => StoredInv
  BY StoredOff DEF Init, StoredInv
<1>2. Init => WriterInv
  BY ConstantsAssumption DEF Init, WriterInv, Off
<1>3. Good /\ OneAtATime /\ OneAtATime' /\ [Next]_vars => Good'
  BY TypeStep, SentStep, KnowStep, WriterStep, StoredStep, Parts
<1>4. StoredInv => HeldIsSaved
  BY DEF StoredInv, Stored, HeldIsSaved, InLoop, Heading
<1>5. Init => TypeOK /\ SentBySender /\ KnowInv
  <2>1. Init => KnowInv
    BY KnowsOff, ConstantsAssumption DEF Init, KnowInv, Issued, Empty
  <2> QED BY <2>1, TypeInit, SentInit
<1> QED BY <1>1, <1>2, <1>3, <1>4, <1>5, PTL DEF Spec
=============================================================================
