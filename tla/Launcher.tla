------------------------------ MODULE Launcher ------------------------------
(***************************************************************************)
(* The launcher of one player's PC (PlayCommand.cs, LoginCommand.cs,       *)
(* AgentState.cs) over a network that loses and delays: it takes a lease,  *)
(* saves it in agent.json, keeps it alive with heartbeats and hands it     *)
(* back; after a crash the next launcher resumes it.                       *)
(*                                                                         *)
(* The server is here what a launcher sees of it: a request is handled at  *)
(* once, and leases change as LeaseLifecycle allows.  Times are ages: how  *)
(* long ago something was, up to what the code can tell apart.             *)
(***************************************************************************)
EXTENDS Integers, FiniteSets

CONSTANTS
    Process,     \* launcher processes that may run at the same time
    Lease,       \* lease ids the server can hand out
    Key,         \* device keys the server can hand out
    Grace,       \* settings.lease_grace
    Heartbeat,   \* heartbeat_seconds
    RetryDelay,  \* RetryDelay
    Timeout,     \* HttpClient.Timeout
    EndTimeout,  \* the time EndSessionAsync gets
    Latency,     \* bound: a request that takes longer counts as lost
    MaxScan,     \* bound: the longest scan
    MaxStray,    \* bound: requests that wander at the same time
    MaxMishaps   \* bound: crashes and requests lost, late or failed

ASSUME ConstantsAssumption ==
    /\ {Grace, Heartbeat, RetryDelay, Timeout, EndTimeout, Latency, MaxScan, MaxStray, MaxMishaps} \subseteq Nat
    /\ "none" \notin Process \cup Lease \cup Key
    /\ Lease \cap Key = {}
    /\ {"nothing", "active", "over", "refused", "done"} \cap (Lease \cup Key) = {}

VARIABLES
    lease,    \* the server's leases: state and age of the last heartbeat
    key,      \* the device key the server accepts
    issued,   \* device keys handed out so far
    stray,    \* requests that their sender gave up and that may still arrive
    file,     \* agent.json, and which process has it open for writing
    job,      \* what each process is doing
    mishaps   \* counts up to MaxMishaps

vars == <<lease, key, issued, stray, file, job, mishaps>>
server == <<lease, key, issued>>

None == -1
Age == 0 .. Grace + 1

Empty == [key |-> "none", lease |-> "none"]

Off == [pc |-> "off",
        mem |-> Empty,         \* state
        held |-> "none",       \* lease.SessionId
        since |-> 0,           \* _sinceRenewal
        timer |-> 0,           \* age of the wait, the scan or the request
        delay |-> 0,           \* delay
        report |-> None,       \* age of the pending report
        req |-> "unsent",      \* the request: unsent, sent, answered, lost or rejected
        answer |-> "nothing",
        stop |-> FALSE,        \* stop.IsCancellationRequested
        next |-> "off",        \* where to go when the file is saved
        loaded |-> "none",     \* history: the lease that was on disk at the start
        handled |-> 0,         \* history: age of the answer
        heard |-> 0,           \* history: age of the last answer that renewed
        losses |-> 0]          \* history: heartbeats lost since then, up to 2

Init ==
    /\ lease = [l \in Lease |-> [state |-> "Unused", silent |-> 0]]
    /\ key = "none"
    /\ issued = {}
    /\ stray = {}
    /\ file = [saved |-> Empty, open |-> "none"]
    /\ job = [p \in Process |-> Off]
    /\ mishaps = 0

Set(p, new) == job' = [job EXCEPT ![p] = new]
Exit(p) == Set(p, Off)

-----------------------------------------------------------------------------
(* The server. *)

Request(p) ==
    [kind |-> IF job[p].pc = "resume" THEN "beat" ELSE job[p].pc,
     lease |-> CASE job[p].pc = "resume" -> job[p].mem.lease
                 [] job[p].pc \in {"beat", "end"} -> job[p].held
                 [] OTHER -> "none",
     key |-> IF job[p].pc = "start" THEN job[p].mem.key ELSE "none"]

BeatAnswer(l, answer) ==
    /\ \/ /\ lease[l].state = "Active"
          /\ answer = "active"
          /\ lease' = [lease EXCEPT ![l].silent = 0]
       \/ /\ lease[l].state = "Active"
          /\ answer = "over"
          /\ lease' = [lease EXCEPT ![l].state = "Over"]
       \/ /\ lease[l].state # "Active"
          /\ answer = "over"
          /\ UNCHANGED lease
    /\ UNCHANGED <<key, issued>>

StartAnswer(k, answer) ==
    /\ \/ /\ k = key
          /\ answer \in {l \in Lease : lease[l].state = "Unused"}
          /\ lease' = [lease EXCEPT ![answer] = [state |-> "Active", silent |-> 0]]
       \/ answer = "refused" /\ UNCHANGED lease
    /\ UNCHANGED <<key, issued>>

EndAnswer(l, answer) ==
    /\ answer = "done"
    /\ lease' = [lease EXCEPT ![l].state = IF @ = "Active" THEN "Over" ELSE @]
    /\ UNCHANGED <<key, issued>>

(* A device that signs in again gets a new key; the old one is dead.       *)
LoginAnswer(answer) ==
    /\ \/ answer \in Key \ issued /\ key' = answer /\ issued' = issued \cup {answer}
       \/ answer = "refused" /\ UNCHANGED <<key, issued>>
    /\ UNCHANGED lease

Answer(r, answer) ==
    \/ r.kind = "beat" /\ BeatAnswer(r.lease, answer)
    \/ r.kind = "start" /\ StartAnswer(r.key, answer)
    \/ r.kind = "end" /\ EndAnswer(r.lease, answer)
    \/ r.kind = "login" /\ LoginAnswer(answer)

Answers == {"active", "over", "refused", "done"} \cup Lease \cup Key

Serve(p) ==
    /\ job[p].req = "sent"
    /\ \E answer \in Answers :
         /\ Answer(Request(p), answer)
         /\ Set(p, [job[p] EXCEPT !.req = "answered", !.answer = answer, !.handled = 0])
    /\ UNCHANGED <<stray, file, mishaps>>

ServeStray ==
    /\ \E r \in stray : stray' = stray \ {r} /\ \E answer \in Answers : Answer(r, answer)
    /\ UNCHANGED <<file, job, mishaps>>

(* The sweeper. *)
Expire(l) ==
    /\ lease[l].state = "Active"
    /\ lease[l].silent > Grace
    /\ lease' = [lease EXCEPT ![l].state = "Over"]
    /\ UNCHANGED <<key, issued, stray, file, job, mishaps>>

(* An admin. *)
Revoke(l) ==
    /\ lease[l].state = "Active"
    /\ lease' = [lease EXCEPT ![l].state = "Over"]
    /\ UNCHANGED <<key, issued, stray, file, job, mishaps>>

-----------------------------------------------------------------------------
(* play: up to the lease *)

(* A file that another process has open for writing reads as no state at   *)
(* all, and play returns as it does for a PC that never signed in.         *)
Play(p) ==
    /\ job[p].pc = "off"
    /\ file.open = "none"
    /\ file.saved.key # "none"
    /\ Set(p, [Off EXCEPT !.pc = "policy", !.mem = file.saved, !.loaded = file.saved.lease])
    /\ UNCHANGED <<server, stray, file, mishaps>>

First(mem) == IF mem.lease = "none" THEN "start" ELSE "resume"

(* A new disclosure is accepted and saved, or there is none.               *)
Policy(p) ==
    /\ job[p].pc = "policy"
    /\ ~job[p].stop
    /\ \/ Set(p, [job[p] EXCEPT !.pc = "save", !.next = First(job[p].mem)])
       \/ Set(p, [job[p] EXCEPT !.pc = First(job[p].mem)])
    /\ UNCHANGED <<server, stray, file, mishaps>>

(* Unreachable, or the disclosure is not accepted. *)
NoPolicy(p) ==
    /\ job[p].pc = "policy"
    /\ Exit(p)
    /\ UNCHANGED <<server, stray, file, mishaps>>

(* The scan, then the request; a cancelled token lets none go out.         *)
Send(p) ==
    /\ job[p].pc \in {"resume", "start", "beat", "login"}
    /\ job[p].req = "unsent"
    /\ ~job[p].stop
    /\ Set(p, [job[p] EXCEPT !.req = "sent", !.timer = 0,
                             !.report = IF job[p].pc = "beat" THEN 0 ELSE None])
    /\ UNCHANGED <<server, stray, file, mishaps>>

Answered(p, pc) == job[p].pc = pc /\ job[p].req = "answered"

(* Mutant: the time since the renewal goes on counting. *)
Hold_KeepsClock(p, l) ==
    [job[p] EXCEPT !.pc = "wait", !.held = l, !.mem.lease = l, !.req = "unsent", !.answer = "nothing",
                   !.heard = job[p].handled, !.handled = 0, !.losses = 0,
                   !.timer = 0, !.delay = Heartbeat, !.report = None]

(* Into the loop with a lease. *)
Hold(p, l) ==
    [job[p] EXCEPT !.pc = "wait", !.held = l, !.mem.lease = l, !.req = "unsent", !.answer = "nothing",
                   !.since = 0, !.heard = job[p].handled, !.handled = 0, !.losses = 0,
                   !.timer = 0, !.delay = Heartbeat, !.report = None]

Resumed(p) ==
    /\ Answered(p, "resume")
    /\ job[p].answer = "active"
    /\ Set(p, Hold(p, job[p].mem.lease))
    /\ UNCHANGED <<server, stray, file, mishaps>>

NotResumed(p) ==
    /\ Answered(p, "resume")
    /\ job[p].answer = "over"
    /\ Set(p, [job[p] EXCEPT !.pc = "save", !.next = "start", !.mem.lease = "none", !.timer = 0,
                             !.req = "unsent", !.answer = "nothing", !.handled = 0])
    /\ UNCHANGED <<server, stray, file, mishaps>>

(* Mutant: the new lease is not saved. *)
Granted_NotSaved(p) ==
    /\ Answered(p, "start")
    /\ job[p].answer \in Lease
    /\ Set(p, Hold(p, job[p].answer))
    /\ UNCHANGED <<server, stray, file, mishaps>>

Granted(p) ==
    /\ Answered(p, "start")
    /\ job[p].answer \in Lease
    /\ Set(p, [Hold(p, job[p].answer) EXCEPT !.pc = "save", !.next = "wait"])
    /\ UNCHANGED <<server, stray, file, mishaps>>

Refused(p) ==
    /\ Answered(p, "start") \/ Answered(p, "login")
    /\ job[p].answer = "refused"
    /\ Exit(p)
    /\ UNCHANGED <<server, stray, file, mishaps>>

(* Mutant: a lease that cannot be resumed now is given up for a new one. *)
Fail_StartsAnew(p) ==
    /\ job[p].pc \in {"resume", "start", "login"}
    /\ job[p].req \in {"lost", "rejected"}
    /\ IF job[p].pc = "resume"
       THEN Set(p, [job[p] EXCEPT !.pc = "start", !.mem.lease = "none", !.req = "unsent", !.timer = 0])
       ELSE Exit(p)
    /\ UNCHANGED <<server, stray, file, mishaps>>

(* An error while a lease is asked for, or a login completed: the file     *)
(* stays as it is.                                                         *)
Fail(p) ==
    /\ job[p].pc \in {"resume", "start", "login"}
    /\ job[p].req \in {"lost", "rejected"}
    /\ Exit(p)
    /\ UNCHANGED <<server, stray, file, mishaps>>

(* A request that is cancelled may have left, or may not.                  *)
Withdraw(p) ==
    \/ UNCHANGED stray
    \/ /\ job[p].req = "sent"
       /\ Cardinality(stray) < MaxStray
       /\ stray' = stray \cup {Request(p)}

Cancel(p) ==
    /\ job[p].pc \in {"policy", "resume", "start", "login"}
    /\ job[p].stop
    /\ Withdraw(p)
    /\ Exit(p)
    /\ UNCHANGED <<server, file, mishaps>>

-----------------------------------------------------------------------------
(* play: the heartbeat loop *)

(* A pending report is sent again while it is fresh. *)
WaitOver(p) ==
    /\ job[p].pc = "wait"
    /\ job[p].timer >= job[p].delay
    /\ ~job[p].stop
    /\ Set(p, [job[p] EXCEPT !.pc = "beat", !.timer = 0,
                 !.req = IF job[p].report \in 0 .. Heartbeat THEN "sent" ELSE "unsent"])
    /\ UNCHANGED <<server, stray, file, mishaps>>

(* Mutant: the state in the answer is not looked at. *)
Renewed_AnyState(p) ==
    /\ Answered(p, "beat")
    /\ Set(p, Hold(p, job[p].held))
    /\ UNCHANGED <<server, stray, file, mishaps>>

Renewed(p) ==
    /\ Answered(p, "beat")
    /\ job[p].answer = "active"
    /\ Set(p, Hold(p, job[p].held))
    /\ UNCHANGED <<server, stray, file, mishaps>>

(* The finally block: save without the lease, whatever ended the loop.     *)
Forget(p) ==
    Set(p, [Off EXCEPT !.pc = "save", !.mem = [job[p].mem EXCEPT !.lease = "none"], !.held = job[p].held,
                       !.stop = job[p].stop, !.loaded = job[p].loaded])

(* The lease is over, or the server rejects the heartbeat (4xx).           *)
Ended(p) ==
    /\ job[p].pc = "beat"
    /\ job[p].req = "rejected" \/ (job[p].req = "answered" /\ job[p].answer = "over")
    /\ Forget(p)
    /\ UNCHANGED <<server, stray, file, mishaps>>

Remaining(p) == Grace - job[p].since

(* Mutant: the next try is a whole period away. *)
Retry_FullPeriod(p) ==
    /\ job[p].pc = "beat"
    /\ job[p].req = "lost"
    /\ ~job[p].stop
    /\ Remaining(p) > 0
    /\ Set(p, [job[p] EXCEPT !.pc = "wait", !.req = "unsent", !.timer = 0, !.delay = Heartbeat])
    /\ UNCHANGED <<server, stray, file, mishaps>>

(* Mutant: each try waits twice as long as the one before. *)
Retry_Backoff(p) ==
    /\ job[p].pc = "beat"
    /\ job[p].req = "lost"
    /\ ~job[p].stop
    /\ Remaining(p) > 0
    /\ Set(p, [job[p] EXCEPT !.pc = "wait", !.req = "unsent", !.timer = 0,
                             !.delay = IF @ = Heartbeat THEN RetryDelay ELSE 2 * @])
    /\ UNCHANGED <<server, stray, file, mishaps>>

Retry(p) ==
    /\ job[p].pc = "beat"
    /\ job[p].req = "lost"
    /\ ~job[p].stop
    /\ Remaining(p) > 0
    /\ Set(p, [job[p] EXCEPT !.pc = "wait", !.req = "unsent", !.timer = 0, !.delay = RetryDelay])
    /\ UNCHANGED <<server, stray, file, mishaps>>

GiveUp(p) ==
    /\ job[p].pc = "beat"
    /\ job[p].req = "lost"
    /\ ~job[p].stop
    /\ Remaining(p) <= 0
    /\ Forget(p)
    /\ UNCHANGED <<server, stray, file, mishaps>>

(* An error that comes together with Ctrl+C passes both filters. *)
FailStopping(p) ==
    /\ job[p].pc = "beat"
    /\ job[p].req = "lost"
    /\ job[p].stop
    /\ Forget(p)
    /\ UNCHANGED <<server, stray, file, mishaps>>

HandBack(p) ==
    /\ job[p].pc \in {"wait", "beat"}
    /\ job[p].stop
    /\ Withdraw(p)
    /\ Set(p, [job[p] EXCEPT !.pc = "end", !.req = "sent", !.timer = 0, !.answer = "nothing", !.handled = 0,
                          !.since = 0, !.heard = 0, !.losses = 0, !.delay = 0, !.report = None])
    /\ UNCHANGED <<server, file, mishaps>>

(* Whatever became of it. *)
HandedBack(p) ==
    /\ job[p].pc = "end"
    /\ job[p].req \in {"answered", "lost", "rejected"}
    /\ Forget(p)
    /\ UNCHANGED <<server, stray, file, mishaps>>

-----------------------------------------------------------------------------
(* login *)

Login(p) ==
    /\ job[p].pc = "off"
    /\ Set(p, [Off EXCEPT !.pc = "login"])
    /\ UNCHANGED <<server, stray, file, mishaps>>

(* A new state replaces the old one, saved lease included. *)
Registered(p) ==
    /\ Answered(p, "login")
    /\ job[p].answer \in Key
    /\ Set(p, [Off EXCEPT !.pc = "save", !.mem = [Empty EXCEPT !.key = job[p].answer],
                          !.stop = job[p].stop])
    /\ UNCHANGED <<server, stray, file, mishaps>>

-----------------------------------------------------------------------------
(* AgentState.Save: File.WriteAllText empties the file, then fills it; a   *)
(* file that is open already raises an IOException, which nothing catches. *)

SaveOpen(p) ==
    /\ job[p].pc = "save"
    /\ IF file.open = "none"
       THEN /\ file' = [saved |-> Empty, open |-> p]
            /\ Set(p, [job[p] EXCEPT !.pc = "saving"])
       ELSE Exit(p) /\ UNCHANGED file
    /\ UNCHANGED <<server, stray, mishaps>>

SaveWrite(p) ==
    /\ job[p].pc = "saving"
    /\ file' = [saved |-> job[p].mem, open |-> "none"]
    /\ IF job[p].next = "off"
       THEN Exit(p)
       ELSE Set(p, [job[p] EXCEPT !.pc = job[p].next, !.next = "off"])
    /\ UNCHANGED <<server, stray, mishaps>>

-----------------------------------------------------------------------------
(* The player, failures, time *)

(* Ctrl+C, or the window is closed. *)
Quit(p) ==
    /\ job[p].pc # "off"
    /\ ~job[p].stop
    /\ Set(p, [job[p] EXCEPT !.stop = TRUE])
    /\ UNCHANGED <<server, stray, file, mishaps>>

Mishap == mishaps < MaxMishaps /\ mishaps' = mishaps + 1

Crash(p) ==
    /\ Mishap
    /\ job[p].pc # "off"
    /\ Withdraw(p)
    /\ file' = IF file.open = p THEN [file EXCEPT !.open = "none"] ELSE file
    /\ Exit(p)
    /\ UNCHANGED server

(* The request, or its answer, is lost, late, or an error that may pass.   *)
Lose(p) ==
    /\ Mishap
    /\ job[p].req \in {"sent", "answered"}
    /\ Withdraw(p)
    /\ Set(p, [job[p] EXCEPT !.req = "lost", !.answer = "nothing", !.handled = 0,
                 !.losses = IF job[p].pc = "beat" /\ @ < 2 THEN @ + 1 ELSE @])
    /\ UNCHANGED <<server, file>>

(* A 4xx answer. *)
Reject(p) ==
    /\ Mishap
    /\ job[p].req = "sent"
    /\ Set(p, [job[p] EXCEPT !.req = "rejected"])
    /\ UNCHANGED <<server, stray, file>>

(* How long the process may be in its present step. *)
Limit(p) ==
    IF job[p].pc = "wait" THEN job[p].delay
    ELSE CASE job[p].req = "unsent" -> MaxScan
           [] job[p].req \in {"sent", "answered"} -> Latency
           [] job[p].req = "lost" -> IF job[p].pc = "end" THEN EndTimeout ELSE Timeout
           [] job[p].req = "rejected" -> 0

(* A player may take any time to read the disclosure or to sign in.        *)
Patient(p) == job[p].pc \in {"off", "policy"} \/ (job[p].pc = "login" /\ job[p].req = "unsent")

Capped(age, cap) == IF age < cap THEN age + 1 ELSE age

Aged(j) ==
    [j EXCEPT !.timer = @ + 1,
              !.handled = IF j.req = "answered" THEN Capped(@, Grace) ELSE 0,
              !.since = IF j.pc \in {"wait", "beat"} THEN Capped(@, Grace) ELSE 0,
              !.heard = IF j.pc \in {"wait", "beat"} THEN Capped(@, Grace) ELSE 0,
              !.report = IF @ = None THEN None ELSE Capped(@, Heartbeat + 1)]

Tick ==
    /\ \A p \in Process :
         Patient(p) \/ (job[p].pc \notin {"save", "saving"} /\ job[p].timer < Limit(p))
    /\ lease' = [l \in Lease |-> [lease[l] EXCEPT !.silent = IF lease[l].state = "Active" THEN Capped(@, Grace + 1) ELSE 0]]
    /\ job' = [p \in Process |-> IF Patient(p) THEN job[p] ELSE Aged(job[p])]
    /\ UNCHANGED <<key, issued, stray, file, mishaps>>

Act(p) ==
    \/ Policy(p) \/ NoPolicy(p) \/ Send(p) \/ Fail(p) \/ Cancel(p)
    \/ Resumed(p) \/ NotResumed(p) \/ Granted(p) \/ Refused(p) \/ Registered(p)
    \/ WaitOver(p) \/ Renewed(p) \/ Ended(p) \/ Retry(p) \/ GiveUp(p) \/ FailStopping(p)
    \/ HandBack(p) \/ HandedBack(p) \/ SaveOpen(p) \/ SaveWrite(p)

Next ==
    \/ \E p \in Process : Act(p) \/ Serve(p) \/ Play(p) \/ Login(p) \/ Quit(p)
    \/ \E p \in Process : Crash(p) \/ Lose(p) \/ Reject(p)
    \/ \E l \in Lease : Expire(l) \/ Revoke(l)
    \/ ServeStray \/ Tick

Spec == Init /\ [][Next]_vars
FairSpec ==
    /\ Spec
    /\ \A p \in Process : WF_vars(Act(p)) /\ WF_vars(Serve(p))
    /\ WF_vars(Tick)

-----------------------------------------------------------------------------
(* Properties *)

State == [key : Key \cup {"none"}, lease : Lease \cup {"none"}]

Step == {"off", "policy", "resume", "start", "wait", "beat", "end", "login", "save", "saving"}
Stage == {"unsent", "sent", "answered", "lost", "rejected"}
Target == {"off", "resume", "start", "wait"}
Delay == {0, Heartbeat, RetryDelay}
ReportAge == 0 .. Heartbeat + 1 \cup {None}
ShortAge == 0 .. Grace
LeaseOrNone == Lease \cup {"none"}
Outcome == Answers \cup {"nothing"}
Losses == 0 .. 2

Job ==
    [pc : Step, mem : State, held : LeaseOrNone, since : ShortAge, timer : Nat, delay : Delay,
     report : ReportAge, req : Stage, answer : Outcome, stop : BOOLEAN, next : Target,
     loaded : LeaseOrNone, handled : ShortAge, heard : ShortAge, losses : Losses]

Requests == [kind : {"beat", "start", "end", "login"}, lease : Lease \cup {"none"}, key : Key \cup {"none"}]

(* Every variable has its type. *)
TypeOK ==
    /\ lease \in [Lease -> [state : {"Unused", "Active", "Over"}, silent : Age]]
    /\ key \in Key \cup {"none"}
    /\ issued \subseteq Key
    /\ stray \subseteq Requests
    /\ file \in [saved : State, open : Process \cup {"none"}]
    /\ job \in [Process -> Job]
    /\ mishaps \in 0 .. MaxMishaps

InLoop(p) == job[p].pc \in {"wait", "beat"}

(* REFERENCE.md:261: "A launcher that restarts within the grace window     *)
(* resumes its saved lease instead of starting a new one": while the lease *)
(* on disk is alive no network error makes it ask for another.             *)
NewOnlyIfOver ==
    \A p \in Process :
        job[p].pc = "start" /\ job[p].loaded # "none" => lease[job[p].loaded].state # "Active"

(* PlayCommand.cs:13: the lease held is on disk, so that a launcher that   *)
(* dies can resume it, and nothing else that was on disk has changed.      *)
HeldIsSaved ==
    \A p \in Process : InLoop(p) => file.saved = job[p].mem /\ job[p].mem.lease = job[p].held

(* SERVER-SETUP.md:34: one heartbeat that is lost does not cost the lease, *)
(* however late in its period the answer before it came.                   *)
OneLossIsSurvived ==
    \A p \in Process :
        InLoop(p) /\ job[p].losses < 2 /\ lease[job[p].held].state = "Active" =>
            lease[job[p].held].silent <= Grace

(* REFERENCE.md:262: it gives up for want of answers only when the lease   *)
(* it knows of would have expired, counting from when the server answered. *)
GivesUpLate ==
    [][\A p \in Process :
         job[p].pc = "beat" /\ job[p].req = "lost" /\ ~job[p].stop /\ job'[p].pc = "save" =>
             job[p].heard >= Grace]_vars

(* Whoever plays on a lease that is over learns it. *)
HolderLearns ==
    \A p \in Process : (InLoop(p) /\ lease[job[p].held].state = "Over") ~> ~InLoop(p)

(* The lease that the process holds, or that the server has just confirmed *)
(* to it.                                                                  *)
Has(p) ==
    ({job[p].held} \cup
     IF Answered(p, "start") THEN {job[p].answer}
     ELSE IF Answered(p, "resume") /\ job[p].answer = "active" THEN {job[p].mem.lease} ELSE {}) \cap Lease

(* PlayCommand.cs:15: "Quitting on purpose [...] hands the lease back at   *)
(* once": when a launcher that was told to stop is gone, its lease is over, *)
(* or something had failed.                                                *)
QuitHandsBack ==
    [][\A p \in Process :
         job[p].stop /\ job'[p].pc = "off" /\ mishaps' = 0 =>
             \A l \in Has(p) : lease[l].state = "Over"]_vars
=============================================================================
