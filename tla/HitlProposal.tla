---------------------------- MODULE HitlProposal ----------------------------
(***************************************************************************)
(* One human-in-the-loop proposal: bin/hitl-proposal.py, the notifier of   *)
(* bin/notification.py and the execute stage of bin/harness that makes the *)
(* proposal, waits for the answer and goes on or stops.                    *)
(*                                                                         *)
(* update_status writes the file in place under a lock on the file; the    *)
(* notifier replaces the file by rename and takes no lock; a reader takes  *)
(* no lock either.  A command that fails ends where it began; one that     *)
(* fails without a change of a file is not a step.                         *)
(***************************************************************************)
EXTENDS Naturals

CONSTANTS
    Principals,     \* the people who run approve or reject
    Expirers,       \* the processes that run expire
    Notifiers,      \* the processes that run notify; the harness runs one
    Mortals,        \* the processes that may be killed
    Ttl,            \* hours from the proposal to its expiry
    Timeout,        \* hours the harness waits
    MaxTime,        \* bound of the clock
    Torn,           \* content of a file truncated and not yet written
    Absent,         \* content of a file that does not exist
    Nobody          \* no process

Processes == Principals \cup Expirers \cup Notifiers

Decisions == {"approved", "rejected", "expired"}
\* A proposal; one that an update made out of nothing has only its answer.
Proposals == [status : Decisions \cup {"pending"}, named : BOOLEAN]

ASSUME HitlAssumption ==
    /\ Ttl \in Nat /\ Timeout \in Nat /\ MaxTime \in Nat
    /\ Mortals \subseteq Processes
    /\ Nobody \notin Processes
    /\ {Torn, Absent} \cap Proposals = {} /\ Torn # Absent

VARIABLES
    file,       \* the content of the proposal's file
    locked,     \* who holds the lock on the file
    proc,       \* [step, status, named, stale]: a process's command, the
                \* status and the name it writes, and whether the file it has
                \* open was replaced
    stage,      \* where the execute stage of the harness is
    deadline,   \* until when the harness waits
    expires,    \* when the proposal expires
    answers,    \* the decisions principals were told are recorded
    clock

vars == <<file, locked, proc, stage, deadline, expires, answers, clock>>

Readable == file \in Proposals
Status == IF Readable THEN file.status ELSE "unreadable"
Named == Readable /\ file.named
Idle == [step |-> "idle", status |-> "pending", named |-> FALSE, stale |-> FALSE]
End(p) == proc' = [proc EXCEPT ![p] = Idle]
Goto(p, s) == proc' = [proc EXCEPT ![p].step = s]

-----------------------------------------------------------------------------
\* update_status, called by approve and reject ...
Answer(p, decision) ==
    /\ p \in Principals
    /\ stage # "create"
    /\ proc[p].step = "idle"
    /\ proc' = [proc EXCEPT ![p] = [Idle EXCEPT !.step = "open", !.status = decision]]
    /\ UNCHANGED <<file, locked, stage, deadline, expires, answers, clock>>

\* ... and by expire, for the proposals that it found pending and too old.
Expire(p) ==
    /\ p \in Expirers
    /\ proc[p].step = "idle"
    /\ Named
    /\ Status = "pending"
    /\ clock > expires
    /\ proc' = [proc EXCEPT ![p] = [Idle EXCEPT !.step = "open", !.status = "expired"]]
    /\ UNCHANGED <<file, locked, stage, deadline, expires, answers, clock>>

\* The proposal is loaded for its name, and its file opened.
UpdateOpen(p) ==
    /\ proc[p].step = "open"
    /\ IF Named THEN Goto(p, "lock") ELSE End(p)
    /\ UNCHANGED <<file, locked, stage, deadline, expires, answers, clock>>

BadLockFree(p) == TRUE
LockFree(p) == proc[p].stale \/ locked = Nobody

\* With the lock, the content is read and the file truncated, ...
UpdateTruncate(p) ==
    /\ proc[p].step = "lock"
    /\ LockFree(p)
    /\ proc' = [proc EXCEPT ![p] =
         [@ EXCEPT !.step = "write", !.named = Named]]
    /\ IF proc[p].stale THEN UNCHANGED <<file, locked>>
       ELSE file' = Torn /\ locked' = p
    /\ UNCHANGED <<stage, deadline, expires, answers, clock>>

\* ... then written with the new status, whatever the status was.
UpdateWrite(p) ==
    /\ proc[p].step = "write"
    /\ IF proc[p].stale THEN UNCHANGED <<file, locked>>
       ELSE /\ file' = [status |-> proc[p].status, named |-> proc[p].named]
            /\ locked' = IF locked = p THEN Nobody ELSE locked
    /\ answers' = IF p \in Principals THEN answers \cup {proc[p].status} ELSE answers
    /\ End(p)
    /\ UNCHANGED <<stage, deadline, expires, clock>>

-----------------------------------------------------------------------------
\* notify: the proposal is read, the channels are served, ...
NotifyRead(p) ==
    /\ p \in Notifiers
    /\ proc[p].step = "idle"
    /\ Named
    /\ proc' = [proc EXCEPT ![p] = [Idle EXCEPT !.step = "notify",
                                                !.status = file.status,
                                                !.named = file.named]]
    /\ UNCHANGED <<file, locked, stage, deadline, expires, answers, clock>>

\* ... and the proposal that was read is put back, with the channels added.
\* Those who have the file open are left with the one it replaces.
NotifyWrite(p) ==
    /\ proc[p].step = "notify"
    /\ file' = [status |-> proc[p].status, named |-> proc[p].named]
    /\ locked' = Nobody
    /\ proc' = [q \in Processes |->
         IF q = p THEN Idle
         ELSE [proc[q] EXCEPT !.stale = @ \/ proc[q].step \in {"lock", "write"}]]
    /\ UNCHANGED <<stage, deadline, expires, answers, clock>>

\* The process dies in the middle of a command, and the kernel frees its lock.
Kill(p) ==
    /\ p \in Mortals
    /\ proc[p].step \notin {"idle", "dead"}
    /\ proc' = [proc EXCEPT ![p] = [Idle EXCEPT !.step = "dead"]]
    /\ locked' = IF locked = p THEN Nobody ELSE locked
    /\ UNCHANGED <<file, stage, deadline, expires, answers, clock>>

-----------------------------------------------------------------------------
\* The execute stage of the harness: it makes the proposal, ...
Create ==
    /\ stage = "create"
    /\ file' = [status |-> "pending", named |-> TRUE]
    /\ expires' = clock + Ttl
    /\ stage' = "notify"
    /\ UNCHANGED <<locked, proc, deadline, answers, clock>>

\* ... has it announced (a notifier that ran, or one that was refused), ...
StartWait ==
    /\ stage = "notify"
    /\ stage' = "wait"
    /\ deadline' = clock + Timeout
    /\ UNCHANGED <<file, locked, proc, expires, answers, clock>>

BadWaitOver == Status # "pending"
\* ... polls until there is a decision, or no more time, or nothing in the
\* file, which ends wait_for_decision with an exception, ...
WaitOver == Status # "pending" \/ clock >= deadline

EndWait ==
    /\ stage = "wait"
    /\ WaitOver
    /\ stage' = "fetch"
    /\ UNCHANGED <<file, locked, proc, deadline, expires, answers, clock>>

BadStops == Status # "approved"
\* ... and asks once more.  Only a rejection stops it.
Stops == Status = "rejected"

Fetch ==
    /\ stage = "fetch"
    /\ stage' = IF Stops THEN "stopped" ELSE "executed"
    /\ UNCHANGED <<file, locked, proc, deadline, expires, answers, clock>>

\* The bound of the clock leaves a harness that has yet to wait its time.
Tick ==
    /\ clock < MaxTime
    /\ stage \in {"create", "notify"} => clock + Timeout < MaxTime
    /\ clock' = clock + 1
    /\ UNCHANGED <<file, locked, proc, stage, deadline, expires, answers>>

Init ==
    /\ file = Absent
    /\ locked = Nobody
    /\ proc = [p \in Processes |-> Idle]
    /\ stage = "create"
    /\ deadline = 0 /\ expires = 0
    /\ answers = {}
    /\ clock = 0

Harness == Create \/ StartWait \/ EndWait \/ Fetch

Next ==
    \/ Harness
    \/ Tick
    \/ \E p \in Processes :
         \/ \E decision \in {"approved", "rejected"} : Answer(p, decision)
         \/ Expire(p) \/ UpdateOpen(p) \/ UpdateTruncate(p) \/ UpdateWrite(p)
         \/ NotifyRead(p) \/ NotifyWrite(p) \/ Kill(p)

Spec == Init /\ [][Next]_vars

\* The harness runs its loop and time passes; nobody has to answer, to expire
\* the proposal or to finish what they began.
FairSpec == Spec /\ WF_vars(Harness) /\ WF_vars(Tick)

-----------------------------------------------------------------------------
\* Type invariant; a file that others see torn is one that a process is about
\* to write under the lock, or was when it died.
TypeOK ==
    /\ file \in Proposals \cup {Torn, Absent}
    /\ locked \in Processes \cup {Nobody}
    /\ proc \in [Processes ->
         [step : {"idle", "open", "lock", "write", "notify", "dead"},
          status : Decisions \cup {"pending"}, named : BOOLEAN, stale : BOOLEAN]]
    /\ stage \in {"create", "notify", "wait", "fetch", "executed", "stopped"}
    /\ deadline \in Nat /\ expires \in Nat
    /\ answers \subseteq Decisions
    /\ clock \in 0 .. MaxTime
    /\ file = Torn => \E p \in Processes :
         \/ proc[p].step = "write" /\ ~proc[p].stale /\ locked = p
         \/ proc[p].step = "dead"

\* Updates that wait for each other's lock never lose the proposal: when no
\* command runs, and none died half way, the file is a proposal with a name,
\* whatever answers, expiries and notifications met.  (The type invariant,
\* by which a torn file has a writer or a dead process, is the first part.)
Quiet == \A p \in Processes : proc[p].step = "idle"
NeverEmptied ==
    /\ TypeOK
    /\ stage # "create" /\ Quiet => Named

\* The harness stops only when a principal was told that a rejection is
\* recorded, whoever wrote the file since and whatever they wrote back.
StopsOnRejection == stage = "stopped" => "rejected" \in answers

\* The harness never waits for ever: what nobody answers times out.
HarnessGoesOn == stage = "wait" ~> stage \in {"executed", "stopped"}

\* Before the time is over the harness goes on only when the proposal it asked
\* for is approved or expired.
GoesOnWhenCleared ==
    [][stage = "fetch" /\ stage' = "executed" /\ clock < deadline =>
         Status \in {"approved", "expired"}]_vars

\* An answer that a principal was told is recorded does not become pending.
AnswersAreKept ==
    answers # {} => Status # "pending"

\* A harness whose proposal was rejected, and not approved, does not execute
\* after the rejection was recorded.
RejectionStops ==
    [][stage = "fetch" /\ stage' = "executed" /\ Quiet =>
         answers # {"rejected"}]_vars
=============================================================================
