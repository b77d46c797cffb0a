------------------------------ MODULE BetLedger ------------------------------
(***************************************************************************)
(* The planning ledger of bin/plan/bet-ledger.py and the claims that go    *)
(* with it.  The ledger is one YAML file; claim-bet writes it under a lock *)
(* and by rename, complete and spec-init write it in place and without     *)
(* the lock.  So do two tools that leave the statuses alone, and a third,  *)
(* ledger-safe-insert, renames its text over it.  A claim is announced to  *)
(* other agents by a broadcast file of its own, which the start guard of   *)
(* bin/agent-workflow.py reads.                                            *)
(*                                                                         *)
(* An actor runs one command at a time, one process for each command, and  *)
(* every access to a shared file is a step.  A command that refuses ends   *)
(* where it began and is not a step.                                       *)
(***************************************************************************)
EXTENDS Naturals, FiniteSets

CONSTANTS
    Actors,         \* the agents
    Bets,           \* the bets of the ledger
    Claimers,       \* the actors that run claim-bet
    Forcers,        \* those among them that may pass --force
    Completers,     \* the actors that run complete
    SpecWriters,    \* the actors that run spec-init
    Editors,        \* the actors that run sync-bet-digests, the batch closeout
                    \* or ledger-safe-insert
    Collectors,     \* the actors that run claim-gc
    Starters,       \* the actors that run agent-workflow start
    Mortals,        \* the actors whose process may be killed
    InTurn,         \* whether the writers without the lock wait for their
                    \* turn: the code does not make them, their users may
    Anchor,         \* the bet whose block a search for "id: <bet>" finds first
    Ttl,            \* CLAIM_TTL_DAYS
    MaxTime,        \* bound of the clock
    NoActor,        \* nobody
    Torn,           \* text of a file that was truncated and not yet written
    NoFile          \* text of a file that does not exist

VARIABLES
    ledger,     \* [text, open]: the ledger and who has it open for writing
    broadcast,  \* the same for the broadcast file of each bet
    lock,       \* the holder of .3y-bet-ledger.lock
    proc,       \* [step, bet, stamp, text]: the actor's command, what it does
                \* next, the time it read and the ledger it means to write
    told,       \* the actors claim-bet told they hold the bet, since it was free
    finished,   \* the bets complete reported as done
    runs,       \* the runs started: <<actor, bet>>
    clock       \* time, in days

files == <<ledger, broadcast, lock>>
reports == <<told, finished, runs>>
vars == <<files, proc, reports, clock>>

Statuses == {"candidate", "in_progress", "done"}
Texts == [Bets -> Statuses] \cup {Torn}
Claims == [actor : Actors, at : 0 .. MaxTime]
ASSUME BetLedgerAssumption ==
    /\ Anchor \in [Bets -> Bets]
    /\ Ttl \in Nat /\ MaxTime \in Nat
    /\ Claimers \cup Completers \cup SpecWriters \cup Editors
         \cup Collectors \cup Starters \cup Mortals \subseteq Actors
    /\ Forcers \subseteq Claimers
    /\ InTurn \in BOOLEAN
    /\ NoActor \notin Actors /\ Bets # {}
    /\ Torn \notin [Bets -> Statuses]
    /\ {Torn, NoFile} \cap Claims = {} /\ Torn # NoFile

Steps == {"idle", "claim", "refresh", "announce", "restamp", "lock", "mark",
          "unlink", "reread", "truncate", "complete", "release", "spec",
          "rewrite", "save", "insert", "start", "dead"}
\* The steps of the commands that write the ledger without its lock.
InPlace == {"reread", "truncate", "complete", "release", "spec", "rewrite",
            "save", "insert"}

\* The three ways a file changes: opened for writing (and truncated), written
\* by one who has it open, replaced or removed under those who have it open.
Truncate(f, a) == [text |-> Torn, open |-> f.open \cup {a}]
Fill(f, a, t) == IF a \in f.open THEN [text |-> t, open |-> f.open \ {a}] ELSE f
Swap(t) == [text |-> t, open |-> {}]

step(a) == proc[a].step
bet(a) == proc[a].bet
Idle == [step |-> "idle", bet |-> CHOOSE b \in Bets : TRUE, stamp |-> 0,
         text |-> Torn]
Goto(a, s) == proc' = [proc EXCEPT ![a].step = s]
End(a) == proc' = [proc EXCEPT ![a] = Idle]

Busy == {step(a) : a \in Actors}
Turn(s) ==
    InTurn => /\ s \in InPlace => Busy \subseteq {"idle", "dead", "unlink", "start"}
              /\ s \in {"claim", "refresh"} => Busy \cap InPlace = {}

\* A command is started; all but start parse the ledger first, and a torn
\* ledger ends them there.
Begin(a, s, b, at, t) ==
    /\ step(a) = "idle"
    /\ s # "start" => ledger.text # Torn
    /\ Turn(s)
    /\ proc' = [proc EXCEPT
         ![a] = [step |-> s, bet |-> b, stamp |-> at, text |-> t]]

-----------------------------------------------------------------------------
\* claim-bet: the first look at the broadcast file decides.
HeldBy(b, a) == broadcast[b].text \in Claims /\ broadcast[b].text.actor = a

ClaimRead(a, b, force) ==
    /\ a \in Claimers
    /\ force => a \in Forcers
    /\ \/ /\ broadcast[b].text = NoFile \/ force
          /\ Begin(a, "claim", b, clock, Torn)
       \/ /\ HeldBy(b, a) /\ ~force
          /\ Begin(a, "refresh", b, clock, Torn)
    /\ told' = IF force THEN [told EXCEPT ![b] = {}] ELSE told
    /\ UNCHANGED <<files, finished, runs, clock>>

ClaimOpen(a) ==
    /\ step(a) \in {"claim", "refresh"}
    /\ broadcast' = [broadcast EXCEPT ![bet(a)] = Truncate(@, a)]
    /\ Goto(a, IF step(a) = "claim" THEN "announce" ELSE "restamp")
    /\ UNCHANGED <<ledger, lock, reports, clock>>

Announced(a) ==
    [broadcast EXCEPT
       ![bet(a)] = Fill(@, a, [actor |-> a, at |-> proc[a].stamp])]

ClaimAnnounce(a) ==
    /\ step(a) = "announce"
    /\ broadcast' = Announced(a)
    /\ Goto(a, "lock")
    /\ UNCHANGED <<ledger, lock, reports, clock>>

ClaimRefresh(a) ==
    /\ step(a) = "restamp"
    /\ broadcast' = Announced(a)
    /\ End(a)
    /\ told' = [told EXCEPT ![bet(a)] = @ \cup {a}]
    /\ UNCHANGED <<ledger, lock, finished, runs, clock>>

\* save_ledger_locked takes the lock and reads the latest ledger, ...
BadLockFree == TRUE
LockFree == lock = NoActor

LockLedger(a) ==
    /\ step(a) = "lock"
    /\ LockFree
    /\ lock' = a
    /\ proc' = [proc EXCEPT
         ![a] = [@ EXCEPT !.step = "mark", !.text = ledger.text]]
    /\ UNCHANGED <<ledger, broadcast, reports, clock>>

\* (The status of the block that the search finds; no block, no change.)
WithStatus(t, b, s) == IF t = Torn THEN Torn ELSE [t EXCEPT ![Anchor[b]] = s]

\* ... and puts the transformed text in its place by rename.
ClaimMark(a) ==
    /\ step(a) = "mark"
    /\ ledger' = Swap(WithStatus(proc[a].text, bet(a), "in_progress"))
    /\ lock' = NoActor
    /\ End(a)
    /\ told' = [told EXCEPT ![bet(a)] = @ \cup {a}]
    /\ UNCHANGED <<broadcast, finished, runs, clock>>

\* The broadcast file of the actor's bet is removed by name, whoever wrote it.
Unlink(a) ==
    /\ broadcast' = [broadcast EXCEPT ![bet(a)] = Swap(NoFile)]
    /\ told' = [told EXCEPT ![bet(a)] = {}]

-----------------------------------------------------------------------------
\* claim-gc: one broadcast file at a time is read, judged and removed.
Lapsed(b) ==
    broadcast[b].text \in Claims /\ clock - broadcast[b].text.at > Ttl

GcRead(a, b) ==
    /\ a \in Collectors
    /\ Lapsed(b)
    /\ Begin(a, "unlink", b, 0, Torn)
    /\ UNCHANGED <<files, reports, clock>>

GcUnlink(a) ==
    /\ step(a) = "unlink"
    /\ Unlink(a)
    /\ End(a)
    /\ UNCHANGED <<ledger, lock, finished, runs, clock>>

-----------------------------------------------------------------------------
\* complete: the guards read the ledger the process loaded, ...
CompleteLoad(a, b) ==
    /\ a \in Completers
    /\ Begin(a, "reread", b, 0, Torn)
    /\ ledger.text[b] # "done"
    /\ UNCHANGED <<files, reports, clock>>

\* ... the write is made from the ledger read again, ...
CompleteRead(a) ==
    /\ step(a) = "reread"
    /\ IF ledger.text # Torn /\ ledger.text[Anchor[bet(a)]] # "done"
         THEN proc' = [proc EXCEPT
                ![a] = [@ EXCEPT !.step = "truncate",
                                 !.text = WithStatus(ledger.text, bet(a), "done")]]
         ELSE End(a)
    /\ UNCHANGED <<files, reports, clock>>

InPlaceOpen(a) ==
    /\ step(a) \in {"truncate", "rewrite"}
    /\ ledger' = Truncate(ledger, a)
    /\ Goto(a, IF step(a) = "truncate" THEN "complete" ELSE "save")
    /\ UNCHANGED <<broadcast, lock, reports, clock>>

CompleteSave(a) ==
    /\ step(a) = "complete"
    /\ ledger' = Fill(ledger, a, proc[a].text)
    /\ Goto(a, "release")
    /\ UNCHANGED <<broadcast, lock, reports, clock>>

\* ... and the claim is released.
BadCompleteRelease(a) ==
    /\ step(a) = "release"
    /\ finished' = finished \cup {bet(a)}
    /\ End(a)
    /\ UNCHANGED <<files, told, runs, clock>>

CompleteRelease(a) ==
    /\ step(a) = "release"
    /\ Unlink(a)
    /\ finished' = finished \cup {bet(a)}
    /\ End(a)
    /\ UNCHANGED <<ledger, lock, runs, clock>>

-----------------------------------------------------------------------------
\* spec-init writes back the bets of the ledger it loaded at its start, all of
\* them; from the file it reads again it keeps the other documents.
SpecLoad(a, b) ==
    /\ a \in SpecWriters
    /\ Begin(a, "spec", b, 0, ledger.text)
    /\ UNCHANGED <<files, reports, clock>>

SpecReread(a) ==
    /\ step(a) = "spec"
    /\ proc' = [proc EXCEPT
         ![a] = [@ EXCEPT !.step = "rewrite",
                          !.text = IF ledger.text = Torn THEN Torn
                                   ELSE proc[a].text]]
    /\ UNCHANGED <<files, reports, clock>>

SpecSave(a) ==
    /\ step(a) = "save"
    /\ ledger' = Fill(ledger, a, proc[a].text)
    /\ End(a)
    /\ UNCHANGED <<broadcast, lock, reports, clock>>

-----------------------------------------------------------------------------
\* The tools that read the ledger and write it back with digests renewed,
\* evidence added, or a bet of their own appended at the end: in place, or by
\* rename.  (Such a bet is none of Bets, nobody knows it before.)
EditRead(a, b, s) ==
    /\ a \in Editors
    /\ Begin(a, s, b, 0, ledger.text)
    /\ UNCHANGED <<files, reports, clock>>

InsertSwap(a) ==
    /\ step(a) = "insert"
    /\ ledger' = Swap(proc[a].text)
    /\ End(a)
    /\ UNCHANGED <<broadcast, lock, reports, clock>>

-----------------------------------------------------------------------------
\* agent-workflow start: the guard stops only one who meets another's claim
\* (who meets a broadcast that cannot be read passes), ...
StartGuard(a, b) ==
    /\ a \in Starters
    /\ broadcast[b].text \in Claims => HeldBy(b, a)
    /\ Begin(a, "start", b, 0, Torn)
    /\ UNCHANGED <<files, reports, clock>>

\* ... then the ledger must call the bet startable.
Startable(b) == ledger.text # Torn /\ ledger.text[b] # "done"

StartRun(a) ==
    /\ step(a) = "start"
    /\ Startable(bet(a))
    /\ runs' = runs \cup {<<a, bet(a)>>}
    /\ End(a)
    /\ UNCHANGED <<files, told, finished, clock>>

StartRefused(a) ==
    /\ step(a) = "start"
    /\ ~Startable(bet(a))
    /\ End(a)
    /\ UNCHANGED <<files, reports, clock>>

\* The process dies, and its agent with it: its lock goes and its files stay
\* as they are.
Kill(a) ==
    /\ a \in Mortals
    /\ step(a) \notin {"idle", "dead"}
    /\ proc' = [proc EXCEPT ![a] = [Idle EXCEPT !.step = "dead"]]
    /\ lock' = IF lock = a THEN NoActor ELSE lock
    /\ ledger' = [ledger EXCEPT !.open = @ \ {a}]
    /\ broadcast' = [b \in Bets |-> [broadcast[b] EXCEPT !.open = @ \ {a}]]
    /\ UNCHANGED <<reports, clock>>

Tick ==
    /\ clock < MaxTime
    /\ clock' = clock + 1
    /\ UNCHANGED <<files, proc, reports>>

Init ==
    /\ ledger = Swap([b \in Bets |-> "candidate"])
    /\ broadcast = [b \in Bets |-> Swap(NoFile)]
    /\ lock = NoActor
    /\ proc = [a \in Actors |-> Idle]
    /\ told = [b \in Bets |-> {}]
    /\ finished = {}
    /\ runs = {}
    /\ clock = 0

Next ==
    \/ \E a \in Actors, b \in Bets :
         \/ \E force \in BOOLEAN : ClaimRead(a, b, force)
         \/ GcRead(a, b) \/ CompleteLoad(a, b) \/ SpecLoad(a, b)
         \/ StartGuard(a, b)
         \/ \E s \in {"rewrite", "insert"} : EditRead(a, b, s)
    \/ \E a \in Actors :
         \/ ClaimOpen(a) \/ ClaimAnnounce(a) \/ ClaimRefresh(a)
         \/ LockLedger(a) \/ ClaimMark(a) \/ GcUnlink(a)
         \/ CompleteRead(a) \/ InPlaceOpen(a) \/ CompleteSave(a)
         \/ CompleteRelease(a) \/ SpecReread(a) \/ SpecSave(a) \/ InsertSwap(a)
         \/ StartRun(a) \/ StartRefused(a) \/ Kill(a)
    \/ Tick

Spec == Init /\ [][Next]_vars

-----------------------------------------------------------------------------
\* Type invariant: every file is a readable text or a torn one, and who has a
\* file open is in the middle of a command that writes it.
File(texts) == [text : texts, open : SUBSET Actors]

TypeOK ==
    /\ ledger \in File(Texts)
    /\ broadcast \in [Bets -> File(Claims \cup {Torn, NoFile})]
    /\ lock \in Actors \cup {NoActor}
    /\ proc \in [Actors ->
         [step : Steps, bet : Bets, stamp : 0 .. MaxTime, text : Texts]]
    /\ told \in [Bets -> SUBSET Actors]
    /\ finished \subseteq Bets
    /\ runs \subseteq Actors \X Bets
    /\ clock \in 0 .. MaxTime
    /\ \A a \in ledger.open : step(a) \in {"complete", "save"}
    /\ \A b \in Bets : \A a \in broadcast[b].open :
         step(a) \in {"announce", "restamp"} /\ bet(a) = b

\* Commands that write the ledger through save_ledger_locked never undo each
\* other: while no other command is at work on it, a bet marked in_progress
\* stays so, and the ledger stays readable, whoever marks another bet at the
\* same time, takes over, collects or dies.
MarksAreKept ==
    [][\A b \in Bets :
         /\ Busy \cap InPlace = {}
         /\ ledger.text # Torn
         /\ ledger.text[b] = "in_progress"
         => ledger'.text # Torn /\ ledger'.text[b] = "in_progress"]_vars

\* Between commands the two records of a claim agree: a bet with a broadcast
\* file is in progress in the ledger that other agents read.  claim-bet marks
\* what it announced, complete takes the claim away, and nothing is left
\* half done unless a process died.  (The type invariant is the first part
\* of it.)
Quiet(A) == \A a \in A : step(a) = "idle"

ClaimAndStatusAgree ==
    /\ TypeOK
    /\ Quiet(Claimers \cup Completers \cup SpecWriters \cup Editors) =>
        \A b \in Bets : broadcast[b].text # NoFile =>
          ledger.text # Torn /\ ledger.text[b] = "in_progress"

\* A bet is claimed by one agent at a time: of two that run claim-bet on one
\* bet without --force, one is refused.
OneWinner == \A b \in Bets : Cardinality(told[b]) <= 1

\* What complete reported as done stays done.
DoneIsFinal ==
    \A b \in finished : ledger.text # Torn => ledger.text[b] = "done"

\* When no command is running the ledger can be read.
WholeWhenQuiet == Quiet(Actors) => ledger.text # Torn

\* claim-gc removes claims older than their time to live and no others.
GcSparesRefreshed ==
    [][\A a \in Actors :
         GcUnlink(a) /\ broadcast[bet(a)].text \in Claims =>
           Lapsed(bet(a))]_vars

\* No run is started on a bet while another agent's claim is announced.
StartStopsAtClaims ==
    [][\A a \in Actors, b \in Bets :
         <<a, b>> \in runs' \ runs /\ broadcast[b].text \in Claims =>
           HeldBy(b, a)]_vars
=============================================================================
