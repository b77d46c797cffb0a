----------------------------- MODULE Projection -----------------------------
(***************************************************************************)
(* The published projection of the dashboard: immutable revisions under    *)
(* revisions/, one pointer file that names the one to serve, a publisher   *)
(* that makes new ones (panorama-collect.py, started by                    *)
(* projection-full-refresh.py), a republisher that renews the served one's *)
(* ten minutes and collects old ones (projection-republisher.py), and the  *)
(* schedule the registry of services gives the republisher.                *)
(*                                                                         *)
(* A revision is identified by the hash of its manifest, so here it IS its *)
(* manifest: when it was generated and the collection its data come from.  *)
(* The publisher and the republisher take different locks, and the         *)
(* collector takes none.                                                   *)
(***************************************************************************)
EXTENDS Integers, FiniteSets, FiniteSetsExt

CONSTANTS
  Job,        \* the republisher as the scheduler starts it
  Manual,     \* a republisher started by hand, or by the watchdog, with --force
  Publisher,  \* the full refresh; its own lock lets one run at a time
  Nobody,     \* the owner of what a killed process leaves behind
  Lease,      \* how long a revision is fresh
  Threshold,  \* a renewal is skipped while more than this is left
  Interval,   \* the job is due this often
  Keep,       \* revisions the collector leaves
  StagingAge, \* the collector removes staging directories older than this
  Stall,      \* a started process makes its next step, and a due job starts, within this
  MaxNow, MaxData, MaxForced, MaxFaults   \* bounds of the instance

ASSUME ProjectionAssumption ==
  /\ Job # Manual /\ Job # Publisher /\ Manual # Publisher
  /\ Nobody \notin {Job, Manual, Publisher}
  /\ {Lease, Threshold, Interval, Keep, StagingAge, Stall} \subseteq Nat \ {0}
  /\ Threshold < Interval /\ Interval < Lease /\ 2 * Stall < Interval
  /\ Threshold + 2 * Stall < Lease /\ Stall <= StagingAge
  /\ {MaxNow, MaxData, MaxForced, MaxFaults} \subseteq Nat

Renewers == {Job, Manual}
Procs == Renewers \cup {Publisher}
Revision == [gen : 0..MaxNow, data : 0..MaxData]
Fresh(r) == r.gen + Lease
First == [gen |-> 0, data |-> 0]

VARIABLES
  now, due,          \* the clock, and when the job is due
  pointer,           \* the revision current-revision.json names
  disk, torn,        \* revisions that are whole, and those half removed
  staging,           \* staging directories: whose, and when last changed
  pc, at,            \* each process's next step, and its reading of the clock
  seen,              \* the baseline it loaded, or the revision gc protects
  doomed,            \* what is left for its gc to remove
  made,              \* history: every revision there ever was
  newestAt,          \* history: when the pointer last named newer data
  brokenAt,          \* history: when the pointer last named no whole revision
  collected, forced, faults   \* collections, forced renewals and faults so far

files == <<pointer, disk, torn, staging>>
vars == <<now, due, files, pc, at, seen, doomed, made, newestAt, brokenAt, collected, forced, faults>>

Renewing == {"load", "build", "swap"}
Steps == Renewing \cup {"idle", "gcload", "gcscan", "gcremove"}

TypeOK ==
  /\ now \in 0..MaxNow /\ due \in Nat
  /\ pointer \in Revision
  /\ {disk, torn, made} \subseteq SUBSET Revision
  /\ staging \subseteq [of : Procs \cup {Nobody}, born : 0..MaxNow]
  /\ pc \in [Procs -> Steps] /\ at \in [Procs -> 0..MaxNow]
  /\ seen \in [Procs -> Revision]
  /\ doomed \in [Procs -> SUBSET Revision]
  /\ {newestAt, brokenAt} \subseteq 0..MaxNow /\ collected \in 0..MaxData
  /\ forced \in 0..MaxForced /\ faults \in 0..MaxFaults

(* A full refresh has run, and the schedule starts afterwards.             *)
Init ==
  /\ now = 0 /\ due \in 1..Interval
  /\ pointer = First /\ disk = {First} /\ torn = {} /\ staging = {}
  /\ pc = [p \in Procs |-> "idle"] /\ at = [p \in Procs |-> 0]
  /\ seen = [p \in Procs |-> First] /\ doomed = [p \in Procs |-> {}]
  /\ made = {First} /\ newestAt = 0 /\ brokenAt = 0
  /\ collected = 0 /\ forced = 0 /\ faults = 0

-----------------------------------------------------------------------------
Goto(p, s) == pc' = [pc EXCEPT ![p] = s]
Mine(p) == {s \in staging : s.of = p}

(* A process that ends forgets what it read.                               *)
End(p) ==
  /\ Goto(p, "idle")
  /\ at' = [at EXCEPT ![p] = 0]
  /\ seen' = [seen EXCEPT ![p] = First]
  /\ doomed' = [doomed EXCEPT ![p] = {}]
RenewLocked == \E q \in Renewers : pc[q] \in Renewing

(* The revision a process is making: its clock's reading, and the data of  *)
(* its baseline - or those it collected.                                   *)
Making(p) == [gen |-> at[p], data |-> seen[p].data]

(* A failed renewal or publication removes its staging directory and ends; *)
(* the pointer stays.                                                      *)
Fail(p) ==
  /\ staging' = staging \ Mine(p)
  /\ End(p)
  /\ UNCHANGED <<pointer, disk, torn, made, newestAt, brokenAt>>

(* renew: the clock is read, and the lock is taken or the run is an error. *)
Enter(p) ==
  /\ IF RenewLocked THEN UNCHANGED <<pc, at>>
     ELSE Goto(p, "load") /\ at' = [at EXCEPT ![p] = now]
  /\ UNCHANGED <<now, files, seen, doomed, made, newestAt, brokenAt, collected, faults>>

(* The scheduler starts the job when it is due, unless it still runs.      *)
StartJob ==
  /\ now >= due /\ due' = due + Interval
  /\ IF pc[Job] = "idle" THEN Enter(Job)
     ELSE UNCHANGED <<now, files, pc, at, seen, doomed, made, newestAt, brokenAt, collected, faults>>
  /\ UNCHANGED forced

StartManual ==
  /\ pc[Manual] = "idle" /\ forced < MaxForced
  /\ forced' = forced + 1
  /\ Enter(Manual)
  /\ UNCHANGED due

(* _load_baseline, and the decision: a renewal is skipped while the served *)
(* revision is fresh, and refused when the clock did not advance. A        *)
(* directory half removed may have lost its manifest, or not yet. (The     *)
(* mutant takes any revision on disk for the baseline.)                    *)
BadBaseline(r) == r \in disk
Baseline(r) == r = pointer

BadStillFresh(p, r) == p # Manual /\ Fresh(r) - at[p] > 0 - Threshold
StillFresh(p, r) == p # Manual /\ Fresh(r) - at[p] > Threshold

Load(p) ==
  /\ pc[p] = "load"
  /\ \E r \in Revision :
       /\ Baseline(r)
       /\ \/ /\ r \notin disk \/ (~StillFresh(p, r) /\ at[p] <= r.gen)
             /\ Fail(p)
          \/ /\ r \in disk \cup torn /\ StillFresh(p, r)
             /\ Goto(p, "gcload")
             /\ UNCHANGED <<files, at, seen, doomed, made, newestAt, brokenAt>>
          \/ /\ r \in disk \cup torn /\ ~StillFresh(p, r) /\ at[p] > r.gen
             /\ seen' = [seen EXCEPT ![p] = r]
             /\ staging' = staging \cup {[of |-> p, born |-> at[p]]}
             /\ Goto(p, "build")
             /\ UNCHANGED <<pointer, disk, torn, at, doomed, made, newestAt, brokenAt>>
  /\ UNCHANGED <<now, due, collected, forced, faults>>

(* Every artifact is copied from the baseline and compared with its hash   *)
(* (a publisher writes its own), and the staging directory becomes the     *)
(* revision, unless that is there already.                                 *)
Build(p) ==
  /\ pc[p] = "build"
  /\ IF Mine(p) = {} \/ (p # Publisher /\ seen[p] \notin disk) THEN Fail(p)
     ELSE /\ staging' = staging \ Mine(p)
          /\ disk' = IF Making(p) \in torn THEN disk ELSE disk \cup {Making(p)}
          /\ made' = made \cup {Making(p)}
          /\ Goto(p, "swap")
          /\ UNCHANGED <<pointer, torn, at, seen, doomed, newestAt, brokenAt>>
  /\ UNCHANGED <<now, due, collected, forced, faults>>

Swap(p) ==
  /\ pc[p] = "swap"
  /\ pointer' = Making(p)
  /\ newestAt' = IF Making(p).data > pointer.data THEN now ELSE newestAt
  /\ brokenAt' = IF Making(p) \in disk THEN brokenAt ELSE now
  /\ IF p = Publisher THEN End(p)
     ELSE Goto(p, "gcload") /\ UNCHANGED <<at, seen, doomed>>
  /\ UNCHANGED <<now, due, disk, torn, staging, made, collected, forced, faults>>

-----------------------------------------------------------------------------
(* The full refresh: minutes of collecting that touch none of these files, *)
(* then publish_projection_revision, under its own lock: the clock is read *)
(* and the staging directory made.                                         *)
Publish ==
  /\ pc[Publisher] = "idle" /\ collected < MaxData
  /\ collected' = collected + 1
  /\ seen' = [seen EXCEPT ![Publisher].data = collected']
  /\ at' = [at EXCEPT ![Publisher] = now]
  /\ staging' = staging \cup {[of |-> Publisher, born |-> now]}
  /\ Goto(Publisher, "build")
  /\ UNCHANGED <<now, due, pointer, disk, torn, doomed, made, newestAt, brokenAt, forced, faults>>

-----------------------------------------------------------------------------
(* gc, without a lock: the pointer's revision is protected,                *)
GcLoad(p) ==
  /\ pc[p] = "gcload"
  /\ IF pointer \in disk
     THEN /\ seen' = [seen EXCEPT ![p] = pointer] /\ Goto(p, "gcscan")
          /\ UNCHANGED <<at, doomed>>
     ELSE End(p)
  /\ UNCHANGED <<now, due, files, made, newestAt, brokenAt, collected, forced, faults>>

(* the newest of what is there are kept (which of several of one second is *)
(* a matter of their names),                                               *)
BadNewest(S) ==
  {T \in kSubset(IF Cardinality(S) < Keep THEN Cardinality(S) ELSE Keep, S) :
     \A r \in T, s \in S \ T : r.gen <= s.gen}
Newest(S) ==
  {T \in kSubset(IF Cardinality(S) < Keep THEN Cardinality(S) ELSE Keep, S) :
     \A r \in T, s \in S \ T : r.gen >= s.gen}
BadExpired(s) == FALSE
Expired(s) == now - s.born > StagingAge

GcScan(p) ==
  /\ pc[p] = "gcscan"
  /\ \E readable \in SUBSET torn : \E T \in Newest(disk \cup readable) :
       LET rest == (disk \cup readable) \ (T \cup {seen[p]})
       IN IF rest = {} THEN End(p)
          ELSE /\ doomed' = [doomed EXCEPT ![p] = rest] /\ Goto(p, "gcremove")
               /\ UNCHANGED <<at, seen>>
  /\ staging' = {s \in staging : ~Expired(s)}
  /\ UNCHANGED <<now, due, pointer, disk, torn, made, newestAt, brokenAt, collected, forced, faults>>

(* and the others are removed one after the other, each file by file. One  *)
(* that another collector has removed ends the run with an error.          *)
GcRemove(p) ==
  /\ pc[p] = "gcremove"
  /\ \E r \in doomed[p] :
       \/ /\ r \in disk
          /\ disk' = disk \ {r} /\ torn' = torn \cup {r}
          /\ UNCHANGED <<doomed, pc, at, seen>>
       \/ /\ r \in torn
          /\ torn' = torn \ {r} /\ UNCHANGED disk
          /\ IF doomed[p] = {r} THEN End(p)
             ELSE /\ doomed' = [doomed EXCEPT ![p] = @ \ {r}]
                  /\ UNCHANGED <<pc, at, seen>>
       \/ /\ r \notin disk \cup torn
          /\ End(p) /\ UNCHANGED <<disk, torn>>
  /\ brokenAt' = IF pointer \in disk' THEN brokenAt ELSE now
  /\ UNCHANGED <<now, due, pointer, staging, made, newestAt, collected, forced, faults>>

-----------------------------------------------------------------------------
(* A write fails, and the run with it; or the process is killed, and what  *)
(* it was staging or removing stays as it is. Its lock is free either way. *)
(* The age of a directory is that of its last change, so not before the    *)
(* run that made it.                                                       *)
WriteFails(p) ==
  /\ pc[p] \in {"build", "swap"} /\ faults < MaxFaults
  /\ faults' = faults + 1
  /\ Fail(p)
  /\ UNCHANGED <<now, due, collected, forced>>

Killed(p) ==
  /\ pc[p] # "idle" /\ faults < MaxFaults
  /\ faults' = faults + 1
  /\ \E changed \in 0..now :
       /\ \A s \in Mine(p) : s.born <= changed
       /\ staging' = (staging \ Mine(p)) \cup {[of |-> Nobody, born |-> changed] : s \in Mine(p)}
  /\ End(p)
  /\ UNCHANGED <<now, due, pointer, disk, torn, made, newestAt, brokenAt, collected, forced>>

(* gc lists what there is and then looks at each: a staging directory that *)
(* another process renames or removes in between ends the run with an      *)
(* error, and some of those that are due are removed.                      *)
ScanFails(p) ==
  /\ pc[p] = "gcscan" /\ faults < MaxFaults
  /\ \E q \in Procs \ {p} : pc[q] \in {"build", "gcscan"}
  /\ faults' = faults + 1
  /\ \E S \in SUBSET {s \in staging : Expired(s)} : staging' = staging \ S
  /\ End(p)
  /\ UNCHANGED <<now, due, pointer, disk, torn, made, newestAt, brokenAt, collected, forced>>

Fault(p) == WriteFails(p) \/ Killed(p) \/ (p \in Renewers /\ ScanFails(p))

(* Time passes, but neither past a due start nor past a started run by     *)
(* more than Stall.                                                        *)
Tick ==
  /\ now < MaxNow /\ now < due + Stall
  /\ \A p \in Procs : pc[p] # "idle" => now < at[p] + Stall
  /\ now' = now + 1
  /\ brokenAt' = IF pointer \in disk THEN brokenAt ELSE now'
  /\ UNCHANGED <<due, files, pc, at, seen, doomed, made, newestAt, collected, forced, faults>>

Write(p) == Build(p) \/ Swap(p) \/ Fault(p)
Gc(p) == GcLoad(p) \/ GcScan(p) \/ GcRemove(p)

Next ==
  \/ Tick \/ StartJob \/ StartManual \/ Publish
  \/ \E p \in Renewers : Load(p) \/ Gc(p)
  \/ \E p \in Procs : Write(p)

Spec == Init /\ [][Next]_vars

-----------------------------------------------------------------------------
(* The revision the pointer names is on disk, whole, whatever renewals,    *)
(* publications, collectors and kills do at the same time - unless at      *)
(* least Keep revisions as new as it were made, which takes a writer that  *)
(* swapped the pointer long after it had read the clock. (The type         *)
(* invariant is the first part of it.)                                     *)
PointerIsWhole ==
  /\ TypeOK
  /\ \/ pointer \in disk
     \/ Cardinality({r \in made \ {pointer} : r.gen >= pointer.gen}) >= Keep

(* How long readers get 503 projection_stale: a renewal finds a little     *)
(* more than Threshold left and is skipped, and the next one is a whole    *)
(* interval later; every fault costs an interval more, and no more.        *)
MaxLapse == Interval * (1 + faults) - Threshold - 1 + 2 * Stall
LapseIsBounded == pointer \in disk => now - Fresh(pointer) <= MaxLapse

MaxAge == StagingAge + Interval * (faults + forced) + 2 * Stall

(* What a killed run was staging is gone after the age at which the        *)
(* collector takes it for abandoned, an interval for each fault and each   *)
(* forced run (one in the way of the job may itself be refused, and then   *)
(* nobody collects), and the time a collector may take: skipped renewals   *)
(* collect too. Nothing is collected while the pointer names no whole      *)
(* revision, so the time counts from when it last did not.                 *)
LeftoversAreCleared ==
  \A s \in staging :
    \/ now - s.born <= MaxAge
    \/ now - brokenAt <= MaxAge

(* A publication is only ever replaced by older data by a writer that was  *)
(* at work when it was published: once the pointer has named it for longer *)
(* than a writer may take, every renewal carries it on.                    *)
PublicationStays ==
  [][pointer'.data < pointer.data => now - newestAt <= Stall]_vars

-----------------------------------------------------------------------------
(* Two promises that are not kept, and in no run (see the README): that a  *)
(* delayed run of the job never lets the lease lapse, and that renewals go *)
(* on with the revision published last.                                    *)
NeverLapses == faults = 0 => now <= Fresh(pointer)
NeverOlderData == [][pointer'.data >= pointer.data]_vars
=============================================================================
