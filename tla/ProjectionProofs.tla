------------------------- MODULE ProjectionProofs -------------------------
(***************************************************************************)
(* Machine-checked proofs about Projection: that the pointer names a whole *)
(* revision, that a lapse of the lease is bounded, that what killed runs   *)
(* leave behind is cleared and that publications are carried on, for any   *)
(* lease, threshold, interval and stall that satisfy the assumption, and   *)
(* any numbers of revisions kept, of publications, forced runs and faults. *)
(*                                                                         *)
(* Each of the four rests on a part of the inductive invariant of its own  *)
(* and on Basics, which says how old things may be, who is where, and      *)
(* which directories are there.                                            *)
(***************************************************************************)
EXTENDS Projection, FiniteSetTheorems, TLAPS

(* Interval taken n times, as a name of its own: the provers' arithmetic   *)
(* is linear, and TimesFacts is all they need of it.                       *)
Times(n) == Interval * n

Busy(p) == pc[p] # "idle"
Writing(p) == pc[p] \in {"build", "swap"}

(* How old things may be: a run that is under way, and the job's schedule. *)
Ages ==
  /\ \A p \in Procs : Busy(p) => at[p] <= now /\ now <= at[p] + Stall
  /\ now <= due + Stall /\ due <= now + Interval
  /\ Busy(Job) => due <= at[Job] + Interval /\ at[Job] + Interval <= due + Stall

(* Who is where: one renewal under the lock, no gc by the publisher.       *)
Places ==
  /\ \A p, q \in Renewers : pc[p] \in Renewing /\ pc[q] \in Renewing => p = q
  /\ pc[Publisher] \in {"idle", "build", "swap"}
  /\ Busy(Manual) => forced >= 1

(* Where the revisions are, and the staging directories of those at work.  *)
Shelves ==
  /\ disk \cup torn \subseteq made /\ disk \cap torn = {} /\ pointer \in made
  /\ \A p \in Procs : pc[p] = "swap" => Making(p) \in made
  /\ \A p \in Procs : pc[p] = "build" => Mine(p) # {}
  /\ \A s \in staging :
       /\ s.of \in Procs => pc[s.of] = "build" /\ s.born = at[s.of]
       /\ s.of = Nobody => faults >= 1

(* What a collector takes away, or has taken, has Keep others as new.      *)
AsNew(r) == {s \in made \ {r} : s.gen >= r.gen}
Crowded(r) == Cardinality(AsNew(r)) >= Keep
Thinned ==
  /\ IsFiniteSet(made)
  /\ \A r \in made \ disk : Crowded(r)
  /\ \A p \in Procs : \A r \in doomed[p] : Crowded(r)

(* When the job is next due: within an interval of the time the lease of   *)
(* the pointer's revision would be renewed at the latest - unless a run    *)
(* that is to renew it is under way.                                       *)
Renewal == Fresh(pointer) + Times(1 + faults) - Threshold - 1
InTime ==
  /\ pointer \in disk =>
       \/ due <= Renewal
       \/ /\ due <= Renewal + Interval
          /\ \E p \in Renewers : pc[p] \in Renewing /\ at[p] + Interval <= due + Stall
  /\ \A p \in Renewers : Writing(p) => pointer = seen[p] \/ at[p] <= pointer.gen + Stall

(* A directory nobody owns counts from its birth, or from when gc last     *)
(* found no whole revision to protect.                                     *)
Mark(s) == IF s.born > brokenAt THEN s.born ELSE brokenAt
Abandoned == {s \in staging : s.of = Nobody}
Collecting == pc[Job] \in Renewing \cup {"gcload", "gcscan"}
Baseless == pc[Job] = "build" /\ seen[Job] \notin disk
InTheWay == pc[Manual] \in Renewing /\ due <= at[Manual] + Stall
Cleared ==
  /\ brokenAt <= now /\ (pointer \notin disk => brokenAt = now)
  /\ \A s \in Abandoned :
       /\ due + (IF InTheWay THEN Interval ELSE 0)
            <= Mark(s) + StagingAge + Times(faults + forced)
                 + (IF Collecting THEN Interval ELSE 0)
       /\ pc[Manual] = "gcremove" => at[Manual] <= Mark(s) + StagingAge
       /\ Baseless => at[Job] <= brokenAt \/ at[Job] <= Mark(s) + StagingAge + Stall
  /\ Baseless => at[Job] <= brokenAt \/ forced >= 1

(* Whose data are the newest.                                              *)
Carried ==
  /\ pointer.data <= collected
  /\ \A p \in Procs : seen[p].data <= collected
  /\ Busy(Publisher) => seen[Publisher].data = collected
  /\ \A p \in Renewers : Writing(p) => seen[p].data >= pointer.data \/ newestAt >= at[p]

Basics == TypeOK /\ Ages /\ Places /\ Shelves
IInv == Basics /\ Thinned /\ InTime /\ Cleared /\ Carried

-----------------------------------------------------------------------------
LEMMA Constants ==
  /\ Job # Manual /\ Job # Publisher /\ Manual # Publisher
  /\ Nobody \notin Procs /\ Renewers \subseteq Procs
  /\ Job \in Renewers /\ Manual \in Renewers /\ Publisher \in Procs
  /\ Publisher \notin Renewers
  /\ \A p \in Procs : p # Publisher => p \in Renewers
  /\ \A p \in Renewers : p = Job \/ p = Manual
BY ProjectionAssumption DEF Renewers, Procs

LEMMA Numbers ==
  /\ Lease \in Nat /\ Threshold \in Nat /\ Interval \in Nat /\ Keep \in Nat
  /\ StagingAge \in Nat /\ Stall \in Nat
  /\ MaxNow \in Nat /\ MaxData \in Nat /\ MaxForced \in Nat /\ MaxFaults \in Nat
  /\ 1 <= Interval /\ 1 <= Keep /\ 1 <= Stall /\ 1 <= Threshold
  /\ Threshold < Interval /\ Interval < Lease /\ 2 * Stall < Interval
  /\ Threshold + 2 * Stall < Lease /\ Stall <= StagingAge
BY ProjectionAssumption

LEMMA TimesFacts ==
  \A n \in Nat :
    /\ Times(n) \in Nat
    /\ Times(n + 1) = Times(n) + Interval
    /\ n >= 1 => Times(n) >= Interval
    /\ n >= 2 => Times(n) >= 2 * Interval
<1>1. \A n \in Nat : Times(n) \in Nat /\ Times(n + 1) = Times(n) + Interval
  BY Numbers DEF Times
<1>2. \A n \in Nat : n >= 1 => Times(n) >= Interval
  <2>1. ASSUME NEW n \in Nat, n >= 1 PROVE Times(n) >= Interval
    <3>1. n - 1 \in Nat /\ n = (n - 1) + 1 BY <2>1
    <3>2. Times(n) = Times(n - 1) + Interval /\ Times(n - 1) \in Nat BY <1>1, <3>1
    <3>. QED  BY <3>2, Numbers
  <2>. QED  BY <2>1
<1>3. \A n \in Nat : n >= 2 => Times(n) >= 2 * Interval
  <2>1. ASSUME NEW n \in Nat, n >= 2 PROVE Times(n) >= 2 * Interval
    <3>1. n - 1 \in Nat /\ n = (n - 1) + 1 /\ n - 1 >= 1 BY <2>1
    <3>2. Times(n) = Times(n - 1) + Interval /\ Times(n - 1) \in Nat BY <1>1, <3>1
    <3>3. Times(n - 1) >= Interval BY <1>2, <3>1
    <3>. QED  BY <3>2, <3>3, Numbers
  <2>. QED  BY <2>1
<1>. QED  BY <1>1, <1>2, <1>3

-----------------------------------------------------------------------------
(* Types.                                                                  *)
LEMMA EndTypes ==
  ASSUME TypeOK, NEW p \in Procs, End(p)
  PROVE  /\ pc' \in [Procs -> Steps] /\ at' \in [Procs -> 0..MaxNow]
         /\ seen' \in [Procs -> Revision] /\ doomed' \in [Procs -> SUBSET Revision]
         /\ pc'[p] = "idle"
         /\ \A q \in Procs : q # p =>
              pc'[q] = pc[q] /\ at'[q] = at[q] /\ seen'[q] = seen[q] /\ doomed'[q] = doomed[q]
         /\ doomed'[p] = {} /\ seen'[p] = First
<1>1. First \in Revision BY Numbers DEF First, Revision
<1>. QED  BY <1>1, Numbers DEF TypeOK, End, Goto, Steps

LEMMA FailTypes ==
  ASSUME TypeOK, NEW p \in Procs, Fail(p)
  PROVE  /\ staging' \subseteq [of : Procs \cup {Nobody}, born : 0..MaxNow]
         /\ {pointer'} \subseteq Revision /\ {disk', torn', made'} \subseteq SUBSET Revision
         /\ {newestAt', brokenAt'} \subseteq 0..MaxNow
BY DEF TypeOK, Fail

LEMMA MakingTypes ==
  ASSUME TypeOK, NEW p \in Procs
  PROVE  Making(p) \in Revision
BY DEF TypeOK, Making, Revision

LEMMA InitType == Init => TypeOK
<1>. SUFFICES ASSUME Init PROVE TypeOK OBVIOUS
<1>1. First \in Revision BY Numbers DEF First, Revision
<1>2. pc \in [Procs -> Steps] BY DEF Init, Steps
<1>3. /\ now \in 0..MaxNow /\ due \in Nat /\ pointer \in Revision
      /\ {disk, torn, made} \subseteq SUBSET Revision
      /\ staging \subseteq [of : Procs \cup {Nobody}, born : 0..MaxNow]
  BY <1>1, Numbers DEF Init
<1>4. /\ at \in [Procs -> 0..MaxNow] /\ seen \in [Procs -> Revision]
      /\ doomed \in [Procs -> SUBSET Revision]
  BY <1>1, Numbers DEF Init
<1>5. /\ {newestAt, brokenAt} \subseteq 0..MaxNow /\ collected \in 0..MaxData
      /\ forced \in 0..MaxForced /\ faults \in 0..MaxFaults
  BY Numbers DEF Init
<1>. QED  BY <1>2, <1>3, <1>4, <1>5 DEF TypeOK

LEMMA NextType ==
  ASSUME TypeOK, [Next]_vars
  PROVE  TypeOK'
<1>. USE Constants, Numbers
<1>1. CASE Tick BY <1>1 DEF TypeOK, Tick, files
<1>2. ASSUME NEW p \in Procs, Enter(p), due' \in Nat, forced' \in 0..MaxForced PROVE TypeOK'
  <2>1. pc' \in [Procs -> Steps] /\ at' \in [Procs -> 0..MaxNow]
    BY <1>2 DEF TypeOK, Enter, Goto, Steps, Renewing
  <2>. QED  BY <1>2, <2>1 DEF TypeOK, Enter, files
<1>3. CASE StartJob
  <2>1. due' \in Nat /\ forced' \in 0..MaxForced BY <1>3 DEF TypeOK, StartJob
  <2>2. CASE Enter(Job) BY <1>2, <2>1, <2>2
  <2>3. CASE ~Enter(Job) BY <1>3, <2>1, <2>3 DEF TypeOK, StartJob, files
  <2>. QED  BY <2>2, <2>3
<1>4. CASE StartManual BY <1>2, <1>4 DEF TypeOK, StartManual
<1>5. CASE Publish
  <2>1. collected' \in 0..MaxData BY <1>5 DEF TypeOK, Publish
  <2>2. seen' \in [Procs -> Revision]
    <3>1. [seen[Publisher] EXCEPT !.data = collected'] \in Revision
      BY <2>1 DEF TypeOK, Revision
    <3>2. seen' = [seen EXCEPT ![Publisher] = [seen[Publisher] EXCEPT !.data = collected']]
      BY <1>5 DEF Publish
    <3>. QED  BY <3>1, <3>2 DEF TypeOK
  <2>3. pc' \in [Procs -> Steps] /\ at' \in [Procs -> 0..MaxNow]
    BY <1>5 DEF TypeOK, Publish, Goto, Steps, Renewing
  <2>4. staging' \subseteq [of : Procs \cup {Nobody}, born : 0..MaxNow]
    BY <1>5 DEF TypeOK, Publish
  <2>. QED  BY <1>5, <2>1, <2>2, <2>3, <2>4 DEF TypeOK, Publish
<1>6. ASSUME NEW p \in Renewers, Load(p) PROVE TypeOK'
  <2>1. CASE Fail(p) BY <1>6, <2>1, EndTypes, FailTypes DEF TypeOK, Load, Fail
  <2>2. CASE Goto(p, "gcload") /\ UNCHANGED <<files, at, seen, doomed, made, newestAt, brokenAt>>
    BY <1>6, <2>2 DEF TypeOK, Load, Goto, Steps, files
  <2>3. CASE /\ ~Fail(p)
             /\ ~(Goto(p, "gcload") /\ UNCHANGED <<files, at, seen, doomed, made, newestAt, brokenAt>>)
    <3>1. PICK r \in Revision :
             /\ seen' = [seen EXCEPT ![p] = r]
             /\ staging' = staging \cup {[of |-> p, born |-> at[p]]}
             /\ Goto(p, "build")
             /\ UNCHANGED <<pointer, disk, torn, at, doomed, made, newestAt, brokenAt>>
             /\ UNCHANGED <<now, due, collected, forced, faults>>
      BY <1>6, <2>3 DEF Load
    <3>2. staging' \subseteq [of : Procs \cup {Nobody}, born : 0..MaxNow]
      BY <3>1 DEF TypeOK
    <3>3. pc' \in [Procs -> Steps] BY <3>1 DEF TypeOK, Goto, Steps, Renewing
    <3>. QED  BY <3>1, <3>2, <3>3 DEF TypeOK
  <2>. QED  BY <2>1, <2>2, <2>3
<1>7. ASSUME NEW p \in Procs, Build(p) PROVE TypeOK'
  <2>1. CASE Fail(p) BY <1>7, <2>1, EndTypes, FailTypes DEF TypeOK, Build, Fail
  <2>2. CASE ~Fail(p)
    <3>1. pc' \in [Procs -> Steps] BY <1>7, <2>2 DEF TypeOK, Build, Goto, Steps, Renewing
    <3>2. disk' \subseteq Revision /\ made' \subseteq Revision
      BY <1>7, <2>2, MakingTypes DEF TypeOK, Build
    <3>. QED  BY <1>7, <2>2, <3>1, <3>2 DEF TypeOK, Build
  <2>. QED  BY <2>1, <2>2
<1>8. ASSUME NEW p \in Procs, Swap(p) PROVE TypeOK'
  <2>1. pc' \in [Procs -> Steps] /\ at' \in [Procs -> 0..MaxNow]
        /\ seen' \in [Procs -> Revision] /\ doomed' \in [Procs -> SUBSET Revision]
    <3>1. CASE End(p) BY <3>1, EndTypes
    <3>2. CASE ~End(p) BY <1>8, <3>2 DEF TypeOK, Swap, Goto, Steps
    <3>. QED  BY <3>1, <3>2
  <2>2. {newestAt', brokenAt'} \subseteq 0..MaxNow BY <1>8 DEF TypeOK, Swap
  <2>. QED  BY <1>8, <2>1, <2>2, MakingTypes DEF TypeOK, Swap
<1>9. ASSUME NEW p \in Renewers, GcLoad(p) PROVE TypeOK'
  <2>1. pc' \in [Procs -> Steps] /\ at' \in [Procs -> 0..MaxNow]
        /\ seen' \in [Procs -> Revision] /\ doomed' \in [Procs -> SUBSET Revision]
    <3>1. CASE End(p) BY <3>1, EndTypes
    <3>2. CASE ~End(p) BY <1>9, <3>2 DEF TypeOK, GcLoad, Goto, Steps
    <3>. QED  BY <3>1, <3>2
  <2>. QED  BY <1>9, <2>1 DEF TypeOK, GcLoad, files
<1>10. ASSUME NEW p \in Renewers, GcScan(p) PROVE TypeOK'
  <2>1. pc' \in [Procs -> Steps] /\ at' \in [Procs -> 0..MaxNow]
        /\ seen' \in [Procs -> Revision] /\ doomed' \in [Procs -> SUBSET Revision]
    <3>1. CASE End(p) BY <3>1, EndTypes
    <3>2. CASE ~End(p)
      <4>1. PICK S \in SUBSET Revision :
              /\ doomed' = [doomed EXCEPT ![p] = S] /\ Goto(p, "gcremove")
              /\ UNCHANGED <<at, seen>>
        BY <1>10, <3>2 DEF TypeOK, GcScan
      <4>. QED  BY <4>1 DEF TypeOK, Goto, Steps
    <3>. QED  BY <3>1, <3>2
  <2>. QED  BY <1>10, <2>1 DEF TypeOK, GcScan
<1>11. ASSUME NEW p \in Renewers, GcRemove(p) PROVE TypeOK'
  <2>1. pc' \in [Procs -> Steps] /\ at' \in [Procs -> 0..MaxNow]
        /\ seen' \in [Procs -> Revision] /\ doomed' \in [Procs -> SUBSET Revision]
    <3>1. CASE End(p) BY <3>1, EndTypes
    <3>2. CASE ~End(p) BY <1>11, <3>2 DEF TypeOK, GcRemove
    <3>. QED  BY <3>1, <3>2
  <2>2. disk' \subseteq Revision /\ torn' \subseteq Revision /\ brokenAt' \in 0..MaxNow
    BY <1>11 DEF TypeOK, GcRemove
  <2>. QED  BY <1>11, <2>1, <2>2 DEF TypeOK, GcRemove
<1>12. ASSUME NEW p \in Procs, WriteFails(p) PROVE TypeOK'
  BY <1>12, EndTypes, FailTypes DEF TypeOK, WriteFails, Fail
<1>13. ASSUME NEW p \in Procs, Killed(p) PROVE TypeOK'
  <2>1. staging' \subseteq [of : Procs \cup {Nobody}, born : 0..MaxNow]
    <3>1. PICK changed \in 0..now :
            staging' = (staging \ Mine(p)) \cup {[of |-> Nobody, born |-> changed] : m \in Mine(p)}
      BY <1>13 DEF Killed
    <3>2. changed \in 0..MaxNow BY Numbers DEF TypeOK
    <3>. QED  BY <3>1, <3>2 DEF TypeOK
  <2>. QED  BY <1>13, <2>1, EndTypes DEF TypeOK, Killed
<1>14. CASE UNCHANGED vars BY <1>14 DEF TypeOK, vars, files
<1>15. ASSUME NEW p \in Procs, ScanFails(p) PROVE TypeOK'
  BY <1>15, EndTypes DEF TypeOK, ScanFails
<1>. QED
  BY <1>1, <1>3, <1>4, <1>5, <1>6, <1>7, <1>8, <1>9, <1>10, <1>11, <1>12, <1>13, <1>14, <1>15
     DEF Next, Write, Gc, Fault

-----------------------------------------------------------------------------
(* What each step does, process by process.                                *)
Others(p) ==
  \A q \in Procs : q # p =>
    pc'[q] = pc[q] /\ at'[q] = at[q] /\ seen'[q] = seen[q] /\ doomed'[q] = doomed[q]
Ended(p) == Others(p) /\ pc'[p] = "idle" /\ doomed'[p] = {} /\ seen'[p] = First
Stays(p) == at'[p] = at[p] /\ seen'[p] = seen[p] /\ doomed'[p] = doomed[p]
Goes(p, s) == Others(p) /\ pc'[p] = s /\ Stays(p)
NoneMoves == UNCHANGED <<pc, at, seen, doomed>>
Stored == <<pointer, disk, torn, made, newestAt, brokenAt>>
Clock == <<now, due>>
Counts == <<collected, forced, faults>>

LEMMA EndDoes ==
  ASSUME TypeOK, NEW p \in Procs, End(p)
  PROVE  Ended(p)
BY EndTypes DEF Ended, Others

LEMMA EnterDoes ==
  ASSUME TypeOK, NEW p \in Renewers, Enter(p)
  PROVE  /\ UNCHANGED Stored /\ UNCHANGED <<now, staging, collected, faults>>
         /\ \/ RenewLocked /\ NoneMoves
            \/ /\ ~RenewLocked /\ Others(p) /\ pc'[p] = "load" /\ at'[p] = now
               /\ seen'[p] = seen[p] /\ doomed'[p] = doomed[p]
BY Constants DEF TypeOK, Enter, Goto, files, Stored, NoneMoves, Others

LEMMA StartJobDoes ==
  ASSUME TypeOK, StartJob
  PROVE  /\ UNCHANGED Stored /\ UNCHANGED <<now, staging, collected, forced, faults>>
         /\ now >= due /\ due' = due + Interval
         /\ \/ (RenewLocked \/ pc[Job] # "idle") /\ NoneMoves
            \/ /\ ~RenewLocked /\ pc[Job] = "idle"
               /\ Others(Job) /\ pc'[Job] = "load" /\ at'[Job] = now
               /\ seen'[Job] = seen[Job] /\ doomed'[Job] = doomed[Job]
<1>1. CASE pc[Job] = "idle" BY <1>1, EnterDoes, Constants DEF StartJob
<1>2. CASE pc[Job] # "idle" BY <1>2 DEF StartJob, files, Stored, NoneMoves
<1>. QED  BY <1>1, <1>2

LEMMA StartManualDoes ==
  ASSUME TypeOK, StartManual
  PROVE  /\ UNCHANGED Stored /\ UNCHANGED <<now, due, staging, collected, faults>>
         /\ pc[Manual] = "idle" /\ forced' = forced + 1
         /\ \/ RenewLocked /\ NoneMoves
            \/ /\ ~RenewLocked
               /\ Others(Manual) /\ pc'[Manual] = "load" /\ at'[Manual] = now
               /\ seen'[Manual] = seen[Manual] /\ doomed'[Manual] = doomed[Manual]
BY EnterDoes, Constants DEF StartManual

LEMMA PublishDoes ==
  ASSUME TypeOK, Publish
  PROVE  /\ UNCHANGED Stored /\ UNCHANGED <<now, due, forced, faults>>
         /\ pc[Publisher] = "idle" /\ collected' = collected + 1
         /\ Others(Publisher) /\ pc'[Publisher] = "build" /\ at'[Publisher] = now
         /\ seen'[Publisher].data = collected' /\ doomed'[Publisher] = doomed[Publisher]
         /\ staging' = staging \cup {[of |-> Publisher, born |-> now]}
<1>1. /\ UNCHANGED Stored /\ UNCHANGED <<now, due, forced, faults, doomed>>
      /\ pc[Publisher] = "idle" /\ collected' = collected + 1
      /\ staging' = staging \cup {[of |-> Publisher, born |-> now]}
      /\ pc' = [pc EXCEPT ![Publisher] = "build"]
      /\ at' = [at EXCEPT ![Publisher] = now]
      /\ seen' = [seen EXCEPT ![Publisher] = [seen[Publisher] EXCEPT !.data = collected']]
  BY DEF Publish, Stored, Goto
<1>2. [seen[Publisher] EXCEPT !.data = collected'].data = collected'
  BY Constants DEF TypeOK, Revision
<1>. QED  BY <1>1, <1>2, Constants DEF TypeOK, Others

LEMMA FailDoes ==
  ASSUME TypeOK, NEW p \in Procs, Fail(p)
  PROVE  UNCHANGED Stored /\ Ended(p) /\ staging' = staging \ Mine(p)
BY EndDoes DEF Fail, Stored

LEMMA LoadDoes ==
  ASSUME TypeOK, NEW p \in Renewers, Load(p)
  PROVE  /\ UNCHANGED Stored /\ UNCHANGED Clock /\ UNCHANGED Counts /\ pc[p] = "load"
         /\ \/ /\ Ended(p) /\ staging' = staging \ Mine(p)
               /\ pointer \notin disk \/ (~StillFresh(p, pointer) /\ at[p] <= pointer.gen)
            \/ /\ Goes(p, "gcload") /\ UNCHANGED staging /\ StillFresh(p, pointer)
            \/ /\ Others(p) /\ pc'[p] = "build" /\ at'[p] = at[p] /\ seen'[p] = pointer
               /\ doomed'[p] = doomed[p]
               /\ staging' = staging \cup {[of |-> p, born |-> at[p]]}
<1>. USE Constants DEF Baseline
<1>1. pc[p] = "load" /\ UNCHANGED Clock /\ UNCHANGED Counts BY DEF Load, Clock, Counts
<1>2. CASE /\ pointer \notin disk \/ (~StillFresh(p, pointer) /\ at[p] <= pointer.gen)
           /\ Fail(p)
  BY <1>1, <1>2, FailDoes
<1>3. CASE /\ StillFresh(p, pointer) /\ Goto(p, "gcload")
           /\ UNCHANGED <<files, at, seen, doomed, made, newestAt, brokenAt>>
  BY <1>1, <1>3 DEF TypeOK, Goto, files, Stored, Goes, Others, Stays
<1>4. CASE /\ seen' = [seen EXCEPT ![p] = pointer]
           /\ staging' = staging \cup {[of |-> p, born |-> at[p]]}
           /\ Goto(p, "build")
           /\ UNCHANGED <<pointer, disk, torn, at, doomed, made, newestAt, brokenAt>>
  BY <1>1, <1>4 DEF TypeOK, Goto, Stored, Others
<1>. QED  BY <1>2, <1>3, <1>4 DEF Load

LEMMA BuildDoes ==
  ASSUME TypeOK, NEW p \in Procs, Build(p)
  PROVE  /\ UNCHANGED Clock /\ UNCHANGED Counts /\ pc[p] = "build"
         /\ staging' = staging \ Mine(p)
         /\ \/ /\ UNCHANGED Stored /\ Ended(p)
               /\ Mine(p) = {} \/ (p # Publisher /\ seen[p] \notin disk)
            \/ /\ UNCHANGED <<pointer, torn, newestAt, brokenAt>> /\ Goes(p, "swap")
               /\ disk' = IF Making(p) \in torn THEN disk ELSE disk \cup {Making(p)}
               /\ made' = made \cup {Making(p)}
<1>1. UNCHANGED Clock /\ UNCHANGED Counts /\ pc[p] = "build" BY DEF Build, Clock, Counts
<1>2. CASE Mine(p) = {} \/ (p # Publisher /\ seen[p] \notin disk)
  BY <1>1, <1>2, FailDoes DEF Build
<1>3. CASE ~(Mine(p) = {} \/ (p # Publisher /\ seen[p] \notin disk))
  BY <1>1, <1>3 DEF Build, TypeOK, Goto, Goes, Others, Stays
<1>. QED  BY <1>2, <1>3

LEMMA SwapDoes ==
  ASSUME TypeOK, NEW p \in Procs, Swap(p)
  PROVE  /\ UNCHANGED Clock /\ UNCHANGED Counts /\ UNCHANGED <<disk, torn, staging, made>>
         /\ pc[p] = "swap" /\ pointer' = Making(p)
         /\ newestAt' = IF Making(p).data > pointer.data THEN now ELSE newestAt
         /\ brokenAt' = IF Making(p) \in disk THEN brokenAt ELSE now
         /\ IF p = Publisher THEN Ended(p) ELSE Goes(p, "gcload")
<1>1. CASE p = Publisher BY <1>1, EndDoes DEF Swap, Clock, Counts
<1>2. CASE p # Publisher
  BY <1>2 DEF Swap, Clock, Counts, TypeOK, Goto, Goes, Others, Stays
<1>. QED  BY <1>1, <1>2

LEMMA GcLoadDoes ==
  ASSUME TypeOK, NEW p \in Renewers, GcLoad(p)
  PROVE  /\ UNCHANGED Clock /\ UNCHANGED Counts /\ UNCHANGED Stored /\ UNCHANGED staging
         /\ pc[p] = "gcload"
         /\ \/ pointer \notin disk /\ Ended(p)
            \/ /\ Others(p) /\ pc'[p] = "gcscan" /\ at'[p] = at[p] /\ seen'[p] = pointer
               /\ doomed'[p] = doomed[p]
<1>1. CASE pointer \notin disk
  BY <1>1, EndDoes, Constants DEF GcLoad, Clock, Counts, Stored, files
<1>2. CASE pointer \in disk
  BY <1>2, Constants DEF GcLoad, Clock, Counts, Stored, files, TypeOK, Goto, Others
<1>. QED  BY <1>1, <1>2

LEMMA GcScanDoes ==
  ASSUME TypeOK, NEW p \in Renewers, GcScan(p)
  PROVE  /\ UNCHANGED Clock /\ UNCHANGED Counts /\ UNCHANGED Stored
         /\ pc[p] = "gcscan" /\ staging' = {s \in staging : ~Expired(s)}
         /\ \/ Ended(p)
            \/ /\ Others(p) /\ pc'[p] = "gcremove" /\ at'[p] = at[p] /\ seen'[p] = seen[p]
               /\ \E readable \in SUBSET torn : \E T \in Newest(disk \cup readable) :
                    doomed'[p] = (disk \cup readable) \ (T \cup {seen[p]})
<1>1. /\ UNCHANGED Clock /\ UNCHANGED Counts /\ UNCHANGED Stored
      /\ pc[p] = "gcscan" /\ staging' = {s \in staging : ~Expired(s)}
  BY DEF GcScan, Clock, Counts, Stored
<1>2. CASE End(p) BY <1>1, <1>2, EndDoes, Constants
<1>3. CASE ~End(p)
  <2>1. PICK readable \in SUBSET torn : \E T \in Newest(disk \cup readable) :
           /\ doomed' = [doomed EXCEPT ![p] = (disk \cup readable) \ (T \cup {seen[p]})]
           /\ Goto(p, "gcremove") /\ UNCHANGED <<at, seen>>
    BY <1>3 DEF GcScan
  <2>. QED  BY <1>1, <2>1, Constants DEF TypeOK, Goto, Others
<1>. QED  BY <1>2, <1>3

LEMMA GcRemoveDoes ==
  ASSUME TypeOK, NEW p \in Renewers, GcRemove(p)
  PROVE  /\ UNCHANGED Clock /\ UNCHANGED Counts /\ UNCHANGED <<pointer, staging, made, newestAt>>
         /\ pc[p] = "gcremove"
         /\ brokenAt' = IF pointer \in disk' THEN brokenAt ELSE now
         /\ Others(p)
         /\ \/ Ended(p)
            \/ /\ pc'[p] = "gcremove" /\ at'[p] = at[p] /\ seen'[p] = seen[p]
               /\ doomed'[p] \subseteq doomed[p]
         /\ \E r \in doomed[p] :
              \/ r \in disk /\ disk' = disk \ {r} /\ torn' = torn \cup {r}
              \/ disk' = disk /\ torn' = torn \ {r}
<1>1. /\ UNCHANGED Clock /\ UNCHANGED Counts /\ UNCHANGED <<pointer, staging, made, newestAt>>
      /\ pc[p] = "gcremove"
      /\ brokenAt' = IF pointer \in disk' THEN brokenAt ELSE now
  BY DEF GcRemove, Clock, Counts
<1>2. PICK r \in doomed[p] :
        \/ /\ r \in disk
           /\ disk' = disk \ {r} /\ torn' = torn \cup {r}
           /\ UNCHANGED <<doomed, pc, at, seen>>
        \/ /\ r \in torn
           /\ torn' = torn \ {r} /\ UNCHANGED disk
           /\ IF doomed[p] = {r} THEN End(p)
              ELSE /\ doomed' = [doomed EXCEPT ![p] = @ \ {r}]
                   /\ UNCHANGED <<pc, at, seen>>
        \/ /\ r \notin disk \cup torn
           /\ End(p) /\ UNCHANGED <<disk, torn>>
  BY DEF GcRemove
<1>3. \/ r \in disk /\ disk' = disk \ {r} /\ torn' = torn \cup {r}
      \/ disk' = disk /\ torn' = torn \ {r}
  BY <1>2
<1>4. CASE End(p)
  <2>1. Ended(p) BY <1>4, EndDoes, Constants
  <2>. QED  BY <1>1, <1>3, <2>1 DEF Ended
<1>5. CASE ~End(p)
  <2>1. UNCHANGED <<pc, at, seen>> /\ (UNCHANGED doomed \/ doomed' = [doomed EXCEPT ![p] = @ \ {r}])
    BY <1>2, <1>5
  <2>2. Others(p) /\ doomed'[p] \subseteq doomed[p]
    BY <2>1, Constants DEF TypeOK, Others
  <2>. QED  BY <1>1, <1>3, <2>1, <2>2
<1>. QED  BY <1>4, <1>5

(* A fault ends a run: what it staged is removed, or is left to nobody.    *)
LEMMA FaultDoes ==
  ASSUME TypeOK, NEW p \in Procs, Fault(p)
  PROVE  /\ UNCHANGED Clock /\ UNCHANGED <<collected, forced>> /\ UNCHANGED Stored
         /\ pc[p] # "idle" /\ faults' = faults + 1 /\ Ended(p)
         /\ \A s \in staging' :
              \/ s \in staging \ Mine(p)
              \/ s \in staging /\ pc[p] = "gcscan"
              \/ s.of = Nobody /\ s.born \in 0..now /\ \E m \in Mine(p) : m.born <= s.born
         /\ \A s \in staging \ Mine(p) : s \in staging' \/ Expired(s)
<1>1. CASE WriteFails(p)
  BY <1>1, FailDoes DEF WriteFails, Clock
<1>2. CASE Killed(p)
  <2>1. PICK changed \in 0..now :
          /\ \A s \in Mine(p) : s.born <= changed
          /\ staging' = (staging \ Mine(p)) \cup {[of |-> Nobody, born |-> changed] : s \in Mine(p)}
    BY <1>2 DEF Killed
  <2>2. ASSUME NEW s \in staging', s \notin staging \ Mine(p)
        PROVE  s.of = Nobody /\ s.born \in 0..now /\ \E m \in Mine(p) : m.born <= s.born
    BY <2>1, <2>2
  <2>3. /\ UNCHANGED Clock /\ UNCHANGED <<collected, forced>> /\ UNCHANGED Stored
        /\ pc[p] # "idle" /\ faults' = faults + 1 /\ End(p)
    BY <1>2 DEF Killed, Clock, Stored
  <2>. QED  BY <2>1, <2>2, <2>3, EndDoes
<1>3. CASE p \in Renewers /\ ScanFails(p)
  <2>1. /\ UNCHANGED Clock /\ UNCHANGED <<collected, forced>> /\ UNCHANGED Stored
        /\ pc[p] = "gcscan" /\ faults' = faults + 1 /\ End(p)
        /\ \E S \in SUBSET {s \in staging : Expired(s)} : staging' = staging \ S
    BY <1>3 DEF ScanFails, Clock, Stored
  <2>. QED  BY <2>1, EndDoes
<1>. QED  BY <1>1, <1>2, <1>3 DEF Fault

-----------------------------------------------------------------------------
(* Basics: ages, places and directories.                                   *)
LEMMA TypeFacts ==
  ASSUME TypeOK
  PROVE  /\ now \in Nat /\ due \in Nat /\ brokenAt \in Nat /\ newestAt \in Nat
         /\ collected \in Nat /\ forced \in Nat /\ faults \in Nat
         /\ \A p \in Procs : at[p] \in Nat /\ pc[p] \in Steps /\ seen[p] \in Revision
         /\ pointer \in Revision
         /\ \A r \in Revision : r.gen \in Nat /\ r.data \in Nat
         /\ \A s \in staging : s.born \in Nat /\ s.of \in Procs \cup {Nobody}
BY Numbers DEF TypeOK, Revision

(* The steps of runs that are under way: nothing begins, no time passes.   *)
Calm(p) ==
  \/ p \in Renewers /\ (Load(p) \/ GcLoad(p) \/ GcScan(p) \/ GcRemove(p))
  \/ Build(p) \/ Swap(p) \/ Fault(p)

LEMMA NextIs ==
  ASSUME Next
  PROVE  Tick \/ StartJob \/ StartManual \/ Publish \/ \E p \in Procs : Calm(p)
BY Constants DEF Next, Calm, Write, Gc

LEMMA CalmDoes ==
  ASSUME TypeOK, NEW p \in Procs, Calm(p)
  PROVE  /\ UNCHANGED Clock /\ UNCHANGED <<collected, forced>> /\ Busy(p) /\ Others(p)
         /\ Busy(p)' => at'[p] = at[p]
         /\ pc'[p] \in Renewing => pc[p] \in Renewing
         /\ pc'[p] \in {"idle", "build", "swap"} \/ p \in Renewers
<1>1. CASE p \in Renewers /\ Load(p)
  BY <1>1, LoadDoes DEF Counts, Busy, Ended, Goes, Stays, Others, Renewing
<1>2. CASE p \in Renewers /\ GcLoad(p)
  BY <1>2, GcLoadDoes DEF Counts, Busy, Ended, Renewing
<1>3. CASE p \in Renewers /\ GcScan(p)
  BY <1>3, GcScanDoes DEF Counts, Busy, Ended, Renewing
<1>4. CASE p \in Renewers /\ GcRemove(p)
  BY <1>4, GcRemoveDoes DEF Counts, Busy, Ended, Renewing
<1>5. CASE Build(p)
  BY <1>5, BuildDoes DEF Counts, Busy, Ended, Goes, Stays, Renewing
<1>6. CASE Swap(p)
  BY <1>6, SwapDoes, Constants DEF Counts, Busy, Ended, Goes, Stays, Renewing
<1>7. CASE Fault(p)
  BY <1>7, FaultDoes DEF Busy, Ended, Renewing
<1>. QED  BY <1>1, <1>2, <1>3, <1>4, <1>5, <1>6, <1>7 DEF Calm

LEMMA NextAges ==
  ASSUME TypeOK, Ages, [Next]_vars
  PROVE  Ages'
<1>. USE Constants, Numbers, TypeFacts
<1>1. CASE Tick BY <1>1 DEF Tick, Ages, Busy
<1>2. CASE StartJob
  <2>1. now' = now /\ due' = due + Interval /\ now >= due BY <1>2, StartJobDoes
  <2>2. pc[Job] = "idle" BY <2>1 DEF Ages, Busy
  <2>3. CASE NoneMoves BY <2>1, <2>2, <2>3 DEF NoneMoves, Ages, Busy
  <2>4. CASE Others(Job) /\ pc'[Job] = "load" /\ at'[Job] = now
    BY <2>1, <2>4 DEF Others, Ages, Busy
  <2>. QED  BY <1>2, <2>3, <2>4, StartJobDoes
<1>3. CASE StartManual
  BY <1>3, StartManualDoes DEF NoneMoves, Others, Ages, Busy
<1>4. CASE Publish
  BY <1>4, PublishDoes DEF Others, Ages, Busy
<1>5. ASSUME NEW p \in Procs, Calm(p) PROVE Ages'
  BY <1>5, CalmDoes DEF Others, Ages, Busy, Clock
<1>6. CASE UNCHANGED vars BY <1>6 DEF vars, Ages, Busy
<1>. QED  BY <1>1, <1>2, <1>3, <1>4, <1>5, <1>6, NextIs

LEMMA NextPlaces ==
  ASSUME TypeOK, Places, [Next]_vars
  PROVE  Places'
<1>. USE Constants, TypeFacts
<1>1. CASE Tick BY <1>1 DEF Tick, Places, Busy
<1>2. CASE StartJob
  BY <1>2, StartJobDoes DEF NoneMoves, Others, Places, Busy, RenewLocked
<1>3. CASE StartManual
  BY <1>3, StartManualDoes DEF NoneMoves, Others, Places, Busy, RenewLocked
<1>4. CASE Publish
  BY <1>4, PublishDoes DEF Others, Places, Busy
<1>5. ASSUME NEW p \in Procs, Calm(p) PROVE Places'
  BY <1>5, CalmDoes DEF Others, Places, Busy
<1>6. CASE UNCHANGED vars BY <1>6 DEF vars, Places, Busy
<1>. QED  BY <1>1, <1>2, <1>3, <1>4, <1>5, <1>6, NextIs

(* The directories: of revisions, ...                                      *)
OnShelf ==
  /\ disk \cup torn \subseteq made /\ disk \cap torn = {} /\ pointer \in made
  /\ \A p \in Procs : pc[p] = "swap" => Making(p) \in made
(* ... and of those at work.                                               *)
OnTable ==
  /\ \A p \in Procs : pc[p] = "build" => Mine(p) # {}
  /\ \A s \in staging :
       /\ s.of \in Procs => pc[s.of] = "build" /\ s.born = at[s.of]
       /\ s.of = Nobody => faults >= 1

LEMMA ShelvesAre == Shelves <=> OnShelf /\ OnTable
BY DEF Shelves, OnShelf, OnTable

LEMMA NextOnShelf ==
  ASSUME TypeOK, OnShelf, [Next]_vars
  PROVE  OnShelf'
<1>. USE Constants
<1>1. CASE Tick BY <1>1 DEF Tick, files, OnShelf, Making
<1>2. CASE StartJob
  BY <1>2, StartJobDoes DEF NoneMoves, Others, Stored, OnShelf, Making
<1>3. CASE StartManual
  BY <1>3, StartManualDoes DEF NoneMoves, Others, Stored, OnShelf, Making
<1>4. CASE Publish
  BY <1>4, PublishDoes DEF Others, Stored, OnShelf, Making
<1>5. ASSUME NEW p \in Renewers, Load(p) PROVE OnShelf'
  BY <1>5, LoadDoes DEF Others, Ended, Goes, Stored, OnShelf, Making
<1>6. ASSUME NEW p \in Renewers, GcLoad(p) PROVE OnShelf'
  BY <1>6, GcLoadDoes DEF Others, Ended, Stored, OnShelf, Making
<1>7. ASSUME NEW p \in Renewers, GcScan(p) PROVE OnShelf'
  BY <1>7, GcScanDoes DEF Others, Ended, Stored, OnShelf, Making
<1>8. ASSUME NEW p \in Renewers, GcRemove(p) PROVE OnShelf'
  BY <1>8, GcRemoveDoes DEF Others, Ended, OnShelf, Making
<1>9. ASSUME NEW p \in Procs, Build(p) PROVE OnShelf'
  <2>1. CASE UNCHANGED Stored /\ Ended(p)
    BY <2>1 DEF Others, Ended, Stored, OnShelf, Making
  <2>2. CASE /\ UNCHANGED <<pointer, torn, newestAt, brokenAt>> /\ Goes(p, "swap")
             /\ disk' = IF Making(p) \in torn THEN disk ELSE disk \cup {Making(p)}
             /\ made' = made \cup {Making(p)}
    BY <2>2 DEF Others, Goes, Stays, OnShelf, Making
  <2>. QED  BY <1>9, <2>1, <2>2, BuildDoes
<1>10. ASSUME NEW p \in Procs, Swap(p) PROVE OnShelf'
  BY <1>10, SwapDoes DEF Others, Ended, Goes, Stays, OnShelf, Making
<1>11. ASSUME NEW p \in Procs, Fault(p) PROVE OnShelf'
  BY <1>11, FaultDoes DEF Others, Ended, Stored, OnShelf, Making
<1>12. CASE UNCHANGED vars BY <1>12 DEF vars, files, OnShelf, Making
<1>. QED
  BY <1>1, <1>2, <1>3, <1>4, <1>5, <1>6, <1>7, <1>8, <1>9, <1>10, <1>11, <1>12, NextIs DEF Calm

LEMMA NextOnTable ==
  ASSUME TypeOK, Ages, OnTable, [Next]_vars
  PROVE  OnTable'
<1>. USE Constants, TypeFacts DEF OnTable
<1>1. CASE Tick BY <1>1 DEF Tick, files, Mine
<1>2. CASE StartJob
  BY <1>2, StartJobDoes DEF NoneMoves, Others, Mine
<1>3. CASE StartManual
  BY <1>3, StartManualDoes DEF NoneMoves, Others, Mine
<1>0. ASSUME NEW p \in Procs, NEW d, d.of = p, d.born = at'[p], staging' = staging \cup {d},
             Others(p), pc'[p] = "build", pc[p] # "build", faults' = faults
      PROVE  OnTable'
  <2>1. \A q \in Procs : pc'[q] = "build" => Mine(q)' # {}
    <3>1. d \in Mine(p)' BY <1>0 DEF Mine
    <3>2. ASSUME NEW q \in Procs, q # p, pc'[q] = "build" PROVE Mine(q)' # {}
      BY <1>0, <3>2 DEF Others, Mine
    <3>. QED  BY <3>1, <3>2
  <2>2. ASSUME NEW s \in staging'
        PROVE  /\ s.of \in Procs => pc'[s.of] = "build" /\ s.born = at'[s.of]
               /\ s.of = Nobody => faults' >= 1
    BY <1>0, <2>2 DEF Others
  <2>. QED  BY <2>1, <2>2
<1>4. CASE Publish
  <2>1. PICK d : d = [of |-> Publisher, born |-> now] OBVIOUS
  <2>2. d.of = Publisher /\ d.born = now BY <2>1
  <2>. QED  BY <1>0, <1>4, <2>1, <2>2, PublishDoes
<1>5. ASSUME NEW p \in Renewers, Load(p) PROVE OnTable'
  <2>1. PICK d : d = [of |-> p, born |-> at[p]] OBVIOUS
  <2>2. d.of = p /\ d.born = at[p] BY <2>1
  <2>3. CASE pc'[p] = "build"
    BY <1>0, <1>5, <2>1, <2>2, <2>3, LoadDoes DEF Ended, Goes, Counts
  <2>4. CASE pc'[p] # "build"
    BY <1>5, <2>4, LoadDoes DEF Others, Ended, Goes, Counts, Mine
  <2>. QED  BY <2>3, <2>4
<1>6. ASSUME NEW p \in Renewers, GcLoad(p) PROVE OnTable'
  BY <1>6, GcLoadDoes DEF Others, Ended, Counts, Mine
<1>7. ASSUME NEW p \in Renewers, GcScan(p) PROVE OnTable'
  <2>1. \A s \in staging : s.of \in Procs => ~Expired(s)
    BY Numbers DEF Expired, Ages, Busy
  <2>. QED  BY <1>7, <2>1, GcScanDoes DEF Others, Ended, Counts, Mine
<1>8. ASSUME NEW p \in Renewers, GcRemove(p) PROVE OnTable'
  BY <1>8, GcRemoveDoes DEF Others, Ended, Counts, Mine
<1>9. ASSUME NEW p \in Procs, Build(p) PROVE OnTable'
  BY <1>9, BuildDoes DEF Others, Ended, Goes, Stays, Counts, Mine
<1>10. ASSUME NEW p \in Procs, Swap(p) PROVE OnTable'
  BY <1>10, SwapDoes DEF Others, Ended, Goes, Stays, Counts, Mine
<1>11. ASSUME NEW p \in Procs, Fault(p) PROVE OnTable'
  <2>1. \A s \in staging : s.of \in Procs => ~Expired(s)
    BY Numbers DEF Expired, Ages, Busy
  <2>2. ASSUME NEW s \in staging'
        PROVE  /\ s.of \in Procs => s \in staging /\ s.of # p
               /\ s.of = Nobody => s \in staging \/ faults' >= 1
    BY <1>11, <2>2, FaultDoes DEF Mine
  <2>3. ASSUME NEW q \in Procs, pc'[q] = "build" PROVE Mine(q)' # {}
    <3>1. q # p /\ pc[q] = "build" BY <1>11, <2>3, FaultDoes DEF Others, Ended
    <3>2. PICK m \in Mine(q) : TRUE BY <3>1
    <3>3. m \in staging \ Mine(p) /\ ~Expired(m) BY <2>1, <3>1 DEF Mine
    <3>. QED  BY <1>11, <3>3, FaultDoes DEF Mine
  <2>. QED  BY <1>11, <2>2, <2>3, FaultDoes DEF Others, Ended
<1>12. CASE UNCHANGED vars BY <1>12 DEF vars, files, Mine
<1>. QED
  BY <1>1, <1>2, <1>3, <1>4, <1>5, <1>6, <1>7, <1>8, <1>9, <1>10, <1>11, <1>12, NextIs DEF Calm

LEMMA InitBasics == Init => Basics
<1>. SUFFICES ASSUME Init PROVE Basics OBVIOUS
<1>1. Ages BY Constants, Numbers DEF Init, Ages, Busy
<1>2. Places BY Constants DEF Init, Places, Busy, Renewing
<1>3. Shelves BY Constants DEF Init, Shelves
<1>. QED  BY <1>1, <1>2, <1>3, InitType DEF Basics

LEMMA NextBasics == Basics /\ [Next]_vars => Basics'
BY NextType, NextAges, NextPlaces, NextOnShelf, NextOnTable, ShelvesAre DEF Basics, Shelves, OnShelf, OnTable

-----------------------------------------------------------------------------
(* The pointer names a whole revision.                                     *)
LEMMA CrowdedGrows ==
  ASSUME NEW r, Crowded(r), made \subseteq made', IsFiniteSet(made')
  PROVE  Crowded(r)'
<1>1. AsNew(r) \subseteq AsNew(r)' BY DEF AsNew
<1>2. AsNew(r)' \subseteq made' BY DEF AsNew
<1>3. IsFiniteSet(AsNew(r)') BY <1>2, FS_Subset
<1>4. Cardinality(AsNew(r)) <= Cardinality(AsNew(r)') BY <1>1, <1>3, FS_Subset
<1>5. Cardinality(AsNew(r)) \in Nat /\ Cardinality(AsNew(r)') \in Nat
  BY <1>1, <1>3, FS_Subset, FS_CardinalityType
<1>. QED  BY <1>4, <1>5, Numbers DEF Crowded

(* What is not among the newest Keep has Keep others that are as new.      *)
LEMMA RestIsCrowded ==
  ASSUME IsFiniteSet(made), NEW S \in SUBSET made, NEW T \in Newest(S), NEW r \in S \ T
  PROVE  Crowded(r)
<1>1. IsFiniteSet(S) BY FS_Subset
<1>2. Cardinality(S) \in Nat BY <1>1, FS_CardinalityType
<1>3. /\ T \subseteq S
      /\ Cardinality(T) = IF Cardinality(S) < Keep THEN Cardinality(S) ELSE Keep
      /\ \A t \in T : t.gen >= r.gen
  BY DEF Newest, kSubset
<1>4. IsFiniteSet(T) /\ Cardinality(T) \in Nat BY <1>1, <1>3, FS_Subset, FS_CardinalityType
<1>5. Cardinality(T) # Cardinality(S)
  <2>1. T \subseteq S \ {r} BY <1>3
  <2>2. Cardinality(S \ {r}) = Cardinality(S) - 1 /\ IsFiniteSet(S \ {r})
    BY <1>1, FS_RemoveElement
  <2>3. Cardinality(T) <= Cardinality(S \ {r}) BY <2>1, <2>2, FS_Subset
  <2>. QED  BY <1>2, <1>4, <2>2, <2>3
<1>6. Cardinality(T) = Keep BY <1>3, <1>5
<1>7. T \subseteq AsNew(r) /\ AsNew(r) \subseteq made BY <1>3 DEF AsNew
<1>8. IsFiniteSet(AsNew(r)) BY <1>7, FS_Subset
<1>9. Cardinality(T) <= Cardinality(AsNew(r)) BY <1>7, <1>8, FS_Subset
<1>. QED  BY <1>6, <1>9 DEF Crowded

LEMMA InitThinned == Init => Thinned
<1>. SUFFICES ASSUME Init PROVE Thinned OBVIOUS
<1>1. IsFiniteSet(made) BY FS_Singleton DEF Init
<1>. QED  BY <1>1 DEF Init, Thinned

LEMMA NextThinned ==
  ASSUME Basics, Thinned, [Next]_vars
  PROVE  Thinned'
<1>. USE Constants
<1>1. TypeOK /\ OnShelf BY ShelvesAre DEF Basics
(* Steps that take nothing away and doom nothing.                          *)
<1>2. ASSUME UNCHANGED made, made' \ disk' \subseteq made \ disk,
             \A p \in Procs : doomed'[p] \subseteq doomed[p]
      PROVE  Thinned'
  BY <1>2, CrowdedGrows DEF Thinned
<1>3. CASE Tick BY <1>2, <1>3 DEF Tick, files
<1>4. CASE StartJob
  BY <1>1, <1>2, <1>4, StartJobDoes DEF NoneMoves, Others, Stored
<1>5. CASE StartManual
  BY <1>1, <1>2, <1>5, StartManualDoes DEF NoneMoves, Others, Stored
<1>6. CASE Publish
  BY <1>1, <1>2, <1>6, PublishDoes DEF Others, Stored
<1>7. ASSUME NEW p \in Renewers, Load(p) PROVE Thinned'
  BY <1>1, <1>2, <1>7, LoadDoes DEF Others, Ended, Goes, Stays, Stored
<1>8. ASSUME NEW p \in Renewers, GcLoad(p) PROVE Thinned'
  BY <1>1, <1>2, <1>8, GcLoadDoes DEF Others, Ended, Stored
<1>9. ASSUME NEW p \in Renewers, GcScan(p) PROVE Thinned'
  <2>1. CASE Ended(p) BY <1>1, <1>2, <1>9, <2>1, GcScanDoes DEF Others, Ended, Stored
  <2>2. CASE ~Ended(p)
    <3>1. PICK readable \in SUBSET torn : \E T \in Newest(disk \cup readable) :
            doomed'[p] = (disk \cup readable) \ (T \cup {seen[p]})
      BY <1>1, <1>9, <2>2, GcScanDoes
    <3>2. disk \cup readable \subseteq made BY <1>1 DEF OnShelf
    <3>3. \A r \in doomed'[p] : Crowded(r) BY <3>1, <3>2, RestIsCrowded DEF Thinned
    <3>4. UNCHANGED <<made, disk>> /\ Others(p) BY <1>1, <1>9, <2>2, GcScanDoes DEF Stored
    <3>. QED  BY <3>3, <3>4, CrowdedGrows DEF Thinned, Others
  <2>. QED  BY <2>1, <2>2
<1>10. ASSUME NEW p \in Renewers, GcRemove(p) PROVE Thinned'
  <2>1. \A q \in Procs : doomed'[q] \subseteq doomed[q]
    BY <1>1, <1>10, GcRemoveDoes DEF Others, Ended
  <2>2. made' = made /\ \A r \in made' \ disk' : r \in made \ disk \/ r \in doomed[p]
    BY <1>1, <1>10, GcRemoveDoes
  <2>. QED  BY <2>1, <2>2, CrowdedGrows DEF Thinned
<1>11. ASSUME NEW p \in Procs, Build(p) PROVE Thinned'
  <2>1. CASE UNCHANGED Stored /\ Ended(p)
    BY <1>2, <2>1 DEF Others, Ended, Stored
  <2>2. CASE /\ UNCHANGED <<pointer, torn, newestAt, brokenAt>> /\ Goes(p, "swap")
             /\ disk' = IF Making(p) \in torn THEN disk ELSE disk \cup {Making(p)}
             /\ made' = made \cup {Making(p)}
    <3>1. IsFiniteSet(made') BY <2>2, FS_AddElement DEF Thinned
    <3>2. made' \ disk' \subseteq made \ disk BY <1>1, <2>2 DEF OnShelf
    <3>3. \A q \in Procs : doomed'[q] = doomed[q] BY <2>2 DEF Goes, Others, Stays
    <3>. QED  BY <2>2, <3>1, <3>2, <3>3, CrowdedGrows DEF Thinned
  <2>. QED  BY <1>1, <1>11, <2>1, <2>2, BuildDoes
<1>12. ASSUME NEW p \in Procs, Swap(p) PROVE Thinned'
  BY <1>1, <1>2, <1>12, SwapDoes DEF Others, Ended, Goes, Stays
<1>13. ASSUME NEW p \in Procs, Fault(p) PROVE Thinned'
  BY <1>1, <1>2, <1>13, FaultDoes DEF Others, Ended, Stored
<1>14. CASE UNCHANGED vars BY <1>2, <1>14 DEF vars, files
<1>. QED
  BY <1>3, <1>4, <1>5, <1>6, <1>7, <1>8, <1>9, <1>10, <1>11, <1>12, <1>13, <1>14, NextIs
     DEF Calm

-----------------------------------------------------------------------------
(* The lease: the job is due in time, or a renewal is under way.           *)
DueInTime ==
  pointer \in disk =>
    \/ due <= Renewal
    \/ /\ due <= Renewal + Interval
       /\ \E p \in Renewers : pc[p] \in Renewing /\ at[p] + Interval <= due + Stall
WritesFromNew ==
  \A p \in Renewers : Writing(p) => pointer = seen[p] \/ at[p] <= pointer.gen + Stall

LEMMA InTimeIs == InTime <=> DueInTime /\ WritesFromNew
BY DEF InTime, DueInTime, WritesFromNew

LEMMA RenewalFacts ==
  ASSUME TypeOK
  PROVE  /\ Renewal \in Int
         /\ Renewal >= pointer.gen + Lease + Interval - Threshold - 1
BY TypeFacts, Numbers, TimesFacts DEF Renewal, Fresh

(* A run that is under way and is no older than the pointer's revision, or *)
(* by no more than Stall, finds the job due in time.                       *)
LEMMA NewEnough ==
  ASSUME TypeOK, Ages, NEW p \in Procs, Busy(p), at[p] <= pointer.gen + Stall
  PROVE  due <= Renewal
BY TypeFacts, Numbers, RenewalFacts DEF Ages

LEMMA InitInTime == Init => InTime
<1>. SUFFICES ASSUME Init PROVE InTime OBVIOUS
<1>1. pointer.gen = 0 /\ due <= Interval /\ due \in Nat BY Numbers DEF Init, First
<1>2. due <= Renewal BY <1>1, InitType, RenewalFacts, Numbers
<1>. QED  BY <1>2, Constants DEF Init, InTime, Writing

(* Steps that leave pointer and schedule alone, and renewals under way.    *)
LEMMA SameLease ==
  ASSUME TypeOK, DueInTime, UNCHANGED <<pointer, due, faults>>, disk' \cap {pointer} \subseteq disk,
         \A p \in Renewers : pc[p] \in Renewing => pc'[p] \in Renewing /\ at'[p] = at[p]
  PROVE  DueInTime'
BY DEF DueInTime, Renewal, Fresh

LEMMA NextWritesFromNew ==
  ASSUME Basics, WritesFromNew, [Next]_vars
  PROVE  WritesFromNew'
<1>. USE Constants
<1>1. TypeOK BY DEF Basics
<1>2. ASSUME UNCHANGED pointer,
             \A p \in Renewers : Writing(p)' => Writing(p) /\ seen'[p] = seen[p] /\ at'[p] = at[p]
      PROVE  WritesFromNew'
  BY <1>2 DEF WritesFromNew
<1>3. CASE Tick BY <1>2, <1>3 DEF Tick, files, Writing
<1>4. CASE StartJob
  BY <1>1, <1>2, <1>4, StartJobDoes DEF NoneMoves, Others, Stored, Writing
<1>5. CASE StartManual
  BY <1>1, <1>2, <1>5, StartManualDoes DEF NoneMoves, Others, Stored, Writing
<1>6. CASE Publish
  BY <1>1, <1>2, <1>6, PublishDoes DEF Others, Stored, Writing
<1>7. ASSUME NEW p \in Renewers, Load(p) PROVE WritesFromNew'
  BY <1>1, <1>7, LoadDoes DEF Others, Ended, Goes, Stays, Stored, Writing, WritesFromNew
<1>8. ASSUME NEW p \in Renewers, GcLoad(p) PROVE WritesFromNew'
  BY <1>1, <1>2, <1>8, GcLoadDoes DEF Others, Ended, Stored, Writing
<1>9. ASSUME NEW p \in Renewers, GcScan(p) PROVE WritesFromNew'
  BY <1>1, <1>2, <1>9, GcScanDoes DEF Others, Ended, Stored, Writing
<1>10. ASSUME NEW p \in Renewers, GcRemove(p) PROVE WritesFromNew'
  BY <1>1, <1>2, <1>10, GcRemoveDoes DEF Others, Ended, Writing
<1>11. ASSUME NEW p \in Procs, Build(p) PROVE WritesFromNew'
  BY <1>1, <1>2, <1>11, BuildDoes DEF Others, Ended, Goes, Stays, Stored, Writing
<1>12. ASSUME NEW p \in Procs, Swap(p) PROVE WritesFromNew'
  <2>1. pointer' = Making(p) /\ pc[p] = "swap" /\ Others(p) /\ ~Writing(p)'
    BY <1>1, <1>12, SwapDoes DEF Ended, Goes, Writing
  <2>2. Making(p).gen = at[p] BY DEF Making
  <2>3. ASSUME NEW q \in Renewers, Writing(q)' PROVE at'[q] <= pointer'.gen + Stall
    <3>1. q # p /\ Writing(q) /\ at'[q] = at[q] BY <2>1, <2>3 DEF Others, Writing
    <3>2. at[q] <= now /\ now <= at[p] + Stall
      BY <2>1, <3>1 DEF Basics, Ages, Busy, Writing
    <3>. QED  BY <1>1, <2>1, <2>2, <3>1, <3>2, TypeFacts, Numbers
  <2>. QED  BY <2>3 DEF WritesFromNew
<1>13. ASSUME NEW p \in Procs, Fault(p) PROVE WritesFromNew'
  BY <1>1, <1>2, <1>13, FaultDoes DEF Others, Ended, Stored, Writing
<1>14. CASE UNCHANGED vars BY <1>2, <1>14 DEF vars, files, Writing
<1>. QED
  BY <1>3, <1>4, <1>5, <1>6, <1>7, <1>8, <1>9, <1>10, <1>11, <1>12, <1>13, <1>14, NextIs
     DEF Calm

LEMMA NextDueInTime ==
  ASSUME Basics, DueInTime, WritesFromNew, [Next]_vars
  PROVE  DueInTime'
<1>. USE Constants, Numbers
<1>1. TypeOK /\ Ages /\ TypeOK' /\ Ages' BY NextBasics DEF Basics
<1>2. ASSUME due' <= Renewal' PROVE DueInTime' BY <1>2 DEF DueInTime
(* The pointer's revision is made, or named, by a run that is under way.   *)
<1>3. ASSUME NEW p \in Procs, Busy(p), pointer' = Making(p), UNCHANGED <<due, faults>>
      PROVE  DueInTime'
  <2>1. pointer'.gen = at[p] BY <1>3 DEF Making
  <2>2. due <= at[p] + Stall + Interval BY <1>1, <1>3, TypeFacts DEF Ages
  <2>3. Renewal' = at[p] + Lease + Times(1 + faults) - Threshold - 1
    BY <1>3, <2>1 DEF Renewal, Fresh, Times
  <2>4. Times(1 + faults) \in Nat /\ Times(1 + faults) >= Interval
    BY <1>1, TypeFacts, TimesFacts
  <2>5. due' <= Renewal' BY <1>1, <1>3, <2>2, <2>3, <2>4, TypeFacts
  <2>. QED  BY <1>2, <2>5
<1>4. CASE Tick BY <1>1, <1>4, SameLease DEF Tick, files
<1>5. CASE StartJob
  <2>1. /\ UNCHANGED <<pointer, disk, faults, now>> /\ now >= due /\ due' = due + Interval
        /\ Renewal' = Renewal
    BY <1>1, <1>5, StartJobDoes DEF Stored, Renewal, Fresh
  <2>2. pc[Job] = "idle" BY <1>1, <2>1, TypeFacts DEF Ages, Busy
  <2>3. pointer \in disk => due <= Renewal
    <3>1. ASSUME NEW p \in Renewers, pc[p] \in Renewing, at[p] + Interval <= due + Stall
          PROVE  FALSE
      <4>1. now <= at[p] + Stall BY <1>1, <3>1 DEF Ages, Busy, Renewing
      <4>. QED  BY <1>1, <2>1, <3>1, <4>1, TypeFacts
    <3>. QED  BY <3>1 DEF DueInTime
  <2>4. \E p \in Renewers : pc'[p] \in Renewing /\ at'[p] + Interval <= due' + Stall
    <3>1. CASE RenewLocked /\ NoneMoves
      <4>1. PICK q \in Renewers : pc[q] \in Renewing BY <3>1 DEF RenewLocked
      <4>2. at[q] <= now /\ now <= due + Stall BY <1>1, <4>1 DEF Ages, Busy, Renewing
      <4>. QED  BY <1>1, <2>1, <3>1, <4>1, <4>2, TypeFacts DEF NoneMoves
    <3>2. CASE pc'[Job] = "load" /\ at'[Job] = now
      BY <1>1, <2>1, <3>2, TypeFacts DEF Ages, Renewing
    <3>. QED  BY <1>1, <1>5, <2>2, <3>1, <3>2, StartJobDoes
  <2>. QED  BY <1>1, <2>1, <2>3, <2>4, TypeFacts, RenewalFacts DEF DueInTime
<1>6. CASE StartManual
  BY <1>1, <1>6, StartManualDoes, SameLease DEF NoneMoves, Others, Stored, RenewLocked, Renewing
<1>7. CASE Publish
  BY <1>1, <1>7, PublishDoes, SameLease DEF Others, Stored
<1>8. ASSUME NEW p \in Renewers, Load(p) PROVE DueInTime'
  <2>1. /\ UNCHANGED <<pointer, disk, due, faults>> /\ Others(p) /\ pc[p] = "load"
        /\ Renewal' = Renewal
    BY <1>1, <1>8, LoadDoes DEF Stored, Clock, Counts, Ended, Goes, Renewal, Fresh
  <2>2. CASE pointer \notin disk BY <2>1, <2>2 DEF DueInTime
  <2>3. CASE at[p] <= pointer.gen
    <3>1. due <= Renewal BY <1>1, <2>1, <2>3, NewEnough, TypeFacts DEF Busy
    <3>. QED  BY <1>2, <2>1, <3>1
  <2>4. CASE StillFresh(p, pointer)
    <3>1. p = Job /\ at[p] <= pointer.gen + Lease - Threshold - 1
      BY <1>1, <2>4, TypeFacts DEF StillFresh, Fresh
    <3>2. due <= at[p] + Interval BY <1>1, <2>1, <3>1 DEF Ages, Busy
    <3>3. due <= Renewal BY <1>1, <3>1, <3>2, TypeFacts, RenewalFacts
    <3>. QED  BY <1>2, <2>1, <3>3
  <2>5. CASE pc'[p] = "build" /\ at'[p] = at[p]
    BY <1>1, <2>1, <2>5, SameLease DEF Others, Renewing
  <2>. QED  BY <1>1, <1>8, <2>2, <2>3, <2>4, <2>5, LoadDoes
<1>9. ASSUME NEW p \in Renewers, GcLoad(p) PROVE DueInTime'
  BY <1>1, <1>9, GcLoadDoes, SameLease DEF Others, Ended, Stored, Clock, Counts, Renewing
<1>10. ASSUME NEW p \in Renewers, GcScan(p) PROVE DueInTime'
  BY <1>1, <1>10, GcScanDoes, SameLease DEF Others, Ended, Stored, Clock, Counts, Renewing
<1>11. ASSUME NEW p \in Renewers, GcRemove(p) PROVE DueInTime'
  BY <1>1, <1>11, GcRemoveDoes, SameLease DEF Others, Ended, Clock, Counts, Renewing
<1>12. ASSUME NEW p \in Procs, Build(p) PROVE DueInTime'
  <2>1. /\ UNCHANGED <<pointer, due, faults>> /\ Others(p) /\ pc[p] = "build" /\ Busy(p)
        /\ Renewal' = Renewal
    BY <1>1, <1>12, BuildDoes
       DEF Stored, Clock, Counts, Ended, Goes, Renewal, Fresh, Busy
  <2>2. CASE UNCHANGED Stored /\ Ended(p)
    <3>1. CASE p = Publisher
      BY <1>1, <2>1, <2>2, <3>1, SameLease DEF Stored, Others
    <3>2. CASE p # Publisher
      <4>1. p \in Renewers /\ Mine(p) # {}
        BY <2>1, <3>2 DEF Basics, Shelves
      <4>2. seen[p] \notin disk
        <5>1. pc'[p] = "idle" BY <2>2 DEF Ended
        <5>. QED  BY <1>1, <1>12, <4>1, <5>1, BuildDoes DEF Goes
      <4>3. CASE pointer = seen[p] BY <2>2, <4>2, <4>3 DEF DueInTime, Stored
      <4>4. CASE pointer # seen[p]
        <5>1. at[p] <= pointer.gen + Stall BY <2>1, <4>1, <4>4 DEF WritesFromNew, Writing
        <5>2. due <= Renewal BY <1>1, <2>1, <5>1, NewEnough
        <5>. QED  BY <1>2, <2>1, <5>2
      <4>. QED  BY <4>3, <4>4
    <3>. QED  BY <3>1, <3>2
  <2>3. CASE Goes(p, "swap") /\ disk' \subseteq disk \cup {Making(p)}
    <3>1. CASE pointer = Making(p) BY <1>3, <2>1, <3>1
    <3>2. CASE pointer # Making(p)
      BY <1>1, <2>1, <2>3, <3>2, SameLease DEF Goes, Others, Stays, Renewing
    <3>. QED  BY <3>1, <3>2
  <2>. QED  BY <1>1, <1>12, <2>2, <2>3, BuildDoes
<1>13. ASSUME NEW p \in Procs, Swap(p) PROVE DueInTime'
  BY <1>1, <1>3, <1>13, SwapDoes DEF Busy, Clock, Counts
<1>14. ASSUME NEW p \in Procs, Fault(p) PROVE DueInTime'
  <2>1. UNCHANGED <<pointer, disk, due>> /\ faults' = faults + 1
    BY <1>1, <1>14, FaultDoes DEF Stored, Clock
  <2>2. Renewal' = Renewal + Interval
    <3>1. 1 + faults \in Nat /\ 1 + faults' = (1 + faults) + 1 BY <1>1, <2>1, TypeFacts
    <3>2. Times(1 + faults') = Times(1 + faults) + Interval /\ Times(1 + faults) \in Nat
      BY <3>1, TimesFacts
    <3>3. (Times(1 + faults))' = Times(1 + faults') BY DEF Times
    <3>. QED  BY <1>1, <2>1, <3>2, <3>3, TypeFacts DEF Renewal, Fresh
  <2>3. pointer \in disk => due <= Renewal + Interval
    BY <1>1, TypeFacts, RenewalFacts DEF DueInTime
  <2>. QED  BY <1>2, <2>1, <2>2, <2>3 DEF DueInTime
<1>15. CASE UNCHANGED vars BY <1>1, <1>15, SameLease DEF vars, files
<1>. QED
  BY <1>4, <1>5, <1>6, <1>7, <1>8, <1>9, <1>10, <1>11, <1>12, <1>13, <1>14, <1>15, NextIs
     DEF Calm

LEMMA LapseFollows == Basics /\ InTime => LapseIsBounded
<1>. SUFFICES ASSUME Basics, InTime, pointer \in disk PROVE now - Fresh(pointer) <= MaxLapse
  BY DEF LapseIsBounded
<1>. USE Numbers
<1>1. TypeOK /\ Ages BY DEF Basics
<1>2. now <= Renewal + 2 * Stall
  <2>1. CASE due <= Renewal BY <1>1, <2>1, TypeFacts, RenewalFacts DEF Ages
  <2>2. CASE \E p \in Renewers : /\ due <= Renewal + Interval
                                 /\ pc[p] \in Renewing /\ at[p] + Interval <= due + Stall
    <3>1. PICK p \in Renewers : /\ due <= Renewal + Interval
                                /\ pc[p] \in Renewing /\ at[p] + Interval <= due + Stall
      BY <2>2
    <3>2. now <= at[p] + Stall BY <1>1, <3>1, Constants DEF Ages, Busy, Renewing
    <3>. QED  BY <1>1, <3>1, <3>2, Constants, TypeFacts, RenewalFacts
  <2>. QED  BY <2>1, <2>2 DEF InTime
<1>3. Times(1 + faults) \in Nat /\ MaxLapse = Times(1 + faults) - Threshold - 1 + 2 * Stall
  <2>1. 1 + faults \in Nat BY <1>1, TypeFacts
  <2>2. MaxLapse = Times(1 + faults) - Threshold - 1 + 2 * Stall BY DEF MaxLapse, Times
  <2>. QED  BY <2>1, <2>2, TimesFacts
<1>. QED  BY <1>1, <1>2, <1>3, TypeFacts DEF Renewal, Fresh

-----------------------------------------------------------------------------
(* What killed runs leave behind.                                          *)
Allowance == Times(faults + forced)
Broken == brokenAt <= now /\ (pointer \notin disk => brokenAt = now)
Dated == Baseless => at[Job] <= brokenAt \/ forced >= 1
SoonCleared(s) ==
  due + (IF InTheWay THEN Interval ELSE 0)
    <= Mark(s) + StagingAge + Allowance + (IF Collecting THEN Interval ELSE 0)
StillYoung(s) ==
  /\ pc[Manual] = "gcremove" => at[Manual] <= Mark(s) + StagingAge
  /\ Baseless => at[Job] <= brokenAt \/ at[Job] <= Mark(s) + StagingAge + Stall
Good(s) == SoonCleared(s) /\ StillYoung(s)

LEMMA ClearedIs == Cleared <=> Broken /\ Dated /\ \A s \in Abandoned : Good(s)
BY DEF Cleared, Broken, Dated, Good, SoonCleared, StillYoung, Allowance

LEMMA AllowanceFacts ==
  ASSUME TypeOK
  PROVE  /\ Allowance \in Nat
         /\ faults + forced >= 1 => Allowance >= Interval
         /\ faults + forced >= 2 => Allowance >= 2 * Interval
         /\ Times(faults + forced + 1) = Allowance + Interval
BY TypeFacts, TimesFacts DEF Allowance

LEMMA MarkFacts ==
  ASSUME TypeOK, NEW s, s.born \in Nat
  PROVE  /\ Mark(s) \in Nat /\ s.born <= Mark(s) /\ brokenAt <= Mark(s)
         /\ brokenAt' \in Nat /\ brokenAt <= brokenAt' => Mark(s)' \in Nat /\ Mark(s) <= Mark(s)'
         /\ brokenAt' = brokenAt => Mark(s)' = Mark(s)
BY TypeFacts DEF Mark

LEMMA InitCleared == Init => Cleared
BY Constants DEF Init, Cleared, Abandoned, Baseless

LEMMA NextBroken ==
  ASSUME TypeOK, Broken, [Next]_vars
  PROVE  Broken' /\ brokenAt <= brokenAt' /\ brokenAt' \in Nat
<1>. USE TypeFacts DEF Broken
<1>1. CASE Tick BY <1>1 DEF Tick, files
<1>2. CASE StartJob BY <1>2, StartJobDoes DEF Stored
<1>3. CASE StartManual BY <1>3, StartManualDoes DEF Stored
<1>4. CASE Publish BY <1>4, PublishDoes DEF Stored
<1>5. ASSUME NEW p \in Renewers, Load(p) PROVE Broken' /\ brokenAt <= brokenAt' /\ brokenAt' \in Nat
  BY <1>5, LoadDoes DEF Stored, Clock
<1>6. ASSUME NEW p \in Renewers, GcLoad(p)
      PROVE  Broken' /\ brokenAt <= brokenAt' /\ brokenAt' \in Nat
  BY <1>6, GcLoadDoes DEF Stored, Clock
<1>7. ASSUME NEW p \in Renewers, GcScan(p)
      PROVE  Broken' /\ brokenAt <= brokenAt' /\ brokenAt' \in Nat
  BY <1>7, GcScanDoes DEF Stored, Clock
<1>8. ASSUME NEW p \in Renewers, GcRemove(p)
      PROVE  Broken' /\ brokenAt <= brokenAt' /\ brokenAt' \in Nat
  BY <1>8, GcRemoveDoes DEF Clock
<1>9. ASSUME NEW p \in Procs, Build(p) PROVE Broken' /\ brokenAt <= brokenAt' /\ brokenAt' \in Nat
  BY <1>9, BuildDoes DEF Stored, Clock
<1>10. ASSUME NEW p \in Procs, Swap(p) PROVE Broken' /\ brokenAt <= brokenAt' /\ brokenAt' \in Nat
  BY <1>10, SwapDoes DEF Clock
<1>11. ASSUME NEW p \in Procs, Fault(p)
       PROVE  Broken' /\ brokenAt <= brokenAt' /\ brokenAt' \in Nat
  BY <1>11, FaultDoes DEF Stored, Clock
<1>12. CASE UNCHANGED vars BY <1>12 DEF vars, files
<1>. QED
  BY <1>1, <1>2, <1>3, <1>4, <1>5, <1>6, <1>7, <1>8, <1>9, <1>10, <1>11, <1>12, NextIs DEF Calm

(* The job's baseline is gone only if it was not there from the beginning, *)
(* or a forced run's collector has taken it.                               *)
LEMMA BaselessWas ==
  ASSUME Basics, Broken, Dated, [Next]_vars, Baseless'
  PROVE  \/ Baseless /\ at'[Job] = at[Job]
         \/ at'[Job] <= brokenAt'
         \/ GcRemove(Manual) /\ pc[Job] = "build" /\ at'[Job] = at[Job]
<1>. USE Constants DEF Baseless
<1>1. TypeOK BY DEF Basics
<1>2. CASE Tick BY <1>2 DEF Tick, files
<1>3. CASE StartJob BY <1>1, <1>3, StartJobDoes DEF NoneMoves, Stored
<1>4. CASE StartManual BY <1>1, <1>4, StartManualDoes DEF NoneMoves, Others, Stored
<1>5. CASE Publish BY <1>1, <1>5, PublishDoes DEF Others, Stored
<1>6. CASE Load(Job)
  <2>1. /\ pc[Job] = "load" /\ pc'[Job] = "build" /\ seen'[Job] = pointer /\ at'[Job] = at[Job]
        /\ UNCHANGED <<pointer, disk, now, brokenAt>>
    BY <1>1, <1>6, LoadDoes DEF Ended, Goes, Stored, Clock
  <2>2. at[Job] <= now BY <1>1, <2>1 DEF Basics, Ages, Busy
  <2>. QED  BY <2>1, <2>2 DEF Broken
<1>7. CASE Load(Manual) BY <1>1, <1>7, LoadDoes DEF Others, Ended, Goes, Stored
<1>8. ASSUME NEW p \in Renewers, GcLoad(p) PROVE Baseless /\ at'[Job] = at[Job]
  BY <1>1, <1>8, GcLoadDoes DEF Others, Ended, Stored
<1>9. ASSUME NEW p \in Renewers, GcScan(p) PROVE Baseless /\ at'[Job] = at[Job]
  BY <1>1, <1>9, GcScanDoes DEF Others, Ended, Stored
<1>10. CASE GcRemove(Job) BY <1>1, <1>10, GcRemoveDoes DEF Ended
<1>11. CASE GcRemove(Manual) BY <1>1, <1>11, GcRemoveDoes DEF Others
<1>12. ASSUME NEW p \in Procs, Build(p) PROVE Baseless /\ at'[Job] = at[Job]
  BY <1>1, <1>12, BuildDoes DEF Others, Ended, Goes, Stored
<1>13. ASSUME NEW p \in Procs, Swap(p) PROVE Baseless /\ at'[Job] = at[Job]
  BY <1>1, <1>13, SwapDoes DEF Others, Ended, Goes
<1>14. ASSUME NEW p \in Procs, Fault(p) PROVE Baseless /\ at'[Job] = at[Job]
  BY <1>1, <1>14, FaultDoes DEF Others, Ended, Stored
<1>15. CASE UNCHANGED vars BY <1>15 DEF vars, files
<1>. QED
  BY <1>2, <1>3, <1>4, <1>5, <1>6, <1>7, <1>8, <1>9, <1>10, <1>11, <1>12, <1>13, <1>14, <1>15, NextIs
     DEF Calm

LEMMA ForcedStays ==
  ASSUME TypeOK, [Next]_vars
  PROVE  forced' \in Nat /\ forced <= forced'
<1>. USE TypeFacts
<1>1. CASE Tick BY <1>1 DEF Tick
<1>2. CASE StartJob BY <1>2, StartJobDoes
<1>3. CASE StartManual BY <1>3, StartManualDoes
<1>4. CASE Publish BY <1>4, PublishDoes
<1>5. ASSUME NEW p \in Procs, Calm(p) PROVE forced' = forced BY <1>5, CalmDoes
<1>6. CASE UNCHANGED vars BY <1>6 DEF vars
<1>. QED  BY <1>1, <1>2, <1>3, <1>4, <1>5, <1>6, NextIs

LEMMA NextDated ==
  ASSUME Basics, Broken, Dated, [Next]_vars
  PROVE  Dated'
<1>. SUFFICES ASSUME Baseless' PROVE at'[Job] <= brokenAt' \/ forced' >= 1
  BY DEF Dated
<1>1. TypeOK /\ forced' \in Nat /\ forced <= forced' BY ForcedStays DEF Basics
<1>2. brokenAt <= brokenAt' /\ brokenAt' \in Nat BY <1>1, NextBroken
<1>3. CASE Baseless /\ at'[Job] = at[Job]
  BY <1>1, <1>2, <1>3, TypeFacts, Constants DEF Dated
<1>4. CASE GcRemove(Manual)
  <2>1. Busy(Manual) BY <1>1, <1>4, GcRemoveDoes, Constants DEF Busy
  <2>. QED  BY <1>1, <2>1, TypeFacts DEF Basics, Places
<1>. QED  BY <1>3, <1>4, BaselessWas

(* A directory that was abandoned before the step.                         *)
LEMMA MostlyGood ==
  ASSUME Basics, Broken, Dated, [Next]_vars, NEW s \in Abandoned, Good(s),
         ~GcScan(Manual)
  PROVE  StillYoung(s)'
<1>. USE Constants, Numbers
<1>1. TypeOK /\ s.born \in Nat BY TypeFacts DEF Basics, Abandoned
<1>2. brokenAt <= brokenAt' /\ brokenAt' \in Nat BY <1>1, NextBroken
<1>3. Mark(s) \in Nat /\ Mark(s)' \in Nat /\ Mark(s) <= Mark(s)' BY <1>1, <1>2, MarkFacts
<1>4. ASSUME pc'[Manual] = "gcremove" PROVE at'[Manual] <= Mark(s)' + StagingAge
  <2>1. pc[Manual] = "gcremove" /\ at'[Manual] = at[Manual]
    <3>1. CASE Tick BY <1>4, <3>1 DEF Tick
    <3>2. CASE StartJob BY <1>1, <1>4, <3>2, StartJobDoes DEF NoneMoves, Others
    <3>3. CASE StartManual BY <1>1, <1>4, <3>3, StartManualDoes DEF NoneMoves, Others
    <3>4. CASE Publish BY <1>1, <1>4, <3>4, PublishDoes DEF Others
    <3>5. ASSUME NEW p \in Procs, Calm(p), p # Manual
          PROVE  pc[Manual] = "gcremove" /\ at'[Manual] = at[Manual]
      BY <1>1, <1>4, <3>5, CalmDoes DEF Others
    <3>6. CASE Calm(Manual)
      BY <1>1, <1>4, <3>6, LoadDoes, GcLoadDoes, GcRemoveDoes, BuildDoes, SwapDoes, FaultDoes
         DEF Calm, Ended, Goes, Stays
    <3>7. CASE UNCHANGED vars BY <1>4, <3>7 DEF vars
    <3>. QED  BY <3>1, <3>2, <3>3, <3>4, <3>5, <3>6, <3>7, NextIs
  <2>. QED  BY <1>1, <1>3, <2>1, TypeFacts DEF Good, StillYoung
<1>5. ASSUME Baseless'
      PROVE  at'[Job] <= brokenAt' \/ at'[Job] <= Mark(s)' + StagingAge + Stall
  <2>1. CASE Baseless /\ at'[Job] = at[Job]
    BY <1>1, <1>2, <1>3, <2>1, TypeFacts DEF Good, StillYoung
  <2>2. CASE GcRemove(Manual) /\ pc[Job] = "build" /\ at'[Job] = at[Job]
    <3>1. pc[Manual] = "gcremove" BY <1>1, <2>2, GcRemoveDoes
    <3>2. at[Manual] <= Mark(s) + StagingAge BY <3>1 DEF Good, StillYoung
    <3>3. at[Job] <= now /\ now <= at[Manual] + Stall BY <2>2, <3>1 DEF Basics, Ages, Busy
    <3>. QED  BY <1>1, <1>3, <2>2, <3>2, <3>3, TypeFacts
  <2>. QED  BY <1>5, <2>1, <2>2, BaselessWas
<1>. QED  BY <1>4, <1>5 DEF StillYoung

(* The job ends a run, or its collector's scan, near the directory's birth.*)
LEMMA JobIsDone ==
  ASSUME Basics, NEW s \in Abandoned,
         \/ due <= Mark(s) + StagingAge + Interval
         \/ forced >= 1 /\ ~InTheWay /\ due <= Mark(s) + StagingAge + Stall + Interval
  PROVE  due + (IF InTheWay THEN Interval ELSE 0) <= Mark(s) + StagingAge + Allowance
<1>. USE Constants, Numbers
<1>1. TypeOK /\ s.born \in Nat /\ faults >= 1
  BY TypeFacts DEF Basics, Shelves, Abandoned
<1>2. Mark(s) \in Nat BY <1>1, MarkFacts
<1>3. forced >= 1 => faults + forced >= 2 BY <1>1, TypeFacts
<1>4. InTheWay => forced >= 1 BY DEF InTheWay, Basics, Places, Busy, Renewing
<1>. QED  BY <1>1, <1>2, <1>3, <1>4, AllowanceFacts, TypeFacts

(* Steps that leave schedule and counters alone, and hinder nobody.        *)
LEMMA SameSoon ==
  ASSUME Basics, NEW s \in Abandoned, SoonCleared(s), UNCHANGED <<due, faults, forced>>,
         brokenAt' \in Nat, brokenAt <= brokenAt', Collecting => Collecting', InTheWay' => InTheWay
  PROVE  SoonCleared(s)'
<1>1. TypeOK /\ s.born \in Nat BY TypeFacts DEF Basics, Abandoned
<1>2. Mark(s) \in Nat /\ Mark(s)' \in Nat /\ Mark(s) <= Mark(s)' BY <1>1, MarkFacts
<1>3. Allowance' = Allowance BY DEF Allowance, Times
<1>. QED  BY <1>1, <1>2, <1>3, AllowanceFacts, TypeFacts, Numbers DEF SoonCleared

LEMMA StartJobSoon ==
  ASSUME Basics, Broken, NEW s \in Abandoned, SoonCleared(s), StartJob
  PROVE  SoonCleared(s)'
<1>. USE Constants, Numbers
<1>1. TypeOK /\ s.born \in Nat BY TypeFacts DEF Basics, Abandoned
<1>2. /\ now >= due /\ due' = due + Interval /\ UNCHANGED <<now, faults, forced, brokenAt>>
  BY <1>1, StartJobDoes DEF Stored
<1>3. pc[Job] = "idle" BY <1>1, <1>2, TypeFacts DEF Basics, Ages, Busy
<1>4. Mark(s) \in Nat /\ Mark(s)' = Mark(s) BY <1>1, <1>2, MarkFacts
<1>5. Allowance' = Allowance /\ Allowance \in Nat BY <1>1, <1>2, AllowanceFacts DEF Allowance, Times
<1>6. due + (IF InTheWay THEN Interval ELSE 0) <= Mark(s) + StagingAge + Allowance
  BY <1>1, <1>3, <1>4, <1>5, TypeFacts DEF SoonCleared, Collecting, Renewing
<1>7. CASE RenewLocked /\ NoneMoves
  <2>1. pc[Manual] \in Renewing BY <1>3, <1>7 DEF RenewLocked, Renewing
  <2>2. at[Manual] <= now /\ now <= at[Manual] + Stall /\ now <= due + Stall
    BY <2>1 DEF Basics, Ages, Busy, Renewing
  <2>3. InTheWay BY <1>1, <1>2, <2>1, <2>2, TypeFacts DEF InTheWay
  <2>4. ~InTheWay' BY <1>1, <1>2, <1>7, <2>2, TypeFacts DEF InTheWay, NoneMoves
  <2>. QED  BY <1>1, <1>2, <1>4, <1>5, <1>6, <2>3, <2>4, TypeFacts DEF SoonCleared
<1>8. CASE ~RenewLocked /\ Others(Job) /\ pc'[Job] = "load"
  <2>1. ~InTheWay /\ ~InTheWay' /\ Collecting'
    BY <1>8 DEF RenewLocked, InTheWay, Others, Collecting, Renewing
  <2>. QED  BY <1>1, <1>2, <1>4, <1>5, <1>6, <2>1, TypeFacts DEF SoonCleared
<1>. QED  BY <1>1, <1>3, <1>7, <1>8, StartJobDoes

LEMMA StartManualSoon ==
  ASSUME Basics, Broken, NEW s \in Abandoned, SoonCleared(s), StartManual
  PROVE  SoonCleared(s)'
<1>. USE Constants, Numbers
<1>1. TypeOK /\ s.born \in Nat BY TypeFacts DEF Basics, Abandoned
<1>2. UNCHANGED <<due, now, faults, brokenAt>> /\ forced' = forced + 1
  BY <1>1, StartManualDoes DEF Stored
<1>3. Mark(s) \in Nat /\ Mark(s)' = Mark(s) BY <1>1, <1>2, MarkFacts
<1>4. Allowance' = Allowance + Interval /\ Allowance \in Nat
  <2>1. faults' + forced' = faults + forced + 1 BY <1>1, <1>2, TypeFacts
  <2>2. Allowance' = Times(faults + forced + 1) BY <2>1 DEF Allowance, Times
  <2>. QED  BY <1>1, <2>2, AllowanceFacts
<1>5. Collecting' = Collecting
  BY <1>1, StartManualDoes DEF Collecting, NoneMoves, Others
<1>. QED  BY <1>1, <1>2, <1>3, <1>4, <1>5, TypeFacts DEF SoonCleared

(* A run of the job: it collects, unless it finds no whole revision, or    *)
(* loses its baseline.                                                     *)
LEMMA JobSoon ==
  ASSUME Basics, Broken, Dated, NEW s \in Abandoned, s \in staging', Good(s), Calm(Job),
         ~Fault(Job)
  PROVE  SoonCleared(s)'
<1>. USE Constants, Numbers
<1>1. TypeOK /\ s.born \in Nat /\ faults >= 1
  BY TypeFacts DEF Basics, Shelves, Abandoned
<1>2. Mark(s) \in Nat /\ s.born <= Mark(s) /\ brokenAt <= Mark(s) BY <1>1, MarkFacts
<1>3. /\ Busy(Job) /\ at[Job] <= now /\ now <= at[Job] + Stall /\ due <= at[Job] + Interval
      /\ due <= now + Interval
  BY <1>1, CalmDoes DEF Basics, Ages
<1>4. /\ UNCHANGED <<due, now, forced>> /\ Others(Job)
  BY <1>1, CalmDoes DEF Clock
<1>5. InTheWay' = InTheWay BY <1>4 DEF InTheWay, Others
(* It goes on to collect.                                                  *)
<1>6. ASSUME Collecting', brokenAt' \in Nat, brokenAt <= brokenAt', faults' = faults
      PROVE  SoonCleared(s)'
  BY <1>4, <1>5, <1>6, SameSoon DEF Good
(* It does not.                                                            *)
<1>7. ASSUME UNCHANGED <<brokenAt, faults>>,
             \/ due <= Mark(s) + StagingAge + Interval
             \/ /\ pc[Job] \in Renewing /\ forced >= 1
                /\ due <= Mark(s) + StagingAge + Stall + Interval
      PROVE  SoonCleared(s)'
  <2>1. pc[Job] \in Renewing => ~InTheWay BY DEF Basics, Places, InTheWay
  <2>2. due + (IF InTheWay THEN Interval ELSE 0) <= Mark(s) + StagingAge + Allowance
    BY <1>7, <2>1, JobIsDone
  <2>3. Mark(s)' = Mark(s) BY <1>1, <1>7, MarkFacts
  <2>4. Allowance' = Allowance /\ Allowance \in Nat
    BY <1>1, <1>4, <1>7, AllowanceFacts DEF Allowance, Times
  <2>. QED  BY <1>1, <1>2, <1>4, <1>5, <2>2, <2>3, <2>4, TypeFacts DEF SoonCleared
<1>8. pointer \notin disk => due <= Mark(s) + StagingAge + Interval
  BY <1>1, <1>2, <1>3, TypeFacts DEF Broken
<1>9. CASE Load(Job)
  <2>1. UNCHANGED <<brokenAt, faults>> BY <1>1, <1>9, LoadDoes DEF Stored, Counts
  <2>2. CASE pointer \notin disk BY <1>7, <1>8, <2>1, <2>2
  <2>3. CASE pointer \in disk
    <3>1. ~(~StillFresh(Job, pointer) /\ at[Job] <= pointer.gen)
      BY <1>1, TypeFacts DEF StillFresh, Fresh
    <3>2. Collecting' BY <1>1, <1>9, <2>3, <3>1, LoadDoes DEF Goes, Collecting, Renewing
    <3>. QED  BY <1>1, <1>6, <2>1, <3>2, TypeFacts
  <2>. QED  BY <2>2, <2>3
<1>10. CASE Build(Job)
  <2>1. pc[Job] = "build" /\ brokenAt' = brokenAt /\ faults' = faults
    BY <1>1, <1>10, BuildDoes DEF Stored, Counts
  <2>2. CASE pc'[Job] = "swap"
    BY <1>1, <1>6, <2>1, <2>2, TypeFacts DEF Collecting, Renewing
  <2>3. CASE pc'[Job] # "swap"
    <3>1. Mine(Job) # {} BY <2>1 DEF Basics, Shelves
    <3>2. Baseless BY <1>1, <1>10, <2>1, <2>3, <3>1, BuildDoes DEF Baseless, Goes
    <3>3. at[Job] <= brokenAt \/ (forced >= 1 /\ at[Job] <= Mark(s) + StagingAge + Stall)
      BY <3>2 DEF Dated, Good, StillYoung
    <3>4. \/ due <= Mark(s) + StagingAge + Interval
          \/ forced >= 1 /\ due <= Mark(s) + StagingAge + Stall + Interval
      BY <1>1, <1>2, <1>3, <3>3, TypeFacts
    <3>. QED  BY <1>7, <2>1, <3>4 DEF Renewing
  <2>. QED  BY <2>2, <2>3
<1>11. CASE Swap(Job)
  <2>1. /\ pc'[Job] = "gcload" /\ faults' = faults
        /\ brokenAt' = IF Making(Job) \in disk THEN brokenAt ELSE now
    BY <1>1, <1>11, SwapDoes DEF Goes, Counts
  <2>2. brokenAt' \in Nat /\ brokenAt <= brokenAt' BY <1>1, <2>1, TypeFacts DEF Broken
  <2>. QED  BY <1>6, <2>1, <2>2 DEF Collecting
<1>12. CASE GcLoad(Job)
  <2>1. UNCHANGED <<brokenAt, faults>> BY <1>1, <1>12, GcLoadDoes DEF Stored, Counts
  <2>2. CASE pointer \notin disk BY <1>7, <1>8, <2>1, <2>2
  <2>3. CASE pointer \in disk
    <3>1. Collecting' BY <1>1, <1>12, <2>3, GcLoadDoes DEF Collecting
    <3>. QED  BY <1>1, <1>6, <2>1, <3>1, TypeFacts
  <2>. QED  BY <2>2, <2>3
<1>13. CASE GcScan(Job)
  <2>1. UNCHANGED <<brokenAt, faults>> /\ ~Expired(s)
    BY <1>1, <1>13, GcScanDoes DEF Stored, Counts
  <2>2. due <= Mark(s) + StagingAge + Interval
    BY <1>1, <1>2, <1>3, <2>1, TypeFacts DEF Expired
  <2>. QED  BY <1>7, <2>1, <2>2
<1>14. CASE GcRemove(Job)
  <2>1. /\ pc[Job] = "gcremove" /\ faults' = faults
        /\ brokenAt' = IF pointer \in disk' THEN brokenAt ELSE now
    BY <1>1, <1>14, GcRemoveDoes DEF Counts
  <2>2. brokenAt' \in Nat /\ brokenAt <= brokenAt' BY <1>1, <2>1, TypeFacts DEF Broken
  <2>3. ~Collecting BY <2>1 DEF Collecting, Renewing
  <2>. QED  BY <1>4, <1>5, <2>1, <2>2, <2>3, SameSoon DEF Good
<1>. QED  BY <1>9, <1>10, <1>11, <1>12, <1>13, <1>14 DEF Calm

LEMMA FaultGood ==
  ASSUME Basics, Broken, Dated, \A s \in Abandoned : Good(s),
         NEW p \in Procs, Fault(p), NEW s \in Abandoned'
  PROVE  SoonCleared(s)' /\ StillYoung(s)'
<1>. USE Constants, Numbers
<1>1. TypeOK BY DEF Basics
<1>2. /\ UNCHANGED <<now, due, collected, forced, pointer, disk, brokenAt>>
      /\ faults' = faults + 1 /\ Others(p) /\ pc'[p] = "idle"
  BY <1>1, FaultDoes DEF Clock, Stored, Ended
<1>3. Allowance' = Allowance + Interval /\ Allowance \in Nat
  <2>1. faults' + forced' = faults + forced + 1 BY <1>1, <1>2, TypeFacts
  <2>2. Allowance' = Times(faults + forced + 1) BY <2>1 DEF Allowance, Times
  <2>. QED  BY <1>1, <2>2, AllowanceFacts
<1>4. InTheWay' => InTheWay BY <1>2 DEF InTheWay, Others, Renewing
<1>5. pc'[Manual] = "gcremove" => pc[Manual] = "gcremove" /\ at'[Manual] = at[Manual]
  BY <1>2 DEF Others
<1>6. Baseless' => Baseless /\ at'[Job] = at[Job] BY <1>2 DEF Baseless, Others
<1>7. CASE s \in Abandoned
  <2>1. s.born \in Nat /\ Good(s) BY <1>1, <1>7, TypeFacts DEF Abandoned
  <2>2. Mark(s) \in Nat /\ Mark(s)' = Mark(s) BY <1>1, <1>2, <2>1, MarkFacts
  <2>3. SoonCleared(s)'
    BY <1>1, <1>2, <1>3, <1>4, <2>1, <2>2, TypeFacts DEF Good, SoonCleared
  <2>4. StillYoung(s)' BY <1>2, <1>5, <1>6, <2>1, <2>2 DEF Good, StillYoung
  <2>. QED  BY <2>3, <2>4
<1>8. CASE s \notin Abandoned
  <2>1. PICK m \in Mine(p) : m.born <= s.born /\ s.of = Nobody /\ s.born \in 0..now
    BY <1>1, <1>8, FaultDoes DEF Abandoned
  <2>2. at[p] <= s.born /\ pc[p] = "build"
    BY <2>1 DEF Basics, Shelves, Mine
  <2>3. /\ at[p] <= now /\ now <= at[p] + Stall /\ due <= now + Interval
        /\ s.born \in Nat /\ at[p] \in Nat
    BY <1>1, <2>1, <2>2, TypeFacts DEF Basics, Ages, Busy
  <2>4. Mark(s) \in Nat /\ Mark(s)' = Mark(s) /\ s.born <= Mark(s)
    BY <1>1, <1>2, <2>3, MarkFacts
  <2>5. now <= Mark(s) + Stall BY <1>1, <2>2, <2>3, <2>4, TypeFacts
  <2>6. InTheWay => Allowance >= Interval
    <3>1. InTheWay => forced >= 1 BY DEF InTheWay, Basics, Places, Busy, Renewing
    <3>. QED  BY <1>1, <3>1, AllowanceFacts, TypeFacts
  <2>7. SoonCleared(s)'
    BY <1>1, <1>2, <1>3, <1>4, <2>3, <2>4, <2>5, <2>6, TypeFacts DEF SoonCleared
  <2>8. pc'[Manual] = "gcremove" => at'[Manual] <= now
    BY <1>5 DEF Basics, Ages, Busy
  <2>9. Baseless' => at'[Job] <= now
    BY <1>6 DEF Basics, Ages, Busy, Baseless
  <2>10. ASSUME pc'[Manual] = "gcremove" PROVE at'[Manual] <= Mark(s)' + StagingAge
    BY <1>1, <1>5, <2>4, <2>5, <2>8, <2>10, TypeFacts
  <2>11. ASSUME Baseless' PROVE at'[Job] <= Mark(s)' + StagingAge + Stall
    BY <1>1, <1>6, <2>4, <2>5, <2>9, <2>11, TypeFacts
  <2>. QED  BY <2>7, <2>10, <2>11 DEF StillYoung
<1>. QED  BY <1>7, <1>8

LEMMA StaysAbandoned ==
  ASSUME Basics, [Next]_vars, \A p \in Procs : ~Fault(p)
  PROVE  Abandoned' \subseteq Abandoned
<1>. USE Constants DEF Abandoned
<1>1. TypeOK BY DEF Basics
<1>2. CASE Tick BY <1>2 DEF Tick, files
<1>3. CASE StartJob BY <1>1, <1>3, StartJobDoes
<1>4. CASE StartManual BY <1>1, <1>4, StartManualDoes
<1>5. CASE Publish
  <2>1. PICK d : d = [of |-> Publisher, born |-> now] OBVIOUS
  <2>. QED  BY <1>1, <1>5, <2>1, PublishDoes
<1>6. ASSUME NEW p \in Renewers, Load(p) PROVE Abandoned' \subseteq Abandoned
  <2>1. PICK d : d = [of |-> p, born |-> at[p]] OBVIOUS
  <2>2. staging' \subseteq staging \cup {d} BY <1>1, <1>6, <2>1, LoadDoes
  <2>. QED  BY <2>1, <2>2
<1>7. ASSUME NEW p \in Renewers, GcLoad(p) \/ GcScan(p) \/ GcRemove(p)
      PROVE  Abandoned' \subseteq Abandoned
  BY <1>1, <1>7, GcLoadDoes, GcScanDoes, GcRemoveDoes
<1>8. ASSUME NEW p \in Procs, Build(p) \/ Swap(p) PROVE Abandoned' \subseteq Abandoned
  BY <1>1, <1>8, BuildDoes, SwapDoes
<1>9. CASE UNCHANGED vars BY <1>9 DEF vars, files
<1>. QED  BY <1>2, <1>3, <1>4, <1>5, <1>6, <1>7, <1>8, <1>9, NextIs DEF Calm

LEMMA NextGood ==
  ASSUME Basics, Broken, Dated, \A s \in Abandoned : Good(s), [Next]_vars, NEW s \in Abandoned'
  PROVE  Good(s)'
<1>. USE Constants, Numbers
<1>1. TypeOK /\ brokenAt <= brokenAt' /\ brokenAt' \in Nat BY NextBroken DEF Basics
<1>2. CASE \E p \in Procs : Fault(p) BY <1>2, FaultGood DEF Good
<1>3. CASE \A p \in Procs : ~Fault(p)
  <2>1. s \in Abandoned /\ Good(s) /\ s \in staging' BY <1>3, StaysAbandoned DEF Abandoned
  <2>2. StillYoung(s)'
    <3>1. CASE ~GcScan(Manual) BY <2>1, <3>1, MostlyGood
    <3>2. CASE GcScan(Manual)
      <4>1. /\ Others(Manual) /\ UNCHANGED <<disk, now, brokenAt>> /\ ~Expired(s)
            /\ Busy(Manual)' => at'[Manual] = at[Manual]
            /\ pc[Manual] = "gcscan"
        BY <1>1, <2>1, <3>2, GcScanDoes DEF Ended, Stored, Clock, Busy
      <4>2. s.born \in Nat BY <1>1, <2>1, TypeFacts DEF Abandoned
      <4>3. Mark(s) \in Nat /\ Mark(s)' = Mark(s) /\ s.born <= Mark(s) BY <1>1, <4>1, <4>2, MarkFacts
      <4>4. at[Manual] <= now BY <4>1 DEF Basics, Ages, Busy
      <4>5. ASSUME pc'[Manual] = "gcremove" PROVE at'[Manual] <= Mark(s)' + StagingAge
        BY <1>1, <4>1, <4>2, <4>3, <4>4, <4>5, TypeFacts DEF Expired, Busy
      <4>6. Baseless' => Baseless /\ at'[Job] = at[Job] BY <4>1 DEF Baseless, Others
      <4>. QED  BY <2>1, <4>1, <4>3, <4>5, <4>6 DEF Good, StillYoung
    <3>. QED  BY <3>1, <3>2
  <2>3. SoonCleared(s)'
    <3>1. CASE Tick
      BY <1>1, <2>1, <3>1, SameSoon DEF Tick, Good, Collecting, InTheWay
    <3>2. CASE StartJob BY <2>1, <3>2, StartJobSoon DEF Good
    <3>3. CASE StartManual BY <2>1, <3>3, StartManualSoon DEF Good
    <3>4. CASE Publish
      BY <1>1, <2>1, <3>4, PublishDoes, SameSoon DEF Others, Good, Collecting, InTheWay
    <3>5. CASE Calm(Job) BY <1>3, <2>1, <3>5, JobSoon
    <3>6. ASSUME NEW p \in Procs, Calm(p), p # Job PROVE SoonCleared(s)'
      <4>1. /\ UNCHANGED <<due, forced>> /\ Others(p)
            /\ pc'[p] \in Renewing => pc[p] \in Renewing
            /\ Busy(p)' => at'[p] = at[p]
        BY <1>1, <3>6, CalmDoes DEF Clock
      <4>2. faults' = faults
        BY <1>1, <1>3, <3>6, LoadDoes, GcLoadDoes, GcScanDoes, GcRemoveDoes, BuildDoes, SwapDoes
           DEF Calm, Counts
      <4>3. Collecting' = Collecting BY <3>6, <4>1 DEF Others, Collecting
      <4>4. InTheWay' => InTheWay BY <4>1 DEF Others, InTheWay, Busy, Renewing
      <4>. QED  BY <1>1, <2>1, <4>1, <4>2, <4>3, <4>4, SameSoon DEF Good
    <3>7. CASE UNCHANGED vars
      BY <1>1, <2>1, <3>7, SameSoon DEF vars, Good, Collecting, InTheWay
    <3>. QED  BY <3>1, <3>2, <3>3, <3>4, <3>5, <3>6, <3>7, NextIs
  <2>. QED  BY <2>2, <2>3 DEF Good
<1>. QED  BY <1>2, <1>3

LEMMA NextCleared ==
  ASSUME Basics, Cleared, [Next]_vars
  PROVE  Cleared'
<1>1. Broken /\ Dated /\ \A s \in Abandoned : Good(s) BY ClearedIs
<1>2. Broken' BY <1>1, NextBroken DEF Basics
<1>3. Dated' BY <1>1, NextDated
<1>4. \A s \in Abandoned' : Good(s)' BY <1>1, NextGood
<1>. QED
  BY <1>2, <1>3, <1>4
     DEF Cleared, Broken, Dated, Good, SoonCleared, StillYoung, Allowance

LEMMA ClearedFollows == Basics /\ Cleared => LeftoversAreCleared
<1>. SUFFICES ASSUME Basics, Cleared, NEW s \in staging
              PROVE  now - s.born <= MaxAge \/ now - brokenAt <= MaxAge
  BY DEF LeftoversAreCleared
<1>. USE Constants, Numbers
<1>1. TypeOK /\ s.born \in Nat BY TypeFacts DEF Basics
<1>2. MaxAge = StagingAge + Allowance + 2 * Stall /\ Allowance \in Nat
  BY <1>1, AllowanceFacts DEF MaxAge, Allowance, Times
<1>3. CASE s.of = Nobody
  <2>1. s \in Abandoned /\ SoonCleared(s)
    BY <1>3, ClearedIs DEF Abandoned, Good
  <2>2. /\ now <= due + Stall
        /\ Busy(Job) => now <= at[Job] + Stall /\ at[Job] + Interval <= due + Stall
    BY DEF Basics, Ages
  <2>3. Collecting => Busy(Job) BY DEF Collecting, Busy, Renewing
  <2>4. now <= Mark(s) + MaxAge
    BY <1>1, <1>2, <2>1, <2>2, <2>3, MarkFacts, TypeFacts DEF SoonCleared
  <2>. QED  BY <1>1, <1>2, <2>4, TypeFacts DEF Mark
<1>4. CASE s.of # Nobody
  <2>1. s.of \in Procs BY <1>1, <1>4, TypeFacts
  <2>2. now <= s.born + Stall BY <2>1 DEF Basics, Shelves, Ages, Busy
  <2>. QED  BY <1>1, <1>2, <2>2, TypeFacts
<1>. QED  BY <1>3, <1>4

-----------------------------------------------------------------------------
(* Publications are carried on.                                            *)
InitialData ==
  /\ pointer.data <= collected
  /\ \A p \in Procs : seen[p].data <= collected
  /\ Busy(Publisher) => seen[Publisher].data = collected
WritesNewest ==
  \A p \in Renewers : Writing(p) => seen[p].data >= pointer.data \/ newestAt >= at[p]

LEMMA CarriedIs == Carried <=> InitialData /\ WritesNewest
BY DEF Carried, InitialData, WritesNewest

LEMMA InitCarried == Init => Carried
BY Constants, Numbers DEF Init, Carried, First, Busy, Writing

LEMMA NextInitialData ==
  ASSUME Basics, InitialData, [Next]_vars
  PROVE  InitialData'
<1>. USE Constants DEF InitialData
<1>1. TypeOK /\ First.data = 0 BY DEF Basics, First
<1>. USE <1>1, TypeFacts
<1>2. CASE Tick BY <1>2 DEF Tick, files, Busy
<1>3. CASE StartJob BY <1>3, StartJobDoes DEF NoneMoves, Others, Stored, Busy
<1>4. CASE StartManual BY <1>4, StartManualDoes DEF NoneMoves, Others, Stored, Busy
<1>5. CASE Publish BY <1>5, PublishDoes DEF Others, Stored, Busy
<1>6. ASSUME NEW p \in Renewers, Load(p) PROVE InitialData'
  BY <1>6, LoadDoes DEF Others, Ended, Goes, Stays, Stored, Counts, Busy
<1>7. ASSUME NEW p \in Renewers, GcLoad(p) PROVE InitialData'
  BY <1>7, GcLoadDoes DEF Others, Ended, Stored, Counts, Busy
<1>8. ASSUME NEW p \in Renewers, GcScan(p) PROVE InitialData'
  BY <1>8, GcScanDoes DEF Others, Ended, Stored, Counts, Busy
<1>9. ASSUME NEW p \in Renewers, GcRemove(p) PROVE InitialData'
  BY <1>9, GcRemoveDoes DEF Others, Ended, Counts, Busy
<1>10. ASSUME NEW p \in Procs, Build(p) PROVE InitialData'
  BY <1>10, BuildDoes DEF Others, Ended, Goes, Stays, Stored, Counts, Busy
<1>11. ASSUME NEW p \in Procs, Swap(p) PROVE InitialData'
  <2>1. Making(p).data = seen[p].data BY DEF Making
  <2>. QED  BY <1>11, <2>1, SwapDoes DEF Others, Ended, Goes, Stays, Counts, Busy
<1>12. ASSUME NEW p \in Procs, Fault(p) PROVE InitialData'
  BY <1>12, FaultDoes DEF Others, Ended, Stored, Busy
<1>13. CASE UNCHANGED vars BY <1>13 DEF vars, files, Busy
<1>. QED
  BY <1>2, <1>3, <1>4, <1>5, <1>6, <1>7, <1>8, <1>9, <1>10, <1>11, <1>12, <1>13, NextIs DEF Calm

LEMMA NextWritesNewest ==
  ASSUME Basics, WritesNewest, [Next]_vars
  PROVE  WritesNewest'
<1>. USE Constants
<1>1. TypeOK BY DEF Basics
<1>2. ASSUME UNCHANGED <<pointer, newestAt>>,
             \A p \in Renewers : Writing(p)' => Writing(p) /\ seen'[p] = seen[p] /\ at'[p] = at[p]
      PROVE  WritesNewest'
  BY <1>2 DEF WritesNewest
<1>3. CASE Tick BY <1>2, <1>3 DEF Tick, files, Writing
<1>4. CASE StartJob
  BY <1>1, <1>2, <1>4, StartJobDoes DEF NoneMoves, Others, Stored, Writing
<1>5. CASE StartManual
  BY <1>1, <1>2, <1>5, StartManualDoes DEF NoneMoves, Others, Stored, Writing
<1>6. CASE Publish
  BY <1>1, <1>2, <1>6, PublishDoes DEF Others, Stored, Writing
<1>7. ASSUME NEW p \in Renewers, Load(p) PROVE WritesNewest'
  BY <1>1, <1>7, LoadDoes, TypeFacts
     DEF Others, Ended, Goes, Stays, Stored, Writing, WritesNewest
<1>8. ASSUME NEW p \in Renewers, GcLoad(p) PROVE WritesNewest'
  BY <1>1, <1>2, <1>8, GcLoadDoes DEF Others, Ended, Stored, Writing
<1>9. ASSUME NEW p \in Renewers, GcScan(p) PROVE WritesNewest'
  BY <1>1, <1>2, <1>9, GcScanDoes DEF Others, Ended, Stored, Writing
<1>10. ASSUME NEW p \in Renewers, GcRemove(p) PROVE WritesNewest'
  BY <1>1, <1>2, <1>10, GcRemoveDoes DEF Others, Ended, Writing
<1>11. ASSUME NEW p \in Procs, Build(p) PROVE WritesNewest'
  BY <1>1, <1>2, <1>11, BuildDoes DEF Others, Ended, Goes, Stays, Stored, Writing
<1>12. ASSUME NEW p \in Procs, Swap(p) PROVE WritesNewest'
  <2>1. /\ pointer' = Making(p) /\ Others(p) /\ ~Writing(p)'
        /\ newestAt' = IF Making(p).data > pointer.data THEN now ELSE newestAt
    BY <1>1, <1>12, SwapDoes DEF Ended, Goes, Writing
  <2>2. ASSUME NEW q \in Renewers, Writing(q)'
        PROVE  seen'[q].data >= pointer'.data \/ newestAt' >= at'[q]
    <3>1. q # p /\ Writing(q) /\ at'[q] = at[q] /\ seen'[q] = seen[q]
      BY <2>1, <2>2 DEF Others, Writing
    <3>2. at[q] <= now BY <3>1 DEF Basics, Ages, Busy, Writing
    <3>3. CASE Making(p).data > pointer.data
      BY <1>1, <2>1, <3>1, <3>2, <3>3, TypeFacts
    <3>4. CASE ~(Making(p).data > pointer.data)
      BY <1>1, <2>1, <3>1, <3>4, MakingTypes, TypeFacts DEF WritesNewest
    <3>. QED  BY <3>3, <3>4
  <2>. QED  BY <2>2 DEF WritesNewest
<1>13. ASSUME NEW p \in Procs, Fault(p) PROVE WritesNewest'
  BY <1>1, <1>2, <1>13, FaultDoes DEF Others, Ended, Stored, Writing
<1>14. CASE UNCHANGED vars BY <1>2, <1>14 DEF vars, files, Writing
<1>. QED
  BY <1>3, <1>4, <1>5, <1>6, <1>7, <1>8, <1>9, <1>10, <1>11, <1>12, <1>13, <1>14, NextIs
     DEF Calm

(* Only a writer that was at work puts older data in the place of newer.   *)
LEMMA OlderDataStep ==
  ASSUME Basics, Carried, [Next]_vars, pointer'.data < pointer.data
  PROVE  now - newestAt <= Stall
<1>. USE Constants, Numbers
<1>1. TypeOK /\ pointer.data \in Nat BY TypeFacts DEF Basics
<1>2. pointer' # pointer BY <1>1
<1>3. PICK p \in Procs : Swap(p)
  <2>1. ~Tick /\ ~UNCHANGED vars BY <1>2 DEF Tick, vars, files
  <2>2. ~StartJob /\ ~StartManual /\ ~Publish
    BY <1>1, <1>2, StartJobDoes, StartManualDoes, PublishDoes DEF Stored
  <2>3. PICK p \in Procs : Calm(p) BY <2>1, <2>2, NextIs
  <2>. QED
    BY <1>1, <1>2, <2>3, LoadDoes, GcLoadDoes, GcScanDoes, GcRemoveDoes, BuildDoes, FaultDoes
       DEF Calm, Stored
<1>4. pointer' = Making(p) /\ pc[p] = "swap" /\ Making(p).data = seen[p].data
  BY <1>1, <1>3, SwapDoes DEF Making
<1>5. now <= at[p] + Stall BY <1>4 DEF Basics, Ages, Busy
<1>6. p # Publisher BY <1>1, <1>4, TypeFacts DEF Carried, Busy
<1>7. newestAt >= at[p] BY <1>1, <1>4, <1>6, TypeFacts DEF Carried, Writing
<1>. QED  BY <1>1, <1>5, <1>7, TypeFacts

-----------------------------------------------------------------------------
LEMMA InitInv == Init => IInv
BY InitBasics, InitThinned, InitInTime, InitCleared, InitCarried DEF IInv

LEMMA NextInv == IInv /\ [Next]_vars => IInv'
<1>. SUFFICES ASSUME IInv, [Next]_vars PROVE IInv' OBVIOUS
<1>1. Basics' BY NextBasics DEF IInv
<1>2. Thinned' BY NextThinned DEF IInv
<1>3. InTime'
  BY NextDueInTime, NextWritesFromNew, InTimeIs DEF IInv, InTime, DueInTime, WritesFromNew
<1>4. Cleared' BY NextCleared DEF IInv
<1>5. Carried'
  BY NextInitialData, NextWritesNewest, CarriedIs DEF IInv, Carried, InitialData, WritesNewest
<1>. QED  BY <1>1, <1>2, <1>3, <1>4, <1>5 DEF IInv

LEMMA Invariant == Spec => []IInv
BY InitInv, NextInv, PTL DEF Spec

(* The revision the pointer names is on disk, whole, or at least Keep      *)
(* revisions as new as it were made, whatever renewals, publications,      *)
(* collectors and kills do at the same time (projection-republisher.py).   *)
THEOREM PointerNamesWhole == Spec => []PointerIsWhole
<1>1. IInv => PointerIsWhole
  BY DEF IInv, Basics, Shelves, Thinned, Crowded, AsNew, PointerIsWhole
<1>. QED  BY <1>1, Invariant, PTL

(* Readers are served a stale projection for MaxLapse at most: one skipped *)
(* renewal, one interval for each fault, and the stalls of two runs.       *)
THEOREM LapsesAreBounded == Spec => []LapseIsBounded
<1>1. IInv => LapseIsBounded BY LapseFollows DEF IInv
<1>. QED  BY <1>1, Invariant, PTL

(* What killed runs were staging is collected within MaxAge of its birth,  *)
(* or of the last time the pointer named no whole revision.                *)
THEOREM LeftoversGo == Spec => []LeftoversAreCleared
<1>1. IInv => LeftoversAreCleared BY ClearedFollows DEF IInv
<1>. QED  BY <1>1, Invariant, PTL

(* A publication that has been served for longer than a writer may take is *)
(* never replaced by older data.                                           *)
THEOREM PublicationsStay == Spec => PublicationStays
<1>1. IInv /\ [Next]_vars => [pointer'.data < pointer.data => now - newestAt <= Stall]_vars
  BY OlderDataStep DEF IInv
<1>. QED  BY <1>1, Invariant, PTL DEF Spec, PublicationStays
=============================================================================
