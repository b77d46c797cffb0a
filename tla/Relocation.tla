----------------------------- MODULE Relocation -----------------------------
(***************************************************************************)
(* The move of a client's recovery files out of Documents                  *)
(* (documents_client_recovery_relocation.py). apply moves every file of    *)
(* the source roots into a staging directory, checks them there, writes a  *)
(* manifest beside them and renames the directory to its final name;       *)
(* rollback takes the manifest and moves the files back. Each undoes what  *)
(* it moved when a step fails, and a step of the undoing may fail as well. *)
(* Nothing but these steps keeps two of them, or the client whose files    *)
(* they are, apart.                                                        *)
(*                                                                         *)
(* A file is a number, in the order of the inventory; what it holds is a   *)
(* version. The two source roots are one.                                  *)
(***************************************************************************)
EXTENDS Integers, FiniteSets

CONSTANTS
  Procs,      \* operators' calls of apply and rollback
  Files,      \* how many files there are
  None,       \* no such file; no such place
  MaxCalls, MaxFaults, MaxKills, MaxWrites   \* bounds of the instance

ASSUME RelocationAssumption ==
  /\ Files \in Nat \ {0} /\ None \notin Int /\ None \notin {"staging", "target"}
  /\ {MaxCalls, MaxFaults, MaxKills, MaxWrites} \subseteq Nat

File == 1..Files
Version == 0..MaxWrites
Contents == [File -> Version \cup {None}]
Empty == [f \in File |-> None]

VARIABLES
  source, staging, target,    \* the files in each place
  roots, stagingDir, targetDir,  \* which directories are there
  manifest,   \* where it is: in staging, at the target, or at neither
  listed,     \* the files it lists, with their versions
  archived,   \* there is an archived manifest
  receipt,    \* the rollback receipt is there
  pc, at, plan, moved,   \* each call: step, file it has come to, the
                         \* inventory it follows, the files it moved
  bad,        \* and whether its undoing has failed for some file
  live,       \* history: versions that must be somewhere
  late,       \* history: the client wrote between a look and a rename
  disturbed,  \* history: a rollback was killed, or failed to put the files
              \* back where it found them, or the client wrote during one
  shared,     \* history: two calls were at work at once
  stuck,      \* history: files whose move failed in the last call's undoing
  calls, faults, kills, writes

places == <<source, staging, target>>
dirs == <<roots, stagingDir, targetDir>>
paper == <<manifest, listed, archived, receipt>>
control == <<pc, at, plan, moved, bad>>
vars == <<places, dirs, paper, control, live, late, disturbed, shared, stuck,
          calls, faults, kills, writes>>

Applying == {"mkdir", "move", "verify", "manifest", "rmroots", "publish"}
Undoing == {"undo", "unmove", "cleanup"}
Returning == {"look", "back", "restored", "archive", "rmtarget", "receipt"}
Steps == {"idle", "redo"} \cup Applying \cup Undoing \cup Returning

TypeOK ==
  /\ {source, staging, target, listed} \subseteq Contents
  /\ {roots, stagingDir, targetDir, archived, receipt, late, disturbed, shared} \subseteq BOOLEAN
  /\ manifest \in {None, "staging", "target"}
  /\ pc \in [Procs -> Steps] /\ at \in [Procs -> 0..Files + 1]
  /\ plan \in [Procs -> Contents] /\ moved \in [Procs -> SUBSET File]
  /\ bad \in [Procs -> BOOLEAN]
  /\ live \subseteq File \X Version /\ stuck \subseteq File
  /\ calls \in 0..MaxCalls /\ faults \in 0..MaxFaults
  /\ kills \in 0..MaxKills /\ writes \in 0..MaxWrites

Init ==
  /\ source = [f \in File |-> 0] /\ staging = Empty /\ target = Empty
  /\ roots = TRUE /\ stagingDir = FALSE /\ targetDir = FALSE
  /\ manifest = None /\ listed = Empty /\ archived = FALSE /\ receipt = FALSE
  /\ pc = [p \in Procs |-> "idle"] /\ at = [p \in Procs |-> 0]
  /\ plan = [p \in Procs |-> Empty] /\ moved = [p \in Procs |-> {}]
  /\ bad = [p \in Procs |-> FALSE]
  /\ live = {<<f, 0>> : f \in File} /\ late = FALSE /\ disturbed = FALSE /\ shared = FALSE
  /\ stuck = {}
  /\ calls = 0 /\ faults = 0 /\ kills = 0 /\ writes = 0

-----------------------------------------------------------------------------
Goto(p, s) == pc' = [pc EXCEPT ![p] = s]
Reach(p, f) == at' = [at EXCEPT ![p] = f]
BadNote(p, f) == moved' = [moved EXCEPT ![p] = {f}]
Note(p, f) == moved' = [moved EXCEPT ![p] = @ \cup {f}]
history == <<live, late, disturbed, shared, stuck, writes>>
bounds == <<calls, faults, kills>>

End(p) ==
  /\ Goto(p, "idle") /\ Reach(p, 0)
  /\ plan' = [plan EXCEPT ![p] = Empty] /\ moved' = [moved EXCEPT ![p] = {}]
  /\ bad' = [bad EXCEPT ![p] = FALSE]

(* A step that fails leads to the undoing of what was moved.               *)
ToUndoing(p) ==
  /\ Goto(p, IF pc[p] \in Applying THEN "undo" ELSE "redo")
  /\ Reach(p, IF pc[p] \in Applying THEN Files ELSE 1)
  /\ UNCHANGED <<plan, moved, bad>>

Fail(p) == ToUndoing(p) /\ UNCHANGED <<places, dirs, paper>>

Planned(p, f) == plan[p][f] # None

Called ==
  /\ calls' = calls + 1
  /\ shared' = (shared \/ \E q \in Procs : pc[q] # "idle")
  /\ stuck' = {}

(* apply: the inventory is taken twice, and nothing may be at the target,  *)
(* the staging directory or the receipt's name.                            *)
Clear == ~targetDir /\ ~stagingDir /\ ~receipt

Apply(p) ==
  /\ pc[p] = "idle" /\ calls < MaxCalls
  /\ roots /\ source # Empty /\ Clear
  /\ Called
  /\ plan' = [plan EXCEPT ![p] = source]
  /\ Goto(p, "mkdir")
  /\ UNCHANGED <<places, dirs, paper, at, moved, bad, live, late, disturbed, writes, faults, kills>>

MakeStaging(p) ==
  /\ pc[p] = "mkdir"
  /\ IF stagingDir THEN Fail(p)
     ELSE /\ stagingDir' = TRUE /\ Goto(p, "move") /\ Reach(p, 1)
          /\ UNCHANGED <<places, roots, targetDir, paper, plan, moved, bad>>
  /\ UNCHANGED <<history, bounds>>

(* The directories on the way are made again each time, staging too.       *)
Move(p) ==
  /\ pc[p] = "move"
  /\ LET f == at[p] IN
     CASE f > Files -> Goto(p, "verify") /\ Reach(p, 0)
                       /\ UNCHANGED <<places, dirs, paper, plan, moved, bad>>
       [] f <= Files /\ ~Planned(p, f) -> Reach(p, f + 1)
                       /\ UNCHANGED <<places, dirs, paper, pc, plan, moved, bad>>
       [] f <= Files /\ Planned(p, f) /\ source[f] = None -> Fail(p)
       [] OTHER ->
            /\ source' = [source EXCEPT ![f] = None]
            /\ staging' = [staging EXCEPT ![f] = source[f]]
            /\ stagingDir' = TRUE
            /\ Note(p, f) /\ Reach(p, f + 1)
            /\ UNCHANGED <<target, roots, targetDir, paper, pc, plan, bad>>
  /\ UNCHANGED <<history, bounds>>

(* Every file of the inventory, as it was.                                 *)
BadVerified(p) == \A f \in moved[p] : staging[f] # None
Verified(p) == \A f \in File : Planned(p, f) => staging[f] = plan[p][f]

Verify(p) ==
  /\ pc[p] = "verify"
  /\ IF Verified(p) THEN Goto(p, "manifest") /\ UNCHANGED <<places, dirs, paper, at, plan, moved, bad>>
     ELSE Fail(p)
  /\ UNCHANGED <<history, bounds>>

WriteManifest(p) ==
  /\ pc[p] = "manifest"
  /\ manifest' = "staging" /\ listed' = plan[p] /\ stagingDir' = TRUE
  /\ Goto(p, "rmroots")
  /\ UNCHANGED <<places, roots, targetDir, archived, receipt, at, plan, moved, bad, history, bounds>>

(* The source roots go, if nothing came into them meanwhile.               *)
RemoveRoots(p) ==
  /\ pc[p] = "rmroots"
  /\ IF source # Empty THEN Fail(p)
     ELSE /\ roots' = FALSE /\ Goto(p, "publish")
          /\ UNCHANGED <<places, stagingDir, targetDir, paper, at, plan, moved, bad>>
  /\ UNCHANGED <<history, bounds>>

Publish(p) ==
  /\ pc[p] = "publish"
  /\ IF ~stagingDir \/ target # Empty \/ manifest = "target" THEN Fail(p) /\ UNCHANGED <<history, bounds>>
     ELSE /\ target' = staging /\ staging' = Empty
          /\ targetDir' = TRUE /\ stagingDir' = FALSE
          /\ manifest' = (IF manifest = "staging" THEN "target" ELSE manifest)
          /\ End(p)
          /\ UNCHANGED <<source, roots, listed, archived, receipt, history, bounds>>

BadBlocked(f) == staging[f] = None
Blocked(f) == source[f] # None \/ staging[f] = None

(* _restore_moves, from the last: each file back to a source path that is  *)
(* free; what cannot be moved is left, and told of in the end.             *)
Undo(p) ==
  /\ pc[p] = "undo"
  /\ LET f == at[p] IN
     CASE f = 0 -> /\ IF bad[p] THEN End(p) ELSE Goto(p, "cleanup") /\ UNCHANGED <<at, plan, moved, bad>>
       [] f > 0 /\ f \notin moved[p] -> Reach(p, f - 1) /\ UNCHANGED <<pc, plan, moved, bad>>
       [] f \in moved[p] /\ Blocked(f) ->
            /\ bad' = [bad EXCEPT ![p] = TRUE]
            /\ Reach(p, f - 1) /\ UNCHANGED <<pc, plan, moved>>
       [] OTHER -> Goto(p, "unmove") /\ UNCHANGED <<at, plan, moved, bad>>
  /\ UNCHANGED <<places, dirs, paper, history, bounds>>

(* A rename replaces what is there by then.                                *)
Unmove(p) ==
  /\ pc[p] = "unmove"
  /\ LET f == at[p] IN
     /\ IF staging[f] = None
        THEN /\ bad' = [bad EXCEPT ![p] = TRUE] /\ UNCHANGED <<source, staging>>
        ELSE /\ source' = [source EXCEPT ![f] = staging[f]]
             /\ staging' = [staging EXCEPT ![f] = None] /\ UNCHANGED bad
     /\ roots' = TRUE
     /\ Goto(p, "undo") /\ Reach(p, f - 1)
  /\ UNCHANGED <<target, stagingDir, targetDir, paper, plan, moved, history, bounds>>

(* The staging directory goes if it is empty, which with a manifest it is  *)
(* not.                                                                    *)
Cleanup(p) ==
  /\ pc[p] = "cleanup"
  /\ stagingDir' = (stagingDir /\ (staging # Empty \/ manifest = "staging"))
  /\ End(p)
  /\ UNCHANGED <<places, roots, targetDir, paper, history, bounds>>

-----------------------------------------------------------------------------
(* rollback: only from a manifest, with every file it lists at the target  *)
(* and no source root.                                                     *)
Returnable == manifest = "target" /\ ~roots /\ \A f \in File : listed[f] # None => target[f] = listed[f]

Rollback(p) ==
  /\ pc[p] = "idle" /\ calls < MaxCalls
  /\ Returnable
  /\ Called
  /\ plan' = [plan EXCEPT ![p] = listed]
  /\ Goto(p, "look") /\ Reach(p, Files)
  /\ UNCHANGED <<places, dirs, paper, moved, bad, live, late, disturbed, writes, faults, kills>>

Look(p) ==
  /\ pc[p] = "look"
  /\ LET f == at[p] IN
     CASE f = 0 -> Goto(p, "restored") /\ UNCHANGED <<places, dirs, paper, at, plan, moved, bad>>
       [] f > 0 /\ ~Planned(p, f) -> Reach(p, f - 1) /\ UNCHANGED <<places, dirs, paper, pc, plan, moved, bad>>
       [] f > 0 /\ Planned(p, f) /\ source[f] # None -> Fail(p)
       [] OTHER -> Goto(p, "back") /\ UNCHANGED <<places, dirs, paper, at, plan, moved, bad>>
  /\ UNCHANGED <<history, bounds>>

Back(p) ==
  /\ pc[p] = "back"
  /\ LET f == at[p] IN
     /\ roots' = TRUE
     /\ IF target[f] = None
        THEN Goto(p, "redo") /\ Reach(p, 1) /\ UNCHANGED <<source, target, moved>>
        ELSE /\ source' = [source EXCEPT ![f] = target[f]]
             /\ target' = [target EXCEPT ![f] = None]
             /\ Note(p, f) /\ Goto(p, "look") /\ Reach(p, f - 1)
  /\ UNCHANGED <<staging, stagingDir, targetDir, paper, plan, bad, history, bounds>>

(* The source roots must hold what the manifest lists, and no more.        *)
Restored(p) ==
  /\ pc[p] = "restored"
  /\ IF source = plan[p] THEN Goto(p, "archive") /\ UNCHANGED <<places, dirs, paper, at, plan, moved, bad>>
     ELSE Fail(p)
  /\ UNCHANGED <<history, bounds>>

(* It is put beside the target, under a name nothing may have yet.         *)
Archive(p) ==
  /\ pc[p] = "archive"
  /\ IF manifest # "target" \/ archived THEN Fail(p)
     ELSE /\ manifest' = None /\ archived' = TRUE /\ Goto(p, "rmtarget")
          /\ UNCHANGED <<places, dirs, listed, receipt, at, plan, moved, bad>>
  /\ UNCHANGED <<history, bounds>>

RemoveTarget(p) ==
  /\ pc[p] = "rmtarget"
  /\ IF target # Empty THEN Fail(p)
     ELSE /\ targetDir' = FALSE /\ Goto(p, "receipt")
          /\ UNCHANGED <<places, roots, stagingDir, paper, at, plan, moved, bad>>
  /\ UNCHANGED <<history, bounds>>

WriteReceipt(p) ==
  /\ pc[p] = "receipt"
  /\ receipt' = TRUE
  /\ End(p)
  /\ UNCHANGED <<places, dirs, manifest, listed, archived, history, bounds>>

(* _restore_rollback_moves: the last moved first, until one cannot be; the *)
(* source roots and an archived manifest stay where they are.              *)
Redo(p) ==
  /\ pc[p] = "redo"
  /\ LET f == at[p] IN
     CASE f > Files -> End(p) /\ UNCHANGED <<places, dirs>>
       [] f <= Files /\ f \notin moved[p] ->
            Reach(p, f + 1) /\ UNCHANGED <<places, dirs, pc, plan, moved, bad>>
       [] OTHER ->
            /\ targetDir' = TRUE /\ UNCHANGED <<staging, roots, stagingDir>>
            /\ IF source[f] = None THEN End(p) /\ UNCHANGED <<source, target>>
               ELSE /\ target' = [target EXCEPT ![f] = source[f]]
                    /\ source' = [source EXCEPT ![f] = None]
                    /\ Reach(p, f + 1) /\ UNCHANGED <<pc, plan, moved, bad>>
  /\ UNCHANGED <<paper, history, bounds>>

-----------------------------------------------------------------------------
(* A file operation fails: the disk is full, access is denied. By then the *)
(* directory it needs may have been made, or the receipt's name given.     *)
HalfDone(p) ==
  /\ stagingDir' \in {stagingDir, stagingDir \/ pc[p] \in {"move", "manifest"}}
  /\ roots' \in {roots, roots \/ pc[p] \in {"unmove", "back"}}
  /\ targetDir' \in {targetDir, targetDir \/ pc[p] = "redo"}
  /\ receipt' \in {receipt, receipt \/ pc[p] = "receipt"}

StepFails(p) ==
  /\ pc[p] \in Applying \cup Returning
  /\ ToUndoing(p)
  /\ UNCHANGED <<stuck, disturbed>>

(* _restore_moves notes the failure, leaves the file and goes on.          *)
UnmoveFails(p) ==
  /\ pc[p] = "unmove"
  /\ bad' = [bad EXCEPT ![p] = TRUE] /\ stuck' = stuck \cup {at[p]}
  /\ Goto(p, "undo") /\ Reach(p, at[p] - 1)
  /\ UNCHANGED <<plan, moved, disturbed>>

CleanupFails(p) == pc[p] = "cleanup" /\ End(p) /\ UNCHANGED <<stuck, disturbed>>

(* _restore_rollback_moves stops at the first that fails.                  *)
RedoFails(p) ==
  /\ pc[p] = "redo" /\ at[p] \in moved[p]
  /\ End(p)
  /\ stuck' = stuck \cup {at[p]} /\ disturbed' = TRUE

Fault(p) ==
  /\ faults < MaxFaults /\ faults' = faults + 1
  /\ StepFails(p) \/ UnmoveFails(p) \/ CleanupFails(p) \/ RedoFails(p)
  /\ HalfDone(p)
  /\ UNCHANGED <<places, manifest, listed, archived, live, late, shared, writes, calls, kills>>

RollingBack(p) == pc[p] \in Returning \cup {"redo"}

Killed(p) ==
  /\ pc[p] # "idle" /\ kills < MaxKills
  /\ kills' = kills + 1
  /\ disturbed' = (disturbed \/ RollingBack(p))
  /\ End(p)
  /\ UNCHANGED <<places, dirs, paper, live, late, shared, stuck, writes, calls, faults>>

(* The client, which should not run: it writes a file of its own, over the *)
(* one that is there or where there is none.                               *)
InWindow(f) == \E p \in Procs : pc[p] \in {"unmove", "back"} /\ at[p] = f
Write(f) ==
  /\ writes < MaxWrites
  /\ writes' = writes + 1
  /\ source' = [source EXCEPT ![f] = writes'] /\ roots' = TRUE
  /\ live' = (live \ {<<f, source[f]>>}) \cup {<<f, writes'>>}
  /\ late' = (late \/ InWindow(f))
  /\ disturbed' = (disturbed \/ \E p \in Procs : RollingBack(p))
  /\ UNCHANGED <<staging, target, stagingDir, targetDir, paper, control, shared, stuck, bounds>>

Next ==
  \/ \E p \in Procs :
       \/ Apply(p) \/ MakeStaging(p) \/ Move(p) \/ Verify(p) \/ WriteManifest(p)
       \/ RemoveRoots(p) \/ Publish(p) \/ Undo(p) \/ Unmove(p) \/ Cleanup(p)
       \/ Rollback(p) \/ Look(p) \/ Back(p) \/ Restored(p) \/ Archive(p)
       \/ RemoveTarget(p) \/ WriteReceipt(p) \/ Redo(p) \/ Fault(p) \/ Killed(p)
  \/ \E f \in File : Write(f)

Spec == Init /\ [][Next]_vars

-----------------------------------------------------------------------------
AtRest == \A p \in Procs : pc[p] = "idle"

(* No version of a file is lost, neither the one relocated nor one the     *)
(* client writes meanwhile, whatever fails or is killed and whoever else   *)
(* is at work - but for a client's file that comes between the look at its *)
(* path and the rename to it, or while two calls are at work.              *)
NothingLost ==
  ~late /\ (writes = 0 \/ ~shared) => \A v \in live : v[2] \in {source[v[1]], staging[v[1]], target[v[1]]}

(* One failed step is undone: once the calls, one after another, have      *)
(* ended, the files are together, in their source roots or at the target.  *)
(* When a step of the undoing failed too, they may be split - after an     *)
(* apply the files in staging are those whose own move back failed, and    *)
(* all others are in their source - but each is in one place only, and     *)
(* neither an apply nor a rollback starts from there.                      *)
Together ==
  \/ source = [f \in File |-> 0] /\ staging = Empty /\ target = Empty
  \/ target = [f \in File |-> 0] /\ staging = Empty /\ source = Empty

InOnePlace(f) ==
  \E here \in {"source", "staging", "target"} :
    /\ source[f] = IF here = "source" THEN 0 ELSE None
    /\ staging[f] = IF here = "staging" THEN 0 ELSE None
    /\ target[f] = IF here = "target" THEN 0 ELSE None

Split ==
  /\ stuck # {} /\ \A f \in File : InOnePlace(f)
  /\ \/ target = Empty /\ \A f \in File : staging[f] # None => f \in stuck
     \/ staging = Empty
  /\ ~Clear /\ ~Returnable

UndoneAsAWhole ==
  AtRest /\ ~shared /\ kills = 0 /\ writes = 0 => Together \/ Split

(* A manifest at the target is true of it, also when the client wrote to   *)
(* its files while they were being moved there and when a rollback failed  *)
(* and took its moves back: every file it lists is there, in the version   *)
(* listed, until a rollback is at work - one that was not killed, whose    *)
(* restoration did not fail, not written into, and alone. And if the       *)
(* client never wrote, also after those: every file it lists is there or   *)
(* back in its source, in the version listed. (The type invariant is the   *)
(* first part of it.)                                                      *)
ManifestIsTrue ==
  /\ TypeOK
  /\ manifest = "target" /\ ~shared =>
       \A f \in File : listed[f] # None =>
         /\ ~disturbed /\ (\A p \in Procs : ~RollingBack(p)) => target[f] = listed[f]
         /\ writes = 0 => listed[f] \in {source[f], target[f]}

(* Not kept - "never ... overwrite a target/source collision": the look at *)
(* the path and the rename are two steps.                                  *)
NeverOverwritten ==
  \A v \in live : v[2] \in {source[v[1]], staging[v[1]], target[v[1]]}

(* Not kept - the transaction is called reversible: after a rollback that  *)
(* failed and put everything back, the empty source roots, or the archived *)
(* manifest, refuse the next.                                              *)
StillReversible ==
  AtRest /\ kills = 0 /\ writes = 0 /\ target = [f \in File |-> 0] => Returnable

(* Not kept - an apply that fails after the manifest is written leaves the *)
(* staging directory, which refuses the next.                              *)
StillAppliable ==
  AtRest /\ kills = 0 /\ writes = 0 /\ ~receipt /\ source = [f \in File |-> 0] => Clear
=============================================================================
