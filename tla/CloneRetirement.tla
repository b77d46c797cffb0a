-------------------------- MODULE CloneRetirement --------------------------
(***************************************************************************)
(* How an agent's clone is removed (clone-lifecycle.py). A clone is a      *)
(* directory at a path; `retire` removes one whose work was merged, in a   *)
(* plain form and in one for squash merges that leaves a chain of three    *)
(* receipts, and `abort-unready` one that was never admitted to write.     *)
(* Each looks at the clone where it is, renames it into a quarantine of    *)
(* its own, looks again, and removes it, or renames it back. `onboard`     *)
(* may put a new clone at the path when nothing is there.                  *)
(*                                                                         *)
(* A commit is a number, 0 the one clones start from. A merged pull        *)
(* request stands for the proofs that its merge delivered the commit,      *)
(* the platform-rebased one among them.                                    *)
(* Left out: onboard --revision may start a clone at a commit that another *)
(* clone has made, so that two have one HEAD with work in it.              *)
(***************************************************************************)
EXTENDS Naturals, FiniteSets

CONSTANTS
  Dirs,       \* directories that are ever a clone at the path
  Admitted,   \* those of profiles that may write; the others stay "degraded"
  Delivered,  \* the one whose pull request the squash form is called with
  Unready,    \* the one whose attempt abort-unready is called with
  Plain, Squash, Abort,   \* the calls of each kind, one after another
  None, Torn, \* nothing there; a receipt of which only a part was written
  MaxCommits, MaxPushed, MaxMain, MaxDeaths   \* bounds of the instance

Procs == Plain \cup Squash \cup Abort
ASSUME RetirementAssumption ==
  /\ IsFiniteSet(Dirs) /\ Admitted \subseteq Dirs
  /\ Delivered \in Admitted /\ Unready \in Dirs \ Admitted
  /\ Plain \cap Squash = {} /\ Plain \cap Abort = {} /\ Squash \cap Abort = {}
  /\ None # Torn /\ {None, Torn} \cap (Dirs \cup Nat) = {}
  /\ {MaxCommits, MaxPushed, MaxMain, MaxDeaths} \subseteq Nat

Commits == 0..MaxCommits
VARIABLES
  dest,       \* the directory at the path
  payload,    \* the one in each call's quarantine
  left,       \* those in the quarantines of calls that ended
  state,      \* of each directory: none yet, whole, half removed or gone
  head, dirty, leased,   \* of each: its HEAD, changes, a lock or an active run
  remote, merged,        \* of each branch: its remote head, merged commits
  commits,               \* commits made so far
  pc, expected, saw, mainSeen,      \* each call: step, inode, HEAD and main it holds to
  examined,   \* history: the directory the call began with
  proof, intent, settled, auth,     \* the receipts
  deaths      \* kills and failed removals so far

clone == <<state, head, dirty, leased, remote, merged, commits>>
receipts == <<proof, intent, settled, auth>>
held == <<expected, saw, mainSeen, examined>>
vars == <<dest, payload, left, clone, pc, held, receipts, deaths>>

Checking == {"head", "clean", "active", "second"}
Steps == {"idle", "prove", "proof", "auth", "stat", "move", "delete", "deleting",
          "restore", "back", "intent", "writeintent", "settle", "writesettled",
          "writeproof", "writeauth"} \cup Checking
Receipt == (0..MaxMain) \cup {None, Torn}

TypeOK ==
  /\ dest \in Dirs \cup {None} /\ left \subseteq Dirs
  /\ payload \in [Procs -> Dirs \cup {None}]
  /\ state \in [Dirs -> {"none", "whole", "torn", "gone"}]
  /\ head \in [Dirs -> Commits]
  /\ dirty \in [Dirs -> BOOLEAN] /\ leased \in [Dirs -> BOOLEAN]
  /\ remote \in [Dirs -> Commits \cup {None}]
  /\ merged \in [Dirs -> SUBSET Commits]
  /\ commits \in Commits
  /\ pc \in [Procs -> Steps]
  /\ expected \in [Procs -> Dirs \cup {None}] /\ saw \in [Procs -> Commits]
  /\ mainSeen \in [Procs -> 0..MaxMain] /\ examined \in [Procs -> Dirs \cup {None}]
  /\ {proof, intent, settled} \subseteq Receipt /\ auth \in {0, None, Torn}
  /\ deaths \in 0..MaxDeaths

(* One clone is at the path, as it was created; nobody has worked in it.   *)
Init ==
  /\ dest \in Dirs /\ left = {} /\ payload = [p \in Procs |-> None]
  /\ state = [d \in Dirs |-> IF d = dest THEN "whole" ELSE "none"]
  /\ head = [d \in Dirs |-> 0]
  /\ dirty = [d \in Dirs |-> FALSE] /\ leased = [d \in Dirs |-> FALSE]
  /\ remote = [d \in Dirs |-> None] /\ merged = [d \in Dirs |-> {}]
  /\ commits = 0
  /\ pc = [p \in Procs |-> "idle"]
  /\ expected = [p \in Procs |-> None] /\ examined = [p \in Procs |-> None]
  /\ saw = [p \in Procs |-> 0] /\ mainSeen = [p \in Procs |-> 0]
  /\ proof = None /\ intent = None /\ settled = None /\ auth = None
  /\ deaths = 0

-----------------------------------------------------------------------------
(* The agents. Work goes through the path, or through a shell that is in   *)
(* the clone under a workflow's lease; leases are taken and given back     *)
(* through the path.                                                       *)
Reaches(d) == state[d] = "whole" /\ (dest = d \/ leased[d])
place == <<dest, payload, left>>
calls == <<pc, held, receipts, deaths>>

Lease(d) ==
  /\ dest = d
  /\ leased' = [leased EXCEPT ![d] = ~@]
  /\ UNCHANGED <<place, state, head, dirty, remote, merged, commits, calls>>

Edit(d) ==
  /\ Reaches(d) /\ ~dirty[d]
  /\ dirty' = [dirty EXCEPT ![d] = TRUE]
  /\ UNCHANGED <<place, state, head, leased, remote, merged, commits, calls>>

Commit(d) ==
  /\ Reaches(d) /\ dirty[d] /\ commits < MaxCommits
  /\ commits' = commits + 1
  /\ head' = [head EXCEPT ![d] = commits']
  /\ dirty' = [dirty EXCEPT ![d] = FALSE]
  /\ UNCHANGED <<place, state, leased, remote, merged, calls>>

Push(d) ==
  /\ Reaches(d) /\ head[d] \in 1..MaxPushed /\ remote[d] # head[d]
  /\ remote' = [remote EXCEPT ![d] = head[d]]
  /\ UNCHANGED <<place, state, head, dirty, leased, merged, commits, calls>>

(* A pull request is merged, and the branch may be deleted.                *)
Merge(d) ==
  /\ remote[d] \notin merged[d] \cup {None}
  /\ merged' = [merged EXCEPT ![d] = @ \cup {remote[d]}]
  /\ remote' \in {remote, [remote EXCEPT ![d] = None]}
  /\ UNCHANGED <<place, state, head, dirty, leased, commits, calls>>

(* onboard: refused when something is at the path; a new clone is          *)
(* published there in one step that replaces nothing.                      *)
Onboard(d) ==
  /\ dest = None /\ state[d] = "none"
  /\ dest' = d /\ state' = [state EXCEPT ![d] = "whole"]
  /\ UNCHANGED <<payload, left, head, dirty, leased, remote, merged, commits, calls>>

-----------------------------------------------------------------------------
(* The calls. They change nothing in a clone but by removing it.           *)
Goto(p, s) == pc' = [pc EXCEPT ![p] = s]
untouched == <<head, dirty, leased, remote, merged, commits>>

Forget(p) ==
  /\ Goto(p, "idle")
  /\ expected' = [expected EXCEPT ![p] = None]
  /\ examined' = [examined EXCEPT ![p] = None]
  /\ saw' = [saw EXCEPT ![p] = 0] /\ mainSeen' = [mainSeen EXCEPT ![p] = 0]

(* A call that ends leaves behind what is still in its quarantine.         *)
Kept(p) == {payload[p]} \ {None}
End(p) ==
  /\ Forget(p)
  /\ left' = left \cup Kept(p)
  /\ payload' = [payload EXCEPT ![p] = None]
Stop(p) == End(p) /\ UNCHANGED <<dest, state, receipts>>

Quiet(d) == ~dirty[d] /\ ~leased[d]
Fits(p, d) == IF p \in Abort THEN d = Unready /\ head[d] = 0 ELSE d \in Admitted

(* The first look: the inode, whose clone it is, HEAD, changes, leases.    *)
Look(p) ==
  /\ pc[p] = "idle" /\ dest # None
  /\ Fits(p, dest) /\ Quiet(dest)
  /\ expected' = [expected EXCEPT ![p] = dest]
  /\ examined' = [examined EXCEPT ![p] = dest]
  /\ saw' = [saw EXCEPT ![p] = head[dest]]
  /\ Goto(p, "prove")
  /\ UNCHANGED <<place, state, untouched, mainSeen, receipts, deaths>>

(* What the remote must say: that a pull request with this HEAD was merged *)
(* and no branch contradicts it, or that the attempt never had either.     *)
BadProven(p, d) == remote[d] \in {None, saw[p]}
Proven(p, d) ==
  IF p \in Abort THEN remote[d] = None /\ merged[d] = {}
  ELSE /\ saw[p] \in merged[d] /\ remote[d] \in {None, saw[p]}
       /\ p \in Squash => d = Delivered

(* The plain form then looks once more; the squash form notes where        *)
(* origin/main is, which other merges move on.                             *)
Prove(p) ==
  /\ pc[p] = "prove" /\ dest # None
  /\ Proven(p, examined[p])
  /\ p \in Plain => dest = expected[p] /\ head[dest] = saw[p] /\ ~dirty[dest]
  /\ \E m \in 0..MaxMain :
       /\ IF p \in Squash THEN proof \in 0..m \cup {None, Torn} ELSE m = 0
       /\ mainSeen' = [mainSeen EXCEPT ![p] = m]
  /\ Goto(p, CASE p \in Plain -> "move" [] p \in Squash -> "proof" [] p \in Abort -> "auth")
  /\ UNCHANGED <<place, state, untouched, expected, saw, examined, receipts, deaths>>

(* A receipt is created, and only then written; one that is there already  *)
(* will do when it says the same. The call that cannot have it ends.       *)
Create(p, f, content, writing, next) ==
  CASE f = None -> Goto(p, writing) /\ UNCHANGED <<place, held>>
    [] f = content -> Goto(p, next) /\ UNCHANGED <<place, held>>
    [] OTHER -> End(p) /\ UNCHANGED dest
Created(f) == IF f = None THEN Torn ELSE f
Proceed(p, from, next) ==
  /\ pc[p] = from /\ Goto(p, next)
  /\ UNCHANGED <<place, state, untouched, held, deaths>>

CreateProof(p) ==
  /\ pc[p] = "proof"
  /\ Create(p, proof, mainSeen[p], "writeproof", "stat")
  /\ proof' = Created(proof)
  /\ UNCHANGED <<state, untouched, intent, settled, auth, deaths>>
WriteProof(p) ==
  /\ Proceed(p, "writeproof", "stat")
  /\ proof' = mainSeen[p] /\ UNCHANGED <<intent, settled, auth>>

CreateAuth(p) ==
  /\ pc[p] = "auth"
  /\ Create(p, auth, 0, "writeauth", "move")
  /\ auth' = Created(auth)
  /\ UNCHANGED <<state, untouched, proof, intent, settled, deaths>>
WriteAuth(p) ==
  /\ Proceed(p, "writeauth", "move")
  /\ auth' = 0 /\ UNCHANGED <<proof, intent, settled>>

(* The squash form takes the inode it holds to only here.                  *)
Stat(p) ==
  /\ pc[p] = "stat" /\ dest # None
  /\ expected' = [expected EXCEPT ![p] = dest]
  /\ Goto(p, "move")
  /\ UNCHANGED <<place, state, untouched, saw, mainSeen, examined, receipts, deaths>>

(* quarantine_remove_verified: the rename, and the second look.            *)
Move(p) ==
  /\ pc[p] = "move" /\ dest # None
  /\ payload' = [payload EXCEPT ![p] = dest] /\ dest' = None
  /\ Goto(p, "head")
  /\ UNCHANGED <<left, state, untouched, held, receipts, deaths>>

BadSameHead(p, d) == d = expected[p]
SameHead(p, d) == d = expected[p] /\ head[d] = saw[p]

Passes(p, d) ==
  CASE pc[p] = "head" -> SameHead(p, d)
    [] pc[p] = "clean" -> ~dirty[d]
    [] pc[p] = "active" -> ~leased[d]
    [] pc[p] = "second" -> Fits(p, d) /\ Quiet(d) /\ Proven(p, d)
After(p) ==
  CASE pc[p] = "head" -> "clean"
    [] pc[p] = "clean" -> "active"
    [] pc[p] = "active" -> IF p \in Abort THEN "second" ELSE "delete"
    [] pc[p] = "second" -> "delete"

Check(p) ==
  /\ pc[p] \in Checking
  /\ Passes(p, payload[p])
  /\ Goto(p, After(p))
  /\ UNCHANGED <<place, state, untouched, held, receipts, deaths>>

(* A look that finds something else, or cannot look, ends the call, or     *)
(* sends the clone back.                                                   *)
Refuse(p) ==
  /\ \/ pc[p] = "prove" /\ Stop(p)
     \/ pc[p] \in {"stat", "move"} /\ dest = None /\ Stop(p)
     \/ pc[p] \in Checking /\ Goto(p, "restore") /\ UNCHANGED <<place, state, held, receipts>>
  /\ UNCHANGED <<untouched, deaths>>

(* restore: only to a path with nothing at it; what comes there between    *)
(* the look and the rename makes the rename fail.                          *)
BadFree(p) == TRUE
Free(p) == dest = None

BadRestore(p) ==
  /\ pc[p] = "restore" /\ Stop(p)
  /\ UNCHANGED <<untouched, deaths>>
Restore(p) ==
  /\ pc[p] = "restore"
  /\ IF dest = None THEN Goto(p, "back") /\ UNCHANGED <<place, state, held, receipts>>
     ELSE Stop(p)
  /\ UNCHANGED <<untouched, deaths>>

Back(p) ==
  /\ pc[p] = "back"
  /\ IF Free(p)
     THEN /\ dest' = payload[p] /\ payload' = [payload EXCEPT ![p] = None]
          /\ Forget(p)
          /\ UNCHANGED <<left, state, receipts>>
     ELSE Stop(p)
  /\ UNCHANGED <<untouched, deaths>>

(* remove_payload_by_fd, entry by entry, and the quarantine.               *)
Delete(p) ==
  /\ pc[p] = "delete"
  /\ state' = [state EXCEPT ![payload[p]] = "torn"]
  /\ Goto(p, "deleting")
  /\ UNCHANGED <<place, untouched, held, receipts, deaths>>

Deleted(p) ==
  /\ pc[p] = "deleting"
  /\ state' = [state EXCEPT ![payload[p]] = "gone"]
  /\ payload' = [payload EXCEPT ![p] = None]
  /\ IF p \in Squash THEN Goto(p, "intent") /\ UNCHANGED held
     ELSE Forget(p)
  /\ UNCHANGED <<dest, left, untouched, receipts, deaths>>

(* The receipts of the squash form after the removal.                      *)
CreateIntent(p) ==
  /\ pc[p] = "intent"
  /\ Create(p, intent, mainSeen[p], "writeintent", "settle")
  /\ intent' = Created(intent)
  /\ UNCHANGED <<state, untouched, proof, settled, auth, deaths>>
WriteIntent(p) ==
  /\ Proceed(p, "writeintent", "settle")
  /\ intent' = mainSeen[p] /\ UNCHANGED <<proof, settled, auth>>

CreateSettled(p) ==
  /\ pc[p] = "settle"
  /\ IF settled = None THEN Goto(p, "writesettled") /\ UNCHANGED <<place, held>>
     ELSE End(p) /\ UNCHANGED dest
  /\ settled' = Created(settled)
  /\ UNCHANGED <<state, untouched, proof, intent, auth, deaths>>
WriteSettled(p) ==
  /\ pc[p] = "writesettled"
  /\ End(p)
  /\ settled' = mainSeen[p]
  /\ UNCHANGED <<dest, state, untouched, proof, intent, auth, deaths>>

(* The squash form where nothing is at the path: a chain that lacks only   *)
(* its end is given one.                                                   *)
BadChain(c) == c = proof
Chain(c) == c = proof /\ c = intent

Replay(p) ==
  /\ p \in Squash /\ pc[p] = "idle" /\ dest = None
  /\ settled = None
  /\ \E c \in 0..MaxMain : Chain(c) /\ mainSeen' = [mainSeen EXCEPT ![p] = c]
  /\ Goto(p, "settle")
  /\ UNCHANGED <<place, state, untouched, expected, saw, examined, receipts, deaths>>

(* A call is killed, its removal fails half way, or an OSError is raised   *)
(* in the quarantine: that ends it too, without putting the clone back.    *)
Die(p) ==
  /\ pc[p] # "idle" /\ deaths < MaxDeaths
  /\ deaths' = deaths + 1
  /\ Stop(p)
  /\ UNCHANGED untouched

Next ==
  \/ \E d \in Dirs :
       Lease(d) \/ Edit(d) \/ Commit(d) \/ Push(d) \/ Merge(d) \/ Onboard(d)
  \/ \E p \in Procs :
       \/ Look(p) \/ Prove(p) \/ Stat(p) \/ Move(p) \/ Check(p) \/ Refuse(p)
       \/ Restore(p) \/ Back(p) \/ Delete(p) \/ Deleted(p) \/ Replay(p) \/ Die(p)
       \/ CreateProof(p) \/ WriteProof(p) \/ CreateAuth(p) \/ WriteAuth(p)
       \/ CreateIntent(p) \/ WriteIntent(p) \/ CreateSettled(p) \/ WriteSettled(p)

Spec == Init /\ [][Next]_vars

-----------------------------------------------------------------------------
(* No work is lost: of a clone that is removed, or half removed, HEAD was  *)
(* merged and nothing was changed since, and nobody held a lease in it; or *)
(* it never had work, and its removal was authorized in writing. Agents    *)
(* may work in the clone at any moment until the rename, and those with a  *)
(* lease also after it.                                                    *)
NoWorkIsLost ==
  \A d \in Dirs : state[d] \in {"torn", "gone"} =>
    /\ ~dirty[d] /\ ~leased[d]
    /\ \/ head[d] \in merged[d]
       \/ head[d] = 0 /\ d = Unready /\ auth = 0

(* No rename hides or replaces a clone: each that is not gone is in one    *)
(* place, at the path or in one quarantine, whoever moved it and whatever  *)
(* came to the path meanwhile. (The type invariant is the first part.)     *)
OnePlaceEach ==
  /\ TypeOK
  /\ \A d \in Dirs : state[d] \in {"whole", "torn"} =>
       /\ (dest = d) # (d \in left \cup {payload[p] : p \in Procs})
       /\ d \in left => \A p \in Procs : payload[p] # d
       /\ \A p, q \in Procs : payload[p] = d /\ payload[q] = d => p = q
  /\ dest # None => state[dest] = "whole"

(* A clone is left behind in a quarantine only when the call that moved it *)
(* dies there (is killed, or ends in an OSError of its own steps), or      *)
(* while another clone is at its path: every refused removal otherwise     *)
(* puts it back, and no call that gives up for another reason still has    *)
(* one.                                                                    *)
LeftBehindForAReason ==
  [][left' # left => deaths' > deaths \/ dest # None]_vars

(* The chain of receipts tells of what happened: where the removal was     *)
(* intended or settled, the clone of that pull request is gone.            *)
SettledIsGone ==
  intent # None \/ settled # None => state[Delivered] = "gone"

(* A call removes only the very directory it looked at first, though a     *)
(* path may have been emptied and filled again since; the squash form      *)
(* holds to an inode it takes only after its proof.                        *)
RemovesWhatItExamined ==
  [][\A d \in Dirs : state[d] = "whole" /\ state'[d] = "torn" =>
       \E p \in Procs : payload[p] = d /\ examined[p] = d]_vars

(* Not kept - an accepted design has the intent written before the        *)
(* removal begins, so that a replay can tell what a crash interrupted.     *)
IntentComesFirst ==
  \A p \in Squash : pc[p] = "deleting" => intent \notin {None, Torn}
=============================================================================
