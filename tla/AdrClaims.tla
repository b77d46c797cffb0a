----------------------------- MODULE AdrClaims -----------------------------
(***************************************************************************)
(* D1 of bin/gac/swarm_discipline.py: the number of a new ADR is claimed   *)
(* before the ADR is written.  A claim is a file named after the session   *)
(* that holds the number; claimers exclude one another by flock, but the   *)
(* commit hook, claim_gc and whoever deletes a claim take no lock.         *)
(*                                                                         *)
(* One checkout is modelled, with the sessions that work in it; other      *)
(* clones show only in what they merge into origin/main.                   *)
(***************************************************************************)
EXTENDS Integers, FiniteSets

CONSTANTS
  Claimers,   \* the sessions
  Elsewhere,  \* stands for any author in another clone
  MaxAdr      \* bound of the model: the largest ADR number

ASSUME ElsewhereAssumption == Elsewhere \notin Claimers
ASSUME MaxAdrAssumption == MaxAdr \in Nat

Numbers == 1 .. MaxAdr
NoNumber == 0       \* no claim; as an argument, no --number

VARIABLES
  adrClaim,   \* adrClaim[s]: the number in <session>.json, NoNumber if no such file
  files,      \* the ADRs in the decisions directory of the checkout
  commits,    \* those of them that are committed
  origin,     \* the numbers on origin/main, as the last fetch left it
  pc,         \* where each session is inside acquire_adr_claim
  asked,      \* the number it was called with
  existing,   \* what list_existing_adr_numbers returned to it
  claimed,    \* what load_adr_claims returned to it
  verdict     \* the answer of the check that was made last, if it was just made

repo == <<files, commits, origin>>
calls == <<pc, asked, existing, claimed>>
adrVars == <<adrClaim, repo, calls, verdict>>

----------------------------------------------------------------------------
Adr == [by : Claimers \cup {Elsewhere}, number : Numbers]

NoVerdict == [call |-> "none"]
Verdict ==
  [call : {"adr-check", "claim-check"}, by : Claimers, number : Numbers, ok : BOOLEAN]

NumbersOf(adrs) == {adr.number : adr \in adrs}
Held(claims) == {claims[s] : s \in Claimers} \ {NoNumber}

(* The part of list_existing_adr_numbers that looks at origin/main.  The   *)
(* directory is passed to git ls-tree without a trailing slash, so git     *)
(* names the directory itself and no line starts with four digits.         *)
RemoteNumbers == {}

(* next_free_adr: one past the largest number taken, 1 when none is.       *)
NextFree(taken) ==
  IF taken = {} THEN 1
  ELSE (CHOOSE n \in taken : \A m \in taken : m <= n) + 1

(* What the holder of the lock will ask for.                               *)
Target(s) ==
  IF asked[s] # NoNumber THEN asked[s] ELSE NextFree(existing[s] \cup Held(claimed[s]))

(* The claim is refused: the number is on disk, or held by another.        *)
Refused(s) ==
  \/ Target(s) \in existing[s]
  \/ \E u \in Claimers \ {s} : claimed[s][u] = Target(s)

LockFree == \A s \in Claimers : pc[s] = "idle"

----------------------------------------------------------------------------
AdrInit ==
  /\ adrClaim = [s \in Claimers |-> NoNumber]
  /\ files = {}
  /\ commits = {}
  /\ origin = {}
  /\ pc = [s \in Claimers |-> "idle"]
  /\ asked = [s \in Claimers |-> NoNumber]
  /\ existing = [s \in Claimers |-> {}]
  /\ claimed = [s \in Claimers |-> [u \in Claimers |-> NoNumber]]
  /\ verdict = NoVerdict

BadAcquireNoLock(s, number) ==      \* no flock
  /\ pc[s] = "idle"
  /\ pc' = [pc EXCEPT ![s] = "listed"]
  /\ asked' = [asked EXCEPT ![s] = number]
  /\ existing' = [existing EXCEPT ![s] = NumbersOf(files) \cup RemoteNumbers]
  /\ verdict' = NoVerdict
  /\ UNCHANGED <<adrClaim, repo, claimed>>

(* acquire_adr_claim: flock, then the listing of the decisions directory.  *)
Acquire(s, number) ==
  /\ LockFree
  /\ pc' = [pc EXCEPT ![s] = "listed"]
  /\ asked' = [asked EXCEPT ![s] = number]
  /\ existing' = [existing EXCEPT ![s] = NumbersOf(files) \cup RemoteNumbers]
  /\ verdict' = NoVerdict
  /\ UNCHANGED <<adrClaim, repo, claimed>>

(* load_adr_claims, under the same lock.                                   *)
LoadClaims(s) ==
  /\ pc[s] = "listed"
  /\ pc' = [pc EXCEPT ![s] = "loaded"]
  /\ claimed' = [claimed EXCEPT ![s] = adrClaim]
  /\ verdict' = NoVerdict
  /\ UNCHANGED <<adrClaim, repo, asked, existing>>

Return(s) ==
  /\ pc' = [pc EXCEPT ![s] = "idle"]
  /\ asked' = [asked EXCEPT ![s] = NoNumber]
  /\ existing' = [existing EXCEPT ![s] = {}]
  /\ claimed' = [claimed EXCEPT ![s] = [u \in Claimers |-> NoNumber]]
  /\ verdict' = NoVerdict

BadDecideForgetsReuse(s) ==         \* the session's own claim is not looked for
  /\ pc[s] = "loaded"
  /\ Target(s) \in Numbers
  /\ adrClaim' = IF Refused(s) THEN adrClaim ELSE [adrClaim EXCEPT ![s] = Target(s)]
  /\ Return(s)
  /\ UNCHANGED repo

(* The decision and the write of <session>.json: a session that has a      *)
(* claim keeps it, whatever it asked for.                                  *)
Decide(s) ==
  /\ pc[s] = "loaded"
  /\ claimed[s][s] # NoNumber \/ Target(s) \in Numbers
  /\ adrClaim' = IF claimed[s][s] # NoNumber \/ Refused(s) THEN adrClaim
              ELSE [adrClaim EXCEPT ![s] = Target(s)]
  /\ Return(s)
  /\ UNCHANGED repo

(* The process dies with the lock: the kernel frees it.                    *)
DieClaiming(s) ==
  /\ pc[s] # "idle"
  /\ Return(s)
  /\ UNCHANGED <<adrClaim, repo>>

(* claim_gc (a claim older than its ttl; ages are left out, any claim may  *)
(* be old), or the deletion of a claim once the ADR is on main.            *)
DropClaim(s) ==
  /\ adrClaim[s] # NoNumber
  /\ adrClaim' = [adrClaim EXCEPT ![s] = NoNumber]
  /\ verdict' = NoVerdict
  /\ UNCHANGED <<repo, calls>>

(* An agent writes a new ADR file; nothing makes it check first.           *)
Write(s, n) ==
  /\ pc[s] = "idle"
  /\ files' = files \cup {[by |-> s, number |-> n]}
  /\ verdict' = NoVerdict
  /\ UNCHANGED <<adrClaim, commits, origin, calls>>

(* check_adr_write_authorized: a file of that name on disk is an edit.     *)
Authorized(s, n) == [by |-> s, number |-> n] \in files \/ adrClaim[s] = n

(* adr-check on the session's ADR, which may be written or not yet.        *)
AdrCheck(s, n) ==
  /\ pc[s] = "idle"
  /\ verdict' = [call |-> "adr-check", by |-> s, number |-> n, ok |-> Authorized(s, n)]
  /\ UNCHANGED <<adrClaim, repo, calls>>

(* check_shared_worktree_writes strips dots and slashes from the front of  *)
(* a staged path before it matches the path with ADR_FILE_RE, which begins *)
(* with a dot: no path is an ADR's, and D1 is never asked.                 *)
TakenForAdr == FALSE

(* The commit hook, claim-check --staged: the path passes when an active   *)
(* workflow run claims it, or as an ADR; then the commit is made.          *)
CommitAdr(s, n, covered) ==
  LET adr == [by |-> s, number |-> n]
      ok == covered \/ (TakenForAdr /\ Authorized(s, n))
  IN /\ pc[s] = "idle"
     /\ adr \in files \ commits
     /\ commits' = IF ok THEN commits \cup {adr} ELSE commits
     /\ verdict' = [call |-> "claim-check", by |-> s, number |-> n, ok |-> ok]
     /\ UNCHANGED <<adrClaim, files, origin, calls>>

(* A commit of this checkout, or of another clone, is merged and fetched.  *)
Merge(n) ==
  /\ origin' = origin \cup {n}
  /\ verdict' = NoVerdict
  /\ UNCHANGED <<adrClaim, files, commits, calls>>

(* git pull: the ADRs of other clones arrive in the checkout.              *)
Pull ==
  /\ files' = files \cup
       {[by |-> Elsewhere, number |-> n] : n \in origin \ NumbersOf(commits)}
  /\ verdict' = NoVerdict
  /\ UNCHANGED <<adrClaim, commits, origin, calls>>

AdrNext ==
  \/ \E s \in Claimers :
       \/ \E number \in Numbers \cup {NoNumber} : Acquire(s, number)
       \/ LoadClaims(s)
       \/ Decide(s)
       \/ DieClaiming(s)
       \/ DropClaim(s)
       \/ \E n \in Numbers :
            \/ Write(s, n)
            \/ AdrCheck(s, n)
            \/ \E covered \in BOOLEAN : CommitAdr(s, n, covered)
  \/ \E n \in Numbers : Merge(n)
  \/ Pull

AdrSpec == AdrInit /\ [][AdrNext]_adrVars

----------------------------------------------------------------------------
AdrTypeOK ==
  /\ adrClaim \in [Claimers -> Numbers \cup {NoNumber}]
  /\ files \subseteq Adr
  /\ commits \subseteq files
  /\ origin \subseteq Numbers
  /\ pc \in [Claimers -> {"idle", "listed", "loaded"}]
  /\ asked \in [Claimers -> Numbers \cup {NoNumber}]
  /\ existing \in [Claimers -> SUBSET Numbers]
  /\ claimed \in [Claimers -> [Claimers -> Numbers \cup {NoNumber}]]
  /\ verdict \in Verdict \cup {NoVerdict}

(* Concurrent claimers never hold one number, although claims are dropped  *)
(* without the lock while others are deciding on what they loaded. (The    *)
(* type invariant is the first part of it.)                                *)
OneHolderPerNumber ==
  /\ AdrTypeOK
  /\ \A s, u \in Claimers : (s # u /\ adrClaim[s] # NoNumber) => adrClaim[s] # adrClaim[u]

(* A session that asks again, for whatever number, keeps the one it has:   *)
(* its claim is never moved from under the ADR it is writing.              *)
NumberIsKept ==
  [][\A s \in Claimers :
       adrClaim[s] # NoNumber => adrClaim'[s] \in {adrClaim[s], NoNumber}]_adrVars

(* "so stale bases still see concurrently-merged ADRs and cannot           *)
(* double-allocate a number": the listing that a claim is decided on has   *)
(* every number that is on origin/main when it is made.                    *)
ListingCoversMain ==
  [][\A s \in Claimers :
       pc[s] = "idle" /\ pc'[s] = "listed" => origin \subseteq existing'[s]]_adrVars

(* "writing a new ADR file requires matching session claim": adr-check     *)
(* says yes to an ADR that is not committed only to the holder of its      *)
(* number.                                                                 *)
NewAdrNeedsClaim ==
  verdict.call = "adr-check" /\ verdict.ok =>
    \/ adrClaim[verdict.by] = verdict.number
    \/ [by |-> verdict.by, number |-> verdict.number] \in commits

(* The "D1 ADR special case" of the hook: the holder of the number may     *)
(* commit the ADR it claimed from the shared worktree.                     *)
HolderMayCommit ==
  verdict.call = "claim-check" /\ adrClaim[verdict.by] = verdict.number => verdict.ok
=============================================================================
