------------------------- MODULE CoordinationStore -------------------------
(***************************************************************************)
(* The claims table of bin/gac/coordination_store.py: a SQLite database    *)
(* outside every checkout, shared by all agents of all clones.  A resource *)
(* (a branch, an ADR number) is claimed by an owner for a time, under a    *)
(* fencing token; rows are never deleted, they only leave state "active".  *)
(*                                                                         *)
(* claim_resource and release_resource are BEGIN IMMEDIATE transactions,   *)
(* so each is one step, taken at the instant its `now` is read under the   *)
(* write lock.  check_fencing is NOT a transaction: it runs two SELECTs in *)
(* autocommit, closes the connection and only then looks at the clock, so  *)
(* it is three steps here and everything may happen in between.            *)
(*                                                                         *)
(* A call that returns None or False rolls back, and changes no state: it  *)
(* is the stuttering step and has no action of its own.                    *)
(***************************************************************************)
EXTENDS Integers, FiniteSets

CONSTANTS
  Owners,     \* sessions that claim: the `owner` column
  Resources,  \* (resource_type, resource_id) pairs
  Checkers,   \* processes running check_fencing
  Ttls,       \* the ttl_hours that callers pass, in ticks
  MaxTime,    \* bound of the model: the last tick of the clock
  MaxToken,   \* bound of the model: tokens issued per resource
  Nobody      \* stands for "no holder" in the abstract lock

ASSUME NobodyAssumption == Nobody \notin Owners
ASSUME TtlsAssumption == Ttls \subseteq Nat \ {0}
ASSUME BoundsAssumption == MaxTime \in Nat /\ MaxToken \in Nat

VARIABLES
  clock,      \* time.time(), which every process reads
  claims,     \* claims[r]: the rows of resource r
  checkPc,    \* where each checker is inside check_fencing
  checkArg,   \* the arguments of its call
  latest,     \* the token its first SELECT returned (0 if there was no row)
  active,     \* the rows with state='active' its second SELECT saw
  verdict     \* the Verdict.ok of its last finished call

vars == <<clock, claims, checkPc, checkArg, latest, active, verdict>>

----------------------------------------------------------------------------
Row == [owner : Owners, token : Nat \ {0},
        state : {"active", "expired", "released"}, expires_at : Nat]
Arg == [resource : Resources, owner : Owners, token : Nat]

TokensIn(rows) == {row.token : row \in rows}
Active(rows) == {row \in rows : row.state = "active"}

(* SELECT MAX(token), 0 when there is no row.                              *)
CurrentToken(rows) ==
  IF rows = {} THEN 0
  ELSE CHOOSE t \in TokensIn(rows) : \A u \in TokensIn(rows) : u <= t

(* Seeded faults, one per property: the operators named Bad... are what the *)
(* next definitions would be after a plausible mistake in the code.  The   *)
(* specification uses none of them.                                        *)
BadExpireAll(rows, now) ==          \* no "AND expires_at <= ?"
  {IF row.state = "active" THEN [row EXCEPT !.state = "expired"] ELSE row :
     row \in rows}
BadRenewEveryRow(rows, until) ==    \* no "WHERE state='active'"
  {[row EXCEPT !.expires_at = until] : row \in rows}
BadReleaseDeletes(rows) ==          \* DELETE instead of UPDATE
  {row \in rows : row.state # "active"}
BadInsertSameToken(rows, o, until) ==   \* no "+ 1"
  rows \cup {[owner |-> o, token |-> CurrentToken(rows),
              state |-> "active", expires_at |-> until]}
BadInsertSkipsTokens(rows, o, until) == \* the token taken from the expiry
  rows \cup {[owner |-> o, token |-> until, state |-> "active", expires_at |-> until]}

(* UPDATE ... SET state='expired' WHERE state='active' AND expires_at<=now *)
Expire(rows, now) ==
  {IF row.state = "active" /\ row.expires_at <= now
     THEN [row EXCEPT !.state = "expired"] ELSE row : row \in rows}

(* UPDATE ... SET expires_at=? WHERE state='active'                        *)
Renew(rows, until) ==
  {IF row.state = "active" THEN [row EXCEPT !.expires_at = until] ELSE row :
     row \in rows}

(* UPDATE ... SET state='released' WHERE id=?, the id of the active row    *)
Release(rows) ==
  {IF row.state = "active" THEN [row EXCEPT !.state = "released"] ELSE row :
     row \in rows}

(* INSERT of an active row under the token COALESCE(MAX(token), 0) + 1     *)
Insert(rows, o, until) ==
  rows \cup {[owner |-> o, token |-> CurrentToken(rows) + 1,
              state |-> "active", expires_at |-> until]}

----------------------------------------------------------------------------
Init ==
  /\ clock = 0
  /\ claims = [r \in Resources |-> {}]
  /\ checkPc = [p \in Checkers |-> "idle"]
  /\ checkArg \in [Checkers -> [resource : Resources, owner : Owners, token : {0}]]
  /\ latest = [p \in Checkers |-> 0]
  /\ active = [p \in Checkers |-> {}]
  /\ verdict = [p \in Checkers |-> FALSE]

Tick ==
  /\ clock < MaxTime
  /\ clock' = clock + 1
  /\ UNCHANGED <<claims, checkPc, checkArg, latest, active, verdict>>

(* claim_resource by the owner of the unexpired active row: the token is   *)
(* kept and only expires_at changes.                                       *)
ClaimAgain(o, r, ttl) ==
  LET rows == Expire(claims[r], clock)
  IN  /\ \E row \in Active(rows) : row.owner = o
      /\ claims' = [claims EXCEPT ![r] = Renew(rows, clock + ttl)]
      /\ UNCHANGED <<clock, checkPc, checkArg, latest, active, verdict>>

(* claim_resource when nothing is active once the lapsed row is expired.   *)
ClaimFresh(o, r, ttl) ==
  LET rows == Expire(claims[r], clock)
  IN  /\ Active(rows) = {}
      /\ CurrentToken(rows) < MaxToken
      /\ claims' = [claims EXCEPT ![r] = Insert(rows, o, clock + ttl)]
      /\ UNCHANGED <<clock, checkPc, checkArg, latest, active, verdict>>

(* release_resource: the owner must match, and the token too when one is   *)
(* passed (token=None is 0 here).  A lapsed row that nobody has expired    *)
(* yet can be released.                                                    *)
ReleaseResource(o, r, token) ==
  /\ \E row \in Active(claims[r]) :
        row.owner = o /\ (token # 0 => row.token = token)
  /\ claims' = [claims EXCEPT ![r] = Release(claims[r])]
  /\ UNCHANGED <<clock, checkPc, checkArg, latest, active, verdict>>

(* check_fencing, first SELECT: ORDER BY token DESC LIMIT 1.  A caller     *)
(* shows a token it was given, or 0 when its claim file holds none.        *)
CheckLatest(p, o, r, token) ==
  /\ checkPc[p] = "idle"
  /\ checkPc' = [checkPc EXCEPT ![p] = "latest"]
  /\ checkArg' = [checkArg EXCEPT
                    ![p] = [resource |-> r, owner |-> o, token |-> token]]
  /\ latest' = [latest EXCEPT ![p] = CurrentToken(claims[r])]
  /\ verdict' = [verdict EXCEPT ![p] = FALSE]
  /\ UNCHANGED <<clock, claims, active>>

(* check_fencing, second SELECT: the active row, expired by time or not.   *)
CheckActive(p) ==
  /\ checkPc[p] = "latest"
  /\ checkPc' = [checkPc EXCEPT ![p] = "active"]
  /\ active' = [active EXCEPT ![p] = Active(claims[checkArg[p].resource])]
  /\ UNCHANGED <<clock, claims, checkArg, latest, verdict>>

BadPassesAnyToken(rows, arg, now) ==    \* the token is not compared
  \E row \in rows : row.expires_at > now /\ row.owner = arg.owner
BadPassesLapsed(rows, arg, now) ==      \* the expiry is not compared
  \E row \in rows : row.owner = arg.owner /\ row.token = arg.token

(* The verdict on what was read, against the clock as it is now.           *)
Passes(rows, arg, now) ==
  \E row \in rows : /\ row.expires_at > now
                    /\ row.owner = arg.owner
                    /\ row.token = arg.token

CheckVerdict(p) ==
  /\ checkPc[p] = "active"
  /\ checkPc' = [checkPc EXCEPT ![p] = "idle"]
  /\ verdict' = [verdict EXCEPT ![p] = Passes(active[p], checkArg[p], clock)]
  /\ active' = [active EXCEPT ![p] = {}]
  /\ UNCHANGED <<clock, claims, checkArg, latest>>

Claim(o, r) == \E ttl \in Ttls : ClaimAgain(o, r, ttl) \/ ClaimFresh(o, r, ttl)

Check(p) ==
  \/ \E o \in Owners, r \in Resources :
        \E token \in TokensIn(claims[r]) \cup {0} : CheckLatest(p, o, r, token)
  \/ CheckActive(p)
  \/ CheckVerdict(p)

Next ==
  \/ Tick
  \/ \E o \in Owners, r \in Resources :
        \/ Claim(o, r)
        \/ \E token \in TokensIn(claims[r]) \cup {0} : ReleaseResource(o, r, token)
  \/ \E p \in Checkers : Check(p)

Spec == Init /\ [][Next]_vars

----------------------------------------------------------------------------
TypeOK ==
  /\ clock \in Nat
  /\ claims \in [Resources -> SUBSET Row]
  /\ checkPc \in [Checkers -> {"idle", "latest", "active"}]
  /\ checkArg \in [Checkers -> Arg]
  /\ latest \in [Checkers -> Nat]
  /\ active \in [Checkers -> SUBSET Row]
  /\ verdict \in [Checkers -> BOOLEAN]

(* Neither constraint of the schema, UNIQUE(resource, token) and the       *)
(* partial unique index claims_active, is ever what stops a claim: the     *)
(* rows that claim_resource leaves behind, over any history of lapses,     *)
(* releases and reclaims, keep one row per token and one active row.       *)
ConstraintsNeverBite ==
  \A r \in Resources : \A a, b \in claims[r] :
    (a.token = b.token \/ {a.state, b.state} = {"active"}) => a = b

(* The active claim is always the newest one, and no token was skipped.    *)
(* It is why check_fencing may take the active row for the current one and *)
(* why a superseded token can never be the active token again.             *)
ActiveIsNewest ==
  \A r \in Resources :
    /\ TokensIn(claims[r]) = 1 .. CurrentToken(claims[r])
    /\ \A row \in Active(claims[r]) : row.token = CurrentToken(claims[r])

(* A verdict that passes reports, as its current_token, the very token it  *)
(* passed, although the two were read in different snapshots.              *)
OkReportsCurrent ==
  \A p \in Checkers : verdict[p] => latest[p] = checkArg[p].token

(* No other agent can take a claim whose time has not come: a row that is  *)
(* active and unexpired either stays active, under the same owner, or was  *)
(* released; it is never expired and never re-owned.                       *)
LiveClaimIsSafe ==
  [][\A r \in Resources : \A row \in Active(claims[r]) :
       row.expires_at > clock =>
         \E now \in claims'[r] : /\ now.token = row.token
                                 /\ now.owner = row.owner
                                 /\ now.state \in {"active", "released"}]_vars

(* Fencing is final: a token that has been retired (released or expired)   *)
(* stays retired, with its owner, for good.                                *)
RetiredForGood ==
  [][\A r \in Resources : \A row \in claims[r] :
       row.state # "active" => row \in claims'[r]]_vars

(* The race inside check_fencing is harmless to others.  When a check      *)
(* passes, on rows read earlier, the claim it names still stands, or its   *)
(* own owner ended it meanwhile: by releasing it, or by claiming again     *)
(* with a nearer expiry than the one the check had read.  Another agent's  *)
(* claim can never make a passing verdict wrong.                           *)
OkVerdictIsJustified ==
  [][\A p \in Checkers : verdict'[p] /\ ~verdict[p] =>
       \E row \in claims[checkArg[p].resource] :
         /\ row.token = checkArg[p].token
         /\ row.owner = checkArg[p].owner
         /\ \/ row.state = "active" /\ row.expires_at > clock
            \/ row.state = "released"
            \/ \E seen \in active[p] : row.expires_at < seen.expires_at]_vars

(* claim_resource by the same owner is said to extend the claim ("顺延 TTL"); *)
(* a claim that is active before and after a step never expires earlier.   *)
RenewalExtends ==
  [][\A r \in Resources : \A row \in Active(claims[r]) :
       \A now \in Active(claims'[r]) :
         now.token = row.token => now.expires_at >= row.expires_at]_vars

(* The claims table keeps the promise of a fencing lock: the holder is the *)
(* owner of the active row, the fence is MAX(token).                       *)
HolderOf(rows) ==
  IF Active(rows) = {} THEN Nobody
  ELSE (CHOOSE row \in rows : row.state = "active").owner

Lock == INSTANCE FencedLock WITH
  Locks <- Resources, Holders <- Owners,
  holder <- [r \in Resources |-> HolderOf(claims[r])],
  fence <- [r \in Resources |-> CurrentToken(claims[r])]

KeepsFencedLock == Lock!LockSpec
=============================================================================
