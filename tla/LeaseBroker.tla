---------------------------- MODULE LeaseBroker ----------------------------
(***************************************************************************)
(* lib/single_writer_lease_broker.py: task leases with epochs, and a ledger *)
(* of the transitions that workers committed under them, in a SQLite file. *)
(* A broker is one SingleWriterLeaseBroker object, that is, one connection *)
(* to the file; several may be open (one per process, or an old one beside *)
(* the one that replaces it).                                              *)
(*                                                                         *)
(* Each call is a `with self._conn` block.  Python's sqlite3 opens the     *)
(* transaction at the first INSERT only: the SELECTs before it run in      *)
(* autocommit, so each is a step of its own and other brokers may write in *)
(* between.  A call that raises before its INSERT changes nothing; one     *)
(* that raises at once is the stuttering step.                             *)
(***************************************************************************)
EXTENDS Integers, Sequences, FiniteSets

CONSTANTS
  Brokers,    \* the open connections
  Tasks, Workers,
  Paths,      \* what an allowed_write_scopes list may name
  Keys,       \* idempotency keys
  Ttls,       \* the ttl_seconds that callers pass, in ticks
  Clearances, \* subset of BOOLEAN: FALSE is an L2 or L3 request without approval_ref
  Nobody,     \* the owner of a task that has no lease row
  MaxTime,    \* bound of the model: the last tick of the clock
  MaxEpoch    \* bound of the model: leases granted per task

ASSUME BrokerNobody == Nobody \notin Workers
ASSUME BrokerTtls == Ttls \subseteq Nat \ {0}
ASSUME BrokerClearances == Clearances \subseteq BOOLEAN
ASSUME BrokerBounds == MaxTime \in Nat /\ MaxEpoch \in Nat

VARIABLES
  clock,      \* time.time()
  leases,     \* task_leases; a task with no row has epoch 0
  ledger,     \* idempotency_ledger, in the order of its rowids
  capsules,   \* the signed capsules that acquire_lease has returned
  call        \* what each broker is doing

vars == <<clock, leases, ledger, capsules, call>>

----------------------------------------------------------------------------
Lease == [epoch : Nat, owner : Workers \cup {Nobody},
          expires_at : Nat, scopes : SUBSET Paths]
Capsule == [task : Tasks, worker : Workers, epoch : Nat \ {0},
            expires_at : Nat, cleared : BOOLEAN]
Entry == [key : Keys, task : Tasks, worker : Workers, epoch : Nat \ {0}]

(* A call in progress, by the statement it will run next.                  *)
Acquiring == [step : {"epoch", "upsert"}, task : Tasks, worker : Workers,
              epoch : Nat, expires_at : Nat, cleared : BOOLEAN,
              scopes : SUBSET Paths]
Replying == [step : {"reply"}, capsule : Capsule]
Committing == [step : {"lease", "insert"}, capsule : Capsule, key : Keys]
Idle == [step |-> "idle"]

NoLease == [epoch |-> 0, owner |-> Nobody, expires_at |-> 0, scopes |-> {}]

Begin(b, c) == call[b] = Idle /\ call' = [call EXCEPT ![b] = c]
Advance(b, step) == call' = [call EXCEPT ![b].step = step]
Return(b) == call' = [call EXCEPT ![b] = Idle]

KeyUsed(key) == \E i \in DOMAIN ledger : ledger[i].key = key

(* Seeded faults: the operators named Bad... are what the next definition   *)
(* would be after a plausible mistake in the code.  The specification uses *)
(* none of them.                                                           *)
BadCurrentOwnerOnly(c) ==       \* the epochs are not compared
  leases[c.task].owner = c.worker
BadConflictLapsed(t, scopes) == \* "expires_at < ?"
  \E other \in Tasks \ {t} : /\ leases[other].expires_at < clock
                             /\ leases[other].scopes \cap scopes # {}
BadVerifiedNoApproval(c) ==     \* approval_ref is not asked for
  c.expires_at > clock

(* The capsule names the current epoch and owner of its task's lease.      *)
Current(c) ==
  /\ leases[c.task].epoch = c.epoch
  /\ leases[c.task].owner = c.worker

(* Another task holds an unexpired lease on one of these paths.            *)
Conflict(t, scopes) ==
  \E other \in Tasks \ {t} : /\ leases[other].expires_at > clock
                             /\ leases[other].scopes \cap scopes # {}

(* verify_capsule of a capsule that the signer issued: not expired, and    *)
(* approved where its level asks for it.                                   *)
Verified(c) == c.expires_at > clock /\ c.cleared

----------------------------------------------------------------------------
Init ==
  /\ clock = 0
  /\ leases = [t \in Tasks |-> NoLease]
  /\ ledger = <<>>
  /\ capsules = {}
  /\ call = [b \in Brokers |-> Idle]

Tick ==
  /\ clock < MaxTime
  /\ clock' = clock + 1
  /\ UNCHANGED <<leases, ledger, capsules, call>>

(* acquire_lease, up to the SELECT for overlapping scopes (which is left   *)
(* out when no scopes are asked for; nothing overlaps them).  Whoever      *)
(* holds the task itself is not looked at: a live lease is taken over.     *)
AcquireScan(b, t, w, scopes, ttl, cleared) ==
  /\ ~Conflict(t, scopes)
  /\ leases[t].epoch < MaxEpoch
  /\ Begin(b, [step |-> "epoch", task |-> t, worker |-> w, epoch |-> 0,
               expires_at |-> clock + ttl, cleared |-> cleared,
               scopes |-> scopes])
  /\ UNCHANGED <<clock, leases, ledger, capsules>>

BadEpochNotRaised(b) ==         \* no "+ 1"
  /\ call[b].step = "epoch"
  /\ call' = [call EXCEPT ![b].step = "upsert",
                          ![b].epoch = leases[call[b].task].epoch]
  /\ UNCHANGED <<clock, leases, ledger, capsules>>
BadEpochRestarts(b) ==          \* a lapsed lease counts as none
  LET old == leases[call[b].task]
  IN  /\ call[b].step = "epoch"
      /\ call' = [call EXCEPT ![b].step = "upsert",
                              ![b].epoch = IF old.expires_at <= clock THEN 1
                                           ELSE old.epoch + 1]
      /\ UNCHANGED <<clock, leases, ledger, capsules>>

(* acquire_lease: SELECT lease_epoch, plus one, or 1 when there is no row. *)
AcquireEpoch(b) ==
  /\ call[b].step = "epoch"
  /\ call' = [call EXCEPT ![b].step = "upsert",
                          ![b].epoch = leases[call[b].task].epoch + 1]
  /\ UNCHANGED <<clock, leases, ledger, capsules>>

(* acquire_lease: the upsert, and the commit of its transaction.           *)
Granted(c) ==
  [task |-> c.task, worker |-> c.worker, epoch |-> c.epoch,
   expires_at |-> c.expires_at, cleared |-> c.cleared]

BadUpsertKeepsEpoch(b) ==       \* DO UPDATE without lease_epoch
  LET c == call[b]
      old == leases[c.task]
  IN  /\ c.step = "upsert"
      /\ leases' = [leases EXCEPT
                      ![c.task] = [epoch |-> IF old = NoLease THEN c.epoch ELSE old.epoch,
                                   owner |-> c.worker,
                                   expires_at |-> c.expires_at,
                                   scopes |-> c.scopes]]
      /\ call' = [call EXCEPT ![b] = [step |-> "reply", capsule |-> Granted(c)]]
      /\ UNCHANGED <<clock, ledger, capsules>>

AcquireUpsert(b) ==
  LET c == call[b]
  IN  /\ c.step = "upsert"
      /\ leases' = [leases EXCEPT
                      ![c.task] = [epoch |-> c.epoch, owner |-> c.worker,
                                   expires_at |-> c.expires_at,
                                   scopes |-> c.scopes]]
      /\ call' = [call EXCEPT ![b] = [step |-> "reply", capsule |-> Granted(c)]]
      /\ UNCHANGED <<clock, ledger, capsules>>

(* acquire_lease: the signed capsule reaches the caller.                   *)
AcquireReply(b) ==
  /\ call[b].step = "reply"
  /\ capsules' = capsules \cup {call[b].capsule}
  /\ Return(b)
  /\ UNCHANGED <<clock, leases, ledger>>

(* commit_transition: verify_capsule, then the SELECT on the ledger.  A    *)
(* key that is in the ledger ends the call there, as IDEMPOTENT_NOOP when   *)
(* the task, transition and digest are the same and as a conflict when     *)
(* not; neither changes anything, so transitions and digests are left out. *)
CommitLedger(b, capsule, key) ==
  /\ Verified(capsule)
  /\ ~KeyUsed(key)
  /\ Begin(b, [step |-> "lease", capsule |-> capsule, key |-> key])
  /\ UNCHANGED <<clock, leases, ledger, capsules>>

(* commit_transition: SELECT lease_epoch, active_owner; a capsule that is  *)
(* not current is fenced.                                                  *)
CommitLease(b) ==
  /\ call[b].step = "lease"
  /\ IF Current(call[b].capsule) THEN Advance(b, "insert") ELSE Return(b)
  /\ UNCHANGED <<clock, leases, ledger, capsules>>

(* commit_transition: INSERT into the ledger; the primary key refuses a    *)
(* key that was used since it was looked up (sqlite3.IntegrityError).      *)
CommitInsert(b) ==
  LET c == call[b]
  IN  /\ c.step = "insert"
      /\ ~KeyUsed(c.key)
      /\ ledger' = Append(ledger,
                     [key |-> c.key, task |-> c.capsule.task,
                      worker |-> c.capsule.worker, epoch |-> c.capsule.epoch])
      /\ Return(b)
      /\ UNCHANGED <<clock, leases, capsules>>

(* The call ends with an error, or its process with the call: the file     *)
(* keeps what was committed.  A capsule not yet returned is lost.          *)
Abandon(b) ==
  /\ call[b] # Idle
  /\ Return(b)
  /\ UNCHANGED <<clock, leases, ledger, capsules>>

Acquire(b) ==
  \/ \E t \in Tasks, w \in Workers, scopes \in SUBSET Paths,
        ttl \in Ttls, cleared \in Clearances :
        AcquireScan(b, t, w, scopes, ttl, cleared)
  \/ AcquireEpoch(b)
  \/ AcquireUpsert(b)
  \/ AcquireReply(b)

Commit(b) ==
  \/ \E capsule \in capsules, key \in Keys : CommitLedger(b, capsule, key)
  \/ CommitLease(b)
  \/ CommitInsert(b)

Next == Tick \/ \E b \in Brokers : Acquire(b) \/ Commit(b) \/ Abandon(b)

Spec == Init /\ [][Next]_vars

----------------------------------------------------------------------------
TypeOK ==
  /\ clock \in Nat
  /\ leases \in [Tasks -> Lease]
  /\ ledger \in Seq(Entry)
  /\ capsules \in SUBSET Capsule
  /\ call \in [Brokers -> {Idle} \cup Acquiring \cup Replying \cup Committing]

(* "Disjoint Write Scopes": two tasks whose leases are both live never     *)
(* share a path.                                                           *)
LiveScopesDisjoint ==
  \A t, u \in Tasks :
    /\ t # u
    /\ leases[t].expires_at > clock
    /\ leases[u].expires_at > clock
    => leases[t].scopes \cap leases[u].scopes = {}

(* No stale write: the ledger holds the transitions of a task in the order *)
(* of their tenures, and one tenure has one writer.  A worker that lost    *)
(* the lease never gets a transition in after one of its successor.        *)
WritesInTenureOrder ==
  \A i, j \in DOMAIN ledger :
    (i < j /\ ledger[i].task = ledger[j].task) =>
      \/ ledger[i].epoch < ledger[j].epoch
      \/ /\ ledger[i].epoch = ledger[j].epoch
         /\ ledger[i].worker = ledger[j].worker

(* An epoch is handed out once: of two capsules for a task, whoever asked, *)
(* the epochs differ.                                                      *)
OneCapsulePerEpoch ==
  \A c, d \in capsules : (c.task = d.task /\ c.epoch = d.epoch) => c = d

(* A key is committed once, whatever the replays and their interleaving,   *)
(* and only under a capsule that was issued and approved.                  *)
CommittedOnce ==
  \A i \in DOMAIN ledger :
    /\ \A j \in DOMAIN ledger : ledger[i].key = ledger[j].key => i = j
    /\ \E c \in capsules : /\ c.cleared
                           /\ c.task = ledger[i].task
                           /\ c.worker = ledger[i].worker
                           /\ c.epoch = ledger[i].epoch

(* lease_epoch of a task never goes back.                                  *)
EpochsGrow ==
  [][\A t \in Tasks : leases'[t].epoch >= leases[t].epoch]_vars

(* The leases keep the promise of a fencing lock.                          *)
Lock == INSTANCE FencedLock WITH
  Locks <- Tasks, Holders <- Workers,
  holder <- [t \in Tasks |-> leases[t].owner],
  fence <- [t \in Tasks |-> leases[t].epoch]

KeepsFencedLock == Lock!LockSpec
=============================================================================
