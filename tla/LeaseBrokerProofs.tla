------------------------- MODULE LeaseBrokerProofs -------------------------
(***************************************************************************)
(* Proofs about LeaseBroker, for every value of its constants: first what  *)
(* holds for any number of connections to the file, then what holds when   *)
(* there is one.  The step from one to several is what the violation runs  *)
(* of LeaseBrokerMC show to fail.                                          *)
(***************************************************************************)
EXTENDS LeaseBroker, TLAPS

----------------------------------------------------------------------------
(* Any number of brokers.                                                  *)

(* What a call carries, at the statements where it matters.                *)
CallsGood ==
  \A b \in Brokers :
    /\ call[b].step = "upsert" => call[b].epoch # 0
    /\ call[b].step \in {"lease", "insert"} =>
         call[b].capsule \in capsules /\ call[b].capsule.cleared

AnyInv == TypeOK /\ CallsGood /\ CommittedOnce

(* The step of a call tells its kind.                                      *)
LEMMA CallKinds ==
  ASSUME TypeOK, NEW b \in Brokers
  PROVE  /\ call[b].step \in {"idle", "epoch", "upsert", "reply", "lease", "insert"}
         /\ call[b].step = "idle" <=> call[b] = Idle
         /\ call[b].step \in {"epoch", "upsert"} <=> call[b] \in Acquiring
         /\ call[b].step = "reply" <=> call[b] \in Replying
         /\ call[b].step \in {"lease", "insert"} <=> call[b] \in Committing
<1>1. call[b] \in {Idle} \cup Acquiring \cup Replying \cup Committing
  BY DEF TypeOK
<1>2. /\ Idle.step = "idle"
      /\ \A c \in Acquiring : c.step \in {"epoch", "upsert"}
      /\ \A c \in Replying : c.step = "reply"
      /\ \A c \in Committing : c.step \in {"lease", "insert"}
  BY DEF Idle, Acquiring, Replying, Committing
<1>. QED  BY <1>1, <1>2

(* What the ledger and the set of capsules hold.                           *)
LEMMA Contents ==
  ASSUME TypeOK
  PROVE  /\ \A i \in DOMAIN ledger : ledger[i].task \in Tasks /\ ledger[i].epoch \in Nat
         /\ \A c \in capsules : c.task \in Tasks /\ c.epoch \in Nat
<1>1. ledger \in Seq(Entry) /\ capsules \subseteq Capsule
  BY DEF TypeOK
<1>2. \A i \in DOMAIN ledger : ledger[i] \in Entry
  BY <1>1
<1>3. \A e \in Entry : e.task \in Tasks /\ e.epoch \in Nat
  BY DEF Entry
<1>4. \A c \in Capsule : c.task \in Tasks /\ c.epoch \in Nat
  BY DEF Capsule
<1>. QED  BY <1>1, <1>2, <1>3, <1>4

(* The initial state.                                                      *)
LEMMA InitAny == Init => AnyInv
<1>. SUFFICES ASSUME Init PROVE AnyInv
  OBVIOUS
<1>1. TypeOK
  BY DEF Init, TypeOK, NoLease, Lease, Idle
<1>2. CallsGood
  BY DEF Init, CallsGood, Idle
<1>3. CommittedOnce
  BY DEF Init, CommittedOnce
<1>. QED  BY <1>1, <1>2, <1>3 DEF AnyInv

(* A call that ends or moves on leaves the others alone.                   *)
LEMMA ScanStep ==
  ASSUME AnyInv, NEW b \in Brokers, NEW t \in Tasks, NEW w \in Workers,
         NEW scopes \in SUBSET Paths, NEW ttl \in Ttls, NEW cleared \in Clearances,
         AcquireScan(b, t, w, scopes, ttl, cleared)
  PROVE  TypeOK' /\ CallsGood'
<1>. DEFINE c == [step |-> "epoch", task |-> t, worker |-> w, epoch |-> 0,
                  expires_at |-> clock + ttl, cleared |-> cleared,
                  scopes |-> scopes]
<1>1. call' = [call EXCEPT ![b] = c] /\ UNCHANGED <<clock, leases, ledger, capsules>>
  BY DEF AcquireScan, Begin
<1>2. clock + ttl \in Nat /\ cleared \in BOOLEAN
  BY BrokerTtls, BrokerClearances DEF AnyInv, TypeOK
<1>3. c \in Acquiring
  BY <1>2 DEF Acquiring
<1>4. TypeOK'
  BY <1>1, <1>3 DEF AnyInv, TypeOK
<1>5. CallsGood'
  BY <1>1 DEF AnyInv, TypeOK, CallsGood
<1>. QED  BY <1>4, <1>5

LEMMA EpochStep ==
  ASSUME AnyInv, NEW b \in Brokers, AcquireEpoch(b)
  PROVE  TypeOK' /\ CallsGood'
<1>. DEFINE c == [call[b] EXCEPT !.step = "upsert", !.epoch = leases[call[b].task].epoch + 1]
<1>1. call[b] \in Acquiring
  BY CallKinds DEF AnyInv, AcquireEpoch
<1>2. leases[call[b].task].epoch \in Nat
  BY <1>1 DEF Acquiring, AnyInv, TypeOK, Lease
<1>3. c \in Acquiring /\ c.step = "upsert" /\ c.epoch # 0
  <2>. DEFINE d == [call[b] EXCEPT !.step = "upsert"]
              n == leases[call[b].task].epoch + 1
  <2>1. d \in Acquiring /\ d.step = "upsert" /\ n \in Nat /\ n # 0
    BY <1>1, <1>2 DEF Acquiring
  <2>. HIDE DEF d, n
  <2>2. /\ [d EXCEPT !.epoch = n] \in Acquiring
        /\ [d EXCEPT !.epoch = n].step = "upsert"
        /\ [d EXCEPT !.epoch = n].epoch # 0
    BY <2>1 DEF Acquiring
  <2>. QED  BY <2>2 DEF d, n
<1>4. call' = [call EXCEPT ![b] = c] /\ UNCHANGED <<clock, leases, ledger, capsules>>
  BY DEF AcquireEpoch, AnyInv, TypeOK
<1>. HIDE DEF c
<1>5. TypeOK'
  BY <1>3, <1>4 DEF AnyInv, TypeOK
<1>6. CallsGood'
  BY <1>3, <1>4 DEF AnyInv, TypeOK, CallsGood
<1>. QED  BY <1>5, <1>6

LEMMA UpsertStep ==
  ASSUME AnyInv, NEW b \in Brokers, AcquireUpsert(b)
  PROVE  TypeOK' /\ CallsGood'
<1>. DEFINE c == call[b]
            lease == [epoch |-> c.epoch, owner |-> c.worker,
                      expires_at |-> c.expires_at, scopes |-> c.scopes]
<1>1. c \in Acquiring /\ c.epoch # 0
  BY CallKinds DEF AnyInv, AcquireUpsert, CallsGood
<1>2. lease \in Lease /\ Granted(c) \in Capsule
  BY <1>1 DEF Acquiring, Lease, Granted, Capsule
<1>3. /\ leases' = [leases EXCEPT ![c.task] = lease]
      /\ call' = [call EXCEPT ![b] = [step |-> "reply", capsule |-> Granted(c)]]
      /\ UNCHANGED <<clock, ledger, capsules>>
  BY DEF AcquireUpsert
<1>4. [step |-> "reply", capsule |-> Granted(c)] \in Replying
  BY <1>2 DEF Replying
<1>5. TypeOK'
  BY <1>2, <1>3, <1>4 DEF AnyInv, TypeOK
<1>6. CallsGood'
  BY <1>3 DEF AnyInv, TypeOK, CallsGood
<1>. QED  BY <1>5, <1>6

LEMMA ReplyStep ==
  ASSUME AnyInv, NEW b \in Brokers, AcquireReply(b)
  PROVE  TypeOK' /\ CallsGood'
<1>1. call[b] \in Replying
  BY CallKinds DEF AnyInv, AcquireReply
<1>2. call[b].capsule \in Capsule
  BY <1>1 DEF Replying
<1>3. /\ capsules' = capsules \cup {call[b].capsule}
      /\ call' = [call EXCEPT ![b] = Idle]
      /\ UNCHANGED <<clock, leases, ledger>>
  BY DEF AcquireReply, Return
<1>4. TypeOK'
  BY <1>2, <1>3 DEF AnyInv, TypeOK
<1>5. CallsGood'
  BY <1>3 DEF AnyInv, TypeOK, CallsGood, Idle
<1>. QED  BY <1>4, <1>5

LEMMA LedgerStep ==
  ASSUME AnyInv, NEW b \in Brokers, NEW capsule \in capsules, NEW key \in Keys,
         CommitLedger(b, capsule, key)
  PROVE  TypeOK' /\ CallsGood'
<1>. DEFINE c == [step |-> "lease", capsule |-> capsule, key |-> key]
<1>1. call' = [call EXCEPT ![b] = c] /\ UNCHANGED <<clock, leases, ledger, capsules>>
  BY DEF CommitLedger, Begin
<1>2. c \in Committing /\ capsule.cleared
  BY DEF AnyInv, TypeOK, Committing, CommitLedger, Verified
<1>3. TypeOK'
  BY <1>1, <1>2 DEF AnyInv, TypeOK
<1>4. CallsGood'
  BY <1>1, <1>2 DEF AnyInv, TypeOK, CallsGood
<1>. QED  BY <1>3, <1>4

LEMMA LeaseStep ==
  ASSUME AnyInv, NEW b \in Brokers, CommitLease(b)
  PROVE  TypeOK' /\ CallsGood'
<1>. DEFINE c == [call[b] EXCEPT !.step = "insert"]
<1>1. call[b] \in Committing
  BY CallKinds DEF AnyInv, CommitLease
<1>2. c \in Committing /\ c.capsule = call[b].capsule /\ c.step = "insert"
  BY <1>1 DEF Committing
<1>3. /\ call' = [call EXCEPT ![b] = c] \/ call' = [call EXCEPT ![b] = Idle]
      /\ UNCHANGED <<clock, leases, ledger, capsules>>
  BY DEF CommitLease, Advance, Return, AnyInv, TypeOK
<1>4. call[b].capsule \in capsules /\ call[b].capsule.cleared
  BY DEF AnyInv, CallsGood, CommitLease
<1>. HIDE DEF c
<1>5. TypeOK'
  BY <1>2, <1>3 DEF AnyInv, TypeOK
<1>6. CallsGood'
  BY <1>2, <1>3, <1>4 DEF AnyInv, TypeOK, CallsGood, Idle
<1>. QED  BY <1>5, <1>6

LEMMA InsertStep ==
  ASSUME AnyInv, NEW b \in Brokers, CommitInsert(b)
  PROVE  TypeOK' /\ CallsGood' /\ CommittedOnce'
<1>. DEFINE c == call[b]
            entry == [key |-> c.key, task |-> c.capsule.task,
                      worker |-> c.capsule.worker, epoch |-> c.capsule.epoch]
<1>1. c \in Committing /\ c.capsule \in capsules /\ c.capsule.cleared
  BY CallKinds DEF AnyInv, CallsGood, CommitInsert
<1>2. entry \in Entry
  BY <1>1 DEF Committing, Capsule, Entry
<1>3. /\ ~KeyUsed(c.key)
      /\ ledger' = Append(ledger, entry)
      /\ call' = [call EXCEPT ![b] = Idle]
      /\ UNCHANGED <<clock, leases, capsules>>
  BY DEF CommitInsert, Return
<1>4. TypeOK'
  BY <1>2, <1>3 DEF AnyInv, TypeOK
<1>5. CallsGood'
  BY <1>3 DEF AnyInv, TypeOK, CallsGood, Idle
<1>6. /\ DOMAIN ledger' = DOMAIN ledger \cup {Len(ledger) + 1}
      /\ \A i \in DOMAIN ledger : ledger'[i] = ledger[i] /\ i # Len(ledger) + 1
      /\ ledger'[Len(ledger) + 1] = entry
  BY <1>2, <1>3 DEF AnyInv, TypeOK
<1>7. \A i \in DOMAIN ledger : ledger[i].key # entry.key
  BY <1>3 DEF KeyUsed
<1>8. entry.task = c.capsule.task /\ entry.worker = c.capsule.worker /\ entry.epoch = c.capsule.epoch
  OBVIOUS
<1>. HIDE DEF entry
<1>9. CommittedOnce'
  BY <1>1, <1>3, <1>6, <1>7, <1>8 DEF AnyInv, CommittedOnce
<1>. QED  BY <1>4, <1>5, <1>9

LEMMA AbandonStep ==
  ASSUME AnyInv, NEW b \in Brokers, Abandon(b)
  PROVE  TypeOK' /\ CallsGood'
<1>1. call' = [call EXCEPT ![b] = Idle] /\ UNCHANGED <<clock, leases, ledger, capsules>>
  BY DEF Abandon, Return
<1>. QED  BY <1>1 DEF AnyInv, TypeOK, CallsGood, Idle

(* The ledger is written by one statement only, and capsules are kept.     *)
LEMMA LedgerKept ==
  ASSUME AnyInv, UNCHANGED ledger, capsules \subseteq capsules'
  PROVE  CommittedOnce'
BY DEF AnyInv, CommittedOnce

LEMMA NextAny == AnyInv /\ [Next]_vars => AnyInv'
<1>. SUFFICES ASSUME AnyInv, [Next]_vars PROVE AnyInv'
  OBVIOUS
<1>1. CASE Tick
  <2>1. TypeOK' /\ CallsGood'
    BY <1>1 DEF Tick, AnyInv, TypeOK, CallsGood
  <2>. QED  BY <1>1, <2>1, LedgerKept DEF Tick, AnyInv
<1>2. ASSUME NEW b \in Brokers, Acquire(b) PROVE AnyInv'
  <2>1. TypeOK' /\ CallsGood'
    BY <1>2, ScanStep, EpochStep, UpsertStep, ReplyStep DEF Acquire
  <2>2. UNCHANGED ledger /\ capsules \subseteq capsules'
    BY <1>2 DEF Acquire, AcquireScan, AcquireEpoch, AcquireUpsert, AcquireReply
  <2>. QED  BY <2>1, <2>2, LedgerKept DEF AnyInv
<1>3. ASSUME NEW b \in Brokers, Commit(b) PROVE AnyInv'
  <2>1. CASE CommitInsert(b)
    BY <2>1, InsertStep DEF AnyInv
  <2>2. CASE ~CommitInsert(b)
    <3>1. TypeOK' /\ CallsGood'
      BY <1>3, <2>2, LedgerStep, LeaseStep DEF Commit
    <3>2. UNCHANGED <<ledger, capsules>>
      BY <1>3, <2>2 DEF Commit, CommitLedger, CommitLease
    <3>. QED  BY <3>1, <3>2, LedgerKept DEF AnyInv
  <2>. QED  BY <2>1, <2>2
<1>4. ASSUME NEW b \in Brokers, Abandon(b) PROVE AnyInv'
  <2>1. TypeOK' /\ CallsGood'
    BY <1>4, AbandonStep
  <2>. QED  BY <1>4, <2>1, LedgerKept DEF Abandon, AnyInv
<1>5. CASE UNCHANGED vars
  BY <1>5 DEF vars, AnyInv, TypeOK, CallsGood, CommittedOnce
<1>. QED  BY <1>1, <1>2, <1>3, <1>4, <1>5 DEF Next

THEOREM AnyInductive == Spec => []AnyInv
BY InitAny, NextAny, PTL DEF Spec

(* Every reachable state of the broker is well typed: lib/                 *)
(* single_writer_lease_broker.py only stores what its columns declare.     *)
THEOREM TypeCorrect == Spec => []TypeOK
BY AnyInductive, PTL DEF AnyInv

(* commit_transition: however many connections replay it, a key is in the  *)
(* ledger once, and only under a capsule that was issued and approved.     *)
THEOREM KeysCommitOnce == Spec => []CommittedOnce
BY AnyInductive, PTL DEF AnyInv
----------------------------------------------------------------------------
(* One broker on the file.                                                 *)

(* Nothing of a task is ahead of its lease: no capsule and no ledger entry *)
(* carries a later epoch, nor the current one under another worker.        *)
Within(t, w, epoch) ==
  /\ epoch <= leases[t].epoch
  /\ epoch = leases[t].epoch => w = leases[t].owner

CapsulesWithin == \A c \in capsules : Within(c.task, c.worker, c.epoch)

LedgerWithin ==
  \A i \in DOMAIN ledger :
    Within(ledger[i].task, ledger[i].worker, ledger[i].epoch)

(* What the one call in progress knows is still so: nobody else writes.    *)
CallUpToDate(b) ==
  LET c == call[b]
  IN  /\ c.step \in {"epoch", "upsert"} => ~Conflict(c.task, c.scopes)
      /\ c.step = "upsert" => c.epoch = leases[c.task].epoch + 1
      /\ c.step = "reply" =>
           /\ Current(c.capsule)
           /\ \A d \in capsules : d.task = c.capsule.task => d.epoch < c.capsule.epoch
      /\ c.step = "insert" => Current(c.capsule)

OneInv(b) ==
  /\ CapsulesWithin
  /\ LedgerWithin
  /\ CallUpToDate(b)
  /\ LiveScopesDisjoint
  /\ WritesInTenureOrder
  /\ OneCapsulePerEpoch

LEMMA InitOne ==
  ASSUME NEW b \in Brokers, Init
  PROVE  OneInv(b)
<1>1. CallUpToDate(b)
  BY DEF Init, CallUpToDate, Idle
<1>. QED
  BY <1>1 DEF Init, OneInv, CapsulesWithin, LedgerWithin, LiveScopesDisjoint,
              WritesInTenureOrder, OneCapsulePerEpoch, NoLease

(* Time only makes leases lapse.                                           *)
LEMMA TickOne ==
  ASSUME AnyInv, NEW b \in Brokers, OneInv(b), Tick
  PROVE  OneInv(b)'
<1>1. clock \in Nat /\ clock' = clock + 1 /\ UNCHANGED <<leases, ledger, capsules, call>>
  BY DEF AnyInv, TypeOK, Tick
<1>2. \A t \in Tasks : leases[t].expires_at \in Nat
  BY DEF AnyInv, TypeOK, Lease
<1>3. \A t \in Tasks : leases[t].expires_at > clock' => leases[t].expires_at > clock
  BY <1>1, <1>2
<1>4. LiveScopesDisjoint'
  BY <1>1, <1>3 DEF OneInv, LiveScopesDisjoint
<1>5. \A t, scopes : ~Conflict(t, scopes) => ~Conflict(t, scopes)'
  BY <1>1, <1>3 DEF Conflict
<1>6. CallUpToDate(b)'
  BY <1>1, <1>5 DEF OneInv, CallUpToDate, Current
<1>7. (CapsulesWithin /\ LedgerWithin /\ WritesInTenureOrder /\ OneCapsulePerEpoch)'
  BY <1>1 DEF OneInv, CapsulesWithin, LedgerWithin, WritesInTenureOrder,
              OneCapsulePerEpoch, Within
<1>. QED  BY <1>4, <1>6, <1>7 DEF OneInv

(* Steps that only move the call on: what they find must be so.            *)
LEMMA QuietOne ==
  ASSUME NEW b \in Brokers, OneInv(b), UNCHANGED <<clock, leases, ledger, capsules>>,
         CallUpToDate(b)'
  PROVE  OneInv(b)'
BY DEF OneInv, CapsulesWithin, LedgerWithin, LiveScopesDisjoint,
       WritesInTenureOrder, OneCapsulePerEpoch, Within

(* A new lease: its scopes overlap no live one, its epoch is beyond all    *)
(* capsules and ledger entries of the task.                                *)
LEMMA UpsertOne ==
  ASSUME AnyInv, NEW b \in Brokers, OneInv(b), AcquireUpsert(b)
  PROVE  OneInv(b)'
<1>. DEFINE c == call[b]
            lease == [epoch |-> c.epoch, owner |-> c.worker,
                      expires_at |-> c.expires_at, scopes |-> c.scopes]
<1>1. c \in Acquiring /\ c.step = "upsert" /\ c.task \in Tasks
  BY CallKinds DEF AnyInv, AcquireUpsert, Acquiring
<1>2. /\ leases' = [leases EXCEPT ![c.task] = lease]
      /\ call' = [call EXCEPT ![b] = [step |-> "reply", capsule |-> Granted(c)]]
      /\ UNCHANGED <<clock, ledger, capsules>>
  BY DEF AcquireUpsert
<1>3. /\ leases'[c.task] = lease
      /\ \A t \in Tasks \ {c.task} : leases'[t] = leases[t]
  BY <1>1, <1>2 DEF AnyInv, TypeOK
<1>4. leases[c.task].epoch \in Nat /\ c.epoch = leases[c.task].epoch + 1
  BY <1>1 DEF AnyInv, TypeOK, Lease, OneInv, CallUpToDate
<1>5. call'[b].step = "reply" /\ call'[b].capsule = Granted(c)
  BY <1>2 DEF AnyInv, TypeOK
<1>6. /\ Granted(c).task = c.task /\ Granted(c).worker = c.worker
      /\ Granted(c).epoch = c.epoch
  BY DEF Granted
<1>7. \A t \in Tasks, e \in Nat : \A w :
         Within(t, w, e) =>
           /\ e <= leases'[t].epoch
           /\ e = leases'[t].epoch => w = leases'[t].owner
           /\ t = c.task => e < c.epoch
  BY <1>3, <1>4 DEF Within
<1>8. CapsulesWithin' /\ \A d \in capsules : d.task = c.task => d.epoch < c.epoch
  <2>1. \A d \in capsules : /\ d.task \in Tasks /\ d.epoch \in Nat
                            /\ Within(d.task, d.worker, d.epoch)
    BY Contents DEF AnyInv, OneInv, CapsulesWithin
  <2>2. \A d \in capsules : d.task = c.task => d.epoch < c.epoch
    BY <1>7, <2>1
  <2>3. \A d \in capsules :
           /\ d.epoch <= leases'[d.task].epoch
           /\ d.epoch = leases'[d.task].epoch => d.worker = leases'[d.task].owner
    BY <1>7, <2>1
  <2>. QED  BY <1>2, <2>2, <2>3 DEF CapsulesWithin, Within
<1>9. LedgerWithin'
  <2>1. \A i \in DOMAIN ledger :
           /\ ledger[i].task \in Tasks /\ ledger[i].epoch \in Nat
           /\ Within(ledger[i].task, ledger[i].worker, ledger[i].epoch)
    BY Contents DEF AnyInv, OneInv, LedgerWithin
  <2>2. \A i \in DOMAIN ledger :
           /\ ledger[i].epoch <= leases'[ledger[i].task].epoch
           /\ ledger[i].epoch = leases'[ledger[i].task].epoch =>
                ledger[i].worker = leases'[ledger[i].task].owner
    BY <1>7, <2>1
  <2>. QED  BY <1>2, <2>2 DEF LedgerWithin, Within
<1>10. CallUpToDate(b)'
  BY <1>2, <1>3, <1>5, <1>6, <1>8 DEF CallUpToDate, Current
<1>11. LiveScopesDisjoint'
  <2>1. ~Conflict(c.task, c.scopes)
    BY <1>1 DEF OneInv, CallUpToDate
  <2>2. \A u \in Tasks \ {c.task} :
           leases[u].expires_at > clock => leases[u].scopes \cap c.scopes = {}
    BY <2>1 DEF Conflict
  <2>. QED  BY <1>2, <1>3, <2>2 DEF OneInv, LiveScopesDisjoint
<1>. QED
  BY <1>2, <1>8, <1>9, <1>10, <1>11 DEF OneInv, WritesInTenureOrder, OneCapsulePerEpoch

(* A new capsule carries the current epoch, which no capsule had.          *)
LEMMA ReplyOne ==
  ASSUME AnyInv, NEW b \in Brokers, OneInv(b), AcquireReply(b)
  PROVE  OneInv(b)'
<1>. DEFINE c == call[b].capsule
<1>1. /\ c \in Capsule /\ Current(c)
      /\ \A d \in capsules : d.task = c.task => d.epoch < c.epoch
  BY CallKinds DEF AnyInv, AcquireReply, Replying, OneInv, CallUpToDate
<1>2. /\ capsules' = capsules \cup {c}
      /\ call'[b].step = "idle"
      /\ UNCHANGED <<clock, leases, ledger>>
  BY DEF AcquireReply, Return, AnyInv, TypeOK, Idle
<1>3. CapsulesWithin'
  BY <1>1, <1>2 DEF OneInv, CapsulesWithin, Within, Current, Capsule
<1>4. OneCapsulePerEpoch'
  BY <1>1, <1>2 DEF OneInv, OneCapsulePerEpoch, Capsule, AnyInv, TypeOK
<1>5. CallUpToDate(b)'
  BY <1>2 DEF CallUpToDate
<1>. QED
  BY <1>2, <1>3, <1>4, <1>5 DEF OneInv, LedgerWithin, LiveScopesDisjoint,
     WritesInTenureOrder, Within

(* A new ledger entry carries the current epoch and owner, and nothing     *)
(* before it is ahead of them.                                             *)
LEMMA InsertOne ==
  ASSUME AnyInv, NEW b \in Brokers, OneInv(b), CommitInsert(b)
  PROVE  OneInv(b)'
<1>. DEFINE c == call[b]
            entry == [key |-> c.key, task |-> c.capsule.task,
                      worker |-> c.capsule.worker, epoch |-> c.capsule.epoch]
<1>1. c \in Committing /\ Current(c.capsule)
  BY CallKinds DEF AnyInv, CommitInsert, OneInv, CallUpToDate
<1>2. entry \in Entry
  BY <1>1 DEF Committing, Capsule, Entry
<1>3. /\ ledger' = Append(ledger, entry)
      /\ call'[b].step = "idle"
      /\ UNCHANGED <<clock, leases, capsules>>
  BY DEF CommitInsert, Return, AnyInv, TypeOK, Idle
<1>4. /\ DOMAIN ledger' = DOMAIN ledger \cup {Len(ledger) + 1}
      /\ \A i \in DOMAIN ledger : ledger'[i] = ledger[i] /\ i < Len(ledger) + 1
      /\ ledger'[Len(ledger) + 1] = entry
      /\ DOMAIN ledger \subseteq Nat /\ Len(ledger) \in Nat
  BY <1>2, <1>3 DEF AnyInv, TypeOK
<1>5. /\ entry.task \in Tasks /\ entry.epoch \in Nat
      /\ entry.epoch = leases[entry.task].epoch
      /\ entry.worker = leases[entry.task].owner
  BY <1>1, <1>2 DEF Current, Entry
<1>6. \A i \in DOMAIN ledger : ledger[i].epoch \in Nat
  BY Contents DEF AnyInv
<1>. HIDE DEF entry
<1>7. LedgerWithin'
  BY <1>3, <1>4, <1>5 DEF OneInv, LedgerWithin, Within
<1>8. WritesInTenureOrder'
  <2>1. \A i \in DOMAIN ledger : ledger[i].task = entry.task =>
           \/ ledger[i].epoch < entry.epoch
           \/ ledger[i].epoch = entry.epoch /\ ledger[i].worker = entry.worker
    BY <1>5, <1>6 DEF OneInv, LedgerWithin, Within
  <2>2. SUFFICES ASSUME NEW i \in DOMAIN ledger', NEW j \in DOMAIN ledger',
                        i < j, ledger'[i].task = ledger'[j].task
                 PROVE  \/ ledger'[i].epoch < ledger'[j].epoch
                        \/ /\ ledger'[i].epoch = ledger'[j].epoch
                           /\ ledger'[i].worker = ledger'[j].worker
    BY DEF WritesInTenureOrder
  <2>3. i \in DOMAIN ledger
    BY <1>4, <2>2
  <2>. QED  BY <1>4, <2>1, <2>2, <2>3 DEF OneInv, WritesInTenureOrder
<1>9. CallUpToDate(b)'
  BY <1>3 DEF CallUpToDate
<1>. QED
  BY <1>3, <1>7, <1>8, <1>9 DEF OneInv, CapsulesWithin, LiveScopesDisjoint,
     OneCapsulePerEpoch, Within

LEMMA NextOne ==
  ASSUME NEW b \in Brokers, Brokers = {b}, AnyInv, OneInv(b), [Next]_vars
  PROVE  OneInv(b)'
<1>1. CASE Tick
  BY <1>1, TickOne
<1>2. CASE AcquireUpsert(b)
  BY <1>2, UpsertOne
<1>3. CASE AcquireReply(b)
  BY <1>3, ReplyOne
<1>4. CASE CommitInsert(b)
  BY <1>4, InsertOne
<1>5. ASSUME NEW t \in Tasks, NEW w \in Workers, NEW scopes \in SUBSET Paths,
             NEW ttl \in Ttls, NEW cleared \in Clearances,
             AcquireScan(b, t, w, scopes, ttl, cleared)
      PROVE  OneInv(b)'
  <2>1. /\ UNCHANGED <<clock, leases, ledger, capsules>> /\ ~Conflict(t, scopes)
        /\ call'[b] = [step |-> "epoch", task |-> t, worker |-> w, epoch |-> 0,
                       expires_at |-> clock + ttl, cleared |-> cleared,
                       scopes |-> scopes]
    BY <1>5 DEF AcquireScan, Begin, AnyInv, TypeOK
  <2>2. CallUpToDate(b)'
    BY <2>1 DEF CallUpToDate, Conflict
  <2>. QED  BY <2>1, <2>2, QuietOne
<1>6. CASE AcquireEpoch(b)
  <2>1. /\ UNCHANGED <<clock, leases, ledger, capsules>> /\ call[b] \in Acquiring
        /\ call[b].step = "epoch"
    BY <1>6, CallKinds DEF AcquireEpoch, AnyInv
  <2>. DEFINE d == [call[b] EXCEPT !.step = "upsert"]
              n == leases[call[b].task].epoch + 1
  <2>2. /\ d \in Acquiring /\ d.step = "upsert" /\ d.task = call[b].task
        /\ d.scopes = call[b].scopes
    BY <2>1 DEF Acquiring
  <2>3. call[b].task \in Tasks
    BY <2>1 DEF Acquiring
  <2>4. n \in Nat
    BY <2>3 DEF AnyInv, TypeOK, Lease
  <2>5. call'[b] = [d EXCEPT !.epoch = n]
    BY <1>6 DEF AcquireEpoch, AnyInv, TypeOK
  <2>6. n = leases[call[b].task].epoch + 1
    OBVIOUS
  <2>. HIDE DEF d, n
  <2>7. /\ call'[b].step = "upsert" /\ call'[b].task = call[b].task
        /\ call'[b].scopes = call[b].scopes /\ call'[b].epoch = n
    BY <2>2, <2>5, <2>4 DEF Acquiring
  <2>8. ~Conflict(call[b].task, call[b].scopes)
    BY <2>1 DEF OneInv, CallUpToDate
  <2>9. CallUpToDate(b)'
    BY <2>1, <2>6, <2>7, <2>8 DEF CallUpToDate, Conflict
  <2>. QED  BY <2>1, <2>9, QuietOne
<1>7. ASSUME NEW capsule \in capsules, NEW key \in Keys, CommitLedger(b, capsule, key)
      PROVE  OneInv(b)'
  <2>1. UNCHANGED <<clock, leases, ledger, capsules>> /\ call'[b].step = "lease"
    BY <1>7 DEF CommitLedger, Begin, AnyInv, TypeOK
  <2>2. CallUpToDate(b)'
    BY <2>1 DEF CallUpToDate
  <2>. QED  BY <2>1, <2>2, QuietOne
<1>8. CASE CommitLease(b)
  <2>1. /\ UNCHANGED <<clock, leases, ledger, capsules>> /\ call[b] \in Committing
    BY <1>8, CallKinds DEF CommitLease, AnyInv
  <2>2. \/ /\ Current(call[b].capsule) /\ call'[b].step = "insert"
           /\ call'[b].capsule = call[b].capsule
        \/ call'[b].step = "idle"
    BY <1>8, <2>1 DEF CommitLease, Advance, Return, Idle, AnyInv, TypeOK, Committing
  <2>3. CallUpToDate(b)'
    BY <2>1, <2>2 DEF CallUpToDate, Current
  <2>. QED  BY <2>1, <2>3, QuietOne
<1>9. CASE Abandon(b)
  <2>1. UNCHANGED <<clock, leases, ledger, capsules>> /\ call'[b].step = "idle"
    BY <1>9 DEF Abandon, Return, Idle, AnyInv, TypeOK
  <2>2. CallUpToDate(b)'
    BY <2>1 DEF CallUpToDate
  <2>. QED  BY <2>1, <2>2, QuietOne
<1>10. CASE UNCHANGED vars
  <2>1. CallUpToDate(b)'
    BY <1>10 DEF vars, OneInv, CallUpToDate, Conflict, Current
  <2>. QED  BY <1>10, <2>1, QuietOne DEF vars
<1>. QED
  BY <1>1, <1>2, <1>3, <1>4, <1>5, <1>6, <1>7, <1>8, <1>9, <1>10
     DEF Next, Acquire, Commit

THEOREM OneInductive ==
  ASSUME NEW b \in Brokers, Brokers = {b}
  PROVE  Spec => [](AnyInv /\ OneInv(b))
<1>1. Init => OneInv(b)
  BY InitOne
<1>2. AnyInv /\ OneInv(b) /\ [Next]_vars => OneInv(b)'
  BY NextOne
<1>. QED  BY <1>1, <1>2, AnyInductive, PTL DEF Spec

(* acquire_lease, one broker on the file: two live leases never share a    *)
(* write path.                                                             *)
THEOREM ScopesStayDisjoint ==
  ASSUME NEW b \in Brokers, Brokers = {b}
  PROVE  Spec => []LiveScopesDisjoint
BY OneInductive, PTL DEF OneInv

(* commit_transition, one broker on the file: a worker that lost the lease *)
(* never writes after its successor.                                       *)
THEOREM StaleWorkersAreFenced ==
  ASSUME NEW b \in Brokers, Brokers = {b}
  PROVE  Spec => []WritesInTenureOrder
BY OneInductive, PTL DEF OneInv

(* acquire_lease, one broker on the file: no epoch is handed out twice,    *)
(* whatever calls were abandoned half-way.                                 *)
THEOREM EpochsAreNotReused ==
  ASSUME NEW b \in Brokers, Brokers = {b}
  PROVE  Spec => []OneCapsulePerEpoch
BY OneInductive, PTL DEF OneInv

(* One broker on the file implements the abstract lock: the upsert is the  *)
(* grant, and every other step leaves holder and fence alone.              *)
THEOREM ImplementsFencedLock ==
  ASSUME NEW b \in Brokers, Brokers = {b}
  PROVE  Spec => KeepsFencedLock
<1>1. Init => Lock!LockInit
  BY DEF Init, Lock!LockInit, NoLease
<1>2. ASSUME AnyInv, OneInv(b), AcquireUpsert(b)
      PROVE  Lock!LockNext
  <2>1. call[b] \in Acquiring /\ call[b].step = "upsert"
    BY <1>2, CallKinds DEF AnyInv, AcquireUpsert
  <2>2. PICK t \in Tasks, w \in Workers : t = call[b].task /\ w = call[b].worker
    BY <2>1 DEF Acquiring
  <2>3. call[b].epoch = leases[t].epoch + 1
    BY <1>2, <2>1, <2>2 DEF OneInv, CallUpToDate
  <2>4. \A u \in Tasks :
           /\ leases'[u].owner = IF u = t THEN w ELSE leases[u].owner
           /\ leases'[u].epoch = IF u = t THEN leases[t].epoch + 1 ELSE leases[u].epoch
    BY <1>2, <2>2, <2>3 DEF AcquireUpsert, AnyInv, TypeOK
  <2>5. Lock!Grant(t, w)
    BY <2>4 DEF Lock!Grant
  <2>. QED  BY <2>5 DEF Lock!LockNext
<1>3. ASSUME [Next]_vars PROVE AcquireUpsert(b) \/ UNCHANGED leases
  BY <1>3
     DEF Next, vars, Tick, Acquire, Commit, Abandon, AcquireScan, AcquireEpoch,
         AcquireReply, CommitLedger, CommitLease, CommitInsert
<1>4. AnyInv /\ OneInv(b) /\ [Next]_vars => [Lock!LockNext]_(Lock!lockVars)
  <2>. SUFFICES ASSUME AnyInv, OneInv(b), [Next]_vars
                PROVE  [Lock!LockNext]_(Lock!lockVars)
    OBVIOUS
  <2>1. CASE AcquireUpsert(b)
    BY <1>2, <2>1
  <2>2. CASE UNCHANGED leases
    BY <2>2 DEF Lock!lockVars
  <2>. QED  BY <1>3, <2>1, <2>2
<1>. QED  BY <1>1, <1>4, OneInductive, PTL DEF Spec, KeepsFencedLock, Lock!LockSpec
=============================================================================
