# Verification of the omostation coordination plane

omostation is a workspace in which many agents (interactive sessions, hooks,
daemons, other agents) work at once on clones and worktrees of one code base.
Nothing schedules them. What keeps them apart is a layer of small programs over
shared files: claims, leases, locks, ledgers, proposals, event logs. Each
program is short and each is tested alone, in one process. What can go wrong
lies between two of them, and that is what these modules are about.

Paths below are relative to the root of the repository (`src/` in the tables of
`PROJECT.json`). To check one configuration: `tlc -config X.cfg M` for the
module `M` that the table of runs names; to check the proofs: `tlapm M.tla` for
each of the eight modules named `...Proofs`.

## 1. Inventory

### 1.1 Modelled

| component | state it keeps | operations | what makes it correct |
|---|---|---|---|
| **Coordination store**, `bin/gac/coordination_store.py` | SQLite table `claims(resource, owner, token, state, expires_at)` outside every checkout | `claim_resource`, `release_resource`, `check_fencing`, `current_token` | one live claim per resource, tokens that only grow, no live claim taken away, a verdict that nobody else can make wrong |
| **Lease broker**, `lib/single_writer_lease_broker.py` | SQLite tables `task_leases`, `idempotency_ledger`; signed capsules in the hands of workers | `acquire_lease`, `commit_transition`, restart on the same file | epochs that only grow, disjoint write scopes, no stale write, a key committed once |
| **ADR claims (D1)**, `bin/gac/swarm_discipline.py` | one JSON file per session, an flock, the decisions directory, `origin/main` | `acquire_adr_claim`, `check_adr_write_authorized`, the commit hook's `check_shared_worktree_writes`, removal of claims | one session per number, a number never in use elsewhere |
| **Branch claims (D2) and worktrees**, `bin/gac/swarm_discipline.py`, `bin/gac/gac-worktree.sh` | one JSON claim per session, `refs/heads`, remote refs, pull requests, worktrees, lifecycle lock directories | `claim`, `register`, `release`, `merge`, `cleanup`, the orphan purge, `claim_gc` | one session per branch, a release whose claim is gone deletes no unmerged work, no claim of a live session dropped |
| **Bet ledger**, `bin/plan/bet-ledger.py`, start guard of `bin/agent-workflow.py`, the other writers (`bin/gac/ledger-safe-insert.py`, `bin/ssot/sync-bet-digests.py`, `lib/batch_bet_closeout.py`) | one YAML ledger, its lock file, one broadcast file per claimed bet | `claim-bet` (`--force`, refresh), `claim-gc`, `complete`, `spec-init`, `start`, `sync-bet-digests --apply`, `insert_matrix`, the insertion of a bet | one claimer per bet, no update lost, ledger never torn, claim and status agree |
| **Human-in-the-loop proposals**, `bin/hitl-proposal.py`, `bin/notification.py`, execute stage of `bin/harness` | one JSON file per proposal, a lock on it | `create`, `approve`, `reject`, `expire`, `wait`, `notify`, the harness's gate | an answer is kept, a rejection stops, silence does not block for ever |
| **Mesh consumer**, `bin/ssot/mesh-consumer.py`, append of `bin/ssot/_shared.py` | event log, offset file, trace | `consume_once`, `--watch`, `--once`, `--reset`, locked append | every event handled, none skipped, none twice |
| **Projection**, `bin/panorama/projection-republisher.py`, the publication of `panorama-collect.py` | immutable revisions, the pointer file, staging directories, a lock of each side | `renew` (due or `--force`), `gc`, the publisher's publication | the pointer names a whole revision, its lease lapses for a bounded time only, published data stay |
| **Agent clones**, `bin/gac/clone-lifecycle.py` | one directory per path, a quarantine per call, three receipts and an authorization | `retire` (plain, platform-rebased, squash with receipts and replay), `abort-unready`, the placing by `onboard` | no work removed, no clone hidden or replaced, receipts true |
| **Store file**, `bin/gac/coordination_store.py` (`_connect`, `_migrate`, `ensure_ready`, `maybe_backup`) | the database file, `user_version`, `bak.1` .. `bak.keep`, a stamp, the backup lock | first opening, lazy migration, backup with rotation, `--backup` | the version vouches for the tables, a failure costs one copy, a half-made file is completed |
| **Recovery relocation**, `lib/documents_client_recovery_relocation.py` | source roots, staging directory, target, manifest, receipt | `apply`, `rollback`, the undoing of both | no version of a file lost, a failed step undone as a whole, a true manifest |

How they meet: a session claims a branch (D2), gets a worktree, claims an ADR
number (D1) or a bet, is started by `agent-workflow start` if the bet is free,
asks a human through a proposal before it executes, commits transitions under a
lease, and emits events that the mesh consumer traces. Almost all of this
happens through files; the calls inside one process are listed with each
module. The coordination store is the shared database that is to replace the
JSON claims; it and the lease broker promise the same thing, a *fencing lock*,
which is why that promise is a module of its own.

### 1.2 Not modelled, and why

| component | why / plan |
|---|---|
| Coordination store: heartbeats, session snapshots, shadow events (`coordination_store.py` 405-503, 540-598) | single statements on tables of their own that nothing decides by; the events of backups are in `StoreFile` as far as they can fail |
| Escape hatch D4 (`swarm_discipline.py` 560-640, 860-1200): human tokens, escape records, quotas, 72 h window | planned, `EscapeHatch` |
| Agent federation, `bin/ssot/agent-federation.py` | planned, `Federation` |
| Delivery nodes, `bin/delivery/physical_node.py`, `shared_context_store.py` | planned, `PhysicalNode` (threads, slots, one temporary file name) |
| Agent presence, `bin/gac/agent-presence.py` | planned, `AgentPresence` |
| Journey engine, `bin/ssot/journey-engine.py`; routine engine, `projects/spine/...` | planned; one process, no concurrency, so of less weight |
| `bin/gac/prune-zombie-worktrees.py` | it skips the directories of registered worktrees and its `git worktree remove` refuses the others, so where paths are spelled alike it removes nothing |
| The rest of the agent clones: `bin/gac/agent-clone.py`, and of `clone-lifecycle.py` the profiles, toolchains and admission checks of `onboard` | what they check of git and of the machine is one Boolean or nothing in `CloneRetirement`; no second actor changes it |
| Delivery scheduling and emergence measures | simulations in one thread that produce numbers; no state outlives a call |
| Supervisors and daemons (`orca-codex-supervisor`, `gac-daemon`, `mail_daemon`, ...) | polling loops whose state is another program's output |
| Governance checks, portfolio and chain binding, panorama collection, operations scripts, scenarios | read-only checks, pure functions or reports: no state that two actors change |
| Documents preflights and learning control | one-shot migrations of the same plan/apply/receipt shape as the relocation |
| `projects/`, archives, docs, tests, CI | content, superseded code, prose; many are submodules whose directories are empty. Docs and tests are quoted where a run compares the code with them |

### 1.3 What is hard here

* **Two processes, one file, no lock** (or a lock that only some writers take):
  the ledger, proposals, claims, offset file, task file of the federation.
* **Read, think, write**: a status, an epoch, a listing, a git status, a token
  is read in one transaction (or none) and acted on in the next.
* **Truncate, then write**: readers without a lock see an empty file, and a
  process that dies there leaves one.
* **Delete by name what was judged by content**: `claim_gc`, `claim-gc`, the
  orphan purge, the republisher's and the presence list's collectors.
* **Lapse of time** between two looks at the clock; boundaries `<=` / `>`.
* **Death of a process** after any system call; restart on what it left.
* **Waiting**: the harness for a human, a consumer for an event.

The list, with lines, is `hazards` in `PROJECT.json`: those the modules reach.
What the code was found to let happen is in sections 6 and 7; hazards of
components that no module models yet are in section 8, with the module that will
have them.

## 2. Modules

    FencedLock                the abstract promise: grants, tenures, fences
      ^            ^
      | INSTANCE   | INSTANCE
    CoordinationStore       LeaseBroker
      ^      ^                ^      ^
      |      |                |      |
     ...MC  ...Proofs        ...MC  ...Proofs

    BetLedger  CloneRetirement  Projection  Relocation
                each with its ...MC and its ...Proofs
    AdrClaims  Worktrees         each with its ...MC; SwarmDisciplineProofs
    HitlProposal  MeshConsumer   each with its ...MC; WorkflowProofs
    StoreFile                    its ...MC; CoordinationStoreProofs

Two modules whose theorems share a proof module are extended by it together, so
one of them has names of its own (`AdrInit`, `AdrNext`, `FileInit`, `MeshInit`
...).

Conventions. One action per step in which the code touches state that another
process can see; what runs inside one SQLite write transaction or under one
exclusive lock *that all writers take* is a single step. A call that refuses and
changes nothing is the stuttering step. The clock is a variable in ticks. A
process that dies leaves its files as they are. Operators named `Bad...` are
seeded faults: what a definition would be after a plausible mistake; the
specification uses none of them, and each property is known to fail under one.

**FencedLock.** `holder` and `fence` per lock; `Grant` raises the fence by one,
`GiveUp` leaves it. So a number names one tenure of one holder.

**CoordinationStore.** `claims[r]` is the set of rows of resource `r`.
`claim_resource` is `BEGIN IMMEDIATE` ... `COMMIT`: `Expire` the lapsed active
row, then renew the caller's own row (`ClaimAgain`) or insert the next token
(`ClaimFresh`), in one step. `release_resource` likewise. `check_fencing` runs
`SELECT MAX(token)` and `SELECT ... WHERE state='active'` in autocommit, closes
the connection and then reads the clock: three steps (`CheckLatest`,
`CheckActive`, `CheckVerdict`), with everything possible in between.

**LeaseBroker.** A broker is one open connection. Python's `sqlite3` opens a
transaction at the first INSERT, so the SELECTs of a call are steps of their
own: `AcquireScan` (scopes), `AcquireEpoch`, `AcquireUpsert`, `AcquireReply`
(the capsule reaches the worker), `CommitLedger` (signature, expiry, approval,
idempotency key), `CommitLease` (fencing), `CommitInsert`. `Abandon` is an error
or the death of the process at any of them: the file keeps what was committed
and the capsule is lost. Signing is taken as sound: capsules that verify are
those in `capsules`.

**AdrClaims.** One checkout and its sessions; `Elsewhere` stands for all other
clones. `acquire_adr_claim` holds an flock over listing, loading and writing
(three steps, because deletions of claims, new files and merges do not take the
lock). `RemoteNumbers` is what `git ls-tree` as called returns.

**Worktrees.** A command of a session goes from step to step (`op`), the steps
being those of the script where another process can see a difference; `release`
contains the orphan purge of `release_branch_lock`, and is two steps per purged
claim (judged, unlinked). `gc` and `sweep` hold what `claim_gc` and `cleanup`
have judged and not yet acted on. git and GitHub are external: refs, pull
requests, and `work[b]`, how far the commits of a branch have come. The release
deletes whatever branch it finds (its test for unmerged commits negates both
revisions, section 7); `dropped` are the sessions whose release has dropped
their claim and which have claimed nothing since. `merge` deletes the branch and
drops the claim (`MergeUnclaim`) in two steps, and either can be refused
(`branch-release` fails).

**BetLedger.** A file is its text and the set of processes that have it open:
`Truncate`, `Fill`, `Swap`, so that a writer whose file was renamed away
writes into nothing. `claim-bet` uses `save_ledger_locked` (lock, read, rename);
`complete` and `spec-init` write in place without the lock. So do
`sync-bet-digests` and the batch closeout, and `ledger-safe-insert` renames
without it (`EditRead`, then the in-place steps or `InsertSwap`): they change no
status of a bet that is there, so their text is the one they read. Of their
checks, all on texts read earlier, the model has that a torn ledger stops them.
A `Kill` leaves the
process `dead` (its lock is released by the kernel). `Anchor` is the text search
for `id: <BET>`.

**HitlProposal.** `update_status` opens `r+` (or truncates), waits for the lock,
and writes; the notifier renames over the file; the harness waits, then fetches.
`stale` marks a process whose open file was replaced.

**MeshConsumer.** The log is a sequence of halves of lines, offsets are
positions in it, so a read can end in the middle of a line. A consumer is
`Load`, `Measure`, `Read`, `SaveOpen`, `Save`, `Trace`, with `TornOffset` in the
offset file between open and save. A cut may fall inside a character (`Split`,
`InCharacter`): then the read raises a `UnicodeDecodeError` that nothing catches
(`Raise`), and the consumer is down until somebody starts it again (`Rerun`).
`broken` are the events whose first half was read as the end of the log.

**Projection.** A revision's name is the hash of its manifest, so in the model
the revision *is* what its manifest says: when it was generated and the data it
holds. `renew` is `Load` (baseline and decision), `Build` (copy, compare, rename
of the staging directory) and `Swap` (the pointer), under the republisher's
lock; `gc` follows without a lock (`GcLoad`, `GcScan`, `GcRemove`, each removal
in two steps as `rmtree` goes file by file). The publisher has the same last
steps under a lock of its own. `StartJob` is the scheduler's entry in the
registry of services, `StartManual` a run with `--force`. `torn` are revisions
half removed, `staging` says who made a staging directory and when it was last
changed; a kill leaves it to `Nobody`. What else may end a run are a failed write
and a directory that disappears under the scan of `gc` (`ScanFails`).

**CloneRetirement.** Directories have identities (inodes): `dest` is what is at
the path, `payload[p]` what a call has in its quarantine, `left` what calls left
there. Each call of `retire` and `abort-unready` goes `Look`, `Prove`, receipts,
`Stat` (the squash form takes its inode only here), `Move` (the rename),
`Check`s, then `Delete`, `Deleted` or `Restore`, `Back`. Receipts are created and
then written (`Torn` in between). Agents (`Lease`, `Edit`, `Commit`, `Push`,
`Merge`) and `Onboard` are at work at every step. Squash calls on an empty path
`Replay` their chain.

**StoreFile.** The same program as `CoordinationStore` seen as a file: `Connect`
looks for the file and creates it, `ReadVersion` and `Migrate` run the schema
statement by statement in autocommit, `LockBackup` .. `Event` is the backup every
access makes when the stamp is a day old, `Operate` what the call was for. Claims
are `CoordinationStore`'s; here rows are only counted, so that a copy can be told
from an older one.

**Relocation.** A file is at its source, in staging, at the target, or at
several of them, with a version each; `apply` and `rollback` take one file per
step, and `Undo`/`Unmove` and `Redo` are `_restore_moves` and
`_restore_rollback_moves`, which look at a path and rename to it in two steps.
Any file operation may fail, those of the undoing too, each as its handler has
it: a step of the call begins the undoing (`StepFails`), a rename back is noted
and the file stays in staging (`UnmoveFails`, `stuck`), the removal of the
staging directory is not tried again (`CleanupFails`), the restoration of a
rollback stops where it is (`RedoFails`). What the operation had done before it
failed, a directory made or a receipt's name taken, is `HalfDone`. `archived`
says that the manifest of an earlier rollback lies beside the target. `Write` is
the client whose files are moved.

## 3. Runs

| run | module, cfg | what it shows | bounds, and why they are enough |
|---|---|---|---|
| `store_claims` | `CoordinationStoreMC`, `CoordinationStore.cfg` | type, one active row that is the newest, live claims safe, retirement final, verdicts justified, refinement of `FencedLock` | two owners on one resource (resources do not interact), one checker (checkers neither), three tokens = two takeovers, ttl 1 and 2 so that a renewal can shorten, 4 ticks. The theorems lift all of it to any constants |
| `broker_single` | `LeaseBrokerMC`, `LeaseBroker.cfg` | one broker on the file: disjoint scopes, writes in the order of tenures, one capsule per epoch, one commit per key, refinement of `FencedLock` | two tasks on one path (a conflict needs two), two workers (a takeover needs two), two keys, two epochs per task, with and without approval. Lifted by the theorems |
| `adr_claims` | `AdrClaimsMC`, `AdrClaims.cfg` | no two sessions hold one number, a claim is never moved | two sessions, two numbers: the second claimer either collides or goes on to the next |
| `worktrees` | `WorktreesMC`, `Worktrees.cfg` | one session per branch; a release whose session has claimed nothing since deletes no branch with unmerged commits | one session with worktrees and one that registers claims by hand, under two actors: the branch `agent/<actor>/<session>` can be claimed by the wrong session and a session can change its branch. One collector and one cleanup, since a second judges no more than the first does next. 1.2 million states |
| `bets` | `BetLedgerMC`, `BetLedger.cfg` | claims lose none of each other's marks, through takeovers, collections, starts and deaths at any step; claim and status agree between commands | two agents, two bets, ttl 1, three days: one claim lapses while the other lives; the writers without the lock are divided between the agents. `InTurn = TRUE`, see section 5. 2.4 million states |
| `hitl` | `HitlProposalMC`, `HitlProposal.cfg` | never emptied, stops only on a rejection, never waits for ever | two principals who may disagree, an expirer and a notifier; two of the four may die; ttl = timeout = 1 hour, so expiry and timeout race; one hour beyond both |
| `mesh` | `MeshConsumerMC`, `MeshConsumer.cfg` | nothing passed over but in the two known ways, everything else traced in the end | two events with long lines, one cut inside a character, so that an event can be broken, stop a consumer, or be skipped for the other; two consumers, one of which resets and may die; trace of 5, so that an event can be traced twice and once more. 460,000 states |
| `projection` | `ProjectionMC`, `Projection.cfg` | the pointer names a whole revision, the lease lapses for a bounded time, residue is cleared, only a writer at work at its publication replaces newer data | a tick is one to three minutes: lease 5, threshold 2, interval 3 (600, 180, 300 s in the code: threshold < interval < lease), keep 2 (48), staging age 1 (3600 s; the smallest that the assumptions allow, so that residue comes of age within the run), a stall of 1; 9 ticks are nearly two leases and three runs of the job; one publication, one forced run, one fault. 4.5 million states. The theorems have any of these numbers |
| `clones` | `CloneRetirementMC`, `CloneRetirement.cfg` | no work lost, one place for each clone, receipts true, only what was examined is removed, none left in a quarantine without a reason | two directories (the second comes to the path of the first), one call of each kind, two commits of which one is pushed (so that HEAD can be past what was merged), `origin/main` moving once, one death. 1.5 million states |
| `clones_intent` | `CloneRetirementMC`, `CloneRetirementIntent.cfg` | *violated*: the removal begins before its intent is written | as above |
| `store_file` | `StoreFileMC`, `StoreFile.cfg` | version, copies and stamp tell the truth; a file once made gets all its tables | one agent and the daily job, a schema of two statements (a death within it needs two), three copies, two rows and two days (copies that differ), one forced backup, two faults (as many as leave one copy). 560,000 states |
| `relocation` | `RelocationMC`, `Relocation.cfg` | nothing lost; undone as a whole, or split without a way in when the undoing failed too; a true manifest | two calls at a time of four in all (apply, rollback, apply, rollback: the second pair meets the archived manifest of the first), three files (first, middle, last), three faults, in the undoing too (a step, its undoing, and the step of a later call), one kill, one write of the client. 820,000 states |

In nine of the modules the type invariant is no property of its own: it is the
first conjunct of `OneHolderPerNumber`, `OneSessionPerBranch`,
`ClaimAndStatusAgree`, `NeverEmptied`, `NothingSkipped`, `PointerIsWhole`,
`OnePlaceEach`, `VersionVouches` and `ManifestIsTrue`.

Symmetry is declared in the runs of the store, the broker, the ADR claims, the
worktrees (the actors) and the relocation, whose sets of model values are
interchangeable; no run with a liveness property uses it.

Bounds that end behaviours are constants named for it: `MaxTime`, `MaxToken`,
`MaxEpoch`, `MaxAdr`, `MaxTrace`, and
`MaxNow`, `MaxData`, `MaxForced`, `MaxFaults`, `MaxKills`, `MaxDeaths`,
`MaxCalls`, `MaxWrites`, `MaxCommits`, `MaxPushed`, `MaxMain`, `MaxRows`,
`MaxDays`. `CHECK_DEADLOCK FALSE` stands where the system
may really stop, in the model, at a bound or when all is done: the broker's last
tick with every lease granted, the ledger when the last agent died, the proposal
once the harness is through, the consumers at the bound of the trace, the
projection at the last tick, the clones and the relocation when every call was
made, the store file when its rows and days are used up. Nothing in
those programs waits for another one but under an flock, which the kernel
releases when its holder dies. In the store, the ADR claims and the worktrees
there is always a next step, and deadlock is checked.

### Fairness

Only three runs assume any. `HitlProposal!FairSpec` has weak fairness of time and
of the harness's own steps: `cmd_wait` polls in a loop with a sleep and the
harness goes on when it returns or fails; nothing is assumed of people, the
expirer or the notifier, which is why `HarnessGoesOn` is worth stating: it holds
though nobody ever answers. `MeshConsumer!FairMeshSpec` has weak fairness of each
consumer's steps while it lives (the `--watch` loop polls without end); none of
emitters, not even of one that is in the middle of a line, of resets, of
deaths, or of `Rerun`: nothing in the repository starts a consumer again that a
`UnicodeDecodeError` has ended, so `EventuallyTraced` has the premise that some
consumer is from some point on neither dead nor ended so. `StoreFile!FairSpec` has
weak fairness of every step of a call that was begun (processes run on unless
they are killed), strong fairness of taking the backup lock (the kernel queues
who waits in `flock`), and weak fairness of the daily `--backup` of the crontab,
which begins with `ensure_ready`; none of agents, whose calls may never come and
who may be killed in the middle of the schema. All other properties are safety
properties and need none.

## 4. Proofs

A theorem holds for every value of the constants that satisfies the `ASSUME`s of
its module: sets and bounds of any size, the "nobody" and "torn" values told
apart from the real ones, times to live and bounds natural numbers, switches
Boolean. Finite are only the directories of `CloneRetirement`; `Relocation` has
at least one file, and the times of `Projection` are related as section 5 says.
What a theorem needs beyond that is its own `ASSUME`, in the second column.

| theorem | states |
|---|---|
| `CoordinationStoreProofs!TypeCorrect` | `TypeOK` |
| `ConstraintsHold` | the unique indexes are never what stops a claim |
| `NewestIsActive` | tokens are `1..n`, only the newest can be active |
| `OkVerdictReportsCurrent` | the two snapshots of a passing check agree |
| `LiveClaimsAreSafe`, `FencingIsFinal` | action properties: no live claim taken, no retired row back |
| `OkVerdictsAreJustified` | no other agent's step can make a passing verdict wrong |
| `ImplementsFencedLock` | every step is a step or a stutter of `FencedLock` |
| `LeaseBrokerProofs!TypeCorrect`, `KeysCommitOnce` | for any number of brokers |
| `ScopesStayDisjoint`, `StaleWorkersAreFenced`, `EpochsAreNotReused`, `ImplementsFencedLock` | under `Brokers = {b}` |
| `SwarmDisciplineProofs!NoNumberTwice`, `ClaimsStay` | `OneHolderPerNumber`, `NumberIsKept` |
| `SwarmDisciplineProofs!BranchesHaveOneHolder`, `DroppedClaimsKeepWork` | `OneSessionPerBranch`, `ReleaseKeepsUnmergedWork` |
| `BetLedgerProofs!FilesHaveTheirTypes` | `TypeOK`, without any assumption about turns |
| `LockedWritesAreKept` | `MarksAreKept`, under `InTurn` |
| `ClaimsMatchTheLedger` | `ClaimAndStatusAgree`, under `InTurn` and the identity as `Anchor` |
| `WorkflowProofs!ProposalSurvives`, `OnlyRejectionStops` | `NeverEmptied`, `StopsOnRejection` |
| `WorkflowProofs!NoEventIsSkipped` | `NothingSkipped`, for any events, consumers and resetters |
| `CloneRetirementProofs!WorkIsSafe`, `ClonesAreFound`, `ReceiptsAreTrue`, `OnlyTheExamined`, `LeftForAReason` | `NoWorkIsLost`, `OnePlaceEach`, `SettledIsGone`, `RemovesWhatItExamined`, `LeftBehindForAReason` |
| `CoordinationStoreProofs!VersionIsTrue`, `StampIsTrue`, `OneCopyPerFault` | `VersionVouches`, `StampVouches`, `FaultsCostOneEach` |
| `ProjectionProofs!PointerNamesWhole`, `LapsesAreBounded`, `LeftoversGo` | `PointerIsWhole`, `LapseIsBounded`, `LeftoversAreCleared` |
| `ProjectionProofs!PublicationsStay` | `PublicationStays` |
| `RelocationProofs!NoVersionLost`, `FailedStepsAreUndone`, `ManifestsAreTrue` | `NothingLost`, `UndoneAsAWhole` (together, or split by a failed undoing), `ManifestIsTrue`, for any number of files and faults |

**The store.** `IInv` is the type invariant, `TablesGood` (of every resource:
tokens are exactly `1..n`, one row per token, only the row with token `n` may be
active, and a row marked expired expired at a time that has come) and
`CheckInv(p)` of every checker. `ActiveIsNewest` alone is not inductive: that a fresh token
is new needs uniqueness, and what a checker read in an earlier state has to be
related to the table of this one. `CheckInv` does that: what the checker saw
as the current token is at most the current token now, an active row it saw
carries at least that token, and a row with its token and owner is in the table
still; so a token that passes is both the one reported and one whose tenure was
the newest when it was looked at. The table operators (`Expire`, `Renew`, `Release`, `Insert`)
have a lemma each (`...Good`), the transactions one each (`...Table`), and the
preservation of `CheckInv` under other processes' steps is one lemma,
`CheckInvEvolves`, over the relation `Evolves(rows, new, clock)` that all steps
satisfy. The action properties and the refinement follow from `IInv` and that
relation.

**The broker.** `AnyInv` (type, shape of the calls, `CommittedOnce`) is
inductive with any number of brokers: the primary key of the ledger decides
alone whether a key is used. `OneInv(b)` adds, for one broker, that every
capsule and every ledger entry has an epoch within that of the lease, and that
what the broker's call has read is still so (`CallUpToDate`): that is exactly
what a second connection breaks (section 7). The
run `broker_single` checks `CommittedOnce` with one broker as well; the theorem
has it for any number.

**ADR claims.** A session that has listed and loaded under the lock may find,
when it decides, that claims have gone since, never that there are new ones:
`IInv` says that what the holder of the lock loaded covers every claim left.
Deletions, which take no lock, only help.

**Worktrees.** Only `Register` writes a claim, and it does so in the step in
which it looks for another holder; everything else takes claims away (`Fewer`).
That a worktree is on a branch of its own session needs one more part of the
invariant: a session that is being set up was given a branch of its own. What
keeps work from a release is an accident: its test for unmerged commits never
finds any, and its claim is gone when it looks the branch up in it. `Unclaimed`
says the second, and is kept because only a session's own `Register` gives it a
claim. Mending either mistake alone would not do: with the claim in hand and the
test as it is, every release would delete its branch (section 7).

**The bet ledger.** `Discipline`: while the ledger is written in place nobody
else writes or claims (`TurnsTaken`: the assumption, kept by every step); who is
about to rename the ledger away holds the lock and has the text that is there
(`LockHeld`); who is about to write in place has the file open (`WriterOpen`).
`MarksAreKept` follows. For `ClaimAndStatusAgree`, `Agreed` follows a claim file
through both writers: its bet is in progress, unless the one who announced it
has yet to mark the bet, or the one who completed the bet has yet to take the
file away (`InWork`), and what the writers without the lock are about to write
says so too. `Agreed` is claimed only while no worker has died (`Alive`), which
the property allows: it speaks of states in which all workers are idle, and the
dead stay dead. Both theorems fail without `InTurn` (section 7).

**The proposal.** Until somebody dies, every text that is about to be written
has the proposal's name, and a torn file has a writer who keeps the lock; one
whose open file was renamed away writes to nobody's file (`stale`). A rejection
that is in the file, or in what the notifier will write back, was told to the
principal who gave it.

**The clones.** Where each directory is (`Places`), that a commit belongs to one
clone (`CommitsApart`, `Marks`), and that what a call's checks found holds until
its removal: nothing but a lease taken before the rename reaches into a
quarantine (`Checked`), and a lease makes the check fail. That a clone is left
in a quarantine only by a death or while another one is at its path follows from
`Places`, for a call that ends with nothing in its quarantine leaves nothing.
It is stated of the step that leaves it: as an invariant (what is left is paid
for by deaths and by the directories that are in the way) it is right for two
directories only, since a third can come and be retired in between.

**The store's file.** `Basics`: a call that is at the n-th statement of the
schema has n tables before it, so who sets the version has all of them. `Upkeep`: for every j, the first j copies have lost at most
one per fault (`PrefixGood`); a bound on the number of copies alone is not
inductive, as a rotation moves a hole from one place to the next. The theorems
are about the safety part of `FairSpec`.

**The mesh consumer.** `NothingSkipped` speaks of the saved offset, but
consumers save offsets they measured long before. So what lies before any offset
that is saved, or that a consumer at work has loaded, is `Handled`: traced, lost
(its line `broken`, or in the hands of a consumer that was killed), or in the
hands of a consumer that has saved already and traces next. `ReadTo` closes the
gap: a batch holds every event between the offset loaded and the size measured
that is not handled, so that saving the size handles them all. What the reading
loop returns (`WholeFrom`) is the one lemma about sequences: the event of every
line that is whole there has a rank in the batch. `LinesFollow` (a second half
follows its first; only a long line is unfinished) is why a line that began
before the measured size was read whole, unless the size was measured and read
in the middle of it, which is what makes it `broken`. A `Raise` saves nothing, so
it leaves everything as it was; a reset is the offset 0, before which there is
nothing; a kill turns what was in hand into `Lost`.

**The projection.** The four properties share `Basics`: how old a run may be
(`Ages`), that one renewal at a time is under way and the publisher collects
nothing (`Places`), and which directories are there (`Shelves`). Each then has a
part of its own. `Thinned`: whatever a collector took away, or judged and is
about to take, has `Keep` others at least as new; the number of revisions on disk
would not do, as two collectors may be at work and publications go on. `InTime`:
the job is next due within one interval of the last moment at which the lease
could have been renewed, or a run that renews it is under way; a fault moves that
by an interval. `Cleared`: for each abandoned directory, when the next run of the
job is due, with an allowance for a run that is collecting now and for a forced
run that is in its way. `Carried`: a writer's baseline has the newest data, or
the newest were published after it began. Bounds are multiples of the interval:
`Times(n)` with the lemma `TimesFacts`, because the provers' arithmetic is linear.

Proving it corrected one property. `LeftoversAreCleared` counted from a
directory's birth only, and that is false: while the pointer names no whole
revision, collection is off (`gc` gives up without one to protect), and a later
publication repairs the pointer when the directory is old already. TLC shows it
with `Keep = 1`, three publications and 9 ticks; with `Keep = 2` it takes more
than the run can hold. It counts from the later of the two now (`brokenAt`).

**The relocation.** Four parts, each under the hypothesis its property needs. While
nobody writes (`Unwritten`), every file is somewhere in its one version, with any
number of calls at once. While calls follow one another (`Lossless`), what the
next rename would replace is not there (`FreeAhead`), or is a client's file that
came between look and rename (`late`); so each live version stays in the place
the client last saw or a call put it (`Kept`). `TrueListing` follows the manifest
from the plan it is written from to the target, and back through a rollback that
takes files away from under it. `Papers` follows the manifest's place
and the archived one, for `Split` says that nothing can begin. `WholeOrUnderWay`:
with no kill, no write and no second call, the place of every file is a function
of the call's step (`Placed`) and of `stuck`, the files whose own rename back
failed; so when the call ends they are together, or they are split, each in one
place (`EndsSplit`): what an undone apply leaves in staging was `stuck`, what a
restoration that stopped leaves is in sources and target, and since neither is a
state that an apply or a rollback accepts (`~Clear`, `~Returnable`) no later call
makes it worse. The invariant has to say where a file is at each step of the
undoing too, for those steps may fail as well.

**Only model-checked** are the liveness properties (`HarnessGoesOn`,
`EventuallyTraced`, `EventuallySetUp`): liveness under fairness is out of reach of
the prover, as is anything with `ENABLED`, and what a recursive definition
computes for every input (there is none in the modules with theorems: `MAX(token)`
is a `CHOOSE`, with the lemma `CurrentTokenIs`, and what the reading loop of the
mesh consumer returns is a function by rank, with lemmas about it). Every
other property of a passing run is a theorem, so a passing run is there for what
the theorems cannot show: that the interesting cases happen, and that each
property fails when the code is changed.

## 5. Environments assumed by the passing runs

A property that holds only in part of the environments the code can be in is
checked in that part, and the rest is a finding or an entry of section 7.

* `broker_single`: one `SingleWriterLeaseBroker` object is open on the file at a
  time, as the class's name says; a restart closes the old one. Nothing in the
  class enforces it, and a test opens a second one beside the first
  (`tests/test_single_writer_lease_broker.py:43`).
* `bets`, `InTurn = TRUE`: the writers that take no lock (`complete`,
  `spec-init`, and the tools that edit the ledger) run while no other writer of
  the ledger does. Their users may keep to that; the
  code does not make them. Each bet's id is no prefix of an earlier one
  (`Anchor <- OwnBlock`).
* `hitl`: no process is killed but the mortal ones, the harness not at all (its
  death ends the execution that the gate is for).
* `worktrees`: no branch exists only on the remote (`Fetched <- Nothing`).
* `projection`: a started process makes its next step, and a due job starts,
  within `Stall`; the threshold is below the interval and the interval below the
  lease, as in the registry of services, with room for two stalls: threshold and
  two stalls are less than the lease, two stalls less than the interval, and a
  stall no more than the staging age (180, 300, 600 and 3600 s in the code: so
  stalls of less than 150 s). A publication's minutes of collecting
  touch none of these files and are outside the model. A staging directory that
  disappears between the listing of `gc` and its look at it ends the run
  (`ScanFails`): it counts as a fault, one interval each in the bounds.
* `clones`: leases are taken and given back through the path, and who works
  without one works through the path; a shell that stays in a renamed directory
  without a lease is the hostile writer the code's comment excludes
  (`clone-lifecycle.py` 204-211). Clones start from one commit and share none
  that is made in them: `onboard --revision` (2691) could pin two clones to one
  HEAD, and the squash form, which takes its inode after its proof and compares
  HEADs, could not tell them apart. An `OSError` in the quarantine (314-320) ends a call without
  putting the clone back, and counts as its death (`Die`).
* `store_file`: agents may be killed at any step, the daily job is not.
* `mesh`: of a line that reaches the log in pieces there are two; its emitter
  finishes it or not.
* `relocation`: the two source roots are one. The client "should not run"; where
  it does, what it writes in the middle of a call is told apart in the properties.
* Everywhere: clocks of one machine, file system and SQLite as documented (flock
  exclusive among those who take it, rename atomic, a write transaction
  serialised), no human edit of the files.

## 6. Finding (violation run)

**`clones_intent`**: `retire` in its squash form removes the clone
(`bin/gac/clone-lifecycle.py:2262`) and then writes the receipt that says it is
about to (line 2281). The accepted design has the order the other way: "After
quarantine rename and complete post-quarantine revalidation, but before FD-bound
deletion, create" the delete-intent
(`.omo/_knowledge/design/plans/archive/superpowers-specs/2026-09-01-squash-successor-clone-retirement-provenance-design.md:330`).
The consequence is more than a matter of order: a call that dies between the two
lines leaves nothing at the path and a chain without an intent, which every
replay refuses (`squash_replay_unsettled`) from then on.

## 7. Promises the code does not keep

These properties are in the modules, stated from a comment or a docstring, and
TLC refutes each on the instance given (a cfg of the module's `...MC` with the
constants of its passing run, changed as the last column says). They are kept
so that a fix of the code can be checked by adding the property to a cfg.

| property | code | what it says, what happens | instance |
|---|---|---|---|
| `CoordinationStore!RenewalExtends` | `coordination_store.py:257` | "顺延 TTL" (comment, line 255); a renewal with a shorter ttl brings the expiry forward | as in `store_claims` |
| `LeaseBroker!WritesInTenureOrder` | `single_writer_lease_broker.py:229` | "拦截过期 epoch 的 Stale Worker 写入" (line 85); epoch and owner are compared in autocommit and the entry is inserted later, so a lease granted in between through another connection does not fence the old worker | two brokers, one task |
| `LeaseBroker!EpochsGrow` | `single_writer_lease_broker.py:159` | "严格单调递增" (line 6), "单调递增 lease_epoch" (line 83); the epoch read before the write lock is written back late | two brokers, one task, `Ttls = {1}` |
| `LeaseBroker!LiveScopesDisjoint` | line 148 | "Disjoint Write Scopes" (line 84); the scope check is outside the transaction | two brokers, two tasks |
| `LeaseBroker!OneCapsulePerEpoch`, `!KeepsFencedLock` | line 159 | as `EpochsGrow` | two brokers |
| `AdrClaims!ListingCoversMain` | `swarm_discipline.py:100` | "cannot double-allocate a number" (line 88); `git ls-tree --name-only origin/main <dir>` without a trailing slash names the directory, never a file in it, so a checkout that lacks a merged ADR is given its number again | as in `adr_claims` |
| `AdrClaims!NewAdrNeedsClaim` | `swarm_discipline.py:230` | "writing a new ADR file requires matching session claim." (line 223); a file that is already written counts as an existing one, so the check never refuses | as in `adr_claims` |
| `AdrClaims!HolderMayCommit` | line 660 | "D1 ADR special case" (line 665); `lstrip("./")` takes the dot of `.omo` away and the case never applies | as in `adr_claims` |
| `Worktrees!PurgeSparesClaimants` | line 395 | "before creating worktree so concurrent claim of same slug fails closed" (`gac-worktree.sh:778`); the claim is registered (780) before the ref is made (837), counts as an orphan until then, and the release of another session deletes it | one actor, two sessions |
| `Worktrees!PurgeKeepsBranchesWithRefs` | line 421 | "branch 是否仍存在于本地或远端 refs" (line 401); remote refs are looked for under a name they never have | `Fetched <- Everything` |
| `Worktrees!GcSparesFreshClaims` | line 553 | "claimed_at/created_at + ttl_hours < now" (line 467); a claim renewed while `gh` was asked is deleted | as in `worktrees` |
| `Worktrees!ReleaseDeletesMerged` | `gac-worktree.sh:1186` | "已合并到 main → 删; 否则保留" (line 1185); the claim file is deleted (line 1159) before the branch is looked up in it | as in `worktrees` |
| `Worktrees!MergeDeletesPushedWork` | `gac-worktree.sh:676` | "worktree 必须已 submit (push + 开 PR)" (line 1213); commits made after the push are deleted with the branch | as in `worktrees` |
| `Worktrees!UnmergedWorkIsKept` | `gac-worktree.sh:1188` | "已合并到 main → 删; 否则保留" (line 1185); `git log --not "origin/main" "$branch"` negates both revisions and prints nothing, so `git branch -D` (1191) runs for unmerged branches too, whenever the branch is found: when `branch-release` (1159) failed, or the session has claimed again in between | as in `worktrees` |
| `Worktrees!DirtyTreesAreKept` | `gac-worktree.sh:1694` | "有未提交改动则跳过 (防丢工作)" (line 1670); written to between the check and `remove --force` | as in `worktrees` |
| `BetLedger!OneWinner` | `bet-ledger.py:2866` | "防同号竞速", "异 actor → fail closed" (2844, 2849); look and write are two steps without exclusion | `Claimers = {a1, a2}` |
| `BetLedger!ClaimAndStatusAgree` | line 2902 | "save_ledger_locked 内把 status 切为 in_progress" (2848); the block of another bet whose id begins with this one is marked | `Anchor <- PrefixHit` |
| `BetLedger!ClaimAndStatusAgree` | `ledger-safe-insert.py:246`, `sync-bet-digests.py:192`, `batch_bet_closeout.py:167` | "多 agent 并发回写 status/evidence 的竞态根治" (`bet-ledger.py:858`), by a lock these writers do not take; a claim that is marked between their read and their write is unmarked again, and its holder was told that it stands | a claimer and an editor, `InTurn = FALSE` |
| `BetLedger!DoneIsFinal` | line 2911 | "candidate→in_progress" (2844); a claim of a finished bet reopens it. And `spec-init` (2783) writes back every bet as it was when the process started, without the lock that exists for "多 agent 并发回写 status/evidence 的竞态根治" (858): a completion in between is undone | a claimer and a completer, `InTurn = TRUE`; two agents with `spec-init` and `complete` |
| `BetLedger!WholeWhenQuiet` | line 3375 | "在锁内对最新 ledger 文本做变换后原子落盘" (860); `complete` truncates in place, a claim reads nothing and renames nothing over it, the ledger stays empty | a claimer and a completer, `InTurn = FALSE` |
| `BetLedger!GcSparesRefreshed` | line 2954 | "刷新时间戳延长 TTL" (2850); a claim refreshed after it was judged is removed | a claimer and a collector |
| `BetLedger!StartStopsAtClaims` | `agent-workflow.py:1089` | "他人持有 claim 广播 → 拒绝 start (fail closed)" (1087); announced after the look | a claimer and a starter |
| `HitlProposal!GoesOnWhenCleared` | `hitl-proposal.py:219`, `harness` 426-450 | "Atomic writes via tempfile+rename" (`hitl-proposal.py:5`); a `wait` that reads between truncation and write gets `{}` and dies, the harness ignores how it ended, reads `{}` again and executes, even while a rejection is being written | one principal |
| `HitlProposal!AnswersAreKept` | `notification.py:190` | "单写者租约 (file lock)" (`docs/superpowers/specs/2026-09-04-hitl-proposal-system-design.md:84`); the notifier writes back what it read, without the lock | a principal and a notifier |
| `HitlProposal!RejectionStops` | `hitl-proposal.py:236` | "Human rejected execution" (v1.1 design, 35-37); an expiry decided before overwrites the rejection | a principal and an expirer |
| `MeshConsumer!TracedOnce` | `mesh-consumer.py:117` | "记录到消费台账 (去重)" (line 5); the offset saved is smaller than what was read | one consumer |
| `MeshConsumer!NoneBroken` | `mesh-consumer.py:128` | "Consume new events since last offset" (line 97); half of a line, read while its emitter writes the other, is skipped as invalid JSON and passed over by the offset | one consumer, one long event |
| `MeshConsumer!NobodyRaises` | `mesh-consumer.py:120-133` | "--watch 持续消费" (line 12); a line cut inside a character raises `UnicodeDecodeError`, only `OSError` is caught, and the loop ends; with an offset saved inside a character every later run ends so too, until the offset is reset | one consumer, one event of `Split` |
| `Projection!NeverLapses` | `projection-republisher.py:64-66` | "单次调度抖动/延迟不会穿透租约"; a renewal is skipped with more than 180 s left and the next comes 300 s later (`services.yaml:6102`), so readers get 503 in between even when nothing is late | as in `projection`, no faults |
| `Projection!NeverOlderData` | line 208 | "发布成功后 republisher 自动接续续期新 revision" (`projection-full-refresh.py:11`); publisher and republisher take different locks, and a renewal begun before a publication puts the pointer back to its baseline's data (`PublicationStays` bounds it) | as in `projection` |
| `StoreFile!OneCopyIsLeft` | `coordination_store.py:510` | a copy is there to be restored (`.omo/_archive/operations-2026H1/coordination-recovery-runbook.md:53`); a backup that fails is tried again by the next access and every attempt rotates, so as many failures as copies leave none | `MaxFaults = 4` |
| `StoreFile!NeverRefused` | line 87 | "幂等, 任何入口先调这个" (line 207, of `ensure_ready`); no entry calls it, and a file whose creator is at work or dead refuses the claims of others | as in `store_file` |
| `StoreFile!CopiesHaveTables` | line 103 | the same; a backup taken before the tables are there is stamped like any other | as in `store_file` |
| `Relocation!NeverOverwritten` | `documents_client_recovery_relocation.py:411` | "Never follow symlinks, overwrite a target/source collision" (`docs/superpowers/plans/2026-08-30-cc-switch-recovery-state-relocation.md:30`); the look and the rename are two steps | as in `relocation` |
| `Relocation!StillReversible` | line 580 | "Reversible staged transaction" (the same plan, 248); after a rollback that failed and put everything back, the empty source roots, or the archived manifest, refuse the next one | one call at a time |
| `Relocation!StillAppliable` | line 469 | the staging directory is gone after a failed apply (`assert not _paths(layout).staging_root.exists()`, tests 242-270); with the manifest written it is not empty, its removal raises an `OSError` that nothing catches, and the next apply is refused | one call at a time |

`NothingSkipped` itself names the ways to lose an event (`Lost`): a line read in
pieces (`broken`, which `NoneBroken` forbids) and a consumer killed between the
saved offset and the trace (`mesh-consumer.py:136`). `ReleaseDeletesMerged` and
`UnmergedWorkIsKept` are the two halves of one comment, and neither is kept.

`UndoneAsAWhole` allows for what the relocation's code does when its undoing
fails: the files stay split, the error says so, and no call
starts from there; `StillReversible` and `StillAppliable` fail with no such
failure.

## 8. Plan

Done, in this order: the abstract lock; the store, its run and proofs; the
broker, its run and proofs; ADR claims; worktrees; bet ledger; proposals; mesh
consumer; projection; clone retirement; the store's file; the recovery
relocation; the proofs of ADR claims, clone retirement, the store's file,
proposals, worktrees and the bet ledger; the proofs of the relocation, the
projection and the mesh consumer, and the last one about clones.

Next, modules, with the hazards they are for. The whole set of runs has to stay
one that can be repeated on every change; what joins a module joins its run, and
a new module takes the place of the violation run or of a run whose theorems have
come to cover it.

1. `EscapeHatch`: one human token spent twice (`swarm_discipline.py:978`), a
   token spent by a refused escape (1111), two records in one second (1017),
   quotas by alias (906).
2. `Federation`: the in-place rewrite against the locked append
   (`agent-federation.py:398`), a task completed twice (368), id reuse (268), a
   dispatch without its message (350).
3. `PhysicalNode` with the shared context store: slots within capacity under
   re-registration (`physical_node.py:37`, 53), one temporary file name
   (`shared_context_store.py:87`).
4. `AgentPresence`: heartbeat against deregister (86), collection by name (110),
   check and register (135).
5. `JourneyEngine` (`comp.get({})`, 243; 100 steps recorded as success, 226;
   in-memory compensation log, 117) and `RoutineEngine` (120, 171), if there is
   room.

Next, proofs: of each new module its safety properties; `FencedLock` itself (that
its fences name tenures) and from it what the store and the broker inherit; of
the properties in section 7 those that hold under a stronger hypothesis than the
code's (one process at a time), as lemmas that say what a fix has to establish.
