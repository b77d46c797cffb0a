------------------------------ MODULE StoreFile ------------------------------
(***************************************************************************)
(* The coordination store as a file (coordination_store.py): how it comes  *)
(* to be, how it gets its tables, and how it is backed up. Every access    *)
(* opens the file anew; the one that found none makes the tables, one      *)
(* autocommitted statement after another, and each takes a backup on its   *)
(* way when the last is a day old. The tables' contents and the claims are *)
(* CoordinationStore's; here rows are only counted.                        *)
(***************************************************************************)
EXTENDS Naturals, FiniteSets, FiniteSetsExt

CONSTANTS
  Agents,     \* processes that use the store, and may be killed
  Cron,       \* the daily --backup
  NoOne,     \* who holds the backup lock when nobody does
  Missing, Partial,   \* of a backup: no such file, a copy that was cut off
  Tables,     \* statements of the schema; the claims' first, the events' last
  Keep,       \* backups kept
  MaxRows, MaxDays, MaxForced, MaxFaults   \* bounds of the instance

Procs == Agents \cup {Cron}
Slots == 1..Keep
Copy == [rows : 0..MaxRows, tables : 0..Tables]

ASSUME StoreFileAssumption ==
  /\ Cron \notin Agents /\ NoOne \notin Procs
  /\ Missing # Partial /\ {Missing, Partial} \cap Copy = {}
  /\ Tables \in Nat \ {0} /\ Keep \in Nat \ {0}
  /\ {MaxRows, MaxDays, MaxForced, MaxFaults} \subseteq Nat

VARIABLES
  exists,     \* the database file is there
  tables,     \* statements of the schema that took effect, from the first
  version,    \* user_version
  rows,       \* rows written so far
  bak,        \* the backups bak.1 .. bak.keep
  stamped,    \* the stamp of the last backup is less than a day old
  lock,       \* who holds the backup lock
  pc, call, fresh, step,   \* each process: next step, what it was called for,
                           \* whether it found no file, and its loop's counter
  copied,     \* history: backups finished, up to Keep
  spoiled,    \* history: a backup failed or was killed since the last stamp
  days, forced, faults

db == <<exists, tables, version, rows>>
backups == <<bak, stamped, lock, copied, spoiled>>
counters == <<days, forced, faults>>
fileVars == <<db, backups, pc, call, fresh, step, counters>>

Backing == {"age", "rotate", "copy", "copying", "stamp", "event"}
Steps == Backing \cup {"idle", "connect", "version", "ddl", "lock", "operate"}

FileTypeOK ==
  /\ exists \in BOOLEAN /\ stamped \in BOOLEAN
  /\ tables \in 0..Tables /\ version \in 0..1 /\ rows \in 0..MaxRows
  /\ bak \in [Slots -> Copy \cup {Missing, Partial}]
  /\ lock \in Procs \cup {NoOne}
  /\ pc \in [Procs -> Steps]
  /\ call \in [Procs -> {"claim", "ready", "backup"}]
  /\ fresh \in [Procs -> BOOLEAN]
  /\ step \in [Procs -> 0..Tables + Keep]
  /\ copied \in 0..Keep /\ spoiled \in BOOLEAN
  /\ days \in 0..MaxDays /\ forced \in 0..MaxForced /\ faults \in 0..MaxFaults

FileInit ==
  /\ exists = FALSE /\ tables = 0 /\ version = 0 /\ rows = 0
  /\ bak = [i \in Slots |-> Missing] /\ stamped = FALSE /\ lock = NoOne
  /\ pc = [p \in Procs |-> "idle"] /\ call = [p \in Procs |-> "claim"]
  /\ fresh = [p \in Procs |-> FALSE] /\ step = [p \in Procs |-> 0]
  /\ copied = 0 /\ spoiled = FALSE /\ days = 0 /\ forced = 0 /\ faults = 0

-----------------------------------------------------------------------------
Goto(p, s) == pc' = [pc EXCEPT ![p] = s]
Set(p, n) == step' = [step EXCEPT ![p] = n]

(* A call that ends forgets what it found.                                 *)
End(p) ==
  /\ Goto(p, "idle")
  /\ call' = [call EXCEPT ![p] = "claim"] /\ fresh' = [fresh EXCEPT ![p] = FALSE]
  /\ Set(p, 0)

(* A call begins with a look for the file: a claim (or another operation   *)
(* on the tables), ensure_ready, or maybe_backup with any age.             *)
Begin(p, c) ==
  /\ pc[p] = "idle"
  /\ call' = [call EXCEPT ![p] = c]
  /\ fresh' = [fresh EXCEPT ![p] = ~exists]
  /\ Goto(p, "connect")
  /\ UNCHANGED <<db, backups, step, days, faults>>
ClaimCall(p) == rows < MaxRows /\ Begin(p, "claim") /\ UNCHANGED forced
EnsureReady == Begin(Cron, "ready") /\ UNCHANGED forced
ForceBackup == forced < MaxForced /\ forced' = forced + 1 /\ Begin(Cron, "backup")

(* _connect: the pragmas create the file. Who found none makes the tables. *)
MakesTables(p) == fresh[p]

Connect(p) ==
  /\ pc[p] = "connect"
  /\ exists' = TRUE
  /\ Goto(p, IF MakesTables(p) THEN "version" ELSE "lock")
  /\ UNCHANGED <<tables, version, rows, backups, call, fresh, step, counters>>

(* _migrate outside a transaction: every statement is one of its own, and  *)
(* does nothing when its table is there; the version follows the last.     *)
ReadVersion(p) ==
  /\ pc[p] = "version"
  /\ Goto(p, IF version = 1 THEN "lock" ELSE "ddl")
  /\ UNCHANGED <<db, backups, call, fresh, step, counters>>

BadMigrated(p) == step[p] = Tables - 1
Migrated(p) == step[p] = Tables
Target == 1

Migrate(p) ==
  /\ pc[p] = "ddl"
  /\ IF Migrated(p)
     THEN version' = Target /\ Goto(p, "lock") /\ Set(p, 0) /\ UNCHANGED tables
     ELSE /\ tables' = Max({tables, step[p] + 1})
          /\ Set(p, step[p] + 1) /\ UNCHANGED <<version, pc>>
  /\ UNCHANGED <<exists, rows, backups, call, fresh, counters>>

(* _backup_with_connection: under the lock, and when it is due. Only       *)
(* maybe_backup comes with an age of its own.                              *)
AfterBackup(p) == IF call[p] = "backup" THEN End(p)
                  ELSE Goto(p, "operate") /\ Set(p, 0) /\ UNCHANGED <<call, fresh>>

LockBackup(p) ==
  /\ pc[p] = "lock" /\ lock = NoOne
  /\ lock' = p /\ Goto(p, "age")
  /\ UNCHANGED <<db, bak, stamped, copied, spoiled, call, fresh, step, counters>>

Age(p) ==
  /\ pc[p] = "age"
  /\ IF stamped /\ call[p] # "backup"
     THEN lock' = NoOne /\ AfterBackup(p)
     ELSE Goto(p, "rotate") /\ Set(p, Keep - 1) /\ UNCHANGED <<lock, call, fresh>>
  /\ UNCHANGED <<db, bak, stamped, copied, spoiled, counters>>

(* bak.i becomes bak.i+1, the oldest first.                                *)
BadSlot(p) == Keep - step[p]
Slot(p) == step[p]

Rotate(p) ==
  /\ pc[p] = "rotate"
  /\ IF step[p] = 0 THEN Goto(p, "copy") /\ UNCHANGED <<bak, step>>
     ELSE /\ bak' = IF bak[Slot(p)] = Missing THEN bak
                    ELSE [bak EXCEPT ![Slot(p) + 1] = bak[Slot(p)], ![Slot(p)] = Missing]
          /\ Set(p, step[p] - 1) /\ UNCHANGED pc
  /\ UNCHANGED <<db, stamped, lock, copied, spoiled, call, fresh, counters>>

CopyBegin(p) ==
  /\ pc[p] = "copy"
  /\ bak' = [bak EXCEPT ![1] = Partial]
  /\ Goto(p, "copying")
  /\ UNCHANGED <<db, stamped, lock, copied, spoiled, call, fresh, step, counters>>

CopyEnd(p) ==
  /\ pc[p] = "copying"
  /\ bak' = [bak EXCEPT ![1] = [rows |-> rows, tables |-> tables]]
  /\ copied' = Min({copied + 1, Keep})
  /\ Goto(p, "stamp")
  /\ UNCHANGED <<db, stamped, lock, spoiled, call, fresh, step, counters>>

Stamp(p) ==
  /\ pc[p] = "stamp"
  /\ stamped' = TRUE /\ spoiled' = FALSE
  /\ Goto(p, "event")
  /\ UNCHANGED <<db, bak, lock, copied, call, fresh, step, counters>>

(* The event that tells of the backup is a row like others, and may lack   *)
(* its table; the call goes on either way.                                 *)
Event(p) ==
  /\ pc[p] = "event"
  /\ lock' = NoOne /\ AfterBackup(p)
  /\ UNCHANGED <<db, bak, stamped, copied, spoiled, counters>>

(* What it was called for: a row, refused where the table is missing, or   *)
(* the tables, all in one transaction.                                     *)
Refused(p) == pc[p] = "operate" /\ call[p] = "claim" /\ tables = 0
BadReady == tables
Ready == Tables

Operate(p) ==
  /\ pc[p] = "operate"
  /\ IF call[p] = "claim"
     THEN rows' \in (IF Refused(p) THEN {rows} ELSE {Min({rows + 1, MaxRows})})
          /\ UNCHANGED <<tables, version>>
     ELSE tables' = Ready /\ version' = (IF Ready = Tables THEN 1 ELSE version)
          /\ UNCHANGED rows
  /\ End(p)
  /\ UNCHANGED <<exists, backups, counters>>

(* A day passes. *)
Day ==
  /\ stamped /\ days < MaxDays
  /\ stamped' = FALSE /\ days' = days + 1
  /\ UNCHANGED <<db, bak, lock, copied, spoiled, pc, call, fresh, step, forced, faults>>

(* The disk is full, or the copy fails: the lock is given back with no     *)
(* stamp, and all but maybe_backup go on. (The mutant stamps first.)       *)
BadGiveUp(p) == Goto(p, "stamp") /\ UNCHANGED <<lock, call, fresh, step>>
GiveUp(p) == lock' = NoOne /\ AfterBackup(p)

BackupFails(p) ==
  /\ pc[p] \in Backing \ {"event"} /\ faults < MaxFaults
  /\ faults' = faults + 1 /\ spoiled' = TRUE
  /\ GiveUp(p)
  /\ UNCHANGED <<db, bak, stamped, copied, days, forced>>

Killed(p) ==
  /\ pc[p] # "idle" /\ faults < MaxFaults
  /\ faults' = faults + 1 /\ spoiled' = (spoiled \/ lock = p)
  /\ lock' = IF lock = p THEN NoOne ELSE lock
  /\ End(p)
  /\ UNCHANGED <<db, bak, stamped, copied, days, forced>>

Proceed(p) ==
  \/ Connect(p) \/ ReadVersion(p) \/ Migrate(p) \/ LockBackup(p) \/ Age(p) \/ Rotate(p)
  \/ CopyBegin(p) \/ CopyEnd(p) \/ Stamp(p) \/ Event(p) \/ Operate(p)

FileNext ==
  \/ \E p \in Agents : ClaimCall(p) \/ Killed(p)
  \/ EnsureReady \/ ForceBackup \/ Day
  \/ \E p \in Procs : Proceed(p) \/ BackupFails(p)

(* Calls run on, and who waits for the lock gets it, as the kernel queues  *)
(* them; the daily job from cron begins with ensure_ready.                 *)
FairSpec ==
  /\ FileInit /\ [][FileNext]_fileVars
  /\ \A p \in Procs : WF_fileVars(Proceed(p)) /\ SF_fileVars(LockBackup(p))
  /\ WF_fileVars(EnsureReady)

-----------------------------------------------------------------------------
Whole(i) == bak[i] \notin {Missing, Partial}
AtWork == lock # NoOne /\ pc[lock] \in {"rotate", "copy", "copying"}

(* The version vouches for the tables: whatever calls made them together,  *)
(* and wherever one was killed, no file of version 1 lacks one. (The type  *)
(* invariant is the first part of it.)                                     *)
VersionVouches == FileTypeOK /\ (version = 1 => tables = Tables)

(* A failed or killed backup costs one of the earlier ones and no more: of *)
(* the last Keep that were finished all are there but one for every fault  *)
(* and one for the backup at work.                                         *)
FaultsCostOneEach ==
  Cardinality({i \in Slots : Whole(i)}) + faults + (IF AtWork THEN 1 ELSE 0) >= copied

(* The stamp vouches for the first backup until a later one fails, however *)
(* many failed before it.                                                  *)
StampVouches == stamped /\ ~AtWork /\ ~spoiled => Whole(1)

(* A file that lacks tables gets them all, though the process that created *)
(* it was killed and no later one finds the file missing.                  *)
EventuallySetUp == exists ~> version = 1

(* Not kept - a backup that fails is tried again by the next access, and   *)
(* each attempt rotates: as many failures as there are backups leave none. *)
OneCopyIsLeft == copied > 0 => AtWork \/ \E i \in Slots : Whole(i)

(* Not kept - "any entry calls ensure_ready first": none does, and a file  *)
(* whose creator is still at work, or dead, refuses the claims of others.  *)
NeverRefused == \A p \in Procs : ~Refused(p)

(* Not kept - a backup taken before the tables are there is stamped like   *)
(* any other, and is the only one for a day.                               *)
CopiesHaveTables == stamped /\ Whole(1) => bak[1].tables = Tables
=============================================================================
