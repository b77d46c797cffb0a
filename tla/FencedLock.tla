---------------------------- MODULE FencedLock ----------------------------
(***************************************************************************)
(* What a fencing lock promises, stated without clocks, tables, retries or *)
(* processes.  A lock has a holder (or none) and a fence, the number handed *)
(* out with the last grant.  A holder can change in two ways only: the     *)
(* lock is granted, and then the fence grows by one, or it is given up,    *)
(* and then the fence stays.  So a number names one tenure of one holder,  *)
(* and whoever shows an older number has been superseded.                  *)
(*                                                                         *)
(* Two components of the control plane make this promise and are checked   *)
(* to keep it: the claims table of bin/gac/coordination_store.py (see      *)
(* CoordinationStore) and the task leases of                               *)
(* lib/single_writer_lease_broker.py (see LeaseBroker).                    *)
(***************************************************************************)
EXTENDS Naturals

CONSTANTS
  Locks,      \* what can be held: claimable resources, or tasks
  Holders,    \* who can hold it: owners, or workers
  Nobody      \* stands for "no holder", and is not one of the Holders

VARIABLES
  holder,     \* holder[l]: the one entitled to act under lock l, or Nobody
  fence       \* fence[l]: the number handed out with the last grant of l

lockVars == <<holder, fence>>

LockTypeOK ==
  /\ holder \in [Locks -> Holders \cup {Nobody}]
  /\ fence \in [Locks -> Nat]

LockInit ==
  /\ holder = [l \in Locks |-> Nobody]
  /\ fence = [l \in Locks |-> 0]

(* A grant to h: always under a number never used before, whether the lock *)
(* was free, lapsed, or taken over.                                        *)
Grant(l, h) ==
  /\ holder' = [holder EXCEPT ![l] = h]
  /\ fence' = [fence EXCEPT ![l] = @ + 1]

(* The holder lets go; its number is not reused.                           *)
GiveUp(l) ==
  /\ holder[l] # Nobody
  /\ holder' = [holder EXCEPT ![l] = Nobody]
  /\ UNCHANGED fence

LockNext ==
  \E l \in Locks : GiveUp(l) \/ \E h \in Holders : Grant(l, h)

LockSpec == LockInit /\ [][LockNext]_lockVars
=============================================================================
