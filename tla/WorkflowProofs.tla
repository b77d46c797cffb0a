--------------------------- MODULE WorkflowProofs ---------------------------
(***************************************************************************)
(* Machine-checked proofs about the two programs that stand between the    *)
(* workflow and those who decide and follow it: HitlProposal, for any      *)
(* people, expirers and notifiers, any of whom may be killed, and for any  *)
(* times; and MeshConsumer, for any events, of which any may be long, and  *)
(* any consumers, any of whom may be killed or reset.                      *)
(*                                                                         *)
(* HitlProposal: while nobody has died, the file is a proposal with a      *)
(* name, or the one who truncated it still has the lock and the content to *)
(* write; who has the file open after a notifier replaced it writes to     *)
(* nobody's file.  A rejection in the file, or in what a notifier read of  *)
(* it, was told to the principal who gave it.                              *)
(*                                                                         *)
(* MeshConsumer: what is before an offset, saved or in use, was traced, is *)
(* lost, or is with a consumer that has saved it, also when the offset     *)
(* falls within a line. A consumer that reads from such an offset has      *)
(* every other event up to the size that it measured before, but one of    *)
(* which that size saw the first piece only.                               *)
(***************************************************************************)
EXTENDS HitlProposal, MeshConsumer, FiniteSetTheorems, SequenceTheorems, TLAPS

-----------------------------------------------------------------------------
(* The proposal.                                                           *)
Updating == {"open", "lock", "write"}

Commands ==
  [step : {"idle", "open", "lock", "write", "notify", "dead"},
   status : Decisions \cup {"pending"}, named : BOOLEAN, stale : BOOLEAN]

Types ==
  /\ file \in Proposals \cup {Torn, Absent}
  /\ locked \in Processes \cup {Nobody}
  /\ proc \in [Processes -> Commands]
  /\ \A p \in Processes : proc[p].step \in Updating => proc[p].status \in Decisions
  /\ stage \in {"create", "notify", "wait", "fetch", "executed", "stopped"}
  /\ deadline \in Nat /\ expires \in Nat
  /\ answers \subseteq Decisions
  /\ clock \in 0 .. MaxTime

(* Nothing runs before there is a proposal.                                *)
NothingFirst ==
  stage = "create" => file = Absent /\ \A p \in Processes : proc[p].step = "idle"

(* What writes the file next, if nobody has died.                          *)
Survivors == \A p \in Processes : proc[p].step # "dead"
NameIsKept ==
  Survivors =>
    /\ file # Absent => Named \/ file = Torn
    /\ stage # "create" => file # Absent
    /\ \A p \in Processes :
         /\ proc[p].step = "write" /\ ~proc[p].stale => proc[p].named
         /\ proc[p].step = "notify" => proc[p].named

(* The one that writes to the file has it truncated and locked.            *)
WriterLocks ==
  /\ \A p \in Processes : proc[p].step = "write" /\ ~proc[p].stale => locked = p
  /\ file = Torn => \E p \in Processes :
       \/ proc[p].step = "write" /\ ~proc[p].stale /\ locked = p
       \/ proc[p].step = "dead"

(* Where a rejection comes from.                                           *)
RejectionWasTold ==
  /\ Status = "rejected" => "rejected" \in answers
  /\ \A p \in Processes : proc[p].status = "rejected" =>
       \/ proc[p].step \in Updating /\ p \in Principals
       \/ proc[p].step = "notify" /\ "rejected" \in answers
  /\ stage = "stopped" => "rejected" \in answers

IInv == Types /\ NothingFirst /\ NameIsKept /\ WriterLocks /\ RejectionWasTold

-----------------------------------------------------------------------------
(* What the program finds in a file is a proposal, a torn file or none.    *)
LEMMA NoProposal ==
  Torn \notin Proposals /\ Absent \notin Proposals /\ Torn # Absent
BY HitlAssumption

(* What is written to the file is a proposal.                              *)
LEMMA Written ==
  ASSUME NEW s \in Decisions \cup {"pending"}, NEW n \in BOOLEAN
  PROVE  LET t == [status |-> s, named |-> n] IN t \in Proposals /\ t # Torn /\ t # Absent
BY NoProposal DEF Proposals

(* The invariant holds at the start, when nothing runs.                    *)
LEMMA InvStarts == Init => IInv
<1> SUFFICES ASSUME Init PROVE IInv OBVIOUS
<1> USE HitlAssumption, NoProposal DEF Init, Idle
<1>1. Types BY DEF Types, Commands, Updating
<1>2. NothingFirst BY DEF NothingFirst
<1>3. NameIsKept BY DEF NameIsKept
<1>4. WriterLocks BY DEF WriterLocks
<1>5. RejectionWasTold BY DEF RejectionWasTold, Status, Readable
<1>6. QED BY <1>1, <1>2, <1>3, <1>4, <1>5 DEF IInv

(* What a notifier's rename does to the other commands.                    *)
LEMMA Replaced ==
  ASSUME Types, NEW p \in Processes, NotifyWrite(p)
  PROVE  /\ proc' \in [Processes -> Commands] /\ proc'[p] = Idle
         /\ \A q \in Processes \ {p} :
              /\ proc'[q].step = proc[q].step /\ proc'[q].status = proc[q].status
              /\ proc'[q].named = proc[q].named
              /\ proc'[q].stale = (proc[q].stale \/ proc[q].step \in {"lock", "write"})
<1>1. proc'[p] = Idle /\ Idle \in Commands BY DEF NotifyWrite, Idle, Commands
<1>2. ASSUME NEW q \in Processes, q # p
      PROVE  /\ proc'[q] \in Commands
             /\ proc'[q].step = proc[q].step /\ proc'[q].status = proc[q].status
             /\ proc'[q].named = proc[q].named
             /\ proc'[q].stale = (proc[q].stale \/ proc[q].step \in {"lock", "write"})
  <2>1. proc'[q] = [proc[q] EXCEPT !.stale = @ \/ proc[q].step \in {"lock", "write"}]
    BY <1>2 DEF NotifyWrite
  <2>2. proc[q] \in Commands BY DEF Types
  <2>3. QED BY <2>1, <2>2 DEF Commands
<1>3. QED BY <1>1, <1>2 DEF NotifyWrite

(* Types and "nothing first": each step by itself.                         *)
Command(p) ==
  \/ \E decision \in {"approved", "rejected"} : Answer(p, decision)
  \/ Expire(p) \/ UpdateOpen(p) \/ UpdateTruncate(p) \/ UpdateWrite(p)
  \/ NotifyRead(p) \/ NotifyWrite(p) \/ Kill(p)

LEMMA TypesStay ==
  ASSUME IInv, [Next]_vars
  PROVE  Types' /\ NothingFirst'
<1> USE HitlAssumption DEF IInv, Types, NothingFirst
<1>1. CASE Create
  <2>1. file' = [status |-> "pending", named |-> TRUE] BY <1>1 DEF Create
  <2>2. file' \in Proposals BY <2>1, Written
  <2>3. QED BY <1>1, <2>2 DEF Create
<1>2. CASE StartWait \/ EndWait \/ Fetch \/ Tick
  BY <1>2 DEF StartWait, EndWait, Fetch, Tick
<1>3. ASSUME NEW p \in Processes, Command(p) PROVE Types' /\ NothingFirst'
  <2>1. /\ UNCHANGED <<stage, deadline, expires, clock>>
        /\ proc' \in [Processes -> Commands]
        /\ \A q \in Processes : proc'[q].step \in Updating => proc'[q].status \in Decisions
    <3> USE DEF Commands, Updating, Idle, End, Goto
    <3>1. CASE \E decision \in {"approved", "rejected"} : Answer(p, decision)
      <4>1. PICK decision \in {"approved", "rejected"} : Answer(p, decision) BY <3>1
      <4>2. QED BY <4>1 DEF Answer, Decisions
    <3>2. CASE Expire(p) BY <3>2 DEF Expire, Decisions
    <3>3. CASE UpdateOpen(p)
      <4>1. CASE Named BY <3>3, <4>1 DEF UpdateOpen
      <4>2. CASE ~Named
        <5>1. /\ proc' = [proc EXCEPT ![p] = Idle] /\ UNCHANGED <<stage, deadline, expires, clock>>
              /\ Idle.step = "idle" /\ Idle \in Commands
          BY <3>3, <4>2 DEF UpdateOpen
        <5>2. QED BY <5>1
      <4>3. QED BY <4>1, <4>2
    <3>4. CASE UpdateTruncate(p)
      <4>1. Named \in BOOLEAN BY DEF Named, Readable, Proposals
      <4>2. QED BY <3>4, <4>1 DEF UpdateTruncate
    <3>5. CASE UpdateWrite(p) BY <3>5 DEF UpdateWrite
    <3>6. CASE NotifyRead(p)
      <4>1. file.status \in Decisions \cup {"pending"} /\ file.named \in BOOLEAN
        BY <3>6 DEF NotifyRead, Named, Readable, Proposals
      <4>2. QED BY <3>6, <4>1 DEF NotifyRead
    <3>7. CASE NotifyWrite(p) BY <3>7, Replaced DEF NotifyWrite
    <3>8. CASE Kill(p) BY <3>8 DEF Kill
    <3>9. QED BY <1>3, <3>1, <3>2, <3>3, <3>4, <3>5, <3>6, <3>7, <3>8 DEF Command
  <2>2. file' \in {file, Torn, [status |-> proc[p].status, named |-> proc[p].named]}
    BY <1>3 DEF Command, Answer, Expire, UpdateOpen, UpdateTruncate, UpdateWrite, NotifyRead,
                NotifyWrite, Kill
  <2>3. file' \in Proposals \cup {Torn, Absent} BY <2>2, Written DEF Commands
  <2>4. locked' \in {locked, p, Nobody} /\ answers' \subseteq answers \cup {proc[p].status}
    BY <1>3 DEF Command, Answer, Expire, UpdateOpen, UpdateTruncate, UpdateWrite, NotifyRead,
                NotifyWrite, Kill
  <2>5. answers' \subseteq Decisions
    BY <1>3 DEF Command, Answer, Expire, UpdateOpen, UpdateTruncate, UpdateWrite, NotifyRead,
                NotifyWrite, Kill, Updating
  <2>6. stage # "create"
    BY <1>3, NoProposal DEF Command, Answer, Expire, UpdateOpen, UpdateTruncate, UpdateWrite,
                NotifyRead, NotifyWrite, Kill, Named, Readable
  <2>7. QED BY <2>1, <2>3, <2>4, <2>5, <2>6
<1>4. CASE UNCHANGED vars BY <1>4 DEF vars
<1>5. QED BY <1>1, <1>2, <1>3, <1>4 DEF Next, Harness, Command

(* Who has truncated the file keeps the lock, until they write or die, or  *)
(* a notifier gives the file's name to another file.                       *)
LEMMA WriterStays ==
  ASSUME IInv, [Next]_vars
  PROVE  WriterLocks'
<1> USE HitlAssumption, NoProposal
        DEF IInv, Types, Commands, WriterLocks, Idle, End, Goto
<1>1. CASE Harness
  BY <1>1, Written DEF Harness, Create, StartWait, EndWait, Fetch
<1>2. CASE Tick BY <1>2 DEF Tick
<1>3. ASSUME NEW p \in Processes, Command(p) PROVE WriterLocks'
  <2>1. CASE \E decision \in {"approved", "rejected"} : Answer(p, decision) BY <2>1 DEF Answer
  <2>2. CASE Expire(p) BY <2>2 DEF Expire
  <2>3. CASE UpdateOpen(p) BY <2>3 DEF UpdateOpen
  <2>4. CASE UpdateTruncate(p) BY <2>4 DEF UpdateTruncate, LockFree
  <2>5. CASE UpdateWrite(p) BY <2>5, Written DEF UpdateWrite
  <2>6. CASE NotifyRead(p) BY <2>6 DEF NotifyRead
  <2>7. CASE NotifyWrite(p)
    <3>1. file' # Torn BY <2>7, Written DEF NotifyWrite
    <3>2. ASSUME NEW q \in Processes, proc'[q].step = "write" PROVE proc'[q].stale
      BY <2>7, <3>2, Replaced
    <3>3. QED BY <3>1, <3>2
  <2>8. CASE Kill(p) BY <2>8 DEF Kill
  <2>9. QED BY <1>3, <2>1, <2>2, <2>3, <2>4, <2>5, <2>6, <2>7, <2>8 DEF Command
<1>4. CASE UNCHANGED vars BY <1>4 DEF vars
<1>5. QED BY <1>1, <1>2, <1>3, <1>4 DEF Next, Command

(* Until somebody dies, every text that will be written has the name.      *)
LEMMA NameStays ==
  ASSUME IInv, [Next]_vars
  PROVE  NameIsKept'
<1> USE HitlAssumption, NoProposal
        DEF IInv, Types, Commands, NameIsKept, Survivors, Readable, Named, Proposals, Idle, End, Goto
<1>1. CASE Harness
  <2>1. CASE Create
    <3>1. Named' BY <2>1, Written DEF Create
    <3>2. QED BY <2>1, <3>1 DEF Create, NothingFirst
  <2>2. CASE ~Create BY <1>1, <2>2 DEF Harness, StartWait, EndWait, Fetch
  <2>3. QED BY <2>1, <2>2
<1>2. CASE Tick BY <1>2 DEF Tick
<1>3. ASSUME NEW p \in Processes, Command(p) PROVE NameIsKept'
  <2>1. CASE \E decision \in {"approved", "rejected"} : Answer(p, decision) BY <2>1 DEF Answer
  <2>2. CASE Expire(p) BY <2>2 DEF Expire
  <2>3. CASE UpdateOpen(p) BY <2>3 DEF UpdateOpen
  <2>4. CASE UpdateTruncate(p) BY <2>4 DEF UpdateTruncate, LockFree, WriterLocks, NothingFirst
  <2>5. CASE UpdateWrite(p) BY <2>5 DEF UpdateWrite
  <2>6. CASE NotifyRead(p) BY <2>6 DEF NotifyRead
  <2>7. CASE NotifyWrite(p) BY <2>7, Written, Replaced DEF NotifyWrite
  <2>8. CASE Kill(p) BY <2>8 DEF Kill
  <2>9. QED BY <1>3, <2>1, <2>2, <2>3, <2>4, <2>5, <2>6, <2>7, <2>8 DEF Command
<1>4. CASE UNCHANGED vars BY <1>4 DEF vars
<1>5. QED BY <1>1, <1>2, <1>3, <1>4 DEF Next, Command

(* A rejection comes into the file with the answer that is told, and a     *)
(* notifier only brings back one that was there.                           *)
LEMMA RejectionStays ==
  ASSUME IInv, [Next]_vars
  PROVE  RejectionWasTold'
<1> USE HitlAssumption, NoProposal
        DEF IInv, Types, Commands, RejectionWasTold, Updating, Status, Readable, Proposals, Idle, End, Goto
<1>1. CASE Harness
  BY <1>1 DEF Harness, Create, StartWait, EndWait, Fetch, Stops
<1>2. CASE Tick BY <1>2 DEF Tick
<1>3. ASSUME NEW p \in Processes, Command(p) PROVE RejectionWasTold'
  <2>1. CASE \E decision \in {"approved", "rejected"} : Answer(p, decision) BY <2>1 DEF Answer
  <2>2. CASE Expire(p) BY <2>2 DEF Expire
  <2>3. CASE UpdateOpen(p) BY <2>3 DEF UpdateOpen
  <2>4. CASE UpdateTruncate(p) BY <2>4 DEF UpdateTruncate
  <2>5. CASE UpdateWrite(p) BY <2>5 DEF UpdateWrite
  <2>6. CASE NotifyRead(p) BY <2>6 DEF NotifyRead, Named
  <2>7. CASE NotifyWrite(p) BY <2>7, Written, Replaced DEF NotifyWrite
  <2>8. CASE Kill(p) BY <2>8 DEF Kill
  <2>9. QED BY <1>3, <2>1, <2>2, <2>3, <2>4, <2>5, <2>6, <2>7, <2>8 DEF Command
<1>4. CASE UNCHANGED vars BY <1>4 DEF vars
<1>5. QED BY <1>1, <1>2, <1>3, <1>4 DEF Next, Command

-----------------------------------------------------------------------------
LEMMA InvHolds == Spec => []IInv
<1>1. IInv /\ [Next]_vars => IInv'
  BY TypesStay, WriterStays, NameStays, RejectionStays DEF IInv
<1>2. QED BY <1>1, InvStarts, PTL DEF Spec

(* Updates that wait for each other's lock never lose the proposal: when   *)
(* no command runs, and none died half way, its file has its name          *)
(* (update_status and the notifier's rename).                              *)
THEOREM ProposalSurvives == Spec => []NeverEmptied
<1>1. ASSUME IInv PROVE NeverEmptied
  <2>1. TypeOK BY <1>1 DEF IInv, Types, Commands, WriterLocks, TypeOK
  <2>2. ASSUME stage # "create", Quiet PROVE Named
    BY <1>1, <2>2 DEF Quiet, IInv, NameIsKept, Survivors, WriterLocks
  <2>3. QED BY <2>1, <2>2 DEF NeverEmptied
<1>2. QED BY <1>1, InvHolds, PTL

(* The harness stops only on a rejection that a principal was told of.     *)
THEOREM OnlyRejectionStops == Spec => []StopsOnRejection
<1>1. IInv => StopsOnRejection BY DEF IInv, RejectionWasTold, StopsOnRejection
<1>2. QED BY <1>1, InvHolds, PTL

-----------------------------------------------------------------------------
(* The mesh consumer.                                                      *)
ConsumerStates ==
  [step : {"idle", "size", "read", "open", "save", "trace", "raised", "dead"},
   from : Nat, size : Nat, batch : Seq(Events)]

MeshTypes ==
  /\ log \in Seq(Pieces)
  /\ offset \in (0 .. Len(log)) \cup {TornOffset}
  /\ trace \in Seq(Events)
  /\ consumer \in [Consumers -> ConsumerStates]
  /\ \A c \in Consumers : consumer[c].from <= Len(log) /\ consumer[c].size <= Len(log)
  /\ broken \subseteq Long \ Split

(* The second half of a line follows its first, and only a long line may   *)
(* wait for it.                                                            *)
LinesFollow ==
  \A i \in 1 .. Len(log) :
    /\ log[i][2] = 2 => i > 1 /\ log[i - 1] = <<log[i][1], 1>>
    /\ log[i][2] = 1 /\ i < Len(log) => log[i + 1] = <<log[i][1], 2>>
    /\ log[i][2] = 1 /\ i = Len(log) => log[i][1] \in Long

(* What is before an offset was traced, is lost, or will be traced by one  *)
(* who has saved the offset behind it.                                     *)
IsHandled(e) ==
  \/ Traced(e) \/ Lost(e)
  \/ \E c \in Consumers : consumer[c].step = "trace" /\ e \in Pending(c)
Handled == {e \in Events : IsHandled(e)}
HandledTo(n) == \A i \in 1 .. Len(log) : i <= n => log[i][1] \in Handled

OffsetIsHandled == offset # TornOffset => HandledTo(offset)

(* A consumer has read all there is between what it loaded and what it     *)
(* will save.                                                              *)
ReadTo(c) ==
  \A i \in 1 .. Len(log) :
    consumer[c].from < i /\ i <= consumer[c].size =>
      log[i][1] \in Handled \/ log[i][1] \in Pending(c)

Work(c) ==
  /\ consumer[c].step \in {"size", "read", "open", "save"} => HandledTo(consumer[c].from)
  /\ consumer[c].step \in {"open", "save"} => ReadTo(c)
WorkIsHandled == \A c \in Consumers : Work(c)

MeshIInv == MeshTypes /\ LinesFollow /\ OffsetIsHandled /\ WorkIsHandled

-----------------------------------------------------------------------------
(* What a consumer reads from an offset on (the loop of consume_once): the *)
(* events of the lines that are whole there, each of them.                 *)
Whole(n) == {i \in 1 .. Len(log) : i > n /\ log[i][2] = 1 /\ i < Len(log)}
Rank(S, i) == Cardinality({j \in S : j <= i})

LEMMA Ranks ==
  ASSUME NEW n \in Nat, NEW S \in SUBSET (1 .. n)
  PROVE  /\ Cardinality(S) \in Nat
         /\ \A i \in S : Rank(S, i) \in 1 .. Cardinality(S)
         /\ \A i, j \in S : Rank(S, i) = Rank(S, j) => i = j
         /\ \A k \in 1 .. Cardinality(S) : \E i \in S : Rank(S, i) = k
<1>1. IsFiniteSet(S)
  <2>1. IsFiniteSet(1 .. n) BY FS_Interval
  <2>2. QED BY <2>1, FS_Subset
<1>2. Cardinality(S) \in Nat BY <1>1, FS_CardinalityType
<1>3. ASSUME NEW i \in S
      PROVE  /\ IsFiniteSet({j \in S : j <= i})
             /\ Rank(S, i) \in 1 .. Cardinality(S)
  <2> DEFINE U == {j \in S : j <= i}
  <2>1. U \subseteq S /\ i \in U BY <1>3
  <2>2. IsFiniteSet(U) /\ Cardinality(U) <= Cardinality(S) BY <2>1, <1>1, FS_Subset
  <2>3. Cardinality(U) \in Nat BY <2>2, FS_CardinalityType
  <2>4. Cardinality(U) # 0 BY <2>1, <2>2, FS_EmptySet
  <2>5. Rank(S, i) = Cardinality(U) BY DEF Rank
  <2>6. QED BY <1>2, <2>2, <2>3, <2>4, <2>5
<1>4. ASSUME NEW i \in S, NEW j \in S, i < j PROVE Rank(S, i) # Rank(S, j)
  <2> DEFINE U == {k \in S : k <= i}
             V == {k \in S : k <= j}
  <2>1. \A k \in S : k \in Nat OBVIOUS
  <2>2. U \subseteq V /\ j \in V /\ j \notin U
    <3>1. i \in Nat /\ j \in Nat BY <2>1
    <3>2. i < j BY <1>4
    <3>3. \A k \in S : k <= i => k <= j BY <2>1, <3>1, <3>2
    <3>4. ~(j <= i) /\ j <= j BY <3>1, <3>2
    <3>5. QED BY <3>3, <3>4
  <2>3. IsFiniteSet(V) BY <1>3
  <2>4. Cardinality(U) # Cardinality(V) BY <2>2, <2>3, FS_Subset
  <2>5. QED BY <2>4 DEF Rank
<1>5. ASSUME NEW i \in S, NEW j \in S, Rank(S, i) = Rank(S, j) PROVE i = j
  <2>1. i \in Nat /\ j \in Nat OBVIOUS
  <2>2. ~(i < j) /\ ~(j < i) BY <1>4, <1>5
  <2>3. QED BY <2>1, <2>2
<1>6. \A k \in 1 .. Cardinality(S) : \E i \in S : Rank(S, i) = k
  <2> DEFINE K == 1 .. Cardinality(S)
             r == [i \in S |-> Rank(S, i)]
  <2>1. r \in [S -> K] BY <1>3
  <2>2. \A i, j \in S : r[i] = r[j] => i = j BY <1>5
  <2>3. r \in Injection(S, K) BY <2>1, <2>2 DEF Injection, IsInjective
  <2>4. IsFiniteSet(K) /\ Cardinality(K) = Cardinality(S) BY <1>2, FS_Interval
  <2>5. r \in Surjection(S, K) BY <2>3, <2>4, FS_Injection
  <2>6. QED BY <2>5 DEF Surjection
<1>7. QED BY <1>2, <1>3, <1>5, <1>6

LEMMA ReadAll ==
  ASSUME MeshTypes, NEW n \in Nat
  PROVE  /\ WholeFrom(n) \in Seq(Events)
         /\ \A i \in Whole(n) : \E k \in 1 .. Len(WholeFrom(n)) : WholeFrom(n)[k] = log[i][1]
<1> DEFINE S == Whole(n)
           pick(k) == CHOOSE i \in S : Rank(S, i) = k
<1>1. Len(log) \in Nat /\ S \in SUBSET (1 .. Len(log)) BY DEF MeshTypes, Whole
<1>2. WholeFrom(n) = [k \in 1 .. Cardinality(S) |-> log[pick(k)][1]]
  BY DEF WholeFrom, Whole, Rank
<1>3. /\ Cardinality(S) \in Nat
      /\ \A i \in S : Rank(S, i) \in 1 .. Cardinality(S)
      /\ \A i, j \in S : Rank(S, i) = Rank(S, j) => i = j
      /\ \A k \in 1 .. Cardinality(S) : \E i \in S : Rank(S, i) = k
  BY <1>1, Ranks
<1> HIDE DEF S
<1>4. ASSUME NEW k \in 1 .. Cardinality(S) PROVE pick(k) \in S /\ Rank(S, pick(k)) = k
  BY <1>3
<1>5. ASSUME NEW i \in S PROVE pick(Rank(S, i)) = i
  BY <1>3
<1>6. \A i \in S : log[i][1] \in Events
  BY <1>1 DEF MeshTypes, Pieces
<1>7. WholeFrom(n) \in [1 .. Cardinality(S) -> Events]
  BY <1>2, <1>4, <1>6
<1>8. WholeFrom(n) \in Seq(Events) /\ Len(WholeFrom(n)) = Cardinality(S)
  BY <1>3, <1>7
<1>9. ASSUME NEW i \in S
      PROVE  \E k \in 1 .. Len(WholeFrom(n)) : WholeFrom(n)[k] = log[i][1]
  <2>1. Rank(S, i) \in 1 .. Cardinality(S) /\ pick(Rank(S, i)) = i BY <1>3, <1>5
  <2> HIDE DEF pick
  <2>2. WholeFrom(n)[Rank(S, i)] = log[pick(Rank(S, i))][1] BY <1>2, <2>1
  <2>3. QED BY <1>8, <2>1, <2>2
<1>10. QED BY <1>8, <1>9 DEF S

-----------------------------------------------------------------------------
(* The log at a step: what is there stays, and lines are complete, or are  *)
(* long and the last.                                                      *)
LEMMA LogGrows ==
  ASSUME MeshTypes, LinesFollow, [MeshNext]_meshVars
  PROVE  /\ log' \in Seq(Pieces) /\ Len(log) <= Len(log')
         /\ \A i \in 1 .. Len(log) : log'[i] = log[i]
         /\ LinesFollow'
<1> USE DEF LinesFollow
<1>1. log \in Seq(Pieces) /\ Len(log) \in Nat BY DEF MeshTypes
<1>2. \A i \in 1 .. Len(log) : log[i] = <<log[i][1], log[i][2]>> /\ log[i] \in Pieces
                               /\ log[i][1] \in Events /\ log[i][2] \in {1, 2}
  BY <1>1 DEF Pieces
<1>3. CASE UNCHANGED log BY <1>1, <1>3
<1>4. ASSUME NEW e \in Events, Emit(e)
      PROVE  /\ log' \in Seq(Pieces) /\ Len(log) <= Len(log')
             /\ \A i \in 1 .. Len(log) : log'[i] = log[i]
             /\ LinesFollow'
  <2>1. ~Unfinished BY <1>4 DEF Emit
  <2>2. log # << >> => Len(log) \in 1 .. Len(log) BY <1>1
  <2>3. Len(log) # 0 => log[Len(log)][2] = 2 BY <1>1, <1>2, <2>1, <2>2 DEF Unfinished
  <2>4. <<e, 1>> \in Pieces /\ <<e, 2>> \in Pieces BY <1>4 DEF Pieces
  <2>5. CASE e \in Long
    <3>1. log' = Append(log, <<e, 1>>) BY <1>1, <1>4, <2>4, <2>5 DEF Emit
    <3>2. log' \in Seq(Pieces) /\ Len(log') = Len(log) + 1 /\ log'[Len(log) + 1] = <<e, 1>>
      BY <1>1, <2>4, <3>1
    <3>3. \A i \in 1 .. Len(log) : log'[i] = log[i] BY <1>1, <2>4, <3>1
    <3>4. ASSUME NEW i \in 1 .. Len(log')
          PROVE  /\ log'[i][2] = 2 => i > 1 /\ log'[i - 1] = <<log'[i][1], 1>>
                 /\ log'[i][2] = 1 /\ i < Len(log') => log'[i + 1] = <<log'[i][1], 2>>
                 /\ log'[i][2] = 1 /\ i = Len(log') => log'[i][1] \in Long
      <4>1. CASE i = Len(log) + 1 BY <1>1, <2>5, <3>2, <4>1
      <4>2. CASE i \in 1 .. Len(log) /\ i = Len(log) BY <1>1, <2>3, <3>2, <3>3, <4>2
      <4>3. CASE i \in 1 .. Len(log) /\ i < Len(log)
        <5>1. i + 1 \in 1 .. Len(log) /\ (i > 1 => i - 1 \in 1 .. Len(log)) BY <1>1, <4>3
        <5>2. QED BY <1>1, <3>2, <3>3, <4>3, <5>1
      <4>4. QED BY <1>1, <3>2, <4>1, <4>2, <4>3
    <3>5. QED BY <1>1, <3>2, <3>3, <3>4
  <2>6. CASE e \notin Long
    <3> DEFINE line == << <<e, 1>>, <<e, 2>> >>
    <3>1. /\ log' = log \o line /\ line \in Seq(Pieces) /\ Len(line) = 2
          /\ line[1] = <<e, 1>> /\ line[2] = <<e, 2>>
      BY <1>4, <2>4, <2>6 DEF Emit
    <3> HIDE DEF line
    <3>2. /\ log' \in Seq(Pieces) /\ Len(log') = Len(log) + 2
          /\ log'[Len(log) + 1] = <<e, 1>> /\ log'[Len(log) + 2] = <<e, 2>>
      <4> DEFINE grown == log \o line
      <4>1. /\ grown \in Seq(Pieces) /\ Len(grown) = Len(log) + Len(line)
            /\ \A i \in 1 .. Len(log) + Len(line) :
                 grown[i] = IF i <= Len(log) THEN log[i] ELSE line[i - Len(log)]
        BY <1>1, <3>1, ConcatProperties, Zenon
      <4>2. log' = grown BY <3>1
      <4> HIDE DEF grown
      <4>3. /\ log' \in Seq(Pieces) /\ Len(log') = Len(log) + 2
            /\ \A i \in 1 .. Len(log) + 2 :
                 log'[i] = IF i <= Len(log) THEN log[i] ELSE line[i - Len(log)]
        BY <3>1, <4>1, <4>2
      <4>4. Len(log) + 1 \in 1 .. Len(log) + 2 /\ Len(log) + 2 \in 1 .. Len(log) + 2
            /\ (Len(log) + 1) - Len(log) = 1 /\ (Len(log) + 2) - Len(log) = 2
            /\ ~(Len(log) + 1 <= Len(log)) /\ ~(Len(log) + 2 <= Len(log))
        BY <1>1
      <4>5. QED BY <3>1, <4>3, <4>4
    <3>3. \A i \in 1 .. Len(log) : log'[i] = log[i] BY <1>1, <3>1
    <3>4. ASSUME NEW i \in 1 .. Len(log')
          PROVE  /\ log'[i][2] = 2 => i > 1 /\ log'[i - 1] = <<log'[i][1], 1>>
                 /\ log'[i][2] = 1 /\ i < Len(log') => log'[i + 1] = <<log'[i][1], 2>>
                 /\ log'[i][2] = 1 /\ i = Len(log') => log'[i][1] \in Long
      <4>1. CASE i = Len(log) + 1 BY <1>1, <3>2, <4>1
      <4>2. CASE i = Len(log) + 2
        <5>1. i - 1 = Len(log) + 1 /\ i > 1 /\ i = Len(log') BY <1>1, <3>2, <4>2
        <5>2. log'[i] = <<e, 2>> /\ log'[i - 1] = <<e, 1>> BY <3>2, <4>2, <5>1
        <5>3. QED BY <5>1, <5>2
      <4>3. CASE i \in 1 .. Len(log) /\ i = Len(log) BY <1>1, <2>3, <3>2, <3>3, <4>3
      <4>4. CASE i \in 1 .. Len(log) /\ i < Len(log)
        <5>1. i + 1 \in 1 .. Len(log) /\ (i > 1 => i - 1 \in 1 .. Len(log)) BY <1>1, <4>4
        <5>2. QED BY <1>1, <3>2, <3>3, <4>4, <5>1
      <4>5. QED BY <1>1, <3>2, <4>1, <4>2, <4>3, <4>4
    <3>5. QED BY <1>1, <3>2, <3>3, <3>4
  <2>7. QED BY <2>5, <2>6
<1>5. CASE EmitRest
  <2> DEFINE e == log[Len(log)][1]
  <2>1. log # << >> /\ log[Len(log)][2] = 1 BY <1>5 DEF EmitRest, Unfinished
  <2>2. Len(log) \in 1 .. Len(log) BY <1>1, <2>1
  <2>3. <<e, 2>> \in Pieces /\ log[Len(log)] = <<e, 1>> BY <1>2, <2>1, <2>2 DEF Pieces
  <2>4. log' = Append(log, <<e, 2>>) BY <1>5 DEF EmitRest
  <2> HIDE DEF e
  <2>5. log' \in Seq(Pieces) /\ Len(log') = Len(log) + 1 /\ log'[Len(log) + 1] = <<e, 2>>
    BY <1>1, <2>3, <2>4
  <2>6. \A i \in 1 .. Len(log) : log'[i] = log[i] BY <1>1, <2>3, <2>4
  <2>7. ASSUME NEW i \in 1 .. Len(log')
        PROVE  /\ log'[i][2] = 2 => i > 1 /\ log'[i - 1] = <<log'[i][1], 1>>
               /\ log'[i][2] = 1 /\ i < Len(log') => log'[i + 1] = <<log'[i][1], 2>>
               /\ log'[i][2] = 1 /\ i = Len(log') => log'[i][1] \in Long
    <3>1. CASE i = Len(log) + 1
      <4>1. i - 1 = Len(log) /\ i > 1 /\ log'[i] = <<e, 2>> BY <1>1, <2>2, <2>5, <3>1
      <4>2. log'[i - 1] = <<e, 1>> BY <2>2, <2>3, <2>6, <4>1
      <4>3. QED BY <4>1, <4>2
    <3>2. CASE i \in 1 .. Len(log) /\ i = Len(log) BY <1>1, <2>3, <2>5, <2>6, <3>2
    <3>3. CASE i \in 1 .. Len(log) /\ i < Len(log)
      <4>1. i + 1 \in 1 .. Len(log) /\ (i > 1 => i - 1 \in 1 .. Len(log)) BY <1>1, <3>3
      <4>2. QED BY <1>1, <2>5, <2>6, <3>3, <4>1
    <3>4. QED BY <1>1, <2>5, <3>1, <3>2, <3>3
  <2>8. QED BY <1>1, <2>5, <2>6, <2>7
<1>6. UNCHANGED log \/ (\E e \in Events : Emit(e)) \/ EmitRest
  BY DEF MeshNext, Consume, Load, Measure, Read, Raise, SaveOpen, Save, Trace, Finish,
         KillConsumer, Rerun, Reset, meshVars
<1>7. QED BY <1>3, <1>4, <1>5, <1>6

(* What is called broken is the line of a long event, and stays so; a line *)
(* that ends inside a character is not read.                               *)
LEMMA BrokenGrows ==
  ASSUME MeshTypes, LinesFollow, [MeshNext]_meshVars
  PROVE  broken \subseteq broken' /\ broken' \subseteq Long \ Split
<1>1. ASSUME NEW c \in Consumers, Read(c)
      PROVE  broken \subseteq broken' /\ broken' \subseteq Long \ Split
  <2>1. CASE Unfinished
    <3>1. Len(log) \in 1 .. Len(log) /\ log[Len(log)][2] = 1
      BY <2>1 DEF Unfinished, MeshTypes
    <3>2. log[Len(log)][1] \in Long BY <3>1 DEF LinesFollow
    <3>3. log[Len(log)][1] \notin Split BY <1>1, <3>1 DEF Read, InCharacter
    <3>4. QED BY <1>1, <3>2, <3>3 DEF Read, MeshTypes
  <2>2. CASE ~Unfinished BY <1>1, <2>2 DEF Read, MeshTypes
  <2>3. QED BY <2>1, <2>2
<1>2. UNCHANGED broken \/ \E c \in Consumers : Read(c)
  BY DEF MeshNext, Emit, EmitRest, Consume, Load, Measure, Raise, SaveOpen, Save, Trace, Finish,
         KillConsumer, Rerun, Reset, meshVars
<1>3. QED BY <1>1, <1>2 DEF MeshTypes

-----------------------------------------------------------------------------
(* Types: each step by itself.                                             *)
LEMMA MeshTypesStay ==
  ASSUME MeshTypes, LinesFollow, [MeshNext]_meshVars
  PROVE  MeshTypes'
<1> USE DEF MeshTypes
<1>1. /\ log' \in Seq(Pieces) /\ Len(log) <= Len(log') /\ Len(log) \in Nat /\ Len(log') \in Nat
  BY LogGrows
<1>2. IdleConsumer \in ConsumerStates /\ IdleConsumer.from = 0 /\ IdleConsumer.size = 0
  BY DEF IdleConsumer, ConsumerStates
<1> HIDE DEF MeshTypes
<1>b. broken' \subseteq Long \ Split BY BrokenGrows
<1> USE DEF MeshTypes
<1>3. CASE (\E e \in Events : Emit(e)) \/ EmitRest
  <2>1. UNCHANGED <<offset, trace, consumer>> BY <1>3 DEF Emit, EmitRest
  <2>2. \A c \in Consumers : consumer[c].from \in Nat /\ consumer[c].size \in Nat
    BY DEF ConsumerStates
  <2>3. QED BY <1>1, <1>b, <2>1, <2>2
<1>4. ASSUME NEW c \in Consumers, Consume(c) \/ KillConsumer(c) \/ Rerun(c)
      PROVE  /\ offset' \in (0 .. Len(log)) \cup {TornOffset}
             /\ trace' \in Seq(Events)
             /\ consumer' \in [Consumers -> ConsumerStates]
             /\ \A d \in Consumers :
                  consumer'[d].from <= Len(log) /\ consumer'[d].size <= Len(log)
             /\ UNCHANGED log
  <2> DEFINE s == consumer[c]
  <2>1. /\ s \in ConsumerStates /\ s.from <= Len(log) /\ s.size <= Len(log)
        /\ s.from \in Nat /\ s.size \in Nat /\ s.batch \in Seq(Events)
    BY DEF ConsumerStates
  <2>2. ASSUME NEW x \in ConsumerStates, consumer' = [consumer EXCEPT ![c] = x],
               x.from <= Len(log), x.size <= Len(log)
        PROVE  /\ consumer' \in [Consumers -> ConsumerStates]
               /\ \A d \in Consumers :
                    consumer'[d].from <= Len(log) /\ consumer'[d].size <= Len(log)
    BY <2>2
  <2>3. CASE Load(c)
    <3> DEFINE n == IF offset = TornOffset THEN 0 ELSE offset
               x == [IdleConsumer EXCEPT !.step = "size", !.from = n]
    <3>1. n \in Nat /\ n <= Len(log) BY <1>1
    <3>2. consumer' = [consumer EXCEPT ![c] = x] /\ UNCHANGED <<log, offset, trace>>
      BY <2>3 DEF Load
    <3> HIDE DEF n
    <3>3. x.from = n /\ x.size = 0 BY <1>2 DEF ConsumerStates
    <3>4. x \in ConsumerStates BY <1>2, <3>1 DEF ConsumerStates
    <3>5. QED BY <1>1, <2>2, <3>1, <3>2, <3>3, <3>4
  <2>4. CASE Measure(c)
    <3>1. CASE Len(log) <= s.from
      <4>1. consumer' = [consumer EXCEPT ![c] = IdleConsumer] /\ UNCHANGED <<log, offset, trace>>
        BY <2>4, <3>1 DEF Measure
      <4>2. QED BY <2>2, <4>1, <1>1, <1>2
    <3>2. CASE ~(Len(log) <= s.from)
      <4> DEFINE x == [s EXCEPT !.step = "read", !.size = Len(log)]
      <4>1. x \in ConsumerStates /\ x.from <= Len(log) /\ x.size <= Len(log)
        <5>1. x.from = s.from /\ x.size = Len(log) /\ Len(log) <= Len(log)
          BY <1>1, <2>1 DEF ConsumerStates
        <5>2. x \in ConsumerStates BY <1>1, <2>1 DEF ConsumerStates
        <5>3. QED BY <2>1, <5>1, <5>2
      <4>2. consumer' = [consumer EXCEPT ![c] = x] /\ UNCHANGED <<log, offset, trace>>
        BY <2>4, <3>2 DEF Measure
      <4>3. QED BY <2>2, <4>1, <4>2
    <3>3. QED BY <3>1, <3>2
  <2>5. CASE Read(c)
    <3> DEFINE x == [s EXCEPT !.step = "open", !.batch = WholeFrom(s.from)]
    <3>1. WholeFrom(s.from) \in Seq(Events) BY <2>1, ReadAll
    <3>2. x \in ConsumerStates /\ x.from <= Len(log) /\ x.size <= Len(log)
      BY <2>1, <3>1 DEF ConsumerStates
    <3>3. consumer' = [consumer EXCEPT ![c] = x] /\ UNCHANGED <<log, offset, trace>>
      BY <2>5 DEF Read
    <3>4. QED BY <2>2, <3>2, <3>3
  <2>6. CASE SaveOpen(c) \/ Save(c)
    <3> DEFINE x(t) == [s EXCEPT !.step = t]
    <3>1. \A t \in {"save", "trace"} :
            x(t) \in ConsumerStates /\ x(t).from <= Len(log) /\ x(t).size <= Len(log)
      BY <2>1 DEF ConsumerStates
    <3>2. \E t \in {"save", "trace"} : consumer' = [consumer EXCEPT ![c] = x(t)]
      BY <2>6 DEF SaveOpen, Save
    <3>3. offset' \in {TornOffset, s.size} /\ UNCHANGED <<log, trace>>
      BY <2>6 DEF SaveOpen, Save
    <3> HIDE DEF x
    <3>4. offset' \in (0 .. Len(log)) \cup {TornOffset} BY <1>1, <2>1, <3>3
    <3>5. QED BY <2>2, <3>1, <3>2, <3>3, <3>4
  <2>7. CASE Trace(c)
    <3> DEFINE x == [s EXCEPT !.batch = Tail(s.batch)]
    <3>1. s.batch \in Seq(Events) /\ s.batch # << >> BY <2>1, <2>7 DEF Trace
    <3>2. Head(s.batch) \in Events /\ Tail(s.batch) \in Seq(Events) BY <3>1
    <3>3. /\ trace' = Append(trace, Head(s.batch)) /\ UNCHANGED <<log, offset>>
          /\ consumer' = [consumer EXCEPT ![c] = x]
      BY <2>7 DEF Trace
    <3>4. x \in ConsumerStates /\ x.from <= Len(log) /\ x.size <= Len(log)
      BY <2>1, <3>2 DEF ConsumerStates
    <3>5. trace' \in Seq(Events) BY <3>2, <3>3
    <3>6. QED BY <2>2, <3>3, <3>4, <3>5
  <2>8. CASE Finish(c)
    <3>1. consumer' = [consumer EXCEPT ![c] = IdleConsumer] /\ UNCHANGED <<log, offset, trace>>
      BY <2>8 DEF Finish
    <3>2. QED BY <2>2, <3>1, <1>1, <1>2
  <2>9. CASE KillConsumer(c)
    <3> DEFINE b == IF s.step = "trace" THEN s.batch ELSE << >>
               x == [IdleConsumer EXCEPT !.step = "dead", !.batch = b]
    <3>1. b \in Seq(Events) BY <2>1
    <3>2. consumer' = [consumer EXCEPT ![c] = x] /\ UNCHANGED <<log, offset, trace>>
      BY <2>9 DEF KillConsumer
    <3> HIDE DEF b
    <3>3. x.from = 0 /\ x.size = 0 BY <1>2 DEF ConsumerStates
    <3>4. x \in ConsumerStates BY <1>2, <3>1 DEF ConsumerStates
    <3>5. QED BY <1>1, <2>2, <3>2, <3>3, <3>4
  <2>10. CASE Raise(c) \/ Rerun(c)
    <3> DEFINE x(t) == [IdleConsumer EXCEPT !.step = t]
    <3>1. \A t \in {"idle", "raised"} : x(t) \in ConsumerStates /\ x(t).from = 0 /\ x(t).size = 0
      BY <1>2 DEF ConsumerStates
    <3>2. x("idle") = IdleConsumer BY DEF IdleConsumer
    <3>3. \E t \in {"idle", "raised"} : consumer' = [consumer EXCEPT ![c] = x(t)]
      BY <2>10, <3>2 DEF Raise, Rerun
    <3>4. UNCHANGED <<log, offset, trace>> BY <2>10 DEF Raise, Rerun
    <3> HIDE DEF x
    <3>5. QED BY <1>1, <2>2, <3>1, <3>3, <3>4
  <2>11. QED BY <1>4, <2>3, <2>4, <2>5, <2>6, <2>7, <2>8, <2>9, <2>10 DEF Consume
<1>5. CASE \E r \in Resetters : Reset(r) BY <1>1, <1>b, <1>5 DEF Reset
<1>6. CASE UNCHANGED meshVars BY <1>6 DEF meshVars
<1>7. CASE \E c \in Consumers : Consume(c) \/ KillConsumer(c) \/ Rerun(c)
  <2>1. PICK c \in Consumers : Consume(c) \/ KillConsumer(c) \/ Rerun(c) BY <1>7
  <2>2. QED BY <1>1, <1>b, <1>4, <2>1
<1>8. QED BY <1>3, <1>5, <1>6, <1>7 DEF MeshNext

(* What was handled stays handled: the head of what a consumer has still   *)
(* to trace goes to the trace, and the rest stays with it, or is lost when *)
(* it is stopped.                                                          *)
LEMMA StaysHandled ==
  ASSUME MeshTypes, LinesFollow, [MeshNext]_meshVars, NEW e, IsHandled(e)
  PROVE  IsHandled(e)'
<1>b. broken \subseteq broken' BY BrokenGrows
<1> USE DEF MeshTypes, ConsumerStates
<1>1. trace \in Seq(Events) /\ Len(trace) \in Nat OBVIOUS
<1>2. ASSUME UNCHANGED <<trace, consumer>> PROVE IsHandled(e)'
  BY <1>b, <1>2 DEF IsHandled, Traced, Lost, Pending
<1>3. ASSUME NEW c \in Consumers, Consume(c) \/ KillConsumer(c) \/ Rerun(c)
      PROVE  IsHandled(e)'
  <2>1. CASE Trace(c)
    <3> DEFINE b == consumer[c].batch
    <3>1. b \in Seq(Events) /\ b # << >> /\ Head(b) \in Events /\ Len(b) \in Nat
      BY <2>1 DEF Trace
    <3>2. trace' = Append(trace, Head(b)) BY <2>1 DEF Trace
    <3>3. /\ Len(trace') = Len(trace) + 1 /\ trace'[Len(trace) + 1] = Head(b)
          /\ \A i \in 1 .. Len(trace) : trace'[i] = trace[i]
      BY <1>1, <3>1, <3>2
    <3>4. Traced(e) => Traced(e)' BY <1>1, <3>3 DEF Traced
    <3>5. /\ consumer'[c].step = "trace" /\ consumer'[c].batch = Tail(b)
          /\ \A d \in Consumers \ {c} : consumer'[d] = consumer[d]
          /\ consumer[c].step = "trace"
      BY <2>1 DEF Trace
    <3>6. ASSUME e \in Pending(c) PROVE Traced(e)' \/ e \in Pending(c)'
      <4>1. PICK i \in 1 .. Len(b) : e = b[i] BY <3>6 DEF Pending
      <4>2. CASE i = 1
        <5>1. e = Head(b) BY <3>1, <4>1, <4>2
        <5>2. Len(trace) + 1 \in 1 .. Len(trace') BY <1>1, <3>3
        <5>3. QED BY <3>3, <5>1, <5>2 DEF Traced
      <4>3. CASE i # 1
        <5>1. i - 1 \in 1 .. Len(Tail(b)) /\ Tail(b)[i - 1] = b[i] BY <3>1, <4>1, <4>3
        <5>2. QED BY <3>5, <4>1, <5>1 DEF Pending
      <4>4. QED BY <4>2, <4>3
    <3>7. \A d \in Consumers \ {c} : Pending(d)' = Pending(d) BY <3>5 DEF Pending
    <3>8. Lost(e) => Lost(e)' BY <1>b, <3>5, <3>7 DEF Lost
    <3>9. QED BY <3>4, <3>5, <3>6, <3>7, <3>8 DEF IsHandled
  <2>2. CASE ~Trace(c)
    <3>1. /\ UNCHANGED trace
          /\ \A d \in Consumers \ {c} : consumer'[d] = consumer[d]
          /\ consumer[c].step # "dead"
      BY <1>3, <2>2
      DEF Consume, Load, Measure, Read, Raise, SaveOpen, Save, Finish, KillConsumer, Rerun
    <3>2. \A d \in Consumers \ {c} : Pending(d)' = Pending(d) BY <3>1 DEF Pending
    <3>3. ASSUME consumer[c].step = "trace", e \in Pending(c)
          PROVE  consumer'[c].step = "dead" /\ e \in Pending(c)'
      <4>1. ~Finish(c) BY <3>3 DEF Finish, Pending
      <4>2. KillConsumer(c)
        BY <1>3, <2>2, <3>3, <4>1 DEF Consume, Load, Measure, Read, Raise, SaveOpen, Save, Rerun
      <4>3. consumer'[c] = [IdleConsumer EXCEPT !.step = "dead", !.batch = consumer[c].batch]
        BY <3>3, <4>2 DEF KillConsumer
      <4>4. QED BY <3>3, <4>3 DEF Pending, IdleConsumer
    <3>4. Traced(e) => Traced(e)' BY <3>1 DEF Traced
    <3>5. Lost(e) => Lost(e)' BY <1>b, <3>1, <3>2 DEF Lost
    <3>6. QED BY <3>1, <3>2, <3>3, <3>4, <3>5 DEF IsHandled, Lost
  <2>3. QED BY <2>1, <2>2
<1>4. \/ UNCHANGED <<trace, consumer>>
      \/ \E c \in Consumers : Consume(c) \/ KillConsumer(c) \/ Rerun(c)
  BY DEF MeshNext, Emit, EmitRest, Reset, meshVars
<1>5. QED BY <1>2, <1>3, <1>4

LEMMA HandledGrows ==
  ASSUME MeshTypes, LinesFollow, [MeshNext]_meshVars
  PROVE  Handled \subseteq Handled'
<1>1. ASSUME NEW e \in Handled PROVE e \in Handled'
  <2>1. e \in Events /\ IsHandled(e) BY <1>1 DEF Handled
  <2>2. IsHandled(e)' BY <2>1, StaysHandled
  <2>3. QED BY <2>1, <2>2 DEF Handled
<1>2. QED BY <1>1

(* What holds of an offset goes on to hold of it.                          *)
LEMMA OffsetKept ==
  ASSUME MeshIInv, [MeshNext]_meshVars, NEW n \in 0 .. Len(log)
  PROVE  HandledTo(n) => HandledTo(n)'
<1>1. /\ \A i \in 1 .. Len(log) : log'[i] = log[i]
      /\ Len(log) \in Nat /\ Len(log') \in Nat /\ Len(log) <= Len(log')
  BY LogGrows DEF MeshIInv, MeshTypes
<1>2. Handled \subseteq Handled' BY HandledGrows DEF MeshIInv
<1>3. ASSUME HandledTo(n) PROVE HandledTo(n)'
  <2>1. ASSUME NEW i \in 1 .. Len(log'), i <= n PROVE log'[i][1] \in Handled'
    <3>1. i \in 1 .. Len(log) BY <1>1, <2>1
    <3>2. log[i][1] \in Handled BY <1>3, <2>1, <3>1 DEF HandledTo
    <3>3. QED BY <1>1, <1>2, <3>1, <3>2
  <2>2. QED BY <2>1 DEF HandledTo
<1>4. QED BY <1>3

LEMMA WorkKept ==
  ASSUME MeshIInv, [MeshNext]_meshVars, NEW c \in Consumers, consumer'[c] = consumer[c]
  PROVE  Work(c)'
<1> DEFINE n == consumer[c].from
           m == consumer[c].size
<1>1. /\ \A i \in 1 .. Len(log) : log'[i] = log[i]
      /\ Len(log) \in Nat /\ Len(log') \in Nat /\ Len(log) <= Len(log')
  BY LogGrows DEF MeshIInv, MeshTypes
<1>2. n \in 0 .. Len(log) /\ m \in 0 .. Len(log) /\ Work(c)
  BY <1>1 DEF MeshIInv, MeshTypes, ConsumerStates, WorkIsHandled
<1>3. PICK a, b \in 0 .. Len(log) : a = n /\ b = m BY <1>2
<1>4. consumer'[c].step \in {"size", "read", "open", "save"} => HandledTo(a)
  BY <1>2, <1>3 DEF Work
<1>5. consumer'[c].step \in {"size", "read", "open", "save"} => HandledTo(a)'
  BY <1>4, OffsetKept
<1>6. ASSUME ReadTo(c) PROVE ReadTo(c)'
  <2>1. ASSUME NEW i \in 1 .. Len(log'), a < i, i <= b
        PROVE  log'[i][1] \in Handled' \/ log'[i][1] \in Pending(c)'
    <3>1. i \in 1 .. Len(log) BY <1>1, <2>1
    <3>2. log[i][1] \in Handled \/ log[i][1] \in Pending(c) BY <1>3, <1>6, <2>1, <3>1 DEF ReadTo
    <3>3. Pending(c)' = Pending(c) BY DEF Pending
    <3>4. Handled \subseteq Handled' BY HandledGrows DEF MeshIInv
    <3>5. QED BY <1>1, <3>1, <3>2, <3>3, <3>4
  <2>2. QED BY <1>3, <2>1 DEF ReadTo
<1>7. consumer'[c].from = a /\ consumer'[c].size = b BY <1>3
<1>8. consumer'[c].step \in {"size", "read", "open", "save"} => HandledTo(consumer[c].from)'
  BY <1>5, <1>7 DEF HandledTo
<1>9. consumer'[c].step \in {"open", "save"} => ReadTo(c)' BY <1>2, <1>6 DEF Work
<1>10. QED BY <1>8, <1>9 DEF Work

(* A consumer that reads what is there from where it began, which may be   *)
(* within a line only if that was handled, finds every other event, but    *)
(* one of which the first piece is the end of the log.                     *)
LEMMA ReadsToSize ==
  ASSUME MeshIInv, NEW n \in 0 .. Len(log), HandledTo(n), NEW i \in 1 .. Len(log), n < i
  PROVE  \/ log[i][1] \in Handled
         \/ i = Len(log) /\ log[i][2] = 1
         \/ \E k \in 1 .. Len(WholeFrom(n)) : WholeFrom(n)[k] = log[i][1]
<1>1. /\ log \in Seq(Pieces) /\ Len(log) \in Nat /\ MeshTypes /\ LinesFollow
  BY DEF MeshIInv, MeshTypes
<1>2. log[i][2] \in {1, 2} BY <1>1 DEF Pieces
<1>3. CASE log[i][2] = 1
  <2>1. i # Len(log) => i \in Whole(n) BY <1>1, <1>3 DEF Whole
  <2>2. n \in Nat BY <1>1
  <2>3. \A j \in Whole(n) : \E k \in 1 .. Len(WholeFrom(n)) : WholeFrom(n)[k] = log[j][1]
    BY <1>1, <2>2, ReadAll
  <2>4. QED BY <1>3, <2>1, <2>3
<1>4. CASE log[i][2] = 2
  <2>1. i > 1 /\ log[i - 1] = <<log[i][1], 1>> BY <1>1, <1>4 DEF LinesFollow
  <2>2. i - 1 \in 1 .. Len(log) /\ i - 1 < Len(log) BY <1>1, <2>1
  <2>3. CASE n < i - 1
    <3>1. i - 1 \in Whole(n) BY <1>1, <2>1, <2>2, <2>3 DEF Whole
    <3>2. log[i - 1][1] = log[i][1] BY <2>1
    <3>3. n \in Nat BY <1>1
    <3>4. \E k \in 1 .. Len(WholeFrom(n)) : WholeFrom(n)[k] = log[i - 1][1]
      BY <1>1, <3>1, <3>3, ReadAll
    <3>5. QED BY <3>2, <3>4
  <2>4. CASE n = i - 1
    <3>1. log[n] = <<log[i][1], 1>> /\ n \in 1 .. Len(log) BY <2>1, <2>2, <2>4
    <3>2. QED BY <3>1 DEF HandledTo
  <2>5. QED BY <1>1, <2>3, <2>4
<1>5. QED BY <1>2, <1>3, <1>4

LEMMA WorkStays ==
  ASSUME MeshIInv, [MeshNext]_meshVars
  PROVE  OffsetIsHandled' /\ WorkIsHandled'
<1>1. /\ \A i \in 1 .. Len(log) : log'[i] = log[i]
      /\ Len(log) \in Nat /\ Len(log') \in Nat /\ Len(log) <= Len(log')
      /\ log \in Seq(Pieces) /\ MeshTypes /\ LinesFollow
  BY LogGrows DEF MeshIInv, MeshTypes
<1>2. ASSUME UNCHANGED offset PROVE OffsetIsHandled'
  <2>1. SUFFICES ASSUME offset # TornOffset
                 PROVE  HandledTo(offset)'
    BY <1>2 DEF OffsetIsHandled
  <2>2. PICK n \in 0 .. Len(log) : n = offset BY <1>1, <2>1 DEF MeshTypes
  <2>3. HandledTo(n) BY <2>1, <2>2 DEF MeshIInv, OffsetIsHandled
  <2>4. HandledTo(n)' BY <2>3, OffsetKept
  <2>5. offset' = n BY <1>2, <2>2
  <2>6. QED BY <2>4, <2>5 DEF HandledTo
<1>3. ASSUME UNCHANGED consumer PROVE WorkIsHandled'
  BY <1>3, WorkKept DEF WorkIsHandled
<1>4. CASE (\E e \in Events : Emit(e)) \/ EmitRest \/ UNCHANGED meshVars
  <2>1. UNCHANGED <<offset, consumer>> BY <1>4 DEF Emit, EmitRest, meshVars
  <2>2. QED BY <1>2, <1>3, <2>1
<1>5. CASE \E r \in Resetters : Reset(r)
  <2>1. UNCHANGED <<log, consumer>> /\ offset' = 0 BY <1>5 DEF Reset
  <2>2. OffsetIsHandled' BY <1>1, <2>1 DEF OffsetIsHandled, HandledTo
  <2>3. QED BY <1>3, <2>1, <2>2
<1>6. ASSUME NEW c \in Consumers, Consume(c) \/ KillConsumer(c) \/ Rerun(c)
      PROVE  OffsetIsHandled' /\ WorkIsHandled'
  <2> DEFINE from == consumer[c].from
             size == consumer[c].size
  <2>1. /\ from \in 0 .. Len(log) /\ size \in 0 .. Len(log) /\ Work(c)
        /\ consumer[c].batch \in Seq(Events)
        /\ consumer[c] \in ConsumerStates /\ consumer \in [Consumers -> ConsumerStates]
    BY <1>1 DEF MeshIInv, MeshTypes, ConsumerStates, WorkIsHandled
  <2>2. \A d \in Consumers \ {c} : consumer'[d] = consumer[d]
    <3>1. CASE Trace(c) BY <2>1, <3>1 DEF Trace
    <3>2. CASE ~Trace(c)
      BY <1>6, <2>1, <3>2
      DEF Consume, Load, Measure, Read, Raise, SaveOpen, Save, Finish, KillConsumer, Rerun
    <3>3. QED BY <3>1, <3>2
  <2>3. ASSUME Work(c)' PROVE WorkIsHandled' BY <2>2, <2>3, WorkKept DEF WorkIsHandled
  <2>4. IdleConsumer.step = "idle" /\ IdleConsumer \in ConsumerStates
    BY DEF IdleConsumer, ConsumerStates
  <2>5. PICK n, m \in 0 .. Len(log) : n = from /\ m = size BY <2>1
  <2>6. CASE Load(c)
    <3> DEFINE t == IF offset = TornOffset THEN 0 ELSE offset
    <3>1. consumer'[c] = [IdleConsumer EXCEPT !.step = "size", !.from = t]
          /\ UNCHANGED <<log, offset, trace>>
      BY <2>1, <2>6 DEF Load
    <3>2. PICK k \in 0 .. Len(log) : k = t BY <1>1 DEF MeshTypes
    <3>3. consumer'[c].step = "size" /\ consumer'[c].from = k
      BY <2>4, <3>1, <3>2 DEF ConsumerStates
    <3>4. HandledTo(k)
      <4>1. CASE offset = TornOffset BY <1>1, <3>2, <4>1 DEF HandledTo
      <4>2. CASE offset # TornOffset BY <3>2, <4>2 DEF MeshIInv, OffsetIsHandled
      <4>3. QED BY <4>1, <4>2
    <3>5. HandledTo(k)' BY <3>4, OffsetKept
    <3>6. Work(c)' BY <3>3, <3>5 DEF Work, HandledTo
    <3>7. QED BY <1>2, <2>3, <3>1, <3>6
  <2>7. CASE Measure(c)
    <3>1. CASE Len(log) <= from
      <4>1. consumer'[c] = IdleConsumer /\ UNCHANGED offset
        BY <2>1, <2>7, <3>1 DEF Measure
      <4>2. Work(c)' BY <2>4, <4>1 DEF Work
      <4>3. QED BY <1>2, <2>3, <4>1, <4>2
    <3>2. CASE ~(Len(log) <= from)
      <4>1. /\ consumer'[c] = [consumer[c] EXCEPT !.step = "read", !.size = Len(log)]
            /\ UNCHANGED <<log, offset, trace>> /\ consumer[c].step = "size"
        BY <2>1, <2>7, <3>2 DEF Measure
      <4>2. /\ consumer'[c].step = "read" /\ consumer'[c].from = n
            /\ consumer'[c].size = Len(log)
        BY <2>1, <2>5, <4>1 DEF ConsumerStates
      <4>3. HandledTo(n) BY <2>1, <2>5, <4>1 DEF Work
      <4>4. HandledTo(n)' BY <4>3, OffsetKept
      <4>5. Work(c)' BY <4>2, <4>4 DEF Work, HandledTo
      <4>6. QED BY <1>2, <2>3, <4>1, <4>5
    <3>3. QED BY <3>1, <3>2
  <2>8. CASE Read(c)
    <3>1. /\ consumer'[c] = [consumer[c] EXCEPT !.step = "open", !.batch = WholeFrom(n)]
          /\ UNCHANGED <<log, offset, trace>> /\ consumer[c].step = "read"
      BY <2>1, <2>5, <2>8 DEF Read
    <3>2. /\ consumer'[c].step = "open" /\ consumer'[c].from = n
          /\ consumer'[c].size = m /\ consumer'[c].batch = WholeFrom(n)
      BY <2>1, <2>5, <3>1 DEF ConsumerStates
    <3>3. HandledTo(n) BY <2>1, <2>5, <3>1 DEF Work
    <3>4. HandledTo(n)' BY <3>3, OffsetKept
    <3>5. Pending(c)' = {WholeFrom(n)[k] : k \in 1 .. Len(WholeFrom(n))} BY <3>2 DEF Pending
    <3>6. ASSUME NEW i \in 1 .. Len(log), n < i, i <= m
          PROVE  log[i][1] \in Handled' \/ log[i][1] \in Pending(c)'
      <4>1. Handled \subseteq Handled' BY HandledGrows DEF MeshIInv
      <4>2. CASE i = Len(log) /\ log[i][2] = 1
        <5>1. Unfinished /\ m = Len(log) BY <1>1, <3>6, <4>2 DEF Unfinished
        <5>2. log[i][1] \in broken' BY <2>5, <2>8, <4>2, <5>1 DEF Read
        <5>3. log[i][1] \in Events BY <1>1 DEF Pieces
        <5>4. QED BY <5>2, <5>3 DEF Handled, IsHandled, Lost
      <4>3. QED BY <3>3, <3>5, <3>6, <4>1, <4>2, ReadsToSize
    <3>7. ReadTo(c)' BY <3>1, <3>2, <3>6 DEF ReadTo
    <3>8. Work(c)' BY <3>2, <3>4, <3>7 DEF Work, HandledTo
    <3>9. QED BY <1>2, <2>3, <3>1, <3>8
  <2>9. CASE SaveOpen(c)
    <3>1. /\ consumer'[c] = [consumer[c] EXCEPT !.step = "save"] /\ offset' = TornOffset
          /\ UNCHANGED <<log, trace>> /\ consumer[c].step = "open"
      BY <2>1, <2>9 DEF SaveOpen
    <3>2. /\ consumer'[c].step = "save" /\ consumer'[c].from = n
          /\ consumer'[c].size = m /\ consumer'[c].batch = consumer[c].batch
      BY <2>1, <2>5, <3>1 DEF ConsumerStates
    <3>3. HandledTo(n) /\ ReadTo(c) BY <2>1, <2>5, <3>1 DEF Work
    <3>4. HandledTo(n)' /\ Handled \subseteq Handled' BY <3>3, OffsetKept, HandledGrows DEF MeshIInv
    <3>5. Pending(c)' = Pending(c) BY <3>2 DEF Pending
    <3>6. ReadTo(c)' BY <2>5, <3>1, <3>2, <3>3, <3>4, <3>5 DEF ReadTo
    <3>7. Work(c)' BY <3>2, <3>4, <3>6 DEF Work, HandledTo
    <3>8. OffsetIsHandled' BY <3>1 DEF OffsetIsHandled
    <3>9. QED BY <2>3, <3>7, <3>8
  <2>10. CASE Save(c)
    <3>1. /\ consumer'[c] = [consumer[c] EXCEPT !.step = "trace"] /\ offset' = m
          /\ UNCHANGED <<log, trace>> /\ consumer[c].step = "save"
      BY <2>1, <2>5, <2>10 DEF Save
    <3>2. consumer'[c].step = "trace" /\ consumer'[c].batch = consumer[c].batch
      BY <2>1, <3>1 DEF ConsumerStates
    <3>3. HandledTo(n) /\ ReadTo(c) BY <2>1, <2>5, <3>1 DEF Work
    <3>4. HandledTo(n)' /\ Handled \subseteq Handled' BY <3>3, OffsetKept, HandledGrows DEF MeshIInv
    <3>5. Pending(c)' = Pending(c) BY <3>2 DEF Pending
    <3>6. ASSUME NEW i \in 1 .. Len(log), i <= m PROVE log[i][1] \in Handled'
      <4>1. log[i][1] \in Events BY <1>1 DEF Pieces
      <4>2. CASE i <= n BY <3>1, <3>4, <4>2 DEF HandledTo
      <4>3. CASE log[i][1] \in Handled BY <3>4, <4>3
      <4>4. CASE log[i][1] \in Pending(c)
        <5>1. log[i][1] \in Pending(c)' BY <3>5, <4>4
        <5>2. IsHandled(log[i][1])' BY <3>1, <3>2, <5>1 DEF IsHandled
        <5>3. QED BY <3>1, <4>1, <5>2 DEF Handled
      <4>5. i <= n \/ n < i BY <1>1
      <4>6. QED BY <2>5, <3>3, <3>6, <4>2, <4>3, <4>4, <4>5 DEF ReadTo
    <3>7. HandledTo(offset)' BY <3>1, <3>6 DEF HandledTo
    <3>8. Work(c)' BY <3>2 DEF Work
    <3>9. QED BY <2>3, <3>7, <3>8 DEF OffsetIsHandled
  <2>11. CASE Trace(c) \/ Finish(c) \/ KillConsumer(c) \/ Raise(c) \/ Rerun(c)
    <3>1. UNCHANGED offset BY <2>11 DEF Trace, Finish, KillConsumer, Raise, Rerun
    <3>2. consumer'[c].step \in {"trace", "idle", "raised", "dead"}
      <4>1. CASE Trace(c) BY <2>1, <4>1 DEF Trace, ConsumerStates
      <4>2. CASE Finish(c) BY <2>1, <2>4, <4>2 DEF Finish
      <4>3. CASE KillConsumer(c) BY <2>1, <2>4, <4>3 DEF KillConsumer, ConsumerStates
      <4>4. CASE Raise(c) BY <2>1, <2>4, <4>4 DEF Raise, ConsumerStates
      <4>5. CASE Rerun(c) BY <2>1, <2>4, <4>5 DEF Rerun
      <4>6. QED BY <2>11, <4>1, <4>2, <4>3, <4>4, <4>5
    <3>3. Work(c)' BY <3>2 DEF Work
    <3>4. QED BY <1>2, <2>3, <3>1, <3>3
  <2>12. QED BY <1>6, <2>6, <2>7, <2>8, <2>9, <2>10, <2>11 DEF Consume
<1>7. QED BY <1>4, <1>5, <1>6 DEF MeshNext

LEMMA MeshInvStarts == MeshInit => MeshIInv
<1> SUFFICES ASSUME MeshInit PROVE MeshIInv OBVIOUS
<1>1. /\ log = << >> /\ Len(log) = 0 /\ offset = 0 /\ trace = << >> /\ offset # TornOffset
      /\ consumer = [c \in Consumers |-> IdleConsumer] /\ broken = {}
  BY MeshAssumption DEF MeshInit
<1>2. /\ IdleConsumer \in ConsumerStates /\ IdleConsumer.step = "idle"
      /\ IdleConsumer.from = 0 /\ IdleConsumer.size = 0
  BY DEF IdleConsumer, ConsumerStates
<1>3. MeshTypes BY <1>1, <1>2 DEF MeshTypes
<1>4. LinesFollow BY <1>1 DEF LinesFollow
<1>5. OffsetIsHandled BY <1>1 DEF OffsetIsHandled, HandledTo
<1>6. WorkIsHandled BY <1>1, <1>2 DEF WorkIsHandled, Work
<1>7. QED BY <1>3, <1>4, <1>5, <1>6 DEF MeshIInv

LEMMA MeshInvHolds == MeshSpec => []MeshIInv
<1>1. MeshIInv /\ [MeshNext]_meshVars => MeshIInv'
  BY MeshTypesStay, LogGrows, WorkStays DEF MeshIInv
<1>2. QED BY <1>1, MeshInvStarts, PTL DEF MeshSpec

(* An event is passed over only when the first piece of its line was read  *)
(* as the end of the log, or its consumer was killed before it was traced, *)
(* however many consumers share the offset file, read it torn, stop inside *)
(* a character or are reset (consume_once).                                *)
THEOREM NoEventIsSkipped == MeshSpec => []NothingSkipped
<1>1. ASSUME MeshIInv PROVE NothingSkipped
  <2>1. MeshTypes /\ OffsetIsHandled BY <1>1 DEF MeshIInv
  <2>2. MeshTypeOK
    <3>1. ASSUME NEW c \in Consumers
          PROVE  /\ consumer[c].step \in
                      {"idle", "size", "read", "open", "save", "trace", "raised", "dead"}
                 /\ consumer[c].size \in 0 .. Len(log)
                 /\ Pending(c) \subseteq Events
      <4>1. consumer[c] \in ConsumerStates /\ consumer[c].size <= Len(log) BY <2>1 DEF MeshTypes
      <4>2. Len(log) \in Nat BY <2>1 DEF MeshTypes
      <4>3. QED BY <4>1, <4>2 DEF ConsumerStates, Pending
    <3>2. offset \in Nat \cup {TornOffset} BY <2>1 DEF MeshTypes
    <3>3. QED BY <2>1, <3>1, <3>2 DEF MeshTypes, MeshTypeOK
  <2>3. ASSUME offset # TornOffset, NEW i \in 1 .. Len(log), i <= offset
        PROVE  \/ Traced(log[i][1]) \/ Lost(log[i][1])
               \/ \E c \in Consumers : log[i][1] \in Pending(c)
    <3>1. log[i][1] \in Handled BY <2>1, <2>3 DEF OffsetIsHandled, HandledTo
    <3>2. QED BY <3>1 DEF Handled, IsHandled
  <2>4. QED BY <2>2, <2>3 DEF NothingSkipped
<1>2. QED BY <1>1, MeshInvHolds, PTL
=============================================================================
