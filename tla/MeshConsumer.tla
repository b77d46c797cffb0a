---------------------------- MODULE MeshConsumer ----------------------------
(***************************************************************************)
(* The consumers of the workflow mesh, bin/ssot/mesh-consumer.py: an event *)
(* log that emitters append to, an offset file that says how far it was    *)
(* consumed, and a trace of what was consumed.  A --watch loop and any     *)
(* number of --once runs may be at work on the one offset file.            *)
(*                                                                         *)
(* The log is a sequence of halves of lines.  append_jsonl writes a line   *)
(* under a lock, but a long line may reach the file in pieces (those that  *)
(* cross a page do), and consumers take no lock.  The cut may fall inside  *)
(* a character, since events are written as UTF-8; the consumer decodes    *)
(* strictly and catches only OSError, so that such a cut stops it.         *)
(***************************************************************************)
EXTENDS Naturals, Sequences, FiniteSets

CONSTANTS
    Events,         \* the events, each emitted at most once
    Long,           \* those whose line reaches the file in two pieces
    Split,          \* those of them that are cut inside a character
    Consumers,      \* the consumer processes
    MortalConsumers,    \* those that may be killed
    Resetters,      \* {} or the processes that run --reset
    MaxTrace,       \* bound of the trace
    TornOffset      \* content of the offset file between open and write

ASSUME MeshAssumption ==
    /\ Split \subseteq Long /\ Long \subseteq Events
    /\ MortalConsumers \subseteq Consumers
    /\ MaxTrace \in Nat /\ TornOffset \notin Nat

VARIABLES
    log,        \* the pieces of lines in the event log: <<event, half>>
    offset,     \* the byte offset in the offset file
    trace,      \* the events in the trace, in order
    consumer,   \* [step, from, size, batch] of each consumer
    broken      \* history: the events of whose line a consumer read the
                \* first piece as the end of the log that it had measured

meshVars == <<log, offset, trace, consumer, broken>>

IdleConsumer == [step |-> "idle", from |-> 0, size |-> 0, batch |-> << >>]
Pieces == Events \X {1, 2}
Logged(e) == \E i \in 1 .. Len(log) : log[i][1] = e
\* The line that an emitter with the lock has not finished.
Unfinished == log # << >> /\ log[Len(log)][2] = 1
\* Byte n lies inside a character.
InCharacter(n) == n > 0 /\ log[n][2] = 1 /\ log[n][1] \in Split

\* append_jsonl
Emit(e) ==
    /\ ~Logged(e) /\ ~Unfinished
    /\ log' = log \o IF e \in Long THEN << <<e, 1>> >> ELSE << <<e, 1>>, <<e, 2>> >>
    /\ UNCHANGED <<offset, trace, consumer, broken>>

EmitRest ==
    /\ Unfinished
    /\ log' = Append(log, <<log[Len(log)][1], 2>>)
    /\ UNCHANGED <<offset, trace, consumer, broken>>

-----------------------------------------------------------------------------
\* The offset is loaded; a file that cannot be parsed counts as 0.
Load(c) ==
    /\ consumer[c].step = "idle"
    /\ consumer' = [consumer EXCEPT ![c] = [IdleConsumer EXCEPT
         !.step = "size", !.from = IF offset = TornOffset THEN 0 ELSE offset]]
    /\ UNCHANGED <<log, offset, trace, broken>>

\* The size of the log is measured; no growth, nothing to do.
Measure(c) ==
    /\ consumer[c].step = "size"
    /\ consumer' = [consumer EXCEPT ![c] =
         IF Len(log) <= @.from THEN IdleConsumer
         ELSE [@ EXCEPT !.step = "read", !.size = Len(log)]]
    /\ UNCHANGED <<log, offset, trace, broken>>

\* The events whose lines are whole from byte n on; the pieces are skipped.
WholeFrom(n) ==
    LET whole(i) == i > n /\ log[i][2] = 1 /\ i < Len(log)
        is == {i \in 1 .. Len(log) : whole(i)}
    IN  [k \in 1 .. Cardinality(is) |->
           log[CHOOSE i \in is : Cardinality({j \in is : j <= i}) = k][1]]

\* Everything that is there now is read and handled.
Read(c) ==
    /\ consumer[c].step = "read"
    /\ ~InCharacter(consumer[c].from) /\ ~InCharacter(Len(log))
    /\ consumer' = [consumer EXCEPT ![c] =
         [@ EXCEPT !.step = "open",
                       !.batch = WholeFrom(consumer[c].from)]]
    /\ broken' = IF Unfinished /\ consumer[c].size = Len(log)
                 THEN broken \cup {log[Len(log)][1]} ELSE broken
    /\ UNCHANGED <<log, offset, trace>>

\* What is read begins or ends inside a character: UnicodeDecodeError leaves
\* consume_once and the loop, and nothing of it is saved or traced.
Raise(c) ==
    /\ consumer[c].step = "read"
    /\ InCharacter(consumer[c].from) \/ InCharacter(Len(log))
    /\ consumer' = [consumer EXCEPT ![c] = [IdleConsumer EXCEPT !.step = "raised"]]
    /\ UNCHANGED <<log, offset, trace, broken>>

\* Someone starts it again; nothing in the repository does.
Rerun(c) ==
    /\ consumer[c].step = "raised"
    /\ consumer' = [consumer EXCEPT ![c] = IdleConsumer]
    /\ UNCHANGED <<log, offset, trace, broken>>

SaveOpen(c) ==
    /\ consumer[c].step = "open"
    /\ offset' = TornOffset
    /\ consumer' = [consumer EXCEPT ![c].step = "save"]
    /\ UNCHANGED <<log, trace, broken>>

BadSave(c) ==
    /\ consumer[c].step = "save"
    /\ offset' = Len(log)
    /\ consumer' = [consumer EXCEPT ![c].step = "trace"]
    /\ UNCHANGED <<log, trace, broken>>

\* The size that was measured is saved, ...
Save(c) ==
    /\ consumer[c].step = "save"
    /\ offset' = consumer[c].size
    /\ consumer' = [consumer EXCEPT ![c].step = "trace"]
    /\ UNCHANGED <<log, trace, broken>>

\* ... then what was handled goes to the trace, one event at a time.
Trace(c) ==
    /\ consumer[c].step = "trace"
    /\ consumer[c].batch # << >>
    /\ Len(trace) < MaxTrace
    /\ trace' = Append(trace, Head(consumer[c].batch))
    /\ consumer' = [consumer EXCEPT ![c].batch = Tail(@)]
    /\ UNCHANGED <<log, offset, broken>>

Finish(c) ==
    /\ consumer[c].step = "trace"
    /\ consumer[c].batch = << >>
    /\ consumer' = [consumer EXCEPT ![c] = IdleConsumer]
    /\ UNCHANGED <<log, offset, trace, broken>>

\* The process is stopped; what it had still to trace is lost with it.
KillConsumer(c) ==
    /\ c \in MortalConsumers
    /\ consumer[c].step \notin {"idle", "raised", "dead"}
    /\ consumer' = [consumer EXCEPT ![c] = [IdleConsumer EXCEPT
         !.step = "dead",
         !.batch = IF consumer[c].step = "trace" THEN consumer[c].batch ELSE << >>]]
    /\ UNCHANGED <<log, offset, trace, broken>>

Reset(r) ==
    /\ offset \notin {0, TornOffset}
    /\ offset' = 0
    /\ UNCHANGED <<log, trace, consumer, broken>>

MeshInit ==
    /\ log = << >>
    /\ offset = 0
    /\ trace = << >>
    /\ consumer = [c \in Consumers |-> IdleConsumer]
    /\ broken = {}

Consume(c) ==
    \/ Load(c) \/ Measure(c) \/ Read(c) \/ Raise(c) \/ SaveOpen(c) \/ Save(c)
    \/ Trace(c) \/ Finish(c)

MeshNext ==
    \/ \E e \in Events : Emit(e)
    \/ EmitRest
    \/ \E c \in Consumers : Consume(c) \/ KillConsumer(c) \/ Rerun(c)
    \/ \E r \in Resetters : Reset(r)

MeshSpec == MeshInit /\ [][MeshNext]_meshVars

\* A --watch loop goes on; nobody has to emit.
FairMeshSpec == MeshSpec /\ \A c \in Consumers : WF_meshVars(Consume(c))

-----------------------------------------------------------------------------
\* Type invariant.
Traced(e) == \E i \in 1 .. Len(trace) : trace[i] = e
Pending(c) == {consumer[c].batch[i] : i \in 1 .. Len(consumer[c].batch)}

MeshTypeOK ==
    /\ log \in Seq(Pieces)
    /\ offset \in Nat \cup {TornOffset}
    /\ trace \in Seq(Events)
    /\ \A c \in Consumers :
         /\ consumer[c].step \in
              {"idle", "size", "read", "open", "save", "trace", "raised", "dead"}
         /\ consumer[c].size \in 0 .. Len(log)
         /\ Pending(c) \subseteq Events
    /\ broken \subseteq Long \ Split

\* An event is passed over in two ways only: the first piece of its line was
\* read as the end of the log, or it was still to be traced when its consumer
\* was killed.  Every other event before the saved offset was traced or is
\* about to be, although two consumers share the offset file, one may read it
\* torn, one may stop in the middle of a character, and --reset takes it back.
\* (The type invariant, by which an event that is cut inside a character is
\* never passed over in the first way, is the first part of it.)
Lost(e) == e \in broken \/ \E c \in Consumers : consumer[c].step = "dead" /\ e \in Pending(c)

NothingSkipped ==
    /\ MeshTypeOK
    /\ offset # TornOffset =>
      \A i \in 1 .. Len(log) :
        i <= offset => \/ Traced(log[i][1]) \/ Lost(log[i][1])
                       \/ \E c \in Consumers : log[i][1] \in Pending(c)

\* If some consumer stops for good or for a time no more from some point on,
\* every event that was emitted is traced in the end, or lost in one of those
\* two ways.
GoesOn(c) == <>[](consumer[c].step \notin {"raised", "dead"})
EventuallyTraced ==
    (\E c \in Consumers : GoesOn(c)) =>
      \A e \in Events : Logged(e) ~> Traced(e) \/ Lost(e) \/ Len(trace) = MaxTrace

\* "--watch: consume continuously": a consumer that nobody kills goes on.
NobodyRaises == \A c \in Consumers : consumer[c].step # "raised"

\* Every event is handled, however its line reaches the log.
NoneBroken == broken = {}

\* No event is traced twice.
TracedOnce ==
    \A i, j \in 1 .. Len(trace) : trace[i] = trace[j] => i = j
=============================================================================
