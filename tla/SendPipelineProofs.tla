------------------------- MODULE SendPipelineProofs -------------------------
(***************************************************************************)
(* Proofs about the send pipeline, for any sinks, queues, batches, events  *)
(* and faults.                                                             *)
(*                                                                         *)
(* Two invariants carry them.  Control relates the stages of the shutdown  *)
(* to what each goroutine may still hold.  Data says, for a sink, that the *)
(* sampled events are divided among eight places, and that the rows of a   *)
(* place count no event twice, which is what makes an event that leaves    *)
(* one place with its row really leave it.                                 *)
(***************************************************************************)
EXTENDS SendPipeline, TLAPS

Event == [n : Nat, kind : Kinds, slot : Slots]
Row == SUBSET Event

Types ==
  /\ received \in Nat /\ windowSlot \in Nat
  /\ sampled \in Row /\ window \in SUBSET Row /\ out \in SUBSET (Row \X Sinks)
  /\ rows \in [Sinks -> Seq(Row)] /\ pending \in [Sinks -> Seq(Row)]
  /\ stored \in [Sinks -> Row] /\ failed \in [Sinks -> Row] /\ dropped \in [Sinks -> Row]
  /\ lost \in Row
  /\ worker \in [Sinks -> {"Start", "Select", "Flush", "LastFlush", "Done"}]
  /\ connected \in [Sinks -> BOOLEAN] /\ retryDue \in [Sinks -> BOOLEAN]

Control ==
  /\ consumer \in {"Read", "Send", "Close", "Done"}
  /\ main \in {"Run", "AwaitSend", "AwaitFlush", "Exit"}
  /\ consumer \in {"Read", "Done"} => out = {}
  /\ consumer \in {"Close", "Done"} => window = {}
  /\ consumer # "Done" => lost = {}
  /\ closed => consumer = "Done"
  /\ main \in {"AwaitFlush", "Exit"} => closed
  /\ main = "Exit" => \A s \in Sinks : worker[s] = "Done"
  /\ \A s \in Sinks :
       /\ worker[s] \in {"LastFlush", "Done"} => closed /\ rows[s] = << >>
       /\ worker[s] = "Done" => pending[s] = << >>

USE BoundsAssumption, ZenonT(40)

-----------------------------------------------------------------------------
(* Types                                                                   *)

LEMMA TypesInit == Init => Types
<1>1. << >> \in Seq(Row)
  BY SMT
<1> QED
  BY <1>1, SMT DEF Init, Types, Row

LEMMA EventsType == ASSUME NEW R \in SUBSET Row PROVE Events(R) \in Row
  BY DEF Events, Row

LEMMA RowsOfType == ASSUME NEW q \in Seq(Row) PROVE RowsOf(q) \in SUBSET Row
  BY SMT DEF RowsOf

LEMMA ShapesType == ASSUME NEW p \in Shapes PROVE p \in Kinds \X Slots
<1>1. PICK k \in Kinds, t \in Slots : TRUE
  OBVIOUS
<1>2. (CHOOSE q \in Kinds \X Slots : TRUE) \in Kinds \X Slots
  <2>1. <<k, t>> \in Kinds \X Slots
    OBVIOUS
  <2> QED
    BY <2>1
<1> QED
  BY <1>2 DEF Shapes

LEMMA TypesConsume == Types /\ Consume => Types'
<1> SUFFICES ASSUME Types, Consume PROVE Types'
  OBVIOUS
<1> USE DEF Types, Consume, sinks
<1>1. PICK p \in Shapes :
        LET e == [n |-> received + 1, kind |-> p[1], slot |-> p[2]]
        IN IF (received + 1) % Sample # 0 THEN UNCHANGED <<sampled, out, consumer, window, windowSlot>>
           ELSE /\ sampled' = sampled \cup {e}
                /\ IF aggregate THEN Aggregate(e)
                   ELSE /\ out' = {{e}} \X Sinks /\ consumer' = "Send"
                        /\ UNCHANGED <<window, windowSlot>>
  OBVIOUS
<1> DEFINE e == [n |-> received + 1, kind |-> p[1], slot |-> p[2]]
<1>2. e \in Event /\ e.slot \in Nat
  <2>1. p \in Kinds \X Slots
    BY ShapesType
  <2>2. p[1] \in Kinds /\ p[2] \in Slots /\ p[2] \in Nat
    BY <2>1
  <2> QED
    BY <2>2, SMT DEF Event
<1>3. {e} \in Row /\ sampled \cup {e} \in Row
  BY <1>2 DEF Row
<1> HIDE DEF e
<1>4. CASE UNCHANGED <<sampled, out, consumer, window, windowSlot>>
  BY <1>4, SMT
<1>5. CASE sampled' = sampled \cup {e} /\ aggregate /\ Aggregate(e)
  <2>1. CASE e.slot > windowSlot
    <3>1. out' = window \X Sinks /\ window' = {{e}} /\ windowSlot' = e.slot
      BY <1>5, <2>1 DEF Aggregate
    <3>2. out' \in SUBSET (Row \X Sinks)
      BY <3>1
    <3> QED
      BY <1>2, <1>3, <1>5, <3>1, <3>2, SMT
  <2>2. CASE ~(e.slot > windowSlot)
    <3>1. (UNION {row \in window : Same(e, row)}) \cup {e} \in Row
      BY <1>2 DEF Row
    <3>2. window' = {row \in window : ~Same(e, row)} \cup
                    {(UNION {row \in window : Same(e, row)}) \cup {e}}
      BY <1>5, <2>2 DEF Aggregate
    <3>3. window' \in SUBSET Row
      BY <3>1, <3>2
    <3> QED
      BY <1>3, <1>5, <2>2, <3>3, SMT DEF Aggregate
  <2> QED
    BY <2>1, <2>2
<1>6. CASE /\ sampled' = sampled \cup {e} /\ out' = {{e}} \X Sinks
           /\ UNCHANGED <<window, windowSlot>>
  <2>1. out' \in SUBSET (Row \X Sinks)
    BY <1>3, <1>6
  <2> QED
    BY <1>3, <1>6, <2>1, SMT
<1> QED
  BY <1>1, <1>4, <1>5, <1>6 DEF e

LEMMA TypesStep == Types /\ [Next]_vars => Types'
<1> SUFFICES ASSUME Types, [Next]_vars PROVE Types'
  OBVIOUS
<1> USE DEF Types
<1>1. CASE Consume
  BY <1>1, TypesConsume
<1>2. CASE BadEvent
  BY <1>2 DEF BadEvent, inputs, sinks
<1>3. CASE ReaderFails
  <2>1. Events(window) \in Row
    BY EventsType
  <2> QED
    BY <1>3, <2>1 DEF ReaderFails, sinks
<1>4. CASE ReaderClosed
  BY <1>4 DEF ReaderClosed, sinks
<1>5. CASE Enqueue
  <2>1. PICK p \in out :
          /\ IF Len(rows[p[2]]) < QueueCap
             THEN rows' = [rows EXCEPT ![p[2]] = Append(@, p[1])] /\ UNCHANGED dropped
             ELSE dropped' = [dropped EXCEPT ![p[2]] = @ \cup p[1]] /\ UNCHANGED rows
          /\ out' = out \ {p}
    BY <1>5 DEF Enqueue
  <2>2. p[1] \in Row /\ p[2] \in Sinks
    OBVIOUS
  <2>3. Append(rows[p[2]], p[1]) \in Seq(Row) /\ dropped[p[2]] \cup p[1] \in Row
    BY <2>2, SMT DEF Row
  <2>4. rows' \in [Sinks -> Seq(Row)] /\ dropped' \in [Sinks -> Row]
    <3>1. CASE Len(rows[p[2]]) < QueueCap
      BY <2>1, <2>2, <2>3, <3>1
    <3>2. CASE ~(Len(rows[p[2]]) < QueueCap)
      <4>1. dropped' = [dropped EXCEPT ![p[2]] = dropped[p[2]] \cup p[1]] /\ rows' = rows
        BY <2>1, <3>2
      <4> QED
        BY <2>2, <2>3, <4>1
    <3> QED
      BY <3>1, <3>2
  <2>5. out' \in SUBSET (Row \X Sinks)
    BY <2>1
  <2> QED
    BY <1>5, <2>4, <2>5 DEF Enqueue
<1>6. CASE EndEnqueue
  BY <1>6 DEF EndEnqueue, sinks
<1>7. ASSUME NEW s \in Sinks, WorkerStep(s) \/ RetryDue(s) PROVE Types'
  <2> USE DEF inputs, AfterFlush
  <2>1. Events(RowsOf(pending[s])) \in Row /\ << >> \in Seq(Row)
    BY EventsType, RowsOfType, SMT
  <2>2. CASE Dial(s)
    BY <2>2 DEF Dial
  <2>3. CASE TakeRow(s)
    <3>1. Append(pending[s], Head(rows[s])) \in Seq(Row) /\ Tail(rows[s]) \in Seq(Row)
      BY <2>3, SMT DEF TakeRow
    <3> QED
      BY <2>3, <3>1 DEF TakeRow
  <2>4. CASE QueueClosed(s) \/ FlushTick(s) \/ FlushNothing(s) \/ Reconnect(s) \/ RetryDue(s)
    BY <2>4 DEF QueueClosed, FlushTick, FlushNothing, Reconnect, RetryDue
  <2>5. CASE FlushDrops(s)
    <3>1. dropped[s] \cup Events(RowsOf(pending[s])) \in Row
      BY <2>1 DEF Row
    <3> QED
      BY <2>1, <2>5, <3>1 DEF FlushDrops
  <2>6. CASE Insert(s)
    <3>1. stored[s] \cup Events(RowsOf(pending[s])) \in Row
      BY <2>1 DEF Row
    <3> QED
      BY <2>1, <2>6, <3>1 DEF Insert
  <2>7. CASE InsertFails(s)
    <3>1. failed[s] \cup Events(RowsOf(pending[s])) \in Row
      BY <2>1 DEF Row
    <3> QED
      BY <2>1, <2>7, <3>1 DEF InsertFails
  <2> QED
    BY <1>7, <2>2, <2>3, <2>4, <2>5, <2>6, <2>7 DEF WorkerStep
<1>8. CASE Shutdown
  BY <1>8 DEF Shutdown, sinks
<1>9. CASE MainStep
  BY <1>9 DEF MainStep, CloseSinks, Exit, sinks
<1>10. CASE UNCHANGED vars
  BY <1>10 DEF vars, inputs, sinks
<1> QED
  BY <1>1, <1>2, <1>3, <1>4, <1>5, <1>6, <1>7, <1>8, <1>9, <1>10 DEF Next, ConsumerStep

-----------------------------------------------------------------------------
(* The stages of the shutdown                                              *)

LEMMA ControlInit == Init => Control
  BY DEF Init, Control

LEMMA ControlStep == Types /\ Control /\ [Next]_vars => Control'
<1> SUFFICES ASSUME Types, Control, [Next]_vars PROVE Control'
  OBVIOUS
<1> USE DEF Control
<1>1. CASE Consume
  <2>1. /\ consumer = "Read" /\ lost' = lost /\ main' = main /\ closed' = closed
        /\ rows' = rows /\ worker' = worker /\ pending' = pending
    BY <1>1 DEF Consume, sinks
  <2>2. \/ consumer' = consumer /\ out' = out
        \/ consumer' = "Send"
    BY <1>1 DEF Consume, Aggregate
  <2> QED
    BY <2>1, <2>2
<1>2. CASE BadEvent
  BY <1>2 DEF BadEvent, inputs, sinks
<1>3. CASE ReaderFails
  BY <1>3 DEF ReaderFails, sinks
<1>4. CASE ReaderClosed
  BY <1>4 DEF ReaderClosed, sinks
<1>5. CASE Enqueue
  <2>1. ~closed /\ \A s \in Sinks : worker[s] \notin {"LastFlush", "Done"}
    BY <1>5 DEF Enqueue
  <2> QED
    BY <1>5, <2>1 DEF Enqueue
<1>6. CASE EndEnqueue
  BY <1>6 DEF EndEnqueue, sinks
<1>7. ASSUME NEW s \in Sinks, WorkerStep(s) \/ RetryDue(s) PROVE Control'
  <2>1. inputs' = inputs /\ closed' = closed
    BY <1>7 DEF WorkerStep, RetryDue, Dial, TakeRow, QueueClosed, FlushTick, FlushNothing, Reconnect,
                FlushDrops, Insert, InsertFails
  <2>2. worker[s] # "Done" /\ main # "Exit"
    BY <1>7 DEF WorkerStep, RetryDue, Dial, TakeRow, QueueClosed, FlushTick, FlushNothing, Reconnect,
                FlushDrops, Insert, InsertFails, Flushing
  <2>3. \A t \in Sinks \ {s} : rows'[t] = rows[t] /\ worker'[t] = worker[t] /\ pending'[t] = pending[t]
    BY <1>7 DEF WorkerStep, RetryDue, Dial, TakeRow, QueueClosed, FlushTick, FlushNothing, Reconnect,
                FlushDrops, Insert, InsertFails, AfterFlush, Types
  <2>4. /\ worker'[s] \in {"LastFlush", "Done"} => closed /\ rows'[s] = << >>
        /\ worker'[s] = "Done" => pending'[s] = << >>
    <3> USE DEF Types
    <3>1. CASE Dial(s) \/ FlushTick(s) \/ RetryDue(s) \/ QueueClosed(s) \/ Reconnect(s)
      BY <3>1 DEF Dial, FlushTick, RetryDue, QueueClosed, Reconnect, Flushing
    <3>2. CASE TakeRow(s)
      BY <3>2 DEF TakeRow
    <3>3. CASE FlushNothing(s) \/ FlushDrops(s) \/ Insert(s) \/ InsertFails(s)
      BY <3>3 DEF FlushNothing, FlushDrops, Insert, InsertFails, AfterFlush, Flushing
    <3> QED
      BY <1>7, <3>1, <3>2, <3>3 DEF WorkerStep
  <2> QED
    BY <2>1, <2>2, <2>3, <2>4 DEF inputs
<1>8. CASE Shutdown
  BY <1>8 DEF Shutdown, sinks
<1>9. CASE CloseSinks
  BY <1>9 DEF CloseSinks
<1>10. CASE Exit
  BY <1>10 DEF Exit, sinks
<1>11. CASE UNCHANGED vars
  BY <1>11 DEF vars, inputs, sinks
<1> QED
  BY <1>1, <1>2, <1>3, <1>4, <1>5, <1>6, <1>7, <1>8, <1>9, <1>10, <1>11 DEF Next, ConsumerStep, MainStep

-----------------------------------------------------------------------------
(* The rows of a sink and the events they count                            *)

To(O, s) == {p[1] : p \in {q \in O : q[2] = s}}
Apart(R) == \A r, q \in R : r # q => r \cap q = {}
ApartSeq(q) == \A i, j \in DOMAIN q : i # j => q[i] \cap q[j] = {}

Divided(S, A, B, C, D, E, F, G, H) ==
  /\ S = A \cup B \cup C \cup D \cup E \cup F \cup G \cup H
  /\ \A x \in A : x \notin B /\ x \notin C /\ x \notin D /\ x \notin E /\ x \notin F /\ x \notin G /\ x \notin H
  /\ \A x \in B : x \notin C /\ x \notin D /\ x \notin E /\ x \notin F /\ x \notin G /\ x \notin H
  /\ \A x \in C : x \notin D /\ x \notin E /\ x \notin F /\ x \notin G /\ x \notin H
  /\ \A x \in D : x \notin E /\ x \notin F /\ x \notin G /\ x \notin H
  /\ \A x \in E : x \notin F /\ x \notin G /\ x \notin H
  /\ \A x \in F : x \notin G /\ x \notin H
  /\ \A x \in G : x \notin H

Queued(s) == Events(RowsOf(rows[s]))
Batched(s) == Events(RowsOf(pending[s]))
Offered(s) == Events(To(out, s))

Data(s) ==
  /\ Divided(sampled, Events(window), Offered(s), Queued(s), Batched(s),
             stored[s], failed[s], dropped[s], lost)
  /\ Apart(window) /\ Apart(To(out, s)) /\ ApartSeq(rows[s]) /\ ApartSeq(pending[s])

Numbered == \A e \in sampled : e.n <= received

LEMMA ToAll == ASSUME NEW W, NEW s \in Sinks PROVE To(W \X Sinks, s) = W
<1>1. ASSUME NEW r \in W PROVE r \in To(W \X Sinks, s)
  <2>1. <<r, s>> \in W \X Sinks /\ <<r, s>>[1] = r /\ <<r, s>>[2] = s
    OBVIOUS
  <2> QED
    BY <2>1 DEF To
<1>2. ASSUME NEW r \in To(W \X Sinks, s) PROVE r \in W
  BY DEF To
<1> QED
  BY <1>1, <1>2

LEMMA ToMinus ==
  ASSUME NEW O \in SUBSET (Row \X Sinks), NEW p \in O
  PROVE  /\ To(O \ {p}, p[2]) = To(O, p[2]) \ {p[1]}
         /\ p[1] \in To(O, p[2])
         /\ \A t \in Sinks : t # p[2] => To(O \ {p}, t) = To(O, t)
<1>1. \A q \in O : q[1] = p[1] /\ q[2] = p[2] => q = p
  BY SMT
<1> QED
  BY <1>1 DEF To

LEMMA ApartMinus ==
  ASSUME NEW R, NEW r \in R, Apart(R)
  PROVE  /\ Apart(R \ {r}) /\ Events(R \ {r}) = Events(R) \ r
         /\ \A x \in r : x \in Events(R)
<1>1. \A q \in R \ {r} : q \cap r = {}
  BY DEF Apart
<1> QED
  BY <1>1, SMT DEF Apart, Events

LEMMA RowsOfAppend ==
  ASSUME NEW q \in Seq(Row), NEW r \in Row
  PROVE  RowsOf(Append(q, r)) = RowsOf(q) \cup {r}
<1>1. DOMAIN Append(q, r) = 1 .. Len(q) + 1 /\ DOMAIN q = 1 .. Len(q) /\ Len(q) \in Nat
  BY SMT
<1>2. \A i \in 1 .. Len(q) + 1 : Append(q, r)[i] = IF i <= Len(q) THEN q[i] ELSE r
  BY SMT
<1>3. ASSUME NEW x \in RowsOf(q) \cup {r} PROVE x \in RowsOf(Append(q, r))
  <2>1. CASE x = r
    <3>1. Len(q) + 1 \in DOMAIN Append(q, r) /\ Append(q, r)[Len(q) + 1] = r
      BY <1>1, <1>2, SMT
    <3> QED
      BY <2>1, <3>1 DEF RowsOf
  <2>2. CASE x \in RowsOf(q)
    <3>1. PICK i \in 1 .. Len(q) : x = q[i]
      BY <1>1, <2>2 DEF RowsOf
    <3>2. i \in DOMAIN Append(q, r) /\ Append(q, r)[i] = x
      BY <1>1, <1>2, <3>1, SMT
    <3> QED
      BY <3>2 DEF RowsOf
  <2> QED
    BY <2>1, <2>2
<1>4. ASSUME NEW x \in RowsOf(Append(q, r)) PROVE x \in RowsOf(q) \cup {r}
  <2>1. PICK i \in 1 .. Len(q) + 1 : x = Append(q, r)[i]
    BY <1>1 DEF RowsOf
  <2>2. CASE i <= Len(q)
    BY <1>1, <1>2, <2>1, <2>2, SMT DEF RowsOf
  <2>3. CASE ~(i <= Len(q))
    BY <1>2, <2>1, <2>3
  <2> QED
    BY <2>2, <2>3
<1> QED
  BY <1>3, <1>4

LEMMA RowsOfTail ==
  ASSUME NEW q \in Seq(Row), q # << >>
  PROVE  RowsOf(q) = RowsOf(Tail(q)) \cup {Head(q)}
<1>1. /\ DOMAIN q = 1 .. Len(q) /\ Len(q) \in Nat \ {0}
      /\ DOMAIN Tail(q) = 1 .. Len(q) - 1 /\ Head(q) = q[1]
      /\ \A i \in 1 .. Len(q) - 1 : Tail(q)[i] = q[i + 1]
  BY SMT
<1>2. ASSUME NEW x \in RowsOf(q) PROVE x \in RowsOf(Tail(q)) \cup {Head(q)}
  <2>1. PICK i \in 1 .. Len(q) : x = q[i]
    BY <1>1 DEF RowsOf
  <2>2. CASE i = 1
    BY <1>1, <2>1, <2>2
  <2>3. CASE i # 1
    <3>1. i - 1 \in DOMAIN Tail(q) /\ Tail(q)[i - 1] = x
      BY <1>1, <2>1, <2>3, SMT
    <3> QED
      BY <3>1 DEF RowsOf
  <2> QED
    BY <2>2, <2>3
<1>3. ASSUME NEW x \in RowsOf(Tail(q)) \cup {Head(q)} PROVE x \in RowsOf(q)
  <2>1. CASE x = Head(q)
    BY <1>1, <2>1, SMT DEF RowsOf
  <2>2. CASE x \in RowsOf(Tail(q))
    <3>1. PICK i \in 1 .. Len(q) - 1 : x = Tail(q)[i]
      BY <1>1, <2>2 DEF RowsOf
    <3>2. i + 1 \in DOMAIN q /\ q[i + 1] = x
      BY <1>1, <3>1, SMT
    <3> QED
      BY <3>2 DEF RowsOf
  <2> QED
    BY <2>1, <2>2
<1> QED
  BY <1>2, <1>3

LEMMA ApartAppend ==
  ASSUME NEW q \in Seq(Row), NEW r \in Row, ApartSeq(q), r \cap Events(RowsOf(q)) = {}
  PROVE  ApartSeq(Append(q, r))
<1>1. /\ DOMAIN Append(q, r) = 1 .. Len(q) + 1 /\ DOMAIN q = 1 .. Len(q) /\ Len(q) \in Nat
      /\ \A i \in 1 .. Len(q) + 1 : Append(q, r)[i] = IF i <= Len(q) THEN q[i] ELSE r
  BY SMT
<1>2. \A i \in 1 .. Len(q) : q[i] \cap r = {}
  BY <1>1, SMT DEF Events, RowsOf
<1> QED
  BY <1>1, <1>2, SMT DEF ApartSeq

LEMMA ApartTail ==
  ASSUME NEW q \in Seq(Row), q # << >>, ApartSeq(q)
  PROVE  ApartSeq(Tail(q)) /\ Head(q) \cap Events(RowsOf(Tail(q))) = {}
<1>1. /\ DOMAIN q = 1 .. Len(q) /\ Len(q) \in Nat \ {0}
      /\ DOMAIN Tail(q) = 1 .. Len(q) - 1 /\ Head(q) = q[1]
      /\ \A i \in 1 .. Len(q) - 1 : Tail(q)[i] = q[i + 1]
  BY SMT
<1>2. \A i \in 1 .. Len(q) - 1 : Tail(q)[i] \cap Head(q) = {}
  BY <1>1, SMT DEF ApartSeq
<1>3. Head(q) \cap Events(RowsOf(Tail(q))) = {}
  BY <1>1, <1>2, SMT DEF Events, RowsOf
<1>4. ApartSeq(Tail(q))
  BY <1>1, SMT DEF ApartSeq
<1> QED
  BY <1>3, <1>4

-----------------------------------------------------------------------------
(* Every step moves events from one place to another                       *)

LEMMA NumberedStep == Types /\ Numbered /\ [Next]_vars => Numbered'
<1> SUFFICES ASSUME Types, Numbered, [Next]_vars PROVE Numbered'
  OBVIOUS
<1>1. received \in Nat /\ \A e \in sampled : e.n \in Nat /\ e.n <= received
  BY DEF Types, Row, Event, Numbered
<1>2. CASE Consume
  BY <1>1, <1>2, SMT DEF Consume, Numbered
<1>3. CASE ~Consume
  <2>1. UNCHANGED <<sampled, received>>
    BY <1>3 DEF Next, ConsumerStep, BadEvent, ReaderFails, ReaderClosed, Enqueue, EndEnqueue,
                Shutdown, MainStep, CloseSinks, Exit, vars, inputs, WorkerStep, RetryDue, Dial, TakeRow,
                QueueClosed, FlushTick, FlushNothing, Reconnect, FlushDrops, Insert, InsertFails
  <2> QED
    BY <2>1 DEF Numbered
<1> QED
  BY <1>2, <1>3

LEMMA DataInit == Init => Numbered /\ \A s \in Sinks : Data(s)
<1> SUFFICES ASSUME Init PROVE Numbered /\ \A s \in Sinks : Data(s)
  OBVIOUS
<1>1. Numbered
  BY DEF Init, Numbered
<1>2. ASSUME NEW s \in Sinks PROVE Data(s)
  <2>1. /\ window = {} /\ out = {} /\ rows[s] = << >> /\ pending[s] = << >> /\ sampled = {}
        /\ stored[s] = {} /\ failed[s] = {} /\ dropped[s] = {} /\ lost = {}
    BY DEF Init
  <2>2. RowsOf(<< >>) = {} /\ Events({}) = {} /\ To({}, s) = {} /\ ApartSeq(<< >>) /\ Apart({})
    BY SMT DEF RowsOf, Events, To, ApartSeq, Apart
  <2> QED
    BY <2>1, <2>2 DEF Data, Divided, Offered, Queued, Batched
<1> QED
  BY <1>1, <1>2

LEMMA DataConsume ==
  ASSUME Types, Control, Numbered, NEW s \in Sinks, Data(s), Consume
  PROVE  Data(s)'
<1>1. PICK p \in Shapes :
        LET e == [n |-> received + 1, kind |-> p[1], slot |-> p[2]]
        IN IF (received + 1) % Sample # 0 THEN UNCHANGED <<sampled, out, consumer, window, windowSlot>>
           ELSE /\ sampled' = sampled \cup {e}
                /\ IF aggregate THEN Aggregate(e)
                   ELSE /\ out' = {{e}} \X Sinks /\ consumer' = "Send"
                        /\ UNCHANGED <<window, windowSlot>>
  BY DEF Consume
<1>2. /\ received' = received + 1 /\ received \in Nat /\ consumer = "Read" /\ out = {}
      /\ rows' = rows /\ pending' = pending /\ stored' = stored /\ failed' = failed
      /\ dropped' = dropped /\ lost' = lost
  BY DEF Consume, sinks, Types, Control
<1> DEFINE e == [n |-> received + 1, kind |-> p[1], slot |-> p[2]]
<1>3. e.n = received + 1
  OBVIOUS
<1> HIDE DEF e
<1>4. \A f \in sampled : f.n \in Nat /\ f.n <= received
  BY DEF Types, Row, Event, Numbered
<1>5. e \notin sampled
  BY <1>2, <1>3, <1>4, SMT
<1>6. Offered(s) = {} /\ Queued(s)' = Queued(s) /\ Batched(s)' = Batched(s)
  BY <1>2 DEF Offered, Queued, Batched, To, Events, RowsOf
<1>7. CASE UNCHANGED <<sampled, out, consumer, window, windowSlot>>
  BY <1>2, <1>6, <1>7 DEF Data, Offered, To, Events
<1>9. CASE sampled' = sampled \cup {e} /\ aggregate /\ Aggregate(e)
  <2>1. CASE e.slot > windowSlot
    <3>1. out' = window \X Sinks /\ window' = {{e}}
      BY <1>9, <2>1 DEF Aggregate
    <3>2. To(out', s) = window /\ Events(window') = {e} /\ Apart(window')
      BY <3>1, ToAll DEF Events, Apart
    <3>3. Offered(s)' = Events(window)
      BY <3>2 DEF Offered
    <3> QED
      BY <1>2, <1>5, <1>6, <1>9, <3>2, <3>3 DEF Data, Divided
  <2>2. CASE ~(e.slot > windowSlot)
    <3> DEFINE kept == {row \in window : ~Same(e, row)}
               joined == {row \in window : Same(e, row)}
    <3>1. out' = out /\ window' = kept \cup {(UNION joined) \cup {e}}
      BY <1>9, <2>2 DEF Aggregate
    <3>2. Events(window') = Events(window) \cup {e}
      BY <3>1 DEF Events
    <3>3. Apart(window')
      <4>1. \A r \in kept : r \cap ((UNION joined) \cup {e}) = {}
        <5>1. \A r \in kept : e \notin r
          BY <1>5 DEF Data, Divided, Events
        <5>2. \A r \in kept, q \in joined : r \cap q = {}
          BY DEF Data, Apart
        <5> QED
          BY <5>1, <5>2, SMT
      <4>2. Apart(kept)
        BY DEF Data, Apart
      <4> HIDE DEF kept, joined
      <4> QED
        BY <3>1, <4>1, <4>2 DEF Apart
    <3>4. Offered(s)' = Offered(s) /\ To(out', s) = To(out, s)
      BY <3>1 DEF Offered, To, Events
    <3> QED
      BY <1>2, <1>5, <1>6, <1>9, <3>2, <3>3, <3>4 DEF Data, Divided
  <2> QED
    BY <2>1, <2>2
<1>10. CASE sampled' = sampled \cup {e} /\ out' = {{e}} \X Sinks /\ window' = window
  <2>1. To(out', s) = {{e}} /\ Events({{e}}) = {e} /\ Apart({{e}})
    BY <1>10, ToAll DEF Events, Apart
  <2>2. Offered(s)' = {e} /\ Events(window)' = Events(window)
    BY <1>10, <2>1 DEF Offered
  <2>3. Divided(sampled', Events(window)', Offered(s)', Queued(s)', Batched(s)',
                stored'[s], failed'[s], dropped'[s], lost')
    BY <1>2, <1>5, <1>6, <1>10, <2>2 DEF Data, Divided
  <2>4. Apart(window)' /\ Apart(To(out, s))' /\ ApartSeq(rows[s])' /\ ApartSeq(pending[s])'
    BY <1>2, <1>10, <2>1 DEF Data, Apart, ApartSeq
  <2> QED
    BY <1>10, <2>3, <2>4 DEF Data
<1> QED
  BY <1>1, <1>7, <1>9, <1>10 DEF e

LEMMA DataEnqueue ==
  ASSUME Types, NEW s \in Sinks, Data(s), Enqueue
  PROVE  Data(s)'
<1>1. PICK p \in out :
        /\ IF Len(rows[p[2]]) < QueueCap
           THEN rows' = [rows EXCEPT ![p[2]] = Append(@, p[1])] /\ UNCHANGED dropped
           ELSE dropped' = [dropped EXCEPT ![p[2]] = @ \cup p[1]] /\ UNCHANGED rows
        /\ out' = out \ {p}
  BY DEF Enqueue
<1>2. /\ window' = window /\ sampled' = sampled /\ pending' = pending /\ stored' = stored
      /\ failed' = failed /\ lost' = lost
  BY DEF Enqueue
<1>3. p[1] \in Row /\ p[2] \in Sinks /\ rows[s] \in Seq(Row)
  BY DEF Types
<1>4. Batched(s)' = Batched(s) /\ Events(window)' = Events(window)
  BY <1>2 DEF Batched, RowsOf, Events
<1>5. CASE p[2] # s
  <2>1. To(out', s) = To(out, s)
    <3>1. out \in SUBSET (Row \X Sinks)
      BY DEF Types
    <3>2. \A t \in Sinks : t # p[2] => To(out \ {p}, t) = To(out, t)
      BY <3>1, ToMinus
    <3>3. To(out \ {p}, s) = To(out, s)
      BY <1>5, <3>2
    <3> QED
      BY <1>1, <3>3
  <2>2. rows'[s] = rows[s] /\ dropped'[s] = dropped[s]
    BY <1>1, <1>3, <1>5, SMT DEF Types
  <2>3. Offered(s)' = Offered(s) /\ Queued(s)' = Queued(s)
    BY <2>1, <2>2 DEF Offered, Queued
  <2> QED
    BY <1>2, <1>4, <2>1, <2>2, <2>3 DEF Data
<1>6. CASE p[2] = s
  <2>1. To(out', s) = To(out, s) \ {p[1]} /\ p[1] \in To(out, s)
    BY <1>1, <1>6, ToMinus DEF Types
  <2>2. Apart(To(out', s)) /\ Offered(s)' = Offered(s) \ p[1] /\ \A x \in p[1] : x \in Offered(s)
    <3>1. Apart(To(out, s))
      BY DEF Data
    <3>2. /\ Apart(To(out, s) \ {p[1]}) /\ Events(To(out, s) \ {p[1]}) = Events(To(out, s)) \ p[1]
          /\ \A x \in p[1] : x \in Events(To(out, s))
      BY <2>1, <3>1, ApartMinus
    <3> QED
      BY <2>1, <3>2 DEF Offered
  <2>3. CASE Len(rows[s]) < QueueCap
    <3>1. rows'[s] = Append(rows[s], p[1]) /\ dropped'[s] = dropped[s]
      BY <1>1, <1>3, <1>6, <2>3 DEF Types
    <3>2. Queued(s)' = Queued(s) \cup p[1]
      <4>1. RowsOf(rows'[s]) = RowsOf(rows[s]) \cup {p[1]}
        BY <1>3, <3>1, RowsOfAppend
      <4> QED
        BY <4>1 DEF Queued, Events
    <3>3. ApartSeq(rows'[s])
      <4>1. p[1] \cap Events(RowsOf(rows[s])) = {}
        BY <2>2 DEF Data, Divided, Queued
      <4> QED
        BY <1>3, <3>1, <4>1, ApartAppend DEF Data
    <3> QED
      BY <1>2, <1>4, <2>2, <3>1, <3>2, <3>3 DEF Data, Divided
  <2>4. CASE ~(Len(rows[s]) < QueueCap)
    <3>1. rows'[s] = rows[s] /\ dropped'[s] = dropped[s] \cup p[1]
      BY <1>1, <1>3, <1>6, <2>4 DEF Types
    <3>2. Queued(s)' = Queued(s)
      BY <3>1 DEF Queued
    <3> QED
      BY <1>2, <1>4, <2>2, <3>1, <3>2, SMT DEF Data, Divided
  <2> QED
    BY <2>3, <2>4
<1> QED
  BY <1>5, <1>6

(* Another sink's worker leaves this sink alone.                           *)
LEMMA DataWorker ==
  ASSUME Types, NEW s \in Sinks, Data(s), NEW t \in Sinks, WorkerStep(t) \/ RetryDue(t)
  PROVE  Data(s)'
<1>1. inputs' = inputs
  BY DEF WorkerStep, RetryDue, Dial, TakeRow, QueueClosed, FlushTick, FlushNothing, Reconnect,
         FlushDrops, Insert, InsertFails
<1>2. /\ window' = window /\ sampled' = sampled /\ lost' = lost /\ out' = out
      /\ Offered(s)' = Offered(s) /\ Events(window)' = Events(window)
  BY <1>1 DEF inputs, Offered, To, Events
<1>3. rows[s] \in Seq(Row) /\ pending[s] \in Seq(Row) /\ RowsOf(<< >>) = {} /\ Events({}) = {}
  BY SMT DEF Types, RowsOf, Events
<1>4. CASE /\ rows'[s] = rows[s] /\ pending'[s] = pending[s] /\ stored'[s] = stored[s]
           /\ failed'[s] = failed[s] /\ dropped'[s] = dropped[s]
  <2>1. Queued(s)' = Queued(s) /\ Batched(s)' = Batched(s)
    BY <1>4 DEF Queued, Batched
  <2> QED
    BY <1>2, <1>4, <2>1 DEF Data
<1>5. CASE s # t
  BY <1>4, <1>5 DEF Types, WorkerStep, RetryDue, Dial, TakeRow, QueueClosed, FlushTick, FlushNothing,
                    Reconnect, FlushDrops, Insert, InsertFails
<1>6. CASE s = t /\ TakeRow(s)
  <2>1. /\ rows[s] # << >> /\ rows'[s] = Tail(rows[s]) /\ pending'[s] = Append(pending[s], Head(rows[s]))
        /\ stored'[s] = stored[s] /\ failed'[s] = failed[s] /\ dropped'[s] = dropped[s]
    BY <1>6 DEF TakeRow, Types
  <2> DEFINE r == Head(rows[s])
  <2>2. r \in Row
    BY <1>3, <2>1, SMT
  <2>3. RowsOf(rows[s]) = RowsOf(rows'[s]) \cup {r}
    BY <1>3, <2>1, RowsOfTail
  <2>4. ApartSeq(rows'[s]) /\ r \cap Events(RowsOf(rows'[s])) = {}
    BY <1>3, <2>1, ApartTail DEF Data
  <2>5. RowsOf(pending'[s]) = RowsOf(pending[s]) \cup {r}
    BY <1>3, <2>1, <2>2, RowsOfAppend
  <2> HIDE DEF r
  <2>6. Queued(s)' = Queued(s) \ r /\ \A x \in r : x \in Queued(s)
    BY <2>3, <2>4, SMT DEF Queued, Events
  <2>7. Batched(s)' = Batched(s) \cup r
    BY <2>5 DEF Batched, Events
  <2>8. ApartSeq(pending'[s])
    <3>1. r \cap Events(RowsOf(pending[s])) = {}
      BY <2>6 DEF Data, Divided, Batched
    <3> QED
      BY <1>3, <2>1, <2>2, <3>1, ApartAppend DEF Data, r
  <2>9. Divided(sampled', Events(window)', Offered(s)', Queued(s)', Batched(s)',
                stored'[s], failed'[s], dropped'[s], lost')
    BY <1>2, <2>1, <2>6, <2>7 DEF Data, Divided
  <2> QED
    BY <1>2, <2>4, <2>8, <2>9 DEF Data
<1>7. CASE s = t /\ (FlushDrops(s) \/ Insert(s) \/ InsertFails(s))
  <2>1. rows'[s] = rows[s] /\ pending'[s] = << >> /\ Queued(s)' = Queued(s) /\ Batched(s)' = {}
    BY <1>3, <1>7 DEF FlushDrops, Insert, InsertFails, Types, Queued, Batched
  <2>2. \/ /\ stored'[s] = stored[s] \cup Batched(s)
           /\ failed'[s] = failed[s] /\ dropped'[s] = dropped[s]
        \/ /\ failed'[s] = failed[s] \cup Batched(s)
           /\ stored'[s] = stored[s] /\ dropped'[s] = dropped[s]
        \/ /\ dropped'[s] = dropped[s] \cup Batched(s)
           /\ failed'[s] = failed[s] /\ stored'[s] = stored[s]
    BY <1>7 DEF FlushDrops, Insert, InsertFails, Types, Batched
  <2>3. Divided(sampled', Events(window)', Offered(s)', Queued(s)', Batched(s)',
                stored'[s], failed'[s], dropped'[s], lost')
    BY <1>2, <2>1, <2>2 DEF Data, Divided
  <2>4. ApartSeq(pending'[s])
    BY <2>1, SMT DEF ApartSeq
  <2> QED
    BY <1>2, <2>1, <2>3, <2>4 DEF Data
<1>8. CASE \/ RetryDue(s) \/ Dial(s) \/ QueueClosed(s) \/ FlushTick(s) \/ FlushNothing(s)
           \/ Reconnect(s)
  BY <1>4, <1>8 DEF RetryDue, Dial, QueueClosed, FlushTick, FlushNothing, Reconnect
<1> QED
  BY <1>5, <1>6, <1>7, <1>8 DEF WorkerStep

IInv == Types /\ Control /\ Numbered /\ \A s \in Sinks : Data(s)

LEMMA IInvInit == Init => IInv
  BY TypesInit, ControlInit, DataInit DEF IInv

LEMMA IInvStep == IInv /\ [Next]_vars => IInv'
<1> SUFFICES ASSUME IInv, [Next]_vars PROVE IInv'
  OBVIOUS
<1> USE DEF IInv
<1>1. Types' /\ Control' /\ Numbered'
  BY TypesStep, ControlStep, NumberedStep
<1>2. ASSUME NEW s \in Sinks PROVE Data(s)'
  <2>1. CASE Consume
    BY <2>1, DataConsume
  <2>2. CASE Enqueue
    BY <2>2, DataEnqueue
  <2>3. ASSUME NEW t \in Sinks, WorkerStep(t) \/ RetryDue(t) PROVE Data(s)'
    BY <2>3, DataWorker
  <2>4. CASE ReaderClosed
    <3>1. /\ out' = window \X Sinks /\ window' = {} /\ out = {} /\ sinks' = sinks
          /\ sampled' = sampled /\ lost' = lost
      BY <2>4 DEF ReaderClosed, Control
    <3>2. To(out', s) = window /\ To(out, s) = {} /\ Events({}) = {} /\ Apart({})
      BY <3>1, ToAll DEF To, Events, Apart
    <3>3. /\ Offered(s)' = Events(window) /\ Offered(s) = {} /\ Events(window') = {}
          /\ Queued(s)' = Queued(s) /\ Batched(s)' = Batched(s)
      BY <3>1, <3>2 DEF Offered, Queued, Batched, sinks
    <3>4. Divided(sampled', Events(window'), Offered(s)', Queued(s)', Batched(s)',
                  stored'[s], failed'[s], dropped'[s], lost')
      BY <3>1, <3>3, SMT DEF Data, Divided, sinks
    <3> QED
      BY <3>1, <3>2, <3>4 DEF Data, sinks
  <2>5. CASE ReaderFails
    <3>1. /\ window' = {} /\ lost = {} /\ lost' = Events(window) /\ out' = out /\ sinks' = sinks
          /\ sampled' = sampled
      BY <2>5 DEF ReaderFails, Control
    <3>2. /\ Offered(s)' = Offered(s) /\ Events(window') = {} /\ Apart(window')
          /\ Queued(s)' = Queued(s) /\ Batched(s)' = Batched(s)
      BY <3>1 DEF Offered, Queued, Batched, sinks, Events, Apart
    <3>3. Divided(sampled', Events(window'), Offered(s)', Queued(s)', Batched(s)',
                  stored'[s], failed'[s], dropped'[s], lost')
      BY <3>1, <3>2, SMT DEF Data, Divided, sinks
    <3> QED
      BY <3>1, <3>2, <3>3 DEF Data, sinks
  <2>6. CASE BadEvent \/ EndEnqueue \/ Shutdown \/ MainStep \/ UNCHANGED vars
    <3>1. /\ sampled' = sampled /\ window' = window /\ out' = out
          /\ lost' = lost /\ rows' = rows /\ pending' = pending /\ stored' = stored
          /\ failed' = failed /\ dropped' = dropped
      BY <2>6 DEF BadEvent, EndEnqueue, Shutdown, MainStep, CloseSinks, Exit, vars, inputs, sinks
    <3>2. Offered(s)' = Offered(s) /\ Queued(s)' = Queued(s) /\ Batched(s)' = Batched(s)
      BY <3>1 DEF Offered, Queued, Batched
    <3> QED
      BY <3>1, <3>2 DEF Data
  <2> QED
    BY <2>1, <2>2, <2>3, <2>4, <2>5, <2>6 DEF Next, ConsumerStep
<1> QED
  BY <1>1, <1>2

-----------------------------------------------------------------------------
(* No row is empty: two rows that share no event are different rows.       *)

Filled ==
  /\ \A r \in window : r # {}
  /\ \A p \in out : p[1] # {}
  /\ \A s \in Sinks : \A r \in RowsOf(rows[s]) \cup RowsOf(pending[s]) : r # {}

LEMMA FilledStep == Types /\ Filled /\ [Next]_vars => Filled'
<1> SUFFICES ASSUME Types, Filled, [Next]_vars PROVE Filled'
  OBVIOUS
<1>1. CASE Consume
  <2>1. rows' = rows /\ pending' = pending
    BY <1>1 DEF Consume, sinks
  <2>2. /\ \A r \in window' : r # {}
        /\ \A p \in out' : p[1] # {}
    BY <1>1, SMT DEF Consume, Aggregate, Filled
  <2> QED
    BY <2>1, <2>2 DEF Filled
<1>2. CASE Enqueue
  <2>1. PICK p \in out :
          /\ rows' = rows \/ rows' = [rows EXCEPT ![p[2]] = Append(@, p[1])]
          /\ out' = out \ {p}
    BY <1>2 DEF Enqueue
  <2>2. window' = window /\ pending' = pending
    BY <1>2 DEF Enqueue
  <2>3. ASSUME NEW s \in Sinks, NEW r \in RowsOf(rows'[s]) PROVE r # {}
    <3>1. CASE rows'[s] = rows[s]
      BY <2>3, <3>1 DEF Filled
    <3>2. CASE rows'[s] = Append(rows[s], p[1])
      <4>1. rows[s] \in Seq(Row) /\ p[1] \in Row
        BY DEF Types
      <4>2. r \in RowsOf(rows[s]) \cup {p[1]}
        BY <2>3, <3>2, <4>1, RowsOfAppend
      <4> QED
        BY <4>2 DEF Filled
    <3> QED
      BY <2>1, <3>1, <3>2 DEF Types
  <2> QED
    BY <2>1, <2>2, <2>3 DEF Filled
<1>3. ASSUME NEW t \in Sinks, WorkerStep(t) \/ RetryDue(t) PROVE Filled'
  <2>1. inputs' = inputs
    BY <1>3 DEF WorkerStep, RetryDue, Dial, TakeRow, QueueClosed, FlushTick, FlushNothing, Reconnect,
                FlushDrops, Insert, InsertFails
  <2>2. ASSUME NEW s \in Sinks, NEW r \in RowsOf(rows'[s]) \cup RowsOf(pending'[s]) PROVE r # {}
    <3>1. rows[s] \in Seq(Row) /\ pending[s] \in Seq(Row) /\ RowsOf(<< >>) = {}
      BY SMT DEF Types, RowsOf
    <3>2. CASE s = t /\ TakeRow(s)
      <4>1. rows[s] # << >> /\ rows'[s] = Tail(rows[s]) /\ pending'[s] = Append(pending[s], Head(rows[s]))
        BY <3>2 DEF TakeRow, Types
      <4>2. RowsOf(rows[s]) = RowsOf(rows'[s]) \cup {Head(rows[s])} /\ Head(rows[s]) \in Row
        BY <3>1, <4>1, RowsOfTail, SMT
      <4>3. RowsOf(pending'[s]) = RowsOf(pending[s]) \cup {Head(rows[s])}
        BY <3>1, <4>1, <4>2, RowsOfAppend
      <4> QED
        BY <2>2, <4>2, <4>3 DEF Filled
    <3>3. CASE rows'[s] = rows[s] /\ pending'[s] \in {pending[s], << >>}
      BY <2>2, <3>1, <3>3 DEF Filled
    <3>4. s # t \/ ~TakeRow(s) => rows'[s] = rows[s] /\ pending'[s] \in {pending[s], << >>}
      BY <1>3 DEF Types, WorkerStep, RetryDue, Dial, TakeRow, QueueClosed, FlushTick, FlushNothing,
                  Reconnect, FlushDrops, Insert, InsertFails
    <3> QED
      BY <3>2, <3>3, <3>4
  <2> QED
    BY <2>1, <2>2 DEF Filled, inputs
<1>4. CASE ReaderClosed \/ ReaderFails
  BY <1>4 DEF ReaderClosed, ReaderFails, sinks, Filled
<1>5. CASE BadEvent \/ EndEnqueue \/ Shutdown \/ MainStep \/ UNCHANGED vars
  BY <1>5 DEF BadEvent, EndEnqueue, Shutdown, MainStep, CloseSinks, Exit, vars, inputs, sinks, Filled
<1> QED
  BY <1>1, <1>2, <1>3, <1>4, <1>5 DEF Next, ConsumerStep

-----------------------------------------------------------------------------
(* The theorems                                                            *)

LEMMA Inductive == Spec => [](IInv /\ Filled)
<1>1. Init => IInv /\ Filled
  BY IInvInit, SMT DEF Init, Filled, RowsOf
<1>2. (IInv /\ Filled) /\ [Next]_vars => (IInv /\ Filled)'
  BY IInvStep, FilledStep DEF IInv
<1> QED
  BY <1>1, <1>2, PTL DEF Spec

LEMMA WaitingIs ==
  ASSUME NEW s \in Sinks
  PROVE  Waiting(s) = Events(window) \cup Offered(s) \cup Queued(s) \cup Batched(s)
  BY DEF Waiting, Offered, Queued, Batched, To

\* Close, in sends.go: the queues are closed after the consumer has returned, so
\* no row is ever sent on a closed channel, whichever goroutine fails first.
THEOREM NeverSendsOnClosed == Spec => []NoSendOnClosed
<1>1. IInv => NoSendOnClosed
  BY DEF IInv, Control, NoSendOnClosed
<1> QED
  BY <1>1, Inductive, PTL

\* When the component has returned every sink has flushed its last batch: nothing
\* that was sampled waits in the window, in a queue or in a batch.
THEOREM NothingWaitsAtExit == Spec => []DrainedAtExit
<1>1. IInv => DrainedAtExit
  <2> SUFFICES ASSUME IInv, main = "Exit", NEW s \in Sinks PROVE Waiting(s) = {}
    BY DEF DrainedAtExit
  <2>1. out = {} /\ window = {} /\ rows[s] = << >> /\ pending[s] = << >>
    BY DEF IInv, Control
  <2> QED
    BY <2>1, SMT DEF Waiting, Events, RowsOf
<1> QED
  BY <1>1, Inductive, PTL

\* consume, enqueue, flushWindow, run: for every sink every sampled event is in
\* exactly one place, whatever fails and in whatever order goroutines stop.
THEOREM EveryEventAccounted == Spec => []Accounted
<1>1. IInv => Accounted
  <2> SUFFICES ASSUME IInv, NEW s \in Sinks
               PROVE  /\ sampled = Waiting(s) \cup stored[s] \cup failed[s] \cup dropped[s] \cup lost
                      /\ LET done == <<Waiting(s), stored[s], failed[s], dropped[s], lost>>
                         IN \A i, j \in 1 .. 5 : i # j => done[i] \cap done[j] = {}
    BY DEF Accounted
  <2>1. Divided(sampled, Events(window), Offered(s), Queued(s), Batched(s),
                stored[s], failed[s], dropped[s], lost)
    BY DEF IInv, Data
  <2>2. Divided(sampled, {}, {}, {}, Waiting(s), stored[s], failed[s], dropped[s], lost)
    BY <2>1, WaitingIs DEF Divided
  <2> DEFINE A == Waiting(s)  B == stored[s]  C == failed[s]  D == dropped[s]
  <2>3. /\ sampled = A \cup B \cup C \cup D \cup lost
        /\ A \cap B = {} /\ A \cap C = {} /\ A \cap D = {} /\ A \cap lost = {} /\ B \cap C = {}
        /\ B \cap D = {} /\ B \cap lost = {} /\ C \cap D = {} /\ C \cap lost = {} /\ D \cap lost = {}
    BY <2>2 DEF Divided
  <2> HIDE DEF A, B, C, D
  <2>4. \A i, j \in 1 .. 5 : i # j => <<A, B, C, D, lost>>[i] \cap <<A, B, C, D, lost>>[j] = {}
    BY <2>3, SMT
  <2> QED
    BY <2>3, <2>4 DEF A, B, C, D
<1> QED
  BY <1>1, Inductive, PTL

\* No two rows on their way to a sink count the same event: not in one place, and
\* not in two.
THEOREM NoRowCountsTwice == Spec => []InOneRow
<1>1. IInv /\ Filled => InOneRow
  <2> SUFFICES ASSUME IInv, Filled, NEW s \in Sinks
               PROVE
    LET at == [i \in 1 .. 4 |-> CASE i = 1 -> window
                                 [] i = 2 -> {p[1] : p \in {q \in out : q[2] = s}}
                                 [] i = 3 -> RowsOf(rows[s])
                                 [] i = 4 -> RowsOf(pending[s])]
    IN /\ \A i, j \in 1 .. 4 : \A r \in at[i], q \in at[j] : r # q \/ i # j => r \cap q = {}
       /\ \A q \in {rows[s], pending[s]} : \A i, j \in DOMAIN q : i # j => q[i] # q[j]
    BY DEF InOneRow
  <2> DEFINE at == [i \in 1 .. 4 |-> CASE i = 1 -> window
                                      [] i = 2 -> {p[1] : p \in {q \in out : q[2] = s}}
                                      [] i = 3 -> RowsOf(rows[s])
                                      [] i = 4 -> RowsOf(pending[s])]
  <2>1. at[1] = window /\ at[2] = To(out, s) /\ at[3] = RowsOf(rows[s]) /\ at[4] = RowsOf(pending[s])
    BY SMT DEF To
  <2> HIDE DEF at
  <2>2. \A i \in 1 .. 4 : Apart(at[i])
    <3>1. Apart(RowsOf(rows[s])) /\ Apart(RowsOf(pending[s]))
      BY SMT DEF IInv, Data, ApartSeq, Apart, RowsOf
    <3> QED
      BY <2>1, <3>1, SMT DEF IInv, Data
  <2>3. \A i, j \in 1 .. 4 : i # j => Events(at[i]) \cap Events(at[j]) = {}
    <3>1. /\ Events(at[1]) = Events(window) /\ Events(at[2]) = Offered(s)
          /\ Events(at[3]) = Queued(s) /\ Events(at[4]) = Batched(s)
      BY <2>1 DEF Offered, Queued, Batched
    <3>2. Divided(sampled, Events(at[1]), Events(at[2]), Events(at[3]), Events(at[4]),
                  stored[s], failed[s], dropped[s], lost)
      BY <3>1 DEF IInv, Data
    <3> QED
      BY <3>2, SMT DEF Divided
  <2>4. \A i, j \in 1 .. 4 : \A r \in at[i], q \in at[j] : r # q \/ i # j => r \cap q = {}
    BY <2>2, <2>3 DEF Apart, Events
  <2>5. ASSUME NEW q \in {rows[s], pending[s]}, NEW i \in DOMAIN q, NEW j \in DOMAIN q, i # j
        PROVE  q[i] # q[j]
    <3>1. ApartSeq(q) /\ q[i] # {}
      BY DEF IInv, Data, Filled, RowsOf
    <3> QED
      BY <2>5, <3>1 DEF ApartSeq
  <2> QED
    BY <2>4, <2>5 DEF at
<1> QED
  BY <1>1, Inductive, PTL
=============================================================================
