---------------------------- MODULE SendPipeline ----------------------------
(***************************************************************************)
(* The send event pipeline of the eBPF flow agent                          *)
(* (pkg/agent/ebpfflow/sends.go, and its start and shutdown in             *)
(* component.go).                                                          *)
(*                                                                         *)
(* One consumer reads events from a ring buffer, samples them, and turns   *)
(* them into rows: one row per event, or one per kind of event and         *)
(* aggregation window.  Every row goes to every sink.  A sink has a        *)
(* bounded queue and a worker that batches rows and inserts them over a    *)
(* connection that may fail.  The main loop stops them in order.           *)
(*                                                                         *)
(* An event is [n, kind, slot]: its number, the aggregateKey it falls      *)
(* under, and the aggregation window its timestamp lies in.  A row is the  *)
(* set of events it counts.  Attribution and metrics are left out.         *)
(***************************************************************************)
EXTENDS Integers, Sequences, FiniteSets

CONSTANTS
  Sinks,
  QueueCap,     \* opts.queue
  BatchSize,    \* opts.batch
  Sample,       \* opts.sample
  Aggregates,   \* values of opts.aggregate > 0 to start from
  Kinds, Slots, \* aggregate keys, and numbers of aggregation windows
  MaxEvents,    \* bound on the events of a behaviour
  MaxFaults     \* bound on failed dials and inserts, bad events, reader errors

ASSUME BoundsAssumption ==
  /\ QueueCap \in Nat \ {0} /\ BatchSize \in Nat \ {0} /\ Sample \in Nat \ {0}
  /\ MaxEvents \in Nat /\ MaxFaults \in Nat
  /\ Slots \subseteq Nat \ {0} /\ Slots # {} /\ Kinds # {}
  /\ Aggregates \subseteq BOOLEAN

VARIABLES
  aggregate,    \* opts.aggregate > 0
  main,         \* the main loop: "Run", "AwaitSend", "AwaitFlush" or "Exit"
  readerClosed, \* the ring buffer reader is closed
  received,     \* the counter, and so the number of the last event
  sampled,      \* the events that were sampled
  consumer,     \* "Read", "Send", "Close" (send, then return) or "Done"
  out,          \* pairs of a row and a sink the consumer has still to offer
  window,       \* rows of the open aggregation window
  windowSlot,   \* its number, 0 before the first
  rows,         \* each sink's queue
  closed,       \* the queues are closed
  worker,       \* each sink's goroutine
  pending,      \* its batch
  connected,    \* it holds a connection
  retryDue,     \* sinkRetry has passed since its last attempt
  stored, failed, dropped, \* events of rows inserted, of failed inserts, dropped
  lost,         \* events of a window the consumer left behind
  faults        \* faults so far

inputs == <<aggregate, main, readerClosed, received, sampled, consumer, out, window, windowSlot, lost>>
sinks == <<rows, closed, worker, pending, connected, retryDue, stored, failed, dropped>>
vars == <<inputs, sinks, faults>>

RowsOf(q) == {q[i] : i \in DOMAIN q}
Events(rs) == UNION rs

Init ==
  /\ aggregate \in Aggregates
  /\ main = "Run" /\ readerClosed = FALSE
  /\ received = 0 /\ sampled = {}
  /\ consumer = "Read" /\ out = {} /\ window = {} /\ windowSlot = 0
  /\ rows = [s \in Sinks |-> <<>>] /\ closed = FALSE
  /\ worker = [s \in Sinks |-> "Start"] /\ pending = [s \in Sinks |-> <<>>]
  /\ connected = [s \in Sinks |-> FALSE] /\ retryDue = [s \in Sinks |-> TRUE]
  /\ stored = [s \in Sinks |-> {}] /\ failed = [s \in Sinks |-> {}] /\ dropped = [s \in Sinks |-> {}]
  /\ lost = {} /\ faults = 0

Fault == faults < MaxFaults /\ faults' = faults + 1

-----------------------------------------------------------------------------
(* The consumer                                                            *)

Same(e, row) == \A f \in row : f.kind = e.kind

\* aggregate and flushWindow: an event past the end of the window flushes it
\* and opens its own; any other event, late ones too, joins the open window.
\* Only the consumer touches the window, so the flush is already noted in out.
Aggregate(e) ==
  IF e.slot > windowSlot
  THEN /\ out' = window \X Sinks /\ consumer' = "Send"
       /\ window' = {{e}} /\ windowSlot' = e.slot
  ELSE /\ window' = {row \in window : ~Same(e, row)} \cup
                    {(UNION {row \in window : Same(e, row)}) \cup {e}}
       /\ UNCHANGED <<out, consumer, windowSlot>>

\* Kind and window of an event matter to aggregation only.
Shapes == IF aggregate THEN Kinds \X Slots ELSE {CHOOSE p \in Kinds \X Slots : TRUE}

\* consume: one event is read, sampled, and becomes a row.  Timestamps of
\* different CPUs may be out of order by a window.
Consume ==
  /\ consumer = "Read" /\ ~readerClosed /\ received < MaxEvents
  /\ received' = received + 1
  /\ \E p \in Shapes :
       LET e == [n |-> received + 1, kind |-> p[1], slot |-> p[2]]
       IN /\ e.slot + 1 >= windowSlot
          /\ IF (received + 1) % Sample # 0 THEN UNCHANGED <<sampled, out, consumer, window, windowSlot>>
             ELSE /\ sampled' = sampled \cup {e}
                  /\ IF aggregate THEN Aggregate(e)
                     ELSE /\ out' = {{e}} \X Sinks /\ consumer' = "Send"
                          /\ UNCHANGED <<window, windowSlot>>
  /\ UNCHANGED <<aggregate, main, readerClosed, lost, sinks, faults>>

\* A record that does not decode is skipped.
BadEvent ==
  /\ consumer = "Read" /\ ~readerClosed /\ Fault
  /\ UNCHANGED <<inputs, sinks>>

\* Mutant: a closed reader is an error like a bad event, and read again.
MutReaderClosed ==
  /\ consumer = "Read" /\ readerClosed
  /\ out' = window \X Sinks /\ window' = {}
  /\ consumer' = "Send"
  /\ UNCHANGED <<aggregate, main, readerClosed, received, sampled, windowSlot, lost, sinks, faults>>

\* The reader is closed: the window is flushed before the consumer returns.
ReaderClosed ==
  /\ consumer = "Read" /\ readerClosed
  /\ out' = window \X Sinks /\ window' = {}
  /\ consumer' = "Close"
  /\ UNCHANGED <<aggregate, main, readerClosed, received, sampled, windowSlot, lost, sinks, faults>>

\* Any other error of the reader: the consumer returns and leaves the window.
ReaderFails ==
  /\ consumer = "Read" /\ ~readerClosed /\ Fault
  /\ consumer' = "Done"
  /\ lost' = Events(window) /\ window' = {}
  /\ UNCHANGED <<aggregate, main, readerClosed, received, sampled, out, windowSlot, sinks>>

\* Mutant: a row dropped by a full queue is not counted.
MutEnqueueUncounted ==
  /\ consumer \in {"Send", "Close"}
  /\ \E p \in out :
       LET s == p[2]
       IN /\ rows' = IF Len(rows[s]) < QueueCap THEN [rows EXCEPT ![s] = Append(@, p[1])] ELSE rows
          /\ out' = out \ {p}
  /\ UNCHANGED <<aggregate, main, readerClosed, received, sampled, consumer, window, windowSlot, lost,
                 closed, worker, pending, connected, retryDue, stored, failed, dropped, faults>>

\* enqueue: a sink whose queue is full drops the row.
Enqueue ==
  /\ consumer \in {"Send", "Close"}
  /\ \E p \in out :
       LET s == p[2]
       IN /\ IF Len(rows[s]) < QueueCap
             THEN rows' = [rows EXCEPT ![s] = Append(@, p[1])] /\ UNCHANGED dropped
             ELSE dropped' = [dropped EXCEPT ![s] = @ \cup p[1]] /\ UNCHANGED rows
          /\ out' = out \ {p}
  /\ UNCHANGED <<aggregate, main, readerClosed, received, sampled, consumer, window, windowSlot, lost,
                 closed, worker, pending, connected, retryDue, stored, failed, faults>>

EndEnqueue ==
  /\ consumer \in {"Send", "Close"} /\ out = {}
  /\ consumer' = IF consumer = "Send" THEN "Read" ELSE "Done"
  /\ UNCHANGED <<aggregate, main, readerClosed, received, sampled, out, window, windowSlot, lost, sinks, faults>>

-----------------------------------------------------------------------------
(* A sink's worker: run                                                    *)

\* What follows a flush: the loop again, or the end after the last one.
AfterFlush(s) == worker' = [worker EXCEPT ![s] = IF @ = "Flush" THEN "Select" ELSE "Done"]
Flushing(s) == worker[s] \in {"Flush", "LastFlush"}

\* connect before the loop.
Dial(s) ==
  /\ worker[s] = "Start"
  /\ \/ connected' = [connected EXCEPT ![s] = TRUE] /\ UNCHANGED faults
     \/ Fault /\ UNCHANGED connected
  /\ retryDue' = [retryDue EXCEPT ![s] = FALSE]
  /\ worker' = [worker EXCEPT ![s] = "Select"]
  /\ UNCHANGED <<inputs, rows, closed, pending, stored, failed, dropped>>

RetryDue(s) ==
  /\ worker[s] # "Done" /\ ~retryDue[s]
  /\ retryDue' = [retryDue EXCEPT ![s] = TRUE]
  /\ UNCHANGED <<inputs, rows, closed, worker, pending, connected, stored, failed, dropped, faults>>

\* A row is taken; a full batch is flushed.
TakeRow(s) ==
  /\ worker[s] = "Select" /\ rows[s] # <<>>
  /\ pending' = [pending EXCEPT ![s] = Append(@, Head(rows[s]))]
  /\ rows' = [rows EXCEPT ![s] = Tail(@)]
  /\ worker' = [worker EXCEPT ![s] = IF Len(pending[s]) + 1 >= BatchSize THEN "Flush" ELSE @]
  /\ UNCHANGED <<inputs, closed, connected, retryDue, stored, failed, dropped, faults>>

\* A closed queue is received from until it is empty.
QueueClosed(s) ==
  /\ worker[s] = "Select" /\ rows[s] = <<>> /\ closed
  /\ worker' = [worker EXCEPT ![s] = "LastFlush"]
  /\ UNCHANGED <<inputs, rows, closed, pending, connected, retryDue, stored, failed, dropped, faults>>

FlushTick(s) ==
  /\ worker[s] = "Select" /\ pending[s] # <<>>
  /\ worker' = [worker EXCEPT ![s] = "Flush"]
  /\ UNCHANGED <<inputs, rows, closed, pending, connected, retryDue, stored, failed, dropped, faults>>

FlushNothing(s) ==
  /\ Flushing(s) /\ pending[s] = <<>>
  /\ AfterFlush(s)
  /\ UNCHANGED <<inputs, rows, closed, pending, connected, retryDue, stored, failed, dropped, faults>>

\* Without a connection one is dialled, unless the last attempt is too recent.
Reconnect(s) ==
  /\ Flushing(s) /\ pending[s] # <<>> /\ ~connected[s] /\ retryDue[s]
  /\ retryDue' = [retryDue EXCEPT ![s] = FALSE]
  /\ connected' = [connected EXCEPT ![s] = TRUE]
  /\ UNCHANGED <<inputs, rows, closed, worker, pending, stored, failed, dropped, faults>>

\* Still none: the batch is dropped.
FlushDrops(s) ==
  /\ Flushing(s) /\ pending[s] # <<>> /\ ~connected[s]
  /\ \/ ~retryDue[s] /\ UNCHANGED <<retryDue, faults>>
     \/ retryDue[s] /\ Fault /\ retryDue' = [retryDue EXCEPT ![s] = FALSE]
  /\ dropped' = [dropped EXCEPT ![s] = @ \cup Events(RowsOf(pending[s]))]
  /\ pending' = [pending EXCEPT ![s] = <<>>]
  /\ AfterFlush(s)
  /\ UNCHANGED <<inputs, rows, closed, connected, stored, failed>>

Insert(s) ==
  /\ Flushing(s) /\ pending[s] # <<>> /\ connected[s]
  /\ stored' = [stored EXCEPT ![s] = @ \cup Events(RowsOf(pending[s]))]
  /\ pending' = [pending EXCEPT ![s] = <<>>]
  /\ AfterFlush(s)
  /\ UNCHANGED <<inputs, rows, closed, connected, retryDue, failed, dropped, faults>>

\* A failed insert loses the batch and the connection.
InsertFails(s) ==
  /\ Flushing(s) /\ pending[s] # <<>> /\ connected[s] /\ Fault
  /\ failed' = [failed EXCEPT ![s] = @ \cup Events(RowsOf(pending[s]))]
  /\ connected' = [connected EXCEPT ![s] = FALSE]
  /\ pending' = [pending EXCEPT ![s] = <<>>]
  /\ AfterFlush(s)
  /\ UNCHANGED <<inputs, rows, closed, retryDue, stored, dropped>>

-----------------------------------------------------------------------------
(* The main loop                                                           *)

\* The context is done, or the callback reader stopped: the send reader is
\* closed and the consumer awaited.
Shutdown ==
  /\ main = "Run"
  /\ readerClosed' = TRUE /\ main' = "AwaitSend"
  /\ UNCHANGED <<aggregate, received, sampled, consumer, out, window, windowSlot, lost, sinks, faults>>

\* Mutant: the queues are closed without waiting for the consumer.
MutCloseSinks ==
  /\ main = "AwaitSend" \/ (main = "Run" /\ consumer = "Done")
  /\ closed' = TRUE /\ main' = "AwaitFlush"
  /\ UNCHANGED <<aggregate, readerClosed, received, sampled, consumer, out, window, windowSlot, lost, rows,
                 worker, pending, connected, retryDue, stored, failed, dropped, faults>>

\* sendDone arrives, in the shutdown or because the consumer failed: close.
CloseSinks ==
  /\ main \in {"Run", "AwaitSend"} /\ consumer = "Done"
  /\ closed' = TRUE /\ main' = "AwaitFlush"
  /\ UNCHANGED <<aggregate, readerClosed, received, sampled, consumer, out, window, windowSlot, lost, rows,
                 worker, pending, connected, retryDue, stored, failed, dropped, faults>>

\* flushDone: runSinks waits for every worker.
Exit ==
  /\ main = "AwaitFlush" /\ \A s \in Sinks : worker[s] = "Done"
  /\ main' = "Exit"
  /\ UNCHANGED <<aggregate, readerClosed, received, sampled, consumer, out, window, windowSlot, lost, sinks, faults>>

ConsumerStep == ReaderClosed \/ Enqueue \/ EndEnqueue
WorkerStep(s) ==
  \/ Dial(s) \/ TakeRow(s) \/ QueueClosed(s) \/ FlushTick(s) \/ FlushNothing(s)
  \/ Reconnect(s) \/ FlushDrops(s) \/ Insert(s) \/ InsertFails(s)
MainStep == CloseSinks \/ Exit

Next ==
  \/ Consume \/ BadEvent \/ ReaderFails \/ ConsumerStep
  \/ \E s \in Sinks : WorkerStep(s) \/ RetryDue(s)
  \/ Shutdown \/ MainStep

Spec == Init /\ [][Next]_vars

\* The goroutines are scheduled, and dials and inserts return: both have a
\* timeout.
FairSpec ==
  /\ Spec
  /\ WF_vars(ConsumerStep) /\ WF_vars(MainStep)
  /\ \A s \in Sinks : WF_vars(WorkerStep(s))

-----------------------------------------------------------------------------

\* The events that are somewhere on their way to a sink.
Waiting(s) == Events(window) \cup Events({p[1] : p \in {q \in out : q[2] = s}})
                \cup Events(RowsOf(rows[s])) \cup Events(RowsOf(pending[s]))

\* sends.go, consume, enqueue, flushWindow and run together: for every sink,
\* each sampled event is in one place at every moment: it waits, or it was
\* stored, was in a failed insert, was dropped, or was left in a window.
Accounted ==
  \A s \in Sinks :
    /\ sampled = Waiting(s) \cup stored[s] \cup failed[s] \cup dropped[s] \cup lost
    /\ LET done == <<Waiting(s), stored[s], failed[s], dropped[s], lost>>
       IN \A i, j \in 1 .. 5 : i # j => done[i] \cap done[j] = {}

\* An event is stored or waits in one row of a sink only: no row counts it
\* twice on its way from the window through out and the queue to the batch.
InOneRow ==
  \A s \in Sinks :
    LET at == [i \in 1 .. 4 |-> CASE i = 1 -> window
                                 [] i = 2 -> {p[1] : p \in {q \in out : q[2] = s}}
                                 [] i = 3 -> RowsOf(rows[s])
                                 [] i = 4 -> RowsOf(pending[s])]
    IN /\ \A i, j \in 1 .. 4 : \A r \in at[i], q \in at[j] : r # q \/ i # j => r \cap q = {}
       /\ \A q \in {rows[s], pending[s]} : \A i, j \in DOMAIN q : i # j => q[i] # q[j]

\* close: "the consumer must have returned first".  No row is sent on a closed
\* channel, which would panic, in whatever order the goroutines stop.
NoSendOnClosed == closed => consumer = "Done" /\ out = {}

\* run and close: when the component returns, every sink has flushed: nothing
\* that was sampled still waits anywhere.
DrainedAtExit == main = "Exit" => \A s \in Sinks : Waiting(s) = {}

\* The shutdown of Start ends: the reader, the consumer, the queues and the
\* workers are stopped one after the other, none waits for ever, and in the end
\* every sink has flushed what was sampled for it.
ShutdownEnds == main # "Run" ~> (main = "Exit" /\ DrainedAtExit)
=============================================================================
