--------------------------- MODULE SFlowCollector ---------------------------
(***************************************************************************)
(* The sFlow collector (pkg/sflow: collector.go, decoder.go,               *)
(* attribution.go; the Pod cache's refresh loop is in cmd/sflow).          *)
(*                                                                         *)
(* A receiver decodes datagrams, names the Pods of each record from a      *)
(* cache of Pod addresses, and puts the record into a bounded queue        *)
(* without blocking.  A writer batches records and exports them.  A third  *)
(* goroutine replaces the Pod cache.  All stop when the context is done.   *)
(*                                                                         *)
(* A datagram is Malformed or a sequence of sampled packets, of which      *)
(* SFlowHeader says what they decode to; a record is [n, src, dst], its    *)
(* number and the Pods named in it.  Samples the switch has parsed itself, *)
(* owners of Pods and AS numbers are copied and left out.                  *)
(***************************************************************************)
EXTENDS SFlowHeader, FiniteSets

CONSTANTS
  IPs,        \* addresses; records go from the first to the second of Ends
  Ends,       \* <<source, destination>> of every record
  PodStates,  \* the states a Pod may be in: [running, ips, annotated]
  Scenarios,  \* starts: [datagrams, count, pods, budget]
  QueueSize, BatchSize,
  Malformed, None

ASSUME SizeAssumption == QueueSize \in Nat \ {0} /\ BatchSize \in Nat \ {0}

VARIABLES
  datagrams,  \* what the switches may send
  left,       \* bound: datagrams still to come
  pods,       \* the Pods: Pod -> PodStates, as the informer has them
  podCache,   \* PodIPCache.pods: address -> Pod, or None
  updater,    \* the refresh loop: "Idle", "Listed" or "Done"
  listed,     \* the Pods it has listed last
  ctxDone,    \* the context is done
  receiver,   \* ServeUDP: "Read", "Src", "Dst", "Offer", "Count", "Await" or "Done"
  todo,       \* records of the datagram still to be queued
  queue, closed, \* rowsCh
  depth,      \* the gauge QueueDepth
  writer,     \* writeLoop: "Select", "Flush", "LastFlush" or "Done"
  batch,
  decoded, written, failed, dropped, abandoned, \* numbers of records
  budget

tallies == <<decoded, written, failed, dropped, abandoned>>
podSide == <<pods, podCache, updater, listed>>
receiverSide == <<datagrams, left, receiver, todo>>
writerSide == <<writer, batch>>
channel == <<queue, closed, depth>>
vars == <<receiverSide, podSide, ctxDone, channel, writerSide, tallies, budget>>

\* podIPs: the addresses of a Pod's status and those of its annotations that parse.
PodIPs(pod) == pod.ips \cup pod.annotated

Pairs(ps) == {<<p, ip>> \in (DOMAIN ps) \X IPs : ps[p].running /\ ip \in PodIPs(ps[p])}
Numbers(rs) == {rs[i].n : i \in DOMAIN rs}
Spend(kind) == budget[kind] > 0 /\ budget' = [budget EXCEPT ![kind] = @ - 1]

Init ==
  /\ \E s \in Scenarios : /\ datagrams = s.datagrams /\ left = s.count
                          /\ pods = s.pods /\ budget = s.budget
  /\ podCache = [ip \in IPs |-> None] /\ updater = "Idle" /\ listed = pods
  /\ ctxDone = FALSE /\ receiver = "Read" /\ todo = <<>>
  /\ queue = <<>> /\ closed = FALSE /\ depth = 0
  /\ writer = "Select" /\ batch = <<>>
  /\ decoded = 0 /\ written = {} /\ failed = {} /\ dropped = {} /\ abandoned = {}

-----------------------------------------------------------------------------
(* The Pod cache                                                           *)

ChangePod ==
  /\ Spend("pod")
  /\ \E p \in DOMAIN pods : \E s \in PodStates \ {pods[p]} : pods' = [pods EXCEPT ![p] = s]
  /\ UNCHANGED <<receiverSide, podCache, updater, listed, ctxDone, channel, writerSide, tallies>>

\* refresh: the Pods are listed; their owners are looked up one by one.
ListPods ==
  /\ updater = "Idle" /\ ~ctxDone
  /\ updater' = "Listed" /\ listed' = pods
  /\ UNCHANGED <<receiverSide, pods, podCache, ctxDone, channel, writerSide, tallies, budget>>

\* The Running Pods of the list that have an address.
Holders(list, ip) == {p \in DOMAIN list : list[p].running /\ ip \in PodIPs(list[p])}

\* Mutant: addresses that are no longer listed stay.
MutReplace(list, cache) ==
  /\ \A ip \in IPs : Holders(list, ip) # {} => cache[ip] \in Holders(list, ip)
  /\ \A ip \in IPs : Holders(list, ip) = {} => cache[ip] = podCache[ip]

\* Replace: of several Pods with one address the last one listed is kept.
Replace(list, cache) ==
  \A ip \in IPs : IF Holders(list, ip) # {} THEN cache[ip] \in Holders(list, ip) ELSE cache[ip] = None

ReplacePods ==
  /\ updater = "Listed"
  /\ \E cache \in [IPs -> DOMAIN pods \cup {None}] : Replace(listed, cache) /\ podCache' = cache
  /\ updater' = "Idle"
  /\ UNCHANGED <<receiverSide, pods, listed, ctxDone, channel, writerSide, tallies, budget>>

\* The context is done, perhaps before the owner of the last Pod is known: the
\* cache stays as it is.  (So it does when the list fails.)
StopRefreshing ==
  /\ ctxDone /\ updater # "Done"
  /\ updater' = "Done"
  /\ UNCHANGED <<receiverSide, pods, podCache, listed, ctxDone, channel, writerSide, tallies, budget>>

-----------------------------------------------------------------------------
(* ServeUDP                                                                *)

\* DecodeDatagram: the sampled headers that parse become records.
Records(d) ==
  LET kept == SelectSeq(d, LAMBDA p : FlowOf(p).ok)
  IN [i \in DOMAIN kept |-> [n |-> decoded + i, src |-> None, dst |-> None]]

\* A datagram that does not decode is counted and skipped.
Receive ==
  /\ receiver = "Read" /\ left > 0
  /\ left' = left - 1
  /\ \E d \in datagrams :
       IF d = Malformed THEN UNCHANGED <<todo, receiver, decoded>>
       ELSE /\ todo' = Records(d) /\ decoded' = decoded + Len(Records(d))
            /\ receiver' = IF Records(d) = <<>> THEN "Read" ELSE "Src"
  /\ UNCHANGED <<datagrams, podSide, ctxDone, channel, writerSide, written, failed, dropped, abandoned, budget>>

\* EnrichRecord: two lookups, each under the cache's lock.
EnrichRecord ==
  /\ \/ receiver = "Src" /\ receiver' = "Dst" /\ todo' = [todo EXCEPT ![1].src = podCache[Ends[1]]]
     \/ receiver = "Dst" /\ receiver' = "Offer" /\ todo' = [todo EXCEPT ![1].dst = podCache[Ends[2]]]
  /\ UNCHANGED <<datagrams, left, podSide, ctxDone, channel, writerSide, tallies, budget>>

AfterRecord == IF Len(todo) = 1 THEN "Read" ELSE "Src"

Send ==
  /\ receiver = "Offer" /\ Len(queue) < QueueSize
  /\ queue' = Append(queue, Head(todo))
  /\ receiver' = "Count"
  /\ UNCHANGED <<datagrams, left, todo, podSide, ctxDone, closed, depth, writerSide, tallies, budget>>

\* The gauge is raised after the send.
CountSend ==
  /\ receiver = "Count"
  /\ depth' = depth + 1
  /\ todo' = Tail(todo) /\ receiver' = AfterRecord
  /\ UNCHANGED <<datagrams, left, podSide, ctxDone, queue, closed, writerSide, tallies, budget>>

\* Mutant: a record is dropped without being counted.
MutDrop ==
  /\ receiver = "Offer" /\ Len(queue) = QueueSize /\ ~ctxDone
  /\ todo' = Tail(todo) /\ receiver' = AfterRecord
  /\ UNCHANGED <<datagrams, left, podSide, ctxDone, channel, writerSide, tallies, budget>>

\* The default case: the queue is full and the context is not done.
Drop ==
  /\ receiver = "Offer" /\ Len(queue) = QueueSize /\ ~ctxDone
  /\ dropped' = dropped \cup {Head(todo).n}
  /\ todo' = Tail(todo) /\ receiver' = AfterRecord
  /\ UNCHANGED <<datagrams, left, podSide, ctxDone, channel, writerSide, decoded, written, failed, abandoned, budget>>

\* Mutant: a read that times out is tried again without a look at the context.
MutStopReceiving ==
  /\ receiver = "Offer" /\ ctxDone
  /\ closed' = TRUE /\ receiver' = "Await"
  /\ abandoned' = abandoned \cup Numbers(todo) /\ todo' = <<>>
  /\ UNCHANGED <<datagrams, left, podSide, ctxDone, queue, depth, writerSide, decoded, written, failed, dropped, budget>>

\* The context is found done, at a record or when a read times out.
StopReceiving ==
  /\ receiver \in {"Read", "Offer"} /\ ctxDone
  /\ closed' = TRUE /\ receiver' = "Await"
  /\ abandoned' = abandoned \cup Numbers(todo) /\ todo' = <<>>
  /\ UNCHANGED <<datagrams, left, podSide, ctxDone, queue, depth, writerSide, decoded, written, failed, dropped, budget>>

AwaitWriter ==
  /\ receiver = "Await" /\ writer = "Done"
  /\ receiver' = "Done"
  /\ UNCHANGED <<datagrams, left, todo, podSide, ctxDone, channel, writerSide, tallies, budget>>

-----------------------------------------------------------------------------
(* writeLoop                                                               *)

\* A row is taken, also while the context is done and the queue closed.
TakeRow ==
  /\ writer = "Select" /\ queue # <<>>
  /\ queue' = Tail(queue) /\ depth' = depth - 1
  /\ batch' = Append(batch, Head(queue))
  /\ writer' = IF Len(batch) + 1 >= BatchSize THEN "Flush" ELSE "Select"
  /\ UNCHANGED <<receiverSide, podSide, ctxDone, closed, tallies, budget>>

FlushTick ==
  /\ writer = "Select" /\ batch # <<>>
  /\ writer' = "Flush"
  /\ UNCHANGED <<receiverSide, podSide, ctxDone, channel, batch, tallies, budget>>

\* The context is done, or the queue is closed and empty: one last flush.  What
\* is in the queue when the context is done is not taken out any more.
StopWriting ==
  /\ writer = "Select" /\ (ctxDone \/ (closed /\ queue = <<>>))
  /\ writer' = "LastFlush"
  /\ UNCHANGED <<receiverSide, podSide, ctxDone, channel, batch, tallies, budget>>

AfterFlush == writer' = IF writer = "Flush" THEN "Select" ELSE "Done"

Write ==
  /\ writer \in {"Flush", "LastFlush"}
  /\ written' = written \cup Numbers(batch) /\ batch' = <<>>
  /\ AfterFlush
  /\ UNCHANGED <<receiverSide, podSide, ctxDone, channel, decoded, failed, dropped, abandoned, budget>>

\* A flush fails, as it may when its context is done: the batch is given up and
\* not counted as written.
WriteFails ==
  /\ writer \in {"Flush", "LastFlush"} /\ batch # <<>>
  /\ IF ctxDone THEN UNCHANGED budget ELSE Spend("write")
  /\ failed' = failed \cup Numbers(batch) /\ batch' = <<>>
  /\ AfterFlush
  /\ UNCHANGED <<receiverSide, podSide, ctxDone, channel, decoded, written, dropped, abandoned>>

Cancel ==
  /\ ~ctxDone /\ Spend("cancel")
  /\ ctxDone' = TRUE
  /\ UNCHANGED <<receiverSide, podSide, channel, writerSide, tallies>>

ReceiverStep == EnrichRecord \/ Send \/ CountSend \/ Drop \/ StopReceiving \/ AwaitWriter
WriterStep == TakeRow \/ FlushTick \/ StopWriting \/ Write
UpdaterStep == ListPods \/ ReplacePods \/ StopRefreshing

Next ==
  \/ Receive \/ ReceiverStep \/ WriterStep \/ WriteFails \/ Cancel
  \/ ChangePod \/ UpdaterStep

Spec == Init /\ [][Next]_vars

\* The goroutines are scheduled, exports return (they have a timeout), the
\* ticker of the refresh loop fires, and the switches leave a pause of a
\* second: only a read that times out looks at the context.
FairSpec ==
  /\ Spec
  /\ WF_vars(ReceiverStep) /\ WF_vars(WriterStep) /\ WF_vars(UpdaterStep)

-----------------------------------------------------------------------------

\* The records on their way, the one whose send is not yet counted only once.
UnderWay ==
  Numbers(IF receiver = "Count" THEN Tail(todo) ELSE todo) \cup Numbers(queue) \cup Numbers(batch)

\* ServeUDP and writeLoop: every decoded record is in one place: under way,
\* written, in a failed batch, dropped because the queue was full, or abandoned
\* when the context was done; and the gauge unifabric_sflow_queue_depth, "Records
\* currently waiting to be exported", is the length of the queue but for a record
\* that is just being counted.
EveryRecordOnce ==
  /\ depth = Len(queue) - (IF receiver = "Count" THEN 1 ELSE 0)
  /\ 1 .. decoded = UnderWay \cup written \cup failed \cup dropped \cup abandoned
  /\ decoded = Len(IF receiver = "Count" THEN Tail(todo) ELSE todo) + Len(queue) + Len(batch)
                 + Cardinality(written) + Cardinality(failed) + Cardinality(dropped)
                 + Cardinality(abandoned)

\* docs/design/sflow.md: only Running Pods with addresses are indexed.  Once the
\* Pods stop changing, the cache names a Pod that has the address for every
\* address in use, and none for the others.
CacheAtLast ==
  <>[](ctxDone \/ \A ip \in IPs : IF podCache[ip] # None THEN <<podCache[ip], ip>> \in Pairs(pods)
                                ELSE \A p \in DOMAIN pods : <<p, ip>> \notin Pairs(pods))

\* After the context is done ServeUDP returns, with its writer, whichever of them
\* finds out first, and so does the refresh loop.
StopsWhenDone == ctxDone ~> (receiver = "Done" /\ writer = "Done" /\ updater = "Done")

Packets == UNION {{d[i] : i \in DOMAIN d} : d \in datagrams \ {Malformed}}

\* decoder.go against the wire format: a packet the parser is made for has its
\* protocol, addresses, size and ports recorded if the capture holds them, and no
\* record if the capture ends before the transport header.
FlowsAreRight == \A p \in Packets : Handled(p) => FlowOf(p) = Expected(p)

=============================================================================
