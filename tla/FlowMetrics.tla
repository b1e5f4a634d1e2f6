---------------------------- MODULE FlowMetrics ----------------------------
(***************************************************************************)
(* The traffic counters of the RDMA flow agent (pkg/agent/ebpfflow): the   *)
(* BPF programs fill two pinned maps, qp_infos with the destination of a   *)
(* queue pair and qp_stats with what was sent on it; a report joins them,  *)
(* adds the growth of each entry to a counter, and removes the entries of  *)
(* processes that are gone.                                                *)
(*                                                                         *)
(* A key is <<process, QPN>>.  A child may send on a queue pair its parent *)
(* has made.  Bytes and work requests are one number.  Process ids that    *)
(* are used again are left out.                                            *)
(***************************************************************************)
EXTENDS Integers, FiniteSets

CONSTANTS
  Pods,      \* Pod instances (UIDs)
  Procs, QPNs,
  PodOf,     \* Procs -> Pods
  QPOf,      \* Procs -> QPNs, the queue pair a process sends on
  Makers,    \* processes that make their queue pair themselves
  NameOf,    \* Pods -> names
  None

ASSUME MapAssumptions == QPOf \in [Procs -> QPNs] /\ None \notin Nat

Keys == Procs \X QPNs

VARIABLES
  pods,      \* the Pods that exist
  proc,      \* Procs -> "None", "Live" or "Dead"
  qpInfos,   \* keys in qp_infos
  qpStats,   \* qp_stats: Keys -> what was sent, or None
  sent,      \* history: Keys -> all that was sent
  peerUp,    \* the Pod at the other end exists
  index,     \* resolver.byUID: the Pods known
  peerKnown, \* the resolver finds the other end
  uidByTgid, \* processes whose Pod the resolver has looked up
  last,      \* flowMetrics.last: Keys -> baseline, 0 when there is none
  credited,  \* the counter: Keys -> what was added in this life
  main,      \* the main loop: [at, then, ...], see FlowAgent
  budget

kernel == <<qpInfos, qpStats, sent>>
cluster == <<pods, proc, peerUp>>
resolver == <<index, peerKnown, uidByTgid>>
counters == <<last, credited>>

Live(p) == proc[p] = "Live"
Spend(kind) == budget[kind] > 0 /\ budget' = [budget EXCEPT ![kind] = @ - 1]
At(at) == main.at = at
Zero == [k \in Keys |-> 0]

-----------------------------------------------------------------------------
(* The cluster and the kernel                                              *)

\* A Pod starts when no other has its name; it ends after its processes.
StartPod(u) ==
  /\ u \notin pods /\ \A w \in pods : NameOf[w] # NameOf[u]
  /\ \A p \in Procs : PodOf[p] = u => proc[p] = "None"
  /\ Spend("pod")
  /\ pods' = pods \cup {u}
  /\ UNCHANGED <<proc, peerUp>>

EndPod(u) ==
  /\ u \in pods /\ \A p \in Procs : PodOf[p] = u => ~Live(p)
  /\ \E p \in Procs : PodOf[p] = u /\ proc[p] = "Dead"
  /\ pods' = pods \ {u}
  /\ UNCHANGED <<proc, peerUp, budget>>

StartProc(p) ==
  /\ PodOf[p] \in pods /\ proc[p] = "None"
  /\ proc' = [proc EXCEPT ![p] = "Live"]
  /\ UNCHANGED <<pods, peerUp, budget>>

ExitProc(p) ==
  /\ Live(p) /\ Spend("exit")
  /\ proc' = [proc EXCEPT ![p] = "Dead"]
  /\ UNCHANGED <<pods, peerUp>>

ChangePeer ==
  /\ Spend("peer")
  /\ peerUp' = ~peerUp
  /\ UNCHANGED <<pods, proc>>

\* handle_modify_qp: the transition to RTR with an address is recorded.
ModifyQP(p) ==
  /\ Live(p) /\ p \in Makers /\ <<p, QPOf[p]>> \notin qpInfos
  /\ qpInfos' = qpInfos \cup {<<p, QPOf[p]>>}
  /\ UNCHANGED <<qpStats, sent, budget>>

Users(q) == {p \in Procs : QPOf[p] = q}

\* handle_post_send, add_stat: the entry is made if it is missing.
PostSend(p) ==
  /\ Live(p) /\ Spend("post")
  /\ \E w \in Users(QPOf[p]) \cap Makers : proc[w] # "None"
  /\ LET k == <<p, QPOf[p]>> IN
       /\ qpStats' = [qpStats EXCEPT ![k] = IF @ = None THEN 1 ELSE @ + 1]
       /\ sent' = [sent EXCEPT ![k] = @ + 1]
  /\ UNCHANGED qpInfos

\* The maps drop what was used least recently when they are full.
Evict ==
  /\ Spend("evict")
  /\ \E k \in Keys : \/ qpStats[k] # None /\ qpStats' = [qpStats EXCEPT ![k] = None] /\ UNCHANGED qpInfos
                     \/ k \in qpInfos /\ qpInfos' = qpInfos \ {k} /\ UNCHANGED qpStats
  /\ UNCHANGED sent

-----------------------------------------------------------------------------
(* report                                                                  *)

\* podUIDForTgid: the Pod of a process, from the cache or from its cgroup.
Known(p) == p \in uidByTgid \/ Live(p)

\* qpInfoIndex.lookup: the exact key, or the only one with this QPN.
Lookup(infos, k) == k \in infos \/ Cardinality({i \in infos : i[2] = k[2]}) = 1

\* refresh: a list of the Pods that fails leaves the old one.
Refresh ==
  \/ index' = pods /\ peerKnown' = peerUp /\ UNCHANGED <<uidByTgid, budget>>
  \/ Spend("list") /\ UNCHANGED resolver

\* beginReport and the index of qp_infos.
BeginReport ==
  /\ At("Report")
  /\ main' = [main EXCEPT !.at = "Observe", !.infos = qpInfos, !.seen = {},
                          !.todo = {k \in Keys : qpStats[k] # None}]
  /\ UNCHANGED <<kernel, resolver, counters, budget>>

\* Mutant: the baseline is not kept.
MutObserve(k) ==
  LET resolved == Known(k[1]) /\ PodOf[k[1]] \in index /\ peerKnown /\ Lookup(main.infos, k)
      growth == IF qpStats[k] >= last[k] THEN qpStats[k] - last[k] ELSE qpStats[k]
  IN IF resolved THEN /\ credited' = [credited EXCEPT ![k] = @ + growth] /\ UNCHANGED last
     ELSE UNCHANGED counters

\* Mutant: the baseline moves although nothing is recorded.
MutObserveSkips(k) ==
  LET resolved == Known(k[1]) /\ PodOf[k[1]] \in index /\ peerKnown /\ Lookup(main.infos, k)
      growth == IF qpStats[k] >= last[k] THEN qpStats[k] - last[k] ELSE qpStats[k]
  IN /\ last' = [last EXCEPT ![k] = qpStats[k]]
     /\ credited' = IF resolved THEN [credited EXCEPT ![k] = @ + growth] ELSE credited

\* observe: only if both ends are Pods; an entry that has shrunk is new.
Observe(k) ==
  LET resolved == Known(k[1]) /\ PodOf[k[1]] \in index /\ peerKnown /\ Lookup(main.infos, k)
      growth == IF qpStats[k] >= last[k] THEN qpStats[k] - last[k] ELSE qpStats[k]
  IN IF resolved THEN /\ last' = [last EXCEPT ![k] = qpStats[k]]
                      /\ credited' = [credited EXCEPT ![k] = @ + growth]
     ELSE UNCHANGED counters

\* One entry of qp_stats, as it is when the iterator comes to it; entries made
\* meanwhile may be met or missed.
ReportEntry(k) ==
  /\ At("Observe")
  /\ k \in main.todo \/ (k \notin main.seen /\ qpStats[k] # None)
  /\ IF qpStats[k] = None THEN UNCHANGED <<counters, uidByTgid>>
     ELSE /\ Observe(k)
          /\ uidByTgid' = IF Live(k[1]) THEN uidByTgid \cup {k[1]} ELSE uidByTgid
  /\ main' = [main EXCEPT !.todo = @ \ {k}, !.seen = IF qpStats[k] = None THEN @ ELSE @ \cup {k}]
  /\ UNCHANGED <<kernel, index, peerKnown, budget>>

\* endReport: the baselines of entries that did not appear are dropped.  (The
\* queue pairs without traffic are looked up before, for their Pods.)
EndReport ==
  /\ At("Observe") /\ main.todo = {}
  /\ last' = [k \in Keys |-> IF k \in main.seen THEN last[k] ELSE 0]
  /\ uidByTgid' = uidByTgid \cup {p \in Procs : Live(p) /\ <<p, QPOf[p]>> \in main.infos}
  /\ main' = [main EXCEPT !.at = "Clean", !.seen = {}]
  /\ UNCHANGED <<kernel, index, peerKnown, credited, budget>>

\* cleanupDeadQPs, first half: the entries of qp_stats whose process is gone, and
\* the QPNs that live processes send on.
FindDead ==
  /\ At("Clean")
  /\ main' = [main EXCEPT !.at = "Remove",
                          !.todo = {k \in Keys : qpStats[k] # None /\ ~Live(k[1])},
                          !.seen = {k \in Keys : qpStats[k] # None /\ Live(k[1])}]
  /\ UNCHANGED <<kernel, resolver, counters, budget>>

LiveQPNs == {k[2] : k \in main.seen}
DeadInfos == {k \in qpInfos : ~Live(k[1]) /\ k[2] \notin LiveQPNs}

\* Mutant: only the entries of processes that have sent something are removed.
MutRemoveDead ==
  LET dead == {k \in DeadInfos : k \in main.todo}
  IN /\ qpStats' = [k \in Keys |-> IF k \in main.todo THEN None ELSE qpStats[k]]
     /\ qpInfos' = qpInfos \ dead
     /\ main' = [main EXCEPT !.at = "Removed", !.todo = dead, !.seen = {}, !.infos = {}]

\* cleanupDeadQPs, second half: they are deleted, and so are the entries of
\* qp_infos of processes that are gone, unless a live process sends on the QPN.
RemoveDead ==
  LET dead == DeadInfos
  IN /\ qpStats' = [k \in Keys |-> IF k \in main.todo THEN None ELSE qpStats[k]]
     /\ qpInfos' = qpInfos \ dead
     /\ main' = [main EXCEPT !.at = "Removed", !.todo = dead, !.seen = {}, !.infos = {}]

CleanupDeadQPs ==
  /\ At("Remove") /\ RemoveDead
  /\ UNCHANGED <<sent, resolver, counters, budget>>

ReportStep == BeginReport \/ (\E k \in Keys : ReportEntry(k)) \/ EndReport \/ FindDead \/ CleanupDeadQPs

-----------------------------------------------------------------------------
\* observe: "traffic seen before the Pod index caught up is credited once after
\* resolution": no traffic is counted twice, whenever entries are evicted and made
\* again, baselines dropped, and Pods unknown for a while.
CreditedOnce == \A k \in Keys : credited[k] <= sent[k]

\* A live process whose ends are both Pods has all it sent counted in the end, also
\* what it sent before they were known or before the agent's last restart, if its
\* entry was never evicted.
CreditedAtLast ==
  <>[](\A k \in Keys : (/\ Live(k[1]) /\ PodOf[k[1]] \in pods /\ peerUp
                        /\ Lookup(qpInfos, k) /\ qpStats[k] = sent[k]) => credited[k] = sent[k])

\* cleanupDeadQPs: in the end the maps hold no entry of a process that is gone,
\* but for a queue pair on which a live process still sends.
MapsCleaned ==
  <>[](/\ \A k \in Keys : qpStats[k] # None => Live(k[1])
       /\ \A k \in qpInfos : Live(k[1]) \/ \E p \in Users(k[2]) : Live(p) /\ qpStats[<<p, k[2]>>] # None)
=============================================================================
