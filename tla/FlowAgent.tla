----------------------------- MODULE FlowAgent -----------------------------
(***************************************************************************)
(* The main loop of the RDMA flow agent (pkg/agent/ebpfflow/component.go)  *)
(* with its reports (FlowMetrics) and its endpoint publisher               *)
(* (endpoint.go), which keeps one RDMAEndpoint object per Pod that uses    *)
(* RDMA through the host's network.                                        *)
(*                                                                         *)
(* An object is named after its Pod and owned by it: [owner, status], the  *)
(* status being the queue pairs it lists, or None before it is applied.    *)
(* Devices, ports and GIDs are left out of it.  Time is in two flags: soon *)
(* says that the minimum interval since the last run is not over, overdue  *)
(* holds the Pods whose object was not written for the resend period.      *)
(***************************************************************************)
EXTENDS FlowMetrics

CONSTANTS
  HostNetwork,  \* Pods on the host's network
  RingCap,      \* bound: RTR events in the ring buffer
  Scenarios     \* starts: [endpoints, pods, proc, budget]

Names == {NameOf[u] : u \in Pods}

VARIABLES
  enabled,    \* opts.endpointEnabled
  objects,    \* the API: Names -> [owner, status], or None
  published,  \* Pods -> [qps] as last written (qps None: adopted), or None
  synced,
  overdue, soon,
  ring,       \* RTR events in the ring buffer
  nudged,     \* qpChanges holds a notification
  armed       \* endpointDue is set

publisher == <<published, synced, overdue, soon>>
signals == <<ring, nudged, armed>>
vars == <<cluster, kernel, resolver, counters, main, budget, enabled, objects, publisher, signals>>

\* The main loop at a place, with nothing in hand.  "then" is where it goes on
\* after a run of the publisher; todo, seen and infos belong to the reports.
Place(at) == [at |-> at, then |-> "Select", todo |-> {}, seen |-> {}, infos |-> {},
              apply |-> {}, live |-> {}]

Nothing == [u \in Pods |-> None]

Init ==
  /\ \E s \in Scenarios : enabled = s.endpoints /\ pods = s.pods /\ proc = s.proc /\ budget = s.budget
  /\ peerUp = TRUE
  /\ qpInfos = {} /\ qpStats = [k \in Keys |-> None] /\ sent = Zero
  /\ index = {} /\ peerKnown = FALSE /\ uidByTgid = {}
  /\ last = Zero /\ credited = Zero
  /\ main = Place("Start")
  /\ objects = [n \in Names |-> None]
  /\ published = Nothing /\ synced = FALSE /\ overdue = {} /\ soon = FALSE
  /\ ring = 0 /\ nudged = FALSE /\ armed = FALSE

-----------------------------------------------------------------------------
(* The environment                                                         *)

Up == ~At("Down")

\* The RTR event of handle_modify_qp is lost when the ring buffer is full.
Reserve == IF Up /\ ring < RingCap THEN ring + 1 ELSE ring

Environment ==
  /\ \/ /\ \E u \in Pods : StartPod(u) \/ EndPod(u)
        /\ UNCHANGED <<kernel, ring>>
     \/ /\ (\E p \in Procs : StartProc(p) \/ ExitProc(p)) \/ ChangePeer
        /\ UNCHANGED <<kernel, ring>>
     \/ /\ (\E p \in Procs : PostSend(p)) \/ Evict
        /\ UNCHANGED <<cluster, ring>>
     \/ /\ \E p \in Procs : ModifyQP(p)
        /\ ring' = Reserve
        /\ UNCHANGED cluster
  /\ UNCHANGED <<resolver, counters, main, enabled, objects, publisher, nudged, armed>>

\* The garbage collector removes objects whose owner is gone.
CollectGarbage ==
  /\ \E n \in Names : objects[n] # None /\ objects[n].owner \notin pods
                      /\ objects' = [objects EXCEPT ![n] = None]
  /\ UNCHANGED <<cluster, kernel, resolver, counters, main, budget, enabled, publisher, signals>>

\* Time passes: the minimum interval is over, or the resend period of a Pod.
IntervalOver ==
  /\ soon /\ soon' = FALSE
  /\ UNCHANGED <<cluster, kernel, resolver, counters, main, budget, enabled, objects, published, synced, overdue, signals>>

ResendDue(u) ==
  /\ published[u] # None /\ u \notin overdue
  /\ overdue' = overdue \cup {u}
  /\ UNCHANGED <<cluster, kernel, resolver, counters, main, budget, enabled, objects, published, synced, soon, signals>>

\* consumeCallbackEvents: at most one notification waits.
ConsumeRTR ==
  /\ Up /\ ring > 0
  /\ ring' = ring - 1 /\ nudged' = TRUE
  /\ UNCHANGED <<cluster, kernel, resolver, counters, main, budget, enabled, objects, publisher, armed>>

-----------------------------------------------------------------------------
(* The main loop                                                           *)

\* Start, and the report tick: the Pod index is refreshed first.
RefreshFor(at, next) ==
  /\ At(at) /\ Refresh
  /\ main' = next
  /\ UNCHANGED <<cluster, kernel, counters, enabled, objects, publisher, signals>>

Startup == RefreshFor("Start", IF enabled THEN [Place("Run") EXCEPT !.then = "Report"] ELSE Place("Report"))
ReportTick == RefreshFor("Select", Place("Report"))

Report ==
  /\ ReportStep
  /\ UNCHANGED <<cluster, enabled, objects, publisher, signals>>

Run(armedNow) == main' = Place("Run") /\ armed' = armedNow

\* requestEndpointUpdate: now if allowed, or by one timer.
RequestEndpointUpdate ==
  IF ~enabled \/ armed THEN main' = Place("Select") /\ UNCHANGED armed
  ELSE IF soon THEN main' = Place("Select") /\ armed' = TRUE ELSE Run(FALSE)

\* The end of a report: removed entries of qp_infos ask for an update.
AfterReport ==
  /\ At("Removed")
  /\ IF main.todo # {} THEN RequestEndpointUpdate ELSE main' = Place("Select") /\ UNCHANGED armed
  /\ UNCHANGED <<cluster, kernel, resolver, counters, budget, enabled, objects, publisher, ring, nudged>>

TakeNudge ==
  /\ At("Select") /\ nudged
  /\ nudged' = FALSE
  /\ RequestEndpointUpdate
  /\ UNCHANGED <<cluster, kernel, resolver, counters, budget, enabled, objects, publisher, ring>>

\* The timer fires, also when a tick has run the publisher in the meantime.
EndpointDue ==
  /\ At("Select") /\ armed
  /\ Run(FALSE)
  /\ UNCHANGED <<cluster, kernel, resolver, counters, budget, enabled, objects, publisher, ring, nudged>>

EndpointTick ==
  /\ At("Select") /\ enabled
  /\ Run(armed)
  /\ UNCHANGED <<cluster, kernel, resolver, counters, budget, enabled, objects, publisher, ring, nudged>>

-----------------------------------------------------------------------------
(* The endpoint publisher                                                  *)

\* podQPs: the queue pairs of a Pod whose processes are known.
PodQPs(u) == {k \in qpInfos : PodOf[k[1]] = u /\ Known(k[1])}

\* collectEndpoints: Pods with an open device or with queue pairs, but not those
\* known to have a network of their own.
Collected ==
  {u \in Pods : /\ PodQPs(u) # {} \/ \E p \in Procs : PodOf[p] = u /\ Live(p)
                /\ ~(u \in index /\ u \notin HostNetwork)}

\* adoptExisting: the objects an earlier life has left.
Adopted == [u \in Pods |-> IF published[u] = None /\ \E n \in Names : objects[n] # None /\ objects[n].owner = u
                           THEN [qps |-> None] ELSE published[u]]

\* run, up to the first object.  Pods that are not in the index have no name yet
\* and are left for a later run; unchanged objects are left until they are overdue.
CollectEndpoints ==
  /\ At("Run")
  /\ soon' = TRUE
  /\ \/ synced /\ UNCHANGED <<published, synced, budget>>
     \/ ~synced /\ published' = Adopted /\ synced' = TRUE /\ UNCHANGED budget
     \/ ~synced /\ Spend("adopt") /\ UNCHANGED <<published, synced>>
  /\ uidByTgid' = uidByTgid \cup {p \in Procs : Live(p) /\ \E k \in qpInfos : k[1] = p}
  /\ main' = [main EXCEPT !.at = "Apply", !.live = Collected,
                          !.apply = {[pod |-> u, qps |-> PodQPs(u)] : u \in Collected \cap index}]
  /\ UNCHANGED <<cluster, kernel, index, peerKnown, counters, enabled, objects, overdue, signals>>

Unchanged(o) == published[o.pod] = [qps |-> o.qps]

Skip(o) ==
  /\ At("Apply") /\ o \in main.apply
  /\ Unchanged(o) /\ o.pod \notin overdue
  /\ main' = [main EXCEPT !.apply = @ \ {o}]
  /\ UNCHANGED <<cluster, kernel, resolver, counters, budget, enabled, objects, publisher, signals>>

\* apply, first request: the object is made, or its owner changed.
ApplyMetadata(o) ==
  /\ At("Apply") /\ o \in main.apply
  /\ ~Unchanged(o) \/ o.pod \in overdue
  /\ \/ /\ objects' = [objects EXCEPT ![NameOf[o.pod]] =
                         [owner |-> o.pod, status |-> IF @ = None THEN None ELSE @.status]]
        /\ main' = [main EXCEPT !.at = "Status", !.todo = {o}, !.apply = @ \ {o}]
        /\ UNCHANGED budget
     \/ Spend("meta") /\ main' = [main EXCEPT !.apply = @ \ {o}] /\ UNCHANGED objects
  /\ UNCHANGED <<cluster, kernel, resolver, counters, enabled, publisher, signals>>

\* apply, second request: the status.  It fails when the object has gone.
ApplyStatus(o) ==
  /\ At("Status") /\ o \in main.todo
  /\ \/ /\ objects[NameOf[o.pod]] # None
        /\ objects' = [objects EXCEPT ![NameOf[o.pod]].status = o.qps]
        /\ published' = [published EXCEPT ![o.pod] = [qps |-> o.qps]]
        /\ overdue' = overdue \ {o.pod}
        /\ UNCHANGED budget
     \/ objects[NameOf[o.pod]] = None /\ UNCHANGED <<objects, published, overdue, budget>>
     \/ Spend("status") /\ UNCHANGED <<objects, published, overdue>>
  /\ main' = [main EXCEPT !.at = "Apply", !.todo = {}]
  /\ UNCHANGED <<cluster, kernel, resolver, counters, enabled, synced, soon, signals>>

\* The second loop of run: over what was published for other Pods.
StartDeleting ==
  /\ At("Apply") /\ main.apply = {}
  /\ main' = [main EXCEPT !.at = "Delete", !.apply = {u \in Pods : published[u] # None} \ main.live, !.live = {}]
  /\ UNCHANGED <<cluster, kernel, resolver, counters, budget, enabled, objects, publisher, signals>>

\* Mutant: what could not be deleted is forgotten.
MutDelete(u) ==
  /\ At("Delete") /\ u \in main.apply
  /\ \/ objects' = [objects EXCEPT ![NameOf[u]] = None] /\ UNCHANGED budget
     \/ Spend("delete") /\ UNCHANGED objects
  /\ published' = [published EXCEPT ![u] = None]
  /\ overdue' = overdue \ {u}
  /\ main' = [main EXCEPT !.apply = @ \ {u}]
  /\ UNCHANGED <<cluster, kernel, resolver, counters, enabled, synced, soon, signals>>

\* delete, by name: a missing object is as good as deleted.
Delete(u) ==
  /\ At("Delete") /\ u \in main.apply
  /\ \/ /\ objects' = [objects EXCEPT ![NameOf[u]] = None]
        /\ published' = [published EXCEPT ![u] = None]
        /\ overdue' = overdue \ {u}
        /\ UNCHANGED budget
     \/ Spend("delete") /\ UNCHANGED <<objects, published, overdue>>
  /\ main' = [main EXCEPT !.apply = @ \ {u}]
  /\ UNCHANGED <<cluster, kernel, resolver, counters, enabled, synced, soon, signals>>

EndRun ==
  /\ At("Delete") /\ main.apply = {}
  /\ main' = Place(main.then)
  /\ UNCHANGED <<cluster, kernel, resolver, counters, budget, enabled, objects, publisher, signals>>

-----------------------------------------------------------------------------
\* A crash: the pinned maps and the objects stay, the rest is gone.
Crash ==
  /\ Up /\ Spend("crash")
  /\ main' = Place("Down")
  /\ index' = {} /\ peerKnown' = FALSE /\ uidByTgid' = {}
  /\ last' = Zero /\ credited' = Zero
  /\ published' = Nothing /\ synced' = FALSE /\ overdue' = {} /\ soon' = FALSE
  /\ ring' = 0 /\ nudged' = FALSE /\ armed' = FALSE
  /\ UNCHANGED <<cluster, kernel, enabled, objects>>

Restart ==
  /\ ~Up
  /\ main' = Place("Start")
  /\ UNCHANGED <<cluster, kernel, resolver, counters, budget, enabled, objects, publisher, signals>>

Publish ==
  \/ CollectEndpoints \/ StartDeleting \/ EndRun
  \/ \E o \in main.apply : At("Apply") /\ (Skip(o) \/ ApplyMetadata(o))
  \/ \E o \in main.todo : At("Status") /\ ApplyStatus(o)
  \/ \E u \in Pods : Delete(u)
Work == Startup \/ Report \/ AfterReport \/ Publish \/ Restart

Next ==
  \/ Work \/ ReportTick \/ EndpointTick \/ TakeNudge \/ EndpointDue
  \/ ConsumeRTR \/ IntervalOver \/ (\E u \in Pods : ResendDue(u))
  \/ Environment \/ CollectGarbage \/ Crash

Spec == Init /\ [][Next]_vars

\* The loop runs, its select and its tickers serve every channel in turn, time
\* passes, and the garbage collector works.
FairSpec ==
  /\ Spec
  /\ WF_vars(Work) /\ SF_vars(ReportTick) /\ SF_vars(EndpointTick) /\ SF_vars(TakeNudge) /\ SF_vars(EndpointDue)
  /\ WF_vars(ConsumeRTR) /\ WF_vars(IntervalOver) /\ WF_vars(CollectGarbage)
  /\ \A u \in Pods : WF_vars(ResendDue(u))

-----------------------------------------------------------------------------

UsesRDMA(u) == \E p \in Procs : PodOf[p] = u /\ Live(p)

\* endpointPublisher.run: in the end every Pod of the host network that uses RDMA
\* has an object with its present queue pairs, and there are no other objects, after
\* failed requests, restarts, lost notifications and Pods replaced under their name.
EndpointsAtLast ==
  <>[](enabled =>
       /\ \A u \in pods \cap HostNetwork :
            UsesRDMA(u) => objects[NameOf[u]] = [owner |-> u, status |-> PodQPs(u)]
       /\ \A n \in Names : objects[n] # None => UsesRDMA(objects[n].owner))

\* endpointPublisher.run "deletes the ones whose Pod disappeared": what it deletes is
\* owned by a Pod for which this run has found no use of RDMA, or by none at all.
DeletesOnlyGone ==
  [][\A n \in Names : At("Delete") /\ objects[n] # None /\ objects'[n] = None
                       => objects[n].owner \in main.apply \/ objects[n].owner \notin pods]_vars
=============================================================================
