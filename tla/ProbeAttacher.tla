---------------------------- MODULE ProbeAttacher ----------------------------
(***************************************************************************)
(* How the RDMA flow agent gets its probes into running processes          *)
(* (pkg/agent/ebpfflow: attach.go, offsets.go, the callback half of        *)
(* component.go, and the bootstrap programs of bpf/rdma_flow.bpf.c).       *)
(*                                                                         *)
(* Probes on a verbs library report the addresses of a provider's          *)
(* callbacks when a process uses it.  The agent turns an address into an   *)
(* offset of the provider's file, attaches a probe there, and keeps the    *)
(* offset on disk, by the content of the file, for its next life.          *)
(*                                                                         *)
(* Two goroutines do this: "main" scans all processes on a tick and        *)
(* retries what failed, "consumer" takes events out of a ring buffer.      *)
(* scanMu makes their scans exclude each other; the attacher's mu is held  *)
(* for single steps, the offset cache's mu over store and lookup.          *)
(*                                                                         *)
(* Left out: process ids, mount namespaces and inodes that are used again  *)
(* for something else while the agent has the old one in its maps.         *)
(***************************************************************************)
EXTENDS Integers, Sequences, FiniteSets

CONSTANTS
  Procs,          \* processes that use RDMA
  VerbsFiles, Files, Roots, Contents, Kinds, Offsets,
  Verbs,          \* Procs -> VerbsFiles, the verbs library of a process
  Root,           \* Procs -> Roots, its mount namespace
  Provider,       \* Procs -> Files, its provider library
  Content,        \* Files -> Contents, libraryContentID
  Callbacks,      \* the [kind, offset] a provider uses
  RetryLimit,     \* 20 in the code
  RingCap,        \* bound: events the ring buffer holds
  Scenarios,      \* starts: [proc, budget], the processes and the budgets of the environment
  None

ASSUME LibraryAssumptions ==
  /\ Verbs \in [Procs -> VerbsFiles] /\ Root \in [Procs -> Roots]
  /\ Provider \in [Procs -> Files] /\ Content \in [Files -> Contents]
  /\ Callbacks \subseteq [kind : Kinds, offset : Offsets]
  /\ None \notin Offsets /\ None \notin {"main", "consumer"}

Actors == {"main", "consumer"}
Events == [proc : Procs, kind : Kinds, offset : Offsets]
Keys == [file : Files, kind : Kinds, offset : Offsets]
KeyOf(e) == [file |-> Provider[e.proc], kind |-> e.kind, offset |-> e.offset]

VARIABLES
  proc,         \* Procs -> "None", "Running", "Loaded" or "Dead"
  ring,         \* callback_events: events, and [proc] for an exec
  bootProbes,   \* kernel: VerbsFiles -> number of times its probes are attached
  bootstrapLinks, unsupported, scannedRoots, \* the attacher's maps
  dataLinks,    \* Keys of the attached data probes
  pending,      \* Events -> attempts, 0 when not pending
  entries,      \* offsetCache.entries: <<content, kind>> -> offset or None
  disk,         \* the cache file
  scanMu,       \* the holder of scanMu, or None
  actor,        \* what the goroutines do: Actors -> [at, todo, proc, event, retry]
  seen, gaveUp, \* history: events handled, and given up, in this life
  blank,        \* history: this life could not read the cache file
  budget

probes == <<bootProbes, bootstrapLinks, unsupported, scannedRoots, dataLinks>>
cache == <<entries, disk, blank>>
history == <<seen, gaveUp>>
vars == <<proc, ring, probes, pending, cache, scanMu, actor, history, budget>>

Up == actor["main"].at # "Down"
Alive(p) == proc[p] \in {"Running", "Loaded"}
Spend(kind) == budget[kind] > 0 /\ budget' = [budget EXCEPT ![kind] = @ - 1]
At(a, at) == actor[a].at = at
Resting(at) == [at |-> at, todo |-> {}, proc |-> None, event |-> None, retry |-> {}]
Go(a, at) == actor' = [actor EXCEPT ![a].at = at]

NoEntries == [ck \in Contents \X Kinds |-> None]

NothingPending == [e \in Events |-> 0]
NoProbes == [w \in VerbsFiles |-> 0]

\* The maps of the attacher, the links and the ring buffer go with the process.
LoseState ==
  /\ bootProbes' = NoProbes
  /\ bootstrapLinks' = {} /\ unsupported' = {} /\ scannedRoots' = {} /\ dataLinks' = {}
  /\ pending' = NothingPending /\ ring' = <<>> /\ scanMu' = None
  /\ seen' = {} /\ gaveUp' = {}

\* Start: empty maps; main begins with a scan.
Init ==
  /\ bootProbes = NoProbes
  /\ bootstrapLinks = {} /\ unsupported = {} /\ scannedRoots = {} /\ dataLinks = {}
  /\ pending = NothingPending /\ ring = <<>> /\ scanMu = None
  /\ seen = {} /\ gaveUp = {}
  /\ \E s \in Scenarios : proc = s.proc /\ budget = s.budget
  /\ entries = NoEntries /\ disk = NoEntries /\ blank = FALSE
  /\ actor = [a \in Actors |-> Resting(IF a = "main" THEN "Idle" ELSE "Read")]

-----------------------------------------------------------------------------
(* The processes.  An event is lost when the ring buffer is full.          *)

Emit(e) == ring' = IF Up /\ Len(ring) < RingCap THEN Append(ring, e) ELSE ring

\* handle_process_exec.
Exec(p) ==
  /\ proc[p] = "None"
  /\ proc' = [proc EXCEPT ![p] = "Running"]
  /\ Emit([exec |-> TRUE, event |-> p])
  /\ UNCHANGED <<probes, pending, cache, scanMu, actor, history, budget>>

\* A process maps its libraries, or unmaps them.
Load(p) ==
  /\ \/ proc[p] = "Running" /\ proc' = [proc EXCEPT ![p] = "Loaded"] /\ UNCHANGED budget
     \/ proc[p] = "Loaded" /\ proc' = [proc EXCEPT ![p] = "Running"] /\ Spend("unload")
  /\ UNCHANGED <<ring, probes, pending, cache, scanMu, actor, history>>

Exit(p) ==
  /\ Alive(p) /\ Spend("exit")
  /\ proc' = [proc EXCEPT ![p] = "Dead"]
  /\ UNCHANGED <<ring, probes, pending, cache, scanMu, actor, history>>

\* discover_qp: a verbs call reports a callback if the probes are in place.
UseVerbs(p, cb) ==
  /\ proc[p] = "Loaded" /\ bootProbes[Verbs[p]] > 0 /\ Spend("verbs")
  /\ Emit([exec |-> FALSE, event |-> [proc |-> p, kind |-> cb.kind, offset |-> cb.offset]])
  /\ UNCHANGED <<proc, probes, pending, cache, scanMu, actor, history>>

-----------------------------------------------------------------------------
(* Scans                                                                   *)

\* scan, at the start and on every discovery tick.
StartScan ==
  /\ At("main", "Idle") /\ scanMu = None
  /\ scanMu' = "main"
  /\ actor' = [actor EXCEPT !["main"] = [Resting("Scan") EXCEPT !.todo = {p \in Procs : Alive(p)}]]
  /\ UNCHANGED <<proc, ring, probes, pending, cache, history, budget>>

\* Mutant: scanTgid does not take scanMu.
MutScanTgid ==
  /\ At("consumer", "Lock")
  /\ scanMu' = scanMu
  /\ actor' = [actor EXCEPT !["consumer"] = [Resting("Scan") EXCEPT !.todo = {actor["consumer"].proc}]]
  /\ UNCHANGED <<proc, ring, probes, pending, cache, history, budget>>

\* scanTgid, for an exec event.
ScanTgid ==
  /\ At("consumer", "Lock") /\ scanMu = None
  /\ scanMu' = "consumer"
  /\ actor' = [actor EXCEPT !["consumer"] = [Resting("Scan") EXCEPT !.todo = {actor["consumer"].proc}]]
  /\ UNCHANGED <<proc, ring, probes, pending, cache, history, budget>>

\* scanProcessRoot and the mapped verbs library: a library that is not known
\* yet is found in a root that is scanned for the first time, or in the maps.
ScanProcess(a, p) ==
  /\ At(a, "Scan") /\ p \in actor[a].todo
  /\ LET found == proc[p] = "Loaded" \/ (Alive(p) /\ Root[p] \notin scannedRoots)
         known == Verbs[p] \in bootstrapLinks \cup unsupported
     IN actor' = [actor EXCEPT ![a].todo = @ \ {p}, ![a].proc = p,
                               ![a].at = IF found /\ ~known THEN "Bootstrap" ELSE "Replay"]
  /\ scannedRoots' = IF Alive(p) THEN scannedRoots \cup {Root[p]} ELSE scannedRoots
  /\ UNCHANGED <<proc, ring, bootProbes, bootstrapLinks, unsupported, dataLinks, pending, cache, scanMu, history, budget>>

\* attachBootstrapOnce: attached and stored; or the file has gone with its
\* process and is left for a later scan; or the library is marked unsupported.
AttachBootstrap(a) ==
  /\ At(a, "Bootstrap")
  /\ LET v == Verbs[actor[a].proc] IN
     \/ /\ bootProbes' = [bootProbes EXCEPT ![v] = @ + 1]
        /\ bootstrapLinks' = bootstrapLinks \cup {v}
        /\ UNCHANGED <<unsupported, budget>>
     \/ ~Alive(actor[a].proc) /\ UNCHANGED <<bootProbes, bootstrapLinks, unsupported, budget>>
     \/ /\ Spend("unsupported")
        /\ unsupported' = unsupported \cup {v} /\ UNCHANGED <<bootProbes, bootstrapLinks>>
  /\ Go(a, "Replay")
  /\ UNCHANGED <<proc, ring, scannedRoots, dataLinks, pending, cache, scanMu, history>>

\* The offsets the cache has for a file, as keys.
Cached(f) == {k \in Keys : k.file = f /\ entries[<<Content[f], k.kind>>] = k.offset}

NoneAt(at) == \A a \in Actors : ~At(a, at)

\* Mutant: a cached offset is not replayed when a probe of its kind is attached in
\* some other file.
MutReplayCachedCallbacks(a) ==
  /\ At(a, "Replay") /\ NoneAt("Persist")
  /\ LET p == actor[a].proc
         keys == {k \in Cached(Provider[p]) : \A d \in dataLinks : d.kind # k.kind}
     IN \/ /\ dataLinks' = IF proc[p] = "Loaded" THEN dataLinks \cup keys ELSE dataLinks
           /\ UNCHANGED budget
        \/ proc[p] = "Loaded" /\ ~(keys \subseteq dataLinks) /\ Spend("fail") /\ UNCHANGED dataLinks
  /\ actor' = [actor EXCEPT ![a].at = "Scan", ![a].proc = None]
  /\ UNCHANGED <<proc, ring, bootProbes, bootstrapLinks, unsupported, scannedRoots, pending, cache, scanMu, history>>

\* replayCachedCallbacks: the offsets learned for this content are attached in
\* the provider library the process has mapped.  Attaching may fail.
ReplayCachedCallbacks(a) ==
  /\ At(a, "Replay") /\ NoneAt("Persist")
  /\ LET p == actor[a].proc
         keys == Cached(Provider[p])
     IN \/ /\ dataLinks' = IF proc[p] = "Loaded" THEN dataLinks \cup keys ELSE dataLinks
           /\ UNCHANGED budget
        \/ proc[p] = "Loaded" /\ ~(keys \subseteq dataLinks) /\ Spend("fail") /\ UNCHANGED dataLinks
  /\ actor' = [actor EXCEPT ![a].at = "Scan", ![a].proc = None]
  /\ UNCHANGED <<proc, ring, bootProbes, bootstrapLinks, unsupported, scannedRoots, pending, cache, scanMu, history>>

\* The pending events that are not tried again.
Hopeless == {e \in Events : pending[e] > 0 /\ (~Alive(e.proc) \/ pending[e] >= RetryLimit)}

\* retryPending at the end of a scan: the events of dead processes and those
\* that have failed too often are dropped, the others are handled again.
RetryPending ==
  /\ At("main", "Scan") /\ actor["main"].todo = {}
  /\ LET drop == Hopeless
     IN /\ pending' = [e \in Events |-> IF e \in drop THEN 0 ELSE pending[e]]
        /\ gaveUp' = gaveUp \cup drop
        /\ actor' = [actor EXCEPT !["main"] = [Resting("Retry") EXCEPT !.retry = {e \in Events \ drop : pending[e] > 0}]]
  /\ UNCHANGED <<proc, ring, probes, cache, scanMu, seen, budget>>

Retry ==
  /\ At("main", "Retry")
  /\ \E e \in actor["main"].retry :
       actor' = [actor EXCEPT !["main"].at = "Attach", !["main"].event = e, !["main"].retry = @ \ {e}]
  /\ UNCHANGED <<proc, ring, probes, pending, cache, scanMu, history, budget>>

\* scanMu is released: after the retries, or after the one process.
EndScan(a) ==
  /\ IF a = "main" THEN At(a, "Retry") /\ actor[a].retry = {}
                   ELSE At(a, "Scan") /\ actor[a].todo = {}
  /\ scanMu' = IF scanMu = a THEN None ELSE scanMu
  /\ actor' = [actor EXCEPT ![a] = Resting(IF a = "main" THEN "Idle" ELSE "Read")]
  /\ UNCHANGED <<proc, ring, probes, pending, cache, history, budget>>

-----------------------------------------------------------------------------
(* Events                                                                  *)

\* consumeCallbackEvents: an exec event starts a scan, a callback is handled.
\* A closed reader ends the loop.
Read ==
  /\ At("consumer", "Read") /\ ~At("main", "Stopping") /\ ring # <<>>
  /\ ring' = Tail(ring)
  /\ LET e == Head(ring).event IN
       IF Head(ring).exec
       THEN actor' = [actor EXCEPT !["consumer"].at = "Lock", !["consumer"].proc = e] /\ UNCHANGED seen
       ELSE actor' = [actor EXCEPT !["consumer"].at = "Attach", !["consumer"].event = e] /\ seen' = seen \cup {e}
  /\ UNCHANGED <<proc, probes, pending, cache, scanMu, gaveUp, budget>>

\* attachCallback: the address is found in the maps of the process and a probe
\* attached at its offset, unless it is there already; any of this may fail.
AttachCallback(a) ==
  /\ At(a, "Attach")
  /\ LET e == actor[a].event IN
     \/ /\ proc[e.proc] = "Loaded"
        /\ dataLinks' = dataLinks \cup {KeyOf(e)}
        /\ Go(a, "Forget") /\ UNCHANGED budget
     \/ /\ IF proc[e.proc] = "Loaded" THEN Spend("fail") ELSE UNCHANGED budget
        /\ Go(a, "Fail") /\ UNCHANGED dataLinks
  /\ UNCHANGED <<proc, ring, bootProbes, bootstrapLinks, unsupported, scannedRoots, pending, cache, scanMu, history>>

\* The goroutine is done with an event.
Done(a) == actor' = [actor EXCEPT ![a].at = IF a = "main" THEN "Retry" ELSE "Read", ![a].event = None]

\* Mutant: a failed event is only counted if it was pending already.
MutFail(a) ==
  /\ At(a, "Fail")
  /\ LET e == actor[a].event IN
       /\ pending' = [pending EXCEPT ![e] = IF Alive(e.proc) /\ @ > 0 THEN @ + 1 ELSE 0]
       /\ UNCHANGED gaveUp
  /\ Done(a)
  /\ UNCHANGED <<proc, ring, probes, cache, scanMu, seen, budget>>

\* handleCallback after a failure: the event of a live process stays pending.
Fail(a) ==
  /\ At(a, "Fail")
  /\ LET e == actor[a].event IN
       /\ pending' = [pending EXCEPT ![e] = IF Alive(e.proc) THEN @ + 1 ELSE 0]
       /\ gaveUp' = IF Alive(e.proc) THEN gaveUp ELSE gaveUp \cup {e}
  /\ Done(a)
  /\ UNCHANGED <<proc, ring, probes, cache, scanMu, seen, budget>>

\* attachCallback after a success: the event is not pending any more.
Forget(a) ==
  /\ At(a, "Forget")
  /\ pending' = [pending EXCEPT ![actor[a].event] = 0]
  /\ Go(a, "Remember")
  /\ UNCHANGED <<proc, ring, probes, cache, scanMu, history, budget>>

\* rememberOffset, store: a new offset of a kind replaces the one before.
RememberOffset(a) ==
  /\ At(a, "Remember") /\ NoneAt("Persist")
  /\ LET k == KeyOf(actor[a].event)
         ck == <<Content[k.file], k.kind>>
     IN IF entries[ck] = k.offset THEN Done(a) /\ UNCHANGED entries
        ELSE Go(a, "Persist") /\ entries' = [entries EXCEPT ![ck] = k.offset]
  /\ UNCHANGED <<proc, ring, probes, pending, disk, blank, scanMu, history, budget>>

\* Mutant: only the entry that has changed is written.
MutPersist(a) ==
  /\ At(a, "Persist")
  /\ LET k == KeyOf(actor[a].event) IN
       disk' = [ck \in Contents \X Kinds |-> IF ck = <<Content[k.file], k.kind>> THEN entries[ck] ELSE None]
  /\ Done(a)
  /\ UNCHANGED <<proc, ring, probes, pending, entries, blank, scanMu, history, budget>>

\* persistLocked: the whole cache goes to another file that is then renamed.  A
\* crash before that, or an error, leaves the old file.
Persist(a) ==
  /\ At(a, "Persist")
  /\ \/ disk' = entries /\ UNCHANGED budget
     \/ Spend("persist") /\ UNCHANGED disk
  /\ Done(a)
  /\ UNCHANGED <<proc, ring, probes, pending, entries, blank, scanMu, history>>

-----------------------------------------------------------------------------
(* The life of the agent                                                   *)

\* The context is done: the reader is closed and the consumer waited for.
Stop ==
  /\ At("main", "Idle") /\ Spend("stop")
  /\ Go("main", "Stopping")
  /\ UNCHANGED <<proc, ring, probes, pending, cache, scanMu, history>>

\* attacher.close, and the exit of the agent.
ShutDown ==
  /\ At("main", "Stopping") /\ At("consumer", "Read")
  /\ LoseState
  /\ actor' = [actor EXCEPT !["main"] = Resting("Down")]
  /\ UNCHANGED <<proc, cache, budget>>

\* A crash at any point: the kernel closes the links with the process.
Crash ==
  /\ Up /\ Spend("crash")
  /\ LoseState
  /\ actor' = [a \in Actors |-> Resting(IF a = "main" THEN "Down" ELSE "Read")]
  /\ UNCHANGED <<proc, cache>>

\* newOffsetCache: a file that cannot be read gives an empty cache.
Restart ==
  /\ ~Up
  /\ \/ entries' = disk /\ blank' = FALSE /\ UNCHANGED budget
     \/ Spend("load") /\ entries' = NoEntries /\ blank' = TRUE
  /\ actor' = [actor EXCEPT !["main"] = Resting("Idle")]
  /\ UNCHANGED <<proc, ring, probes, pending, disk, scanMu, history>>

Handle(a) == AttachCallback(a) \/ Fail(a) \/ Forget(a) \/ RememberOffset(a) \/ Persist(a)
Scan(a) == (\E p \in Procs : ScanProcess(a, p)) \/ AttachBootstrap(a) \/ ReplayCachedCallbacks(a) \/ EndScan(a)
MainStep == StartScan \/ Scan("main") \/ RetryPending \/ Retry \/ Handle("main") \/ ShutDown \/ Restart
ConsumerStep == Read \/ ScanTgid \/ Scan("consumer") \/ Handle("consumer")
Workload == \E p \in Procs : Exec(p) \/ Load(p) \/ Exit(p) \/ \E cb \in Callbacks : UseVerbs(p, cb)

Next == MainStep \/ ConsumerStep \/ Workload \/ Stop \/ Crash

Spec == Init /\ [][Next]_vars

\* Both goroutines run, the discovery ticker fires, and an agent that has
\* stopped is started again by its DaemonSet.
FairSpec == Spec /\ WF_vars(MainStep) /\ WF_vars(ConsumerStep)

-----------------------------------------------------------------------------

\* attachBootstrapOnce under scanMu: the probes of a verbs library are attached
\* at most once, and exactly for the libraries the agent knows, whichever
\* goroutine finds a library first.  (Twice, and every call is reported twice.)
EachProbeOnce ==
  \A v \in VerbsFiles : bootProbes[v] = IF v \in bootstrapLinks THEN 1 ELSE 0

\* offsets.go: "persists provider callback file offsets": a kind that has an offset
\* on disk keeps one, through crashes between any two steps, as long as the agent
\* could read its file.
DiskKeeps == [][~blank => \A ck \in DOMAIN disk : disk[ck] # None => disk'[ck] # None]_vars

\* "so a restarted agent can re-attach uprobes without waiting for the workload to
\* create new verbs objects": in the end every cached offset is attached in every
\* provider library that a process has mapped.
CachedAtLast == <>[](\A p \in Procs : proc[p] = "Loaded" => Cached(Provider[p]) \subseteq dataLinks)

\* handleCallback and retryPending: a callback that was reported is attached in the
\* end, unless its process is gone or it was given up.
LearnedAtLast ==
  <>[](\A e \in seen : KeyOf(e) \in dataLinks \/ e \in gaveUp \/ proc[e.proc] = "Dead")

=============================================================================
